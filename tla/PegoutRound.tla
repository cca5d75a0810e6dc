----------------------------- MODULE PegoutRound -----------------------------
(***************************************************************************)
(* The peg-out round of sidestr-round (src/pegout.rs, driven by            *)
(* src/node.rs): a burn on the sidechain is paid once from the k-of-n peg  *)
(* on the parent.  The payer of a burn funds a PSBT, signs it and          *)
(* publishes it (kind 23512); the others check it and answer with their    *)
(* signatures (23513); with K of them the payer broadcasts the payment.    *)
(*                                                                         *)
(* The burns are those of the sidechain, which every signer knows.  A      *)
(* payment is identified by its burn, its payer, when it was proposed and  *)
(* the peg coin it spends.  Relays lose, delay, reorder and repeat events, *)
(* as in CosignRound.  The parent accepts a payment whose coin is unspent, *)
(* and its answer may be lost.  Times are whole seconds.                   *)
(***************************************************************************)
EXTENDS Integers, FiniteSets

CONSTANTS
    N, K,           \* the signers and the threshold
    ProposeAfter,   \* PegoutConfig::propose_after
    ResignAfter,    \* PegoutConfig::resign_after: seconds, or Never
    Never,
    Skew,           \* how far a signer's clock may be from the true time
    None,
    Burns,          \* the burns on the sidechain
    TxOf,           \* TxOf[b]: the sidechain transaction of burn b
    HeightOf,       \* HeightOf[b]: its height
    Coins,          \* the peg's coins on the parent
    MaxTime,        \* bound: the time stops here
    LastProposal    \* bound: no payment is proposed after this time

ASSUME FederationAssumption == N \in Nat \ {0} /\ K \in 1 .. N
ASSUME ConfigAssumption ==
    /\ ProposeAfter \in Nat /\ Skew \in Nat
    /\ ResignAfter \in Nat \cup {Never}
    /\ Never \notin Nat
ASSUME BurnAssumption == HeightOf \in [Burns -> Nat] /\ DOMAIN TxOf = Burns
ASSUME BoundAssumption == MaxTime \in Nat /\ LastProposal \in Nat

Signers == 0 .. N - 1
Payment == [burn : Burns, by : Signers, at : Nat, coin : Coins]
PendingPegout == [pay : Payment, sigs : SUBSET Signers]
VoteEntry == [pay : Payment, at : Nat, stage : {"intent", "signed"}]

ASSUME NoneAssumption == None \notin Nat /\ None \notin PendingPegout

VARIABLES
    now,
    journal,    \* journal[s]: the records of the peg-out journal of s
    authorised, \* authorised[s][b]: when s last authorised a payment of b, in memory, or None
    backoff,    \* backoff[s][b]: when a proposal of s for b last failed, or None
    seen,       \* seen[s][b]: when s first saw the height of b, or None
    pending,    \* pending[s][b]: the payment s has in flight for b, or None
    ledger,     \* ledger[s]: the burns s has recorded as paid
    custody,    \* custody[s]: the payments the custody key of s has signed
    psbts,      \* the 23512 events ever published
    cosigned,   \* the 23513 events ever published
    parent      \* the payments the parent has taken

vars == <<now, journal, authorised, backoff, seen, pending, ledger, custody, psbts, cosigned,
          parent>>

TypeOK ==
    /\ now \in Nat
    /\ journal \in [Signers -> SUBSET VoteEntry]
    /\ authorised \in [Signers -> [Burns -> Nat \cup {None}]]
    /\ backoff \in [Signers -> [Burns -> Nat \cup {None}]]
    /\ seen \in [Signers -> [Burns -> Nat \cup {None}]]
    /\ pending \in [Signers -> [Burns -> PendingPegout \cup {None}]]
    /\ ledger \in [Signers -> SUBSET Burns]
    /\ custody \in [Signers -> SUBSET Payment]
    /\ psbts \subseteq Payment
    /\ cosigned \subseteq [by : Signers, pay : Payment]
    /\ parent \subseteq Payment

Nothing == [b \in Burns |-> None]

Init ==
    /\ now = 0
    /\ journal = [s \in Signers |-> {}]
    /\ authorised = [s \in Signers |-> Nothing]
    /\ backoff = [s \in Signers |-> Nothing]
    /\ seen = [s \in Signers |-> Nothing]
    /\ pending = [s \in Signers |-> Nothing]
    /\ ledger = [s \in Signers |-> {}]
    /\ custody = [s \in Signers |-> {}]
    /\ psbts = {}
    /\ cosigned = {}
    /\ parent = {}

-----------------------------------------------------------------------------
(* The guards. *)

Monus(a, b) == IF a > b THEN a - b ELSE 0
Ring == ProposeAfter * N
Readings == Monus(now, Skew) .. now + Skew

\* Nothing authorised for this burn, or its window is over (>=, where the block
\* round has >).
MaySignBurn(s, b, t) ==
    authorised[s][b] # None => ResignAfter # Never /\ Monus(t, authorised[s][b]) >= ResignAfter

\* Not within the ring of my last attempt, failed or not.
Throttled(s, b, t) ==
    \E at \in {authorised[s][b], backoff[s][b]} \ {None} :
        /\ \A other \in {authorised[s][b], backoff[s][b]} \ {None} : other <= at
        /\ Monus(t, at) < Ring

\* first_seen: set by the first question about the height.
FirstSeen(s, b, t) == IF seen[s][b] = None THEN t ELSE seen[s][b]
SetSeen(s, b, t) ==
    seen' = [seen EXCEPT ![s] =
                [c \in Burns |-> IF HeightOf[c] = HeightOf[b] THEN FirstSeen(s, c, t) ELSE @[c]]]

\* The payer is height mod N; every ProposeAfter since the burn was first seen
\* lets the next signer of the ring pay too.
Entitled(r, b, at, base) ==
    (r + N - (HeightOf[b] % N)) % N
        <= Monus(at, base) \div (IF ProposeAfter > 1 THEN ProposeAfter ELSE 1)

-----------------------------------------------------------------------------
(***************************************************************************)
(* Authorising a payment: intent, custody key, signature record, in that   *)
(* order; the outcome says how far it got.                                 *)
(***************************************************************************)
Outcomes == {"intent", "signed", "recorded"}

Entry(pay, t, stage) == [pay |-> pay, at |-> t, stage |-> stage]

Authorise(s, pay, t, outcome) ==
    /\ journal' = [journal EXCEPT ![s] = @ \cup {Entry(pay, t, "intent")}
                        \cup IF outcome = "recorded" THEN {Entry(pay, t, "signed")} ELSE {}]
    /\ authorised' = [authorised EXCEPT ![s] = [@ EXCEPT ![pay.burn] = t]]
    /\ custody' = IF outcome = "intent" THEN custody
                  ELSE [custody EXCEPT ![s] = @ \cup {pay}]

Unspent(coin) == \A pay \in parent : pay.coin # coin

(***************************************************************************)
(* PegoutRound::maybe_finish on the payment p of s, and what the node does *)
(* with a finished one: sendrawtransaction, and the ledger entry when the  *)
(* parent says yes.  The parent may take the payment and its answer be     *)
(* lost, or refuse it.                                                     *)
(***************************************************************************)
SetPending(s, b, p) == pending' = [pending EXCEPT ![s] = [@ EXCEPT ![b] = p]]

\* Mutated: the burn is recorded whatever the parent answers.
MutMaybeFinishBlind(s, p) ==
    \/ /\ Cardinality(p.sigs) < K
       /\ SetPending(s, p.pay.burn, p)
       /\ UNCHANGED <<parent, ledger>>
    \/ /\ Cardinality(p.sigs) >= K
       /\ SetPending(s, p.pay.burn, None)
       /\ ledger' = [ledger EXCEPT ![s] = @ \cup {p.pay.burn}]
       /\ \/ Unspent(p.pay.coin) /\ parent' = parent \cup {p.pay}
          \/ UNCHANGED parent

MaybeFinish(s, p) ==
    \/ /\ Cardinality(p.sigs) < K
       /\ SetPending(s, p.pay.burn, p)
       /\ UNCHANGED <<parent, ledger>>
    \/ /\ Cardinality(p.sigs) >= K
       /\ SetPending(s, p.pay.burn, None)
       /\ \/ /\ Unspent(p.pay.coin)
             /\ parent' = parent \cup {p.pay}
             /\ \/ ledger' = [ledger EXCEPT ![s] = @ \cup {p.pay.burn}]
                \/ UNCHANGED ledger
          \/ UNCHANGED <<parent, ledger>>

-----------------------------------------------------------------------------
(***************************************************************************)
(* PegoutRound::tick, one burn at a time: the iterations share nothing.    *)
(***************************************************************************)
MayPropose(s, b, t) ==
    /\ b \notin ledger[s]
    /\ pending[s][b] = None
    /\ MaySignBurn(s, b, t)
    /\ ~Throttled(s, b, t)

TickWait(s, b, t) ==
    /\ MayPropose(s, b, t)
    /\ ~Entitled(s, b, t, FirstSeen(s, b, t))
    /\ SetSeen(s, b, t)
    /\ UNCHANGED <<now, journal, authorised, backoff, pending, ledger, custody, psbts, cosigned,
                   parent>>

\* No coins to fund it, or the intent cannot be written.
TickFails(s, b, t) ==
    /\ MayPropose(s, b, t)
    /\ Entitled(s, b, t, FirstSeen(s, b, t))
    /\ SetSeen(s, b, t)
    /\ backoff' = [backoff EXCEPT ![s] = [@ EXCEPT ![b] = t]]
    /\ UNCHANGED <<now, journal, authorised, pending, ledger, custody, psbts, cosigned, parent>>

\* PegoutRound::propose, from a coin the wallet shows unspent.
TickPropose(s, b, t, coin, outcome) ==
    LET pay == [burn |-> b, by |-> s, at |-> t, coin |-> coin] IN
    /\ now <= LastProposal
    /\ MayPropose(s, b, t)
    /\ Entitled(s, b, t, FirstSeen(s, b, t))
    /\ Unspent(coin)
    /\ SetSeen(s, b, t)
    /\ Authorise(s, pay, t, outcome)
    /\ \/ /\ outcome = "recorded"
          /\ psbts' = psbts \cup {pay}
          /\ MaybeFinish(s, [pay |-> pay, sigs |-> {s}])
          /\ UNCHANGED backoff
       \/ /\ outcome # "recorded"
          /\ backoff' = [backoff EXCEPT ![s] = [@ EXCEPT ![b] = t]]
          /\ UNCHANGED <<psbts, pending, parent, ledger>>
    /\ UNCHANGED <<now, cosigned>>

TickDrop(s, b, t) ==
    /\ pending[s][b] # None
    /\ Monus(t, pending[s][b].pay.at) > Ring
    /\ SetPending(s, b, None)
    /\ UNCHANGED <<now, journal, authorised, backoff, seen, ledger, custody, psbts, cosigned,
                   parent>>

(***************************************************************************)
(* PegoutRound::on_proposal and on_signed.                                 *)
(***************************************************************************)
\* Mutated: the burn guard is asked on the payer's path only.
MutMayCosign(s, pay, t) ==
    /\ pay.by # s
    /\ pay.burn \notin ledger[s]

MayCosign(s, pay, t) ==
    /\ pay.by # s
    /\ pay.burn \notin ledger[s]
    /\ MaySignBurn(s, pay.burn, t)

\* Not its turn yet, or refused or failed before the intent: the height has been
\* seen, and that is all.
OnProposalRefused(s, pay, t) ==
    /\ MayCosign(s, pay, t)
    /\ SetSeen(s, pay.burn, t)
    /\ UNCHANGED <<now, journal, authorised, backoff, pending, ledger, custody, psbts, cosigned,
                   parent>>

OnProposal(s, pay, t, outcome) ==
    /\ MayCosign(s, pay, t)
    /\ Entitled(pay.by, pay.burn, pay.at, FirstSeen(s, pay.burn, t))
    /\ SetSeen(s, pay.burn, t)
    /\ Authorise(s, pay, t, outcome)
    /\ cosigned' = IF outcome = "recorded" THEN cosigned \cup {[by |-> s, pay |-> pay]}
                   ELSE cosigned
    /\ UNCHANGED <<now, backoff, pending, ledger, psbts, parent>>

OnSigned(s, m) ==
    LET b == m.pay.burn IN
    /\ pending[s][b] # None
    /\ m.pay = pending[s][b].pay
    /\ m.by # s
    /\ m.pay \in custody[m.by]
    /\ MaybeFinish(s, [pending[s][b] EXCEPT !.sigs = @ \cup {m.by}])
    /\ UNCHANGED <<now, journal, authorised, backoff, seen, custody, psbts, cosigned>>

\* Node::reconcile: the burns whose sidechain transaction a payment in the peg
\* wallet's history names are recorded.  The node runs it before every tick, but
\* the history is what the wallet has seen of the parent so far, and nothing when
\* its RPC fails: that run changes nothing.
PaidIn(history, b) == \E pay \in history : TxOf[pay.burn] = TxOf[b]
Reconcile(s, history) ==
    /\ ledger' = [ledger EXCEPT ![s] = @ \cup {b \in Burns : PaidIn(history, b)}]
    /\ UNCHANGED <<now, journal, authorised, backoff, seen, pending, custody, psbts, cosigned,
                   parent>>

\* Mutated: an intent without its signature does not count.
MutLastAuthorisedSigned(s, b) ==
    LET at == {e.at : e \in {x \in journal[s] : x.pay.burn = b /\ x.stage = "signed"}}
    IN  IF at = {} THEN None ELSE CHOOSE m \in at : \A k \in at : k <= m

\* PegoutRound::new on the journal; pegouts.json may be missing the last writes,
\* or be unreadable and count as empty.
LastAuthorised(s, b) ==
    LET at == {e.at : e \in {x \in journal[s] : x.pay.burn = b}}
    IN  IF at = {} THEN None ELSE CHOOSE m \in at : \A k \in at : k <= m

Restart(s) ==
    /\ authorised' = [authorised EXCEPT ![s] = [b \in Burns |-> LastAuthorised(s, b)]]
    /\ backoff' = [backoff EXCEPT ![s] = Nothing]
    /\ seen' = [seen EXCEPT ![s] = Nothing]
    /\ pending' = [pending EXCEPT ![s] = Nothing]
    /\ \E kept \in SUBSET ledger[s] : ledger' = [ledger EXCEPT ![s] = kept]
    /\ UNCHANGED <<now, journal, custody, psbts, cosigned, parent>>

AdvanceClock ==
    /\ now < MaxTime
    /\ now' = now + 1
    /\ UNCHANGED <<journal, authorised, backoff, seen, pending, ledger, custody, psbts, cosigned,
                   parent>>

SignerStep(s) ==
    \/ Restart(s)
    \/ \E history \in SUBSET parent : Reconcile(s, history)
    \/ \E m \in cosigned : OnSigned(s, m)
    \/ \E t \in Readings :
        \/ \E b \in Burns :
            \/ TickWait(s, b, t)
            \/ TickFails(s, b, t)
            \/ TickDrop(s, b, t)
            \/ \E coin \in Coins, o \in Outcomes : TickPropose(s, b, t, coin, o)
        \/ \E pay \in psbts :
            \/ OnProposalRefused(s, pay, t)
            \/ \E o \in Outcomes : OnProposal(s, pay, t, o)

Next == AdvanceClock \/ \E s \in Signers : SignerStep(s)

Spec == Init /\ [][Next]_vars

-----------------------------------------------------------------------------
(* Safety. *)

\* Two payments of one burn that one signer authorised are at least the
\* re-signing window apart, on both paths (proposing and co-signing) and across
\* restarts; under the strict rule there are none (may_sign_burn, new).
BurnVotesRespectWindow ==
    \A s \in Signers : \A e, f \in journal[s] :
        /\ e.pay.burn = f.pay.burn
        /\ e.pay # f.pay
        => /\ ResignAfter # Never
           /\ e.at - f.at >= ResignAfter \/ f.at - e.at >= ResignAfter

\* A payment the parent has taken was authorised by K signers, each with a
\* record of exactly that payment on its own disk (authorise, maybe_finish).
PaymentsHaveQuorum ==
    \A pay \in parent :
        Cardinality({r \in Signers : \E e \in journal[r] : e.pay = pay}) >= K

\* No burn is paid twice out of the peg, whichever signers stood in for the
\* payer, restarted, lost their ledger or got a late answer.  Holds under the
\* strict rule when two quorums meet in a signer (2K > N).
PaidOnce ==
    \A p, q \in parent : p.burn = q.burn => p = q

\* A burn is recorded as paid, by the signer that broadcast its payment or by one
\* that found it in the wallet's history, only after the parent has taken a payment
\* of a burn of its sidechain transaction: over late answers, lost ledgers and
\* restarts nobody gives up a transaction none of whose burns is paid, and a burn
\* that is alone in its transaction is recorded only when it is paid itself.  It
\* says no more of the burns of one transaction, because the code does no more:
\* reconcile pairs by transaction where the ledger's key is txid:vout, and the
\* payment of one burn marks the others (mark_paid, reconcile).
RecordedWasPaid ==
    \A s \in Signers : \A b \in ledger[s] :
        \E pay \in parent :
            \/ pay.burn = b
            \/ TxOf[pay.burn] = TxOf[b] /\ \E c \in Burns \ {b} : TxOf[c] = TxOf[b]

-----------------------------------------------------------------------------
(* What makes the safety properties inductive. *)

\* No record is from beyond what any clock has shown.
JournalPast ==
    \A s \in Signers : \A e \in journal[s] : e.at <= now + Skew

\* The memory of a signer is never behind its journal, on either path.  (With a
\* window of no seconds a clock that is set back may leave it behind.)
MemoryCoversJournal ==
    ResignAfter # 0 =>
        \A s \in Signers : \A e \in journal[s] :
            /\ authorised[s][e.pay.burn] # None
            /\ e.at <= authorised[s][e.pay.burn]

\* Every signature a custody key has made is covered by a record.
SignaturesAreJournalled ==
    \A s \in Signers : \A pay \in custody[s] : \E e \in journal[s] : e.pay = pay

\* A 23513 and a payment in flight hold signatures that were really made.
SignaturesAreReal ==
    /\ \A m \in cosigned : m.pay \in custody[m.by]
    /\ \A s \in Signers, b \in Burns : pending[s][b] # None =>
        \A r \in pending[s][b].sigs : pending[s][b].pay \in custody[r]

\* A payment on the parent has the signatures of K signers.
PaymentsAreSigned ==
    \A pay \in parent : Cardinality({r \in Signers : pay \in custody[r]}) >= K

TypeInv == TypeOK /\ JournalPast
JournalInv == MemoryCoversJournal /\ BurnVotesRespectWindow /\ SignaturesAreJournalled
PayInv == SignaturesAreReal /\ PaymentsAreSigned
IInv == TypeInv /\ JournalInv /\ PayInv
=============================================================================
