----------------------------- MODULE CosignRound -----------------------------
(***************************************************************************)
(* The block co-signing round of sidestr-round (src/round.rs): N signers,  *)
(* any K of whom seal a block.  The proposer of a height publishes a       *)
(* template (kind 23510), the others answer with partial signatures        *)
(* (23511), and the proposer seals the first K of them into a block it     *)
(* publishes (23514).  Every signer journals what it authorises before its *)
(* custody key is asked, so that a restart does not turn into a second     *)
(* vote.                                                                   *)
(*                                                                         *)
(* A signer is its slot in the document's signer list, the position        *)
(* Round::slot looks up.  Relays may lose, delay, reorder and repeat       *)
(* events: a published event stays in its set for ever and any handler may *)
(* take it at any time, any number of times, or never.  (Follower::accept  *)
(* refuses an id it remembers, but its memory is bounded and is lost in a  *)
(* restart; the model does not rely on it.)                                *)
(*                                                                         *)
(* A time is in whole seconds.  The block's transactions and claims are    *)
(* left out: a proposal refused for them is a step that does not happen.   *)
(***************************************************************************)
EXTENDS Integers, Sequences, FiniteSets

CONSTANTS
    N,              \* the number of signers of the document
    K,              \* the threshold
    ProposeAfter,   \* RoundConfig::propose_after
    ResignAfter,    \* RoundConfig::resign_after: a number of seconds, or Never
    Never,          \* the strict rule, resign_after = None
    MaxFuture,      \* max_future_block_time of the chain's rules
    Skew,           \* how far a signer's clock may be from the true time
    None,           \* Option::None
    MaxHeight,      \* bound: no signer proposes above this height
    MaxTime,        \* bound: the true time stops here
    LastProposal,   \* bound: no proposal is made after this time
    MaxFaults       \* bound: how often a write of a block fails or a restart loses blocks

ASSUME FederationAssumption == N \in Nat \ {0} /\ K \in 1 .. N
ASSUME ConfigAssumption ==
    /\ ProposeAfter \in Nat /\ MaxFuture \in Nat /\ Skew \in Nat
    /\ ResignAfter \in Nat \cup {Never}
    /\ Never \notin Nat
ASSUME BoundAssumption ==
    MaxHeight \in Nat /\ MaxTime \in Nat /\ LastProposal \in Nat /\ MaxFaults \in Nat

Signers == 0 .. N - 1
Heights == 1 .. MaxHeight

(***************************************************************************)
(* The identity of a sealed block: its hash depends on the template and on *)
(* which signatures seal it, so two quorums seal one template to two       *)
(* hashes.  A template is identified by its height, proposer and time of   *)
(* proposal (a proposer never uses a time twice at one height).            *)
(***************************************************************************)
BlockHash == [height : Nat, by : Signers, at : Nat, time : Nat, signers : SUBSET Signers]
Template == [height : Heights, by : Signers, at : Nat, time : Nat, prev : BlockHash]
SealedBlock == [tmpl : Template, signers : SUBSET Signers]

Genesis == [height |-> 0, by |-> 0, at |-> 0, time |-> 0, signers |-> {}]

HashOf(b) == [height |-> b.tmpl.height, by |-> b.tmpl.by, at |-> b.tmpl.at,
              time |-> b.tmpl.time, signers |-> b.signers]

\* A journal record; its subject is the proposal and, with it, the template.
VoteEntry == [height : Heights, role : {"proposed", "signed"}, subject : Template,
              at : Nat, stage : {"intent", "signed"}]

\* My proposal in flight.
Pending == [tmpl : Template, sigs : SUBSET Signers, at : Nat]

ASSUME NoneAssumption == None \notin Nat /\ None \notin Pending

VARIABLES
    now,        \* the true time
    chain,      \* chain[s]: the blocks signer s has applied, in memory
    journal,    \* journal[s]: the vote journal on the disk of s
    signed,     \* signed[s][h]: in memory, when s last authorised a proposal at height h
    pending,    \* pending[s]: the proposal of s in flight, or None
    dueSince,   \* dueSince[s]: since when s has seen a block due, or None
    custody,    \* custody[s]: the templates the custody key of s has signed
    proposals,  \* the 23510 events ever published
    partials,   \* the 23511 events ever published
    sealed,     \* the blocks ever sealed, whether anybody else saw them or not
    published,  \* the 23514 events ever published, each a sealed block
    faults      \* how often a block was not written, not published or lost

vars == <<now, chain, journal, signed, pending, dueSince, custody, proposals, partials,
          sealed, published, faults>>

TypeOK ==
    /\ now \in Nat
    /\ chain \in [Signers -> Seq(SealedBlock)]
    /\ journal \in [Signers -> Seq(VoteEntry)]
    /\ signed \in [Signers -> [Heights -> Nat \cup {None}]]
    /\ pending \in [Signers -> Pending \cup {None}]
    /\ dueSince \in [Signers -> Nat \cup {None}]
    /\ custody \in [Signers -> SUBSET Template]
    /\ proposals \subseteq Template
    /\ partials \subseteq [by : Signers, tmpl : Template]
    /\ sealed \subseteq SealedBlock
    /\ published \subseteq sealed
    /\ faults \in Nat

Init ==
    /\ now = 0
    /\ chain = [s \in Signers |-> <<>>]
    /\ journal = [s \in Signers |-> <<>>]
    /\ signed = [s \in Signers |-> [h \in Heights |-> None]]
    /\ pending = [s \in Signers |-> None]
    /\ dueSince = [s \in Signers |-> None]
    /\ custody = [s \in Signers |-> {}]
    /\ proposals = {}
    /\ partials = {}
    /\ sealed = {}
    /\ published = {}
    /\ faults = 0

-----------------------------------------------------------------------------
(* Time and turns. *)

Monus(a, b) == IF a > b THEN a - b ELSE 0
Larger(a, b) == IF a > b THEN a ELSE b

\* What the clock of a signer may show.
Readings == Monus(now, Skew) .. now + Skew

\* The life of a proposal, propose_after * n.
Ring == ProposeAfter * N

\* Mutated: the strict rule falls back to propose_after.
MutMayResignAnyway(s, h, t) ==
    signed[s][h] # None => Monus(t, signed[s][h]) > ProposeAfter

\* No signature at this height yet, or the last one has had its window.
MayResign(s, h, t) ==
    signed[s][h] # None => ResignAfter # Never /\ Monus(t, signed[s][h]) > ResignAfter

\* Since when the block is due, once a tick at time t has found it due.
Due(s, t) == IF dueSince[s] = None THEN t ELSE dueSince[s]

\* The proposer of height h is h mod N; every ProposeAfter of lateness since
\* base lets the next signer of the ring propose too.
Entitled(r, h, at, base) ==
    (r + N - (h % N)) % N <= Monus(at, base) \div Larger(ProposeAfter, 1)

-----------------------------------------------------------------------------
(* The chain of a signer. *)

Height(s) == Len(chain[s])
Tip(s) == IF chain[s] = <<>> THEN Genesis ELSE HashOf(chain[s][Len(chain[s])])

\* Mutated: a sealed block is taken without its link to the tip.
MutValid(s, b, t, made) ==
    /\ b.tmpl.time <= t + MaxFuture
    /\ Cardinality(b.signers) >= K
    /\ \A r \in b.signers : b.tmpl \in made[r]

\* The validator: next height, on my tip, not from the future, K signatures
\* that verify (made: the signatures the custody keys have made so far).
Valid(s, b, t, made) ==
    /\ b.tmpl.height = Height(s) + 1
    /\ b.tmpl.prev = Tip(s)
    /\ b.tmpl.time <= t + MaxFuture
    /\ Cardinality(b.signers) >= K
    /\ \A r \in b.signers : b.tmpl \in made[r]

\* The template StateOf::build_next makes at time t.
NextTemplate(s, t) ==
    [height |-> Height(s) + 1, by |-> s, at |-> t,
     time |-> Larger(t, Tip(s).time + 1), prev |-> Tip(s)]

-----------------------------------------------------------------------------
(***************************************************************************)
(* Authorising a template: the intent is journalled and the height counts  *)
(* as signed, then the custody key signs, then the signature is journalled *)
(* and only then does the caller get it.  "intent" is a custody signer     *)
(* that fails, "signed" a second record that fails; a crash at either      *)
(* point is that outcome and then Restart.  An intent that cannot be       *)
(* written leaves everything as it was.                                    *)
(***************************************************************************)
Outcomes == {"intent", "signed", "recorded"}

Entry(tmpl, role, t, stage) ==
    [height |-> tmpl.height, role |-> role, subject |-> tmpl, at |-> t, stage |-> stage]

\* Mutated: the vote is journalled after the key has signed, not before.
MutAuthorise(s, tmpl, role, t, outcome) ==
    /\ journal' = IF outcome = "recorded"
                  THEN [journal EXCEPT ![s] = Append(@, Entry(tmpl, role, t, "signed"))]
                  ELSE journal
    /\ signed' = [signed EXCEPT ![s] = [@ EXCEPT ![tmpl.height] = t]]
    /\ custody' = IF outcome = "intent" THEN custody
                  ELSE [custody EXCEPT ![s] = @ \cup {tmpl}]

Authorise(s, tmpl, role, t, outcome) ==
    /\ journal' =
         [journal EXCEPT ![s] =
            IF outcome = "recorded"
            THEN Append(Append(@, Entry(tmpl, role, t, "intent")), Entry(tmpl, role, t, "signed"))
            ELSE Append(@, Entry(tmpl, role, t, "intent"))]
    /\ signed' = [signed EXCEPT ![s] = [@ EXCEPT ![tmpl.height] = t]]
    /\ custody' = IF outcome = "intent" THEN custody
                  ELSE [custody EXCEPT ![s] = @ \cup {tmpl}]

Fault == faults < MaxFaults /\ faults' = faults + 1

(***************************************************************************)
(* Round::maybe_seal on the proposal p of s: hold it until K signatures    *)
(* are there; then it is no longer pending.  The block enters the chain in *)
(* memory before it is written (ChainOf::add_block): when the write fails  *)
(* the round takes it for refused, although the chain has it, and does not *)
(* publish it; and the event of a block that was written may fail to be    *)
(* signed.  Or my own validator refuses the block.                         *)
(***************************************************************************)
MaybeSeal(s, p, due, t) ==
    LET b == [tmpl |-> p.tmpl, signers |-> p.sigs] IN
    \/ /\ Cardinality(p.sigs) < K
       /\ pending' = [pending EXCEPT ![s] = p]
       /\ dueSince' = [dueSince EXCEPT ![s] = due]
       /\ UNCHANGED <<chain, sealed, published, faults>>
    \/ /\ Cardinality(p.sigs) >= K
       /\ Valid(s, b, t, custody')
       /\ pending' = [pending EXCEPT ![s] = None]
       /\ chain' = [chain EXCEPT ![s] = Append(@, b)]
       /\ sealed' = sealed \cup {b}
       /\ \/ /\ dueSince' = [dueSince EXCEPT ![s] = None]
             /\ published' = published \cup {b}
             /\ UNCHANGED faults
          \/ /\ Fault
             /\ dueSince' \in {[dueSince EXCEPT ![s] = due], [dueSince EXCEPT ![s] = None]}
             /\ UNCHANGED published
    \/ /\ Cardinality(p.sigs) >= K
       /\ ~Valid(s, b, t, custody')
       /\ pending' = [pending EXCEPT ![s] = None]
       /\ dueSince' = [dueSince EXCEPT ![s] = due]
       /\ UNCHANGED <<chain, sealed, published, faults>>

-----------------------------------------------------------------------------
(***************************************************************************)
(* Round::tick, called every second.  A proposal in flight whose height    *)
(* is still open blocks everything else until it is older than the ring.   *)
(***************************************************************************)
InFlight(s) == pending[s] # None /\ pending[s].tmpl.height > Height(s)

TickDrop(s, t) ==
    /\ InFlight(s)
    /\ Monus(t, pending[s].at) > Ring
    /\ pending' = [pending EXCEPT ![s] = None]
    /\ UNCHANGED <<now, chain, journal, signed, dueSince, custody, proposals, partials,
                   sealed, published, faults>>

TickNotDue(s) ==
    /\ ~InFlight(s)
    /\ pending' = [pending EXCEPT ![s] = None]
    /\ dueSince' = [dueSince EXCEPT ![s] = None]
    /\ UNCHANGED <<now, chain, journal, signed, custody, proposals, partials,
                   sealed, published, faults>>

\* Due, and nothing proposed: the height may not be signed again, it is not
\* my turn, or the proposal fails before its intent is written.
TickDue(s, t) ==
    /\ ~InFlight(s)
    /\ pending' = [pending EXCEPT ![s] = None]
    /\ dueSince' = [dueSince EXCEPT ![s] = Due(s, t)]
    /\ UNCHANGED <<now, chain, journal, signed, custody, proposals, partials,
                   sealed, published, faults>>

\* Due and my turn: Round::propose.
TickPropose(s, t, outcome) ==
    LET tmpl == NextTemplate(s, t) IN
    /\ ~InFlight(s)
    /\ Height(s) < MaxHeight /\ now <= LastProposal
    /\ MayResign(s, Height(s) + 1, t)
    /\ Entitled(s, Height(s) + 1, t, Due(s, t))
    /\ Authorise(s, tmpl, "proposed", t, outcome)
    /\ \/ /\ outcome = "recorded"
          /\ proposals' = proposals \cup {tmpl}
          /\ MaybeSeal(s, [tmpl |-> tmpl, sigs |-> {s}, at |-> t], Due(s, t), t)
       \/ /\ outcome # "recorded"
          /\ pending' = [pending EXCEPT ![s] = None]
          /\ dueSince' = [dueSince EXCEPT ![s] = Due(s, t)]
          /\ UNCHANGED <<chain, proposals, sealed, published, faults>>
    /\ UNCHANGED <<now, partials>>

\* Round::on_proposal, for a proposal of another signer.
OnProposal(s, tmpl, t, outcome) ==
    /\ tmpl.by # s
    /\ Monus(t, tmpl.at) <= Ring
    /\ tmpl.height = Height(s) + 1
    /\ Entitled(tmpl.by, tmpl.height, tmpl.at, IF dueSince[s] = None THEN tmpl.at ELSE dueSince[s])
    /\ MayResign(s, tmpl.height, t)
    /\ tmpl.prev = Tip(s)
    /\ tmpl.time > Tip(s).time
    /\ tmpl.time <= t + MaxFuture
    /\ Authorise(s, tmpl, "signed", t, outcome)
    /\ partials' = IF outcome = "recorded" THEN partials \cup {[by |-> s, tmpl |-> tmpl]}
                   ELSE partials
    /\ UNCHANGED <<now, chain, pending, dueSince, proposals, sealed, published, faults>>

\* Round::on_partial, for a signature on my proposal in flight that verifies.
OnPartial(s, m, t) ==
    /\ pending[s] # None
    /\ m.tmpl = pending[s].tmpl
    /\ m.by # s
    /\ m.tmpl \in custody[m.by]
    /\ UNCHANGED <<now, journal, signed, custody, proposals, partials>>
    /\ MaybeSeal(s, [pending[s] EXCEPT !.sigs = @ \cup {m.by}], dueSince[s], t)

\* Round::on_sealed: a block another signer sealed, through my validator; when
\* it is applied and cannot be written, the round goes on as if it were refused.
OnSealed(s, b, t) ==
    /\ b.tmpl.by # s
    /\ Valid(s, b, t, custody)
    /\ chain' = [chain EXCEPT ![s] = Append(@, b)]
    /\ \/ /\ dueSince' = [dueSince EXCEPT ![s] = None]
          /\ pending' = IF pending[s] # None /\ pending[s].tmpl.height <= b.tmpl.height
                        THEN [pending EXCEPT ![s] = None] ELSE pending
          /\ UNCHANGED faults
       \/ Fault /\ UNCHANGED <<dueSince, pending>>
    /\ UNCHANGED <<now, journal, signed, custody, proposals, partials, sealed, published>>

\* Mutated: an intent without its signature does not count.
MutLastAt(j, h) ==
    LET at == {i \in DOMAIN j : j[i].height = h /\ j[i].stage = "signed"}
    IN  IF at = {} THEN None ELSE j[CHOOSE i \in at : \A k \in at : k <= i].at

\* Round::new replays the journal; a later record overwrites an earlier one.
LastAt(j, h) ==
    LET at == {i \in DOMAIN j : j[i].height = h}
    IN  IF at = {} THEN None ELSE j[CHOOSE i \in at : \A k \in at : k <= i].at

\* Mutated: the replay passes over a block that it cannot read.
MutRestart(s) ==
    /\ Fault
    /\ \E n \in 1 .. Height(s) :
          chain' = [chain EXCEPT ![s] = SubSeq(@, 1, n - 1) \o SubSeq(@, n + 1, Len(@))]
    /\ pending' = [pending EXCEPT ![s] = None]
    /\ dueSince' = [dueSince EXCEPT ![s] = None]
    /\ signed' = [signed EXCEPT ![s] = [h \in Heights |-> LastAt(journal[s], h)]]
    /\ UNCHANGED <<now, journal, custody, proposals, partials, sealed, published>>

\* The process dies, or its machine does, and starts again on its journal and
\* its block file.  The journal is synced record by record; the block file is
\* not, and may never have had a block whose write failed, so that what is
\* replayed is some beginning of the chain (ChainStore!ReplayIsPrefix).
Restart(s) ==
    /\ \/ UNCHANGED <<chain, faults>>
       \/ Fault /\ \E n \in 0 .. Height(s) - 1 : chain' = [chain EXCEPT ![s] = SubSeq(@, 1, n)]
    /\ pending' = [pending EXCEPT ![s] = None]
    /\ dueSince' = [dueSince EXCEPT ![s] = None]
    /\ signed' = [signed EXCEPT ![s] = [h \in Heights |-> LastAt(journal[s], h)]]
    /\ UNCHANGED <<now, journal, custody, proposals, partials, sealed, published>>

AdvanceClock ==
    /\ now < MaxTime
    /\ now' = now + 1
    /\ UNCHANGED <<chain, journal, signed, pending, dueSince, custody, proposals, partials,
                   sealed, published, faults>>

SignerStep(s) ==
    \/ TickNotDue(s)
    \/ Restart(s)
    \/ \E t \in Readings :
        \/ TickDrop(s, t)
        \/ TickDue(s, t)
        \/ \E m \in partials : OnPartial(s, m, t)
        \/ \E b \in published : OnSealed(s, b, t)
        \/ \E o \in Outcomes :
            \/ TickPropose(s, t, o)
            \/ \E tmpl \in proposals : OnProposal(s, tmpl, t, o)

Next == AdvanceClock \/ \E s \in Signers : SignerStep(s)

Spec == Init /\ [][Next]_vars

-----------------------------------------------------------------------------
(* Safety. *)

\* Every signature a custody key has ever made is covered by a record on the
\* signer's own disk, whatever failed or crashed since: Round::authorise writes
\* the intent before the key is asked.
SignaturesAreJournalled ==
    \A s \in Signers : \A tmpl \in custody[s] :
        \E i \in DOMAIN journal[s] : journal[s][i].subject = tmpl

\* Two votes of one signer for different proposals of one height are more than
\* the re-signing window apart, restarts and stepped clocks included; under the
\* strict rule there are none (Round::may_resign, Round::new).
VotesRespectWindow ==
    \A s \in Signers : \A i, j \in DOMAIN journal[s] :
        /\ i < j
        /\ journal[s][i].height = journal[s][j].height
        /\ journal[s][i].subject # journal[s][j].subject
        => ResignAfter # Never /\ journal[s][j].at - journal[s][i].at > ResignAfter

\* Every block in a chain was authorised by K different signers, each with a
\* journal record of exactly that template, and hangs on the block before it
\* (Round::maybe_seal, Round::on_sealed and the validator between them).
BlocksHaveQuorum ==
    \A s \in Signers : \A h \in DOMAIN chain[s] :
        LET b == chain[s][h] IN
        /\ b.tmpl.height = h
        /\ b.tmpl.prev = IF h = 1 THEN Genesis ELSE HashOf(chain[s][h - 1])
        /\ Cardinality({r \in b.signers :
                \E i \in DOMAIN journal[r] : journal[r][i].subject = b.tmpl}) >= K

\* No template is ever sealed to two hashes: only its proposer seals it, once,
\* although two different quorums of partial signatures may exist for it and
\* the proposer may restart between them (Round::maybe_seal takes the pending
\* proposal before it seals).
SealedOnce ==
    \A b, c \in sealed : b.tmpl = c.tmpl => b = c

\* No two signers have different blocks at one height.  Holds under the strict
\* rule when two quorums meet in a signer (2K > N).
Agreement ==
    \A r, s \in Signers : \A h \in DOMAIN chain[r] \cap DOMAIN chain[s] :
        chain[r][h] = chain[s][h]

\* The blocks ever sealed, by height.
SealedHeights == {b.tmpl.height : b \in sealed}
Decided == [h \in SealedHeights |-> CHOOSE b \in sealed : b.tmpl.height = h]

Ledger == INSTANCE ReplicatedLedger
            WITH Replicas <- Signers, decided <- Decided, copy <- chain

\* Under the strict rule with 2K > N the round implements one replicated ledger,
\* the blocks ever sealed: only a signer that has all of them seals another, a
\* received block is always the next one of it, and a signer whose block file
\* lost blocks (an unsynced append, a write that failed after the block was
\* applied) is behind on the same ledger and never on another one.
ImplementsLedger == Ledger!Spec

-----------------------------------------------------------------------------
(* What makes the safety properties inductive. *)

\* A record is about the height of its subject, and my own proposals carry the
\* time I journalled them at.
JournalFits ==
    \A s \in Signers : \A i \in DOMAIN journal[s] :
        LET e == journal[s][i] IN
        /\ e.height = e.subject.height
        /\ e.subject.by = s => e.subject.at = e.at

\* Votes of one height are journalled in the order of their times.
JournalOrdered ==
    \A s \in Signers : \A i, j \in DOMAIN journal[s] :
        i < j /\ journal[s][i].height = journal[s][j].height
        => journal[s][i].at <= journal[s][j].at

\* The memory of a signer is never behind its journal: no vote on the disk is
\* later than the one Round::may_resign compares with.
MemoryCoversJournal ==
    \A s \in Signers : \A i \in DOMAIN journal[s] :
        LET e == journal[s][i] IN
        signed[s][e.height] # None /\ e.at <= signed[s][e.height]

\* A partial signature, a pending proposal and a sealed block hold signatures
\* that were really made, the proposer's own among them.
SignaturesAreReal ==
    /\ \A m \in partials : m.tmpl \in custody[m.by]
    /\ \A s \in Signers : pending[s] # None =>
        /\ pending[s].tmpl.by = s
        /\ s \in pending[s].sigs
        /\ \A r \in pending[s].sigs : pending[s].tmpl \in custody[r]
    /\ \A b \in sealed :
        /\ b.tmpl.by \in b.signers
        /\ Cardinality(b.signers) >= K
        /\ \A r \in b.signers : b.tmpl \in custody[r]

\* A proposal still in flight has not been sealed.
PendingNotSealed ==
    \A s \in Signers : pending[s] # None => \A b \in sealed : b.tmpl # pending[s].tmpl

\* Chains hold sealed blocks, each on the one before.
ChainsAreSealed ==
    \A s \in Signers : \A h \in DOMAIN chain[s] :
        /\ chain[s][h] \in sealed
        /\ chain[s][h].tmpl.height = h
        /\ chain[s][h].tmpl.prev = IF h = 1 THEN Genesis ELSE HashOf(chain[s][h - 1])

\* A block was sealed on top of sealed blocks of all lower heights.
SealedOnSealed ==
    \A b \in sealed : \A h \in 1 .. b.tmpl.height : \E c \in sealed : c.tmpl.height = h

JournalInv == JournalFits /\ JournalOrdered /\ MemoryCoversJournal
              /\ VotesRespectWindow /\ SignaturesAreJournalled
SealInv == SignaturesAreReal /\ PendingNotSealed /\ SealedOnce /\ ChainsAreSealed
           /\ SealedOnSealed
IInv == TypeOK /\ JournalInv /\ SealInv
=============================================================================
