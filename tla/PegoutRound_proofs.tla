------------------------- MODULE PegoutRound_proofs -------------------------
(***************************************************************************)
(* Proofs about the peg-out round, for any number of signers, any          *)
(* threshold, any settings and any set of burns and coins.                 *)
(***************************************************************************)
EXTENDS PegoutRound, TLAPS, FiniteSetTheorems, WellFoundedInduction

LEMMA ReadingsType ==
  ASSUME now \in Nat, NEW t \in Readings
  PROVE  t \in Nat /\ t <= now + Skew
  BY ConfigAssumption DEF Readings, Monus

\* A bounded non-empty set of times has a latest one.
LEMMA Latest ==
  ASSUME NEW n \in Nat, NEW I, I \subseteq 0 .. n, I # {}
  PROVE  \E m \in I : \A k \in I : k <= m
<1> DEFINE R == OpToRel(<, Nat)
           D == {n - i : i \in I}
<1>1. IsWellFoundedOn(R, Nat)
  BY NatLessThanWellFounded
<1>2. \A i \in I : n - i \in Nat /\ i \in Nat
  OBVIOUS
<1>3. D \subseteq Nat /\ D # {}
  <2>1. D # {}
    OBVIOUS
  <2> QED BY <1>2, <2>1
<1>4. PICK x \in D : \A y \in D : ~ (<<y, x>> \in R)
  <2> HIDE DEF D, R
  <2> QED BY <1>1, <1>3, WFMin
<1>5. \A y \in Nat : y < x => <<y, x>> \in R
  BY <1>3, <1>4 DEF OpToRel
<1>6. \A y \in D : ~ (y < x)
  BY <1>3, <1>4, <1>5
<1>7. PICK m \in I : x = n - m
  BY <1>4
<1>8. \A k \in I : k <= m
  <2> SUFFICES ASSUME NEW k \in I PROVE k <= m
    OBVIOUS
  <2>1. n - k \in D
    OBVIOUS
  <2>2. ~ (n - k < n - m)
    BY <1>6, <1>7, <2>1
  <2> QED
    BY <1>2, <2>2
<1> QED
  BY <1>8

\* What a restart loads for a burn: nothing when the journal has no record of
\* it, and otherwise the latest time at which it was authorised.
LEMMA LastAuthorisedValue ==
  ASSUME TypeOK, JournalPast, NEW s \in Signers, NEW b \in Burns
  PROVE  \/ /\ LastAuthorised(s, b) = None
            /\ \A e \in journal[s] : e.pay.burn # b
         \/ /\ LastAuthorised(s, b) \in Nat
            /\ \A e \in journal[s] : e.pay.burn = b => e.at <= LastAuthorised(s, b)
<1> DEFINE at == {e.at : e \in {x \in journal[s] : x.pay.burn = b}}
<1>1. CASE at = {}
  <2>1. \A e \in journal[s] : e.pay.burn # b
    BY <1>1
  <2> QED
    BY <1>1, <2>1 DEF LastAuthorised
<1>2. CASE at # {}
  <2>1. now + Skew \in Nat
    BY ConfigAssumption DEF TypeOK
  <2>2. \A e \in journal[s] : e.at \in Nat /\ e.at <= now + Skew
    BY DEF TypeOK, JournalPast, VoteEntry
  <2>3. at \subseteq 0 .. now + Skew
    BY <2>1, <2>2
  <2>4. \E m \in at : \A k \in at : k <= m
    <3> HIDE DEF at
    <3> QED BY <1>2, <2>1, <2>3, Latest
  <2> DEFINE m == CHOOSE i \in at : \A k \in at : k <= i
  <2>5. m \in at /\ \A k \in at : k <= m
    BY <2>4
  <2>6. LastAuthorised(s, b) = m
    BY <1>2 DEF LastAuthorised
  <2>7. \A e \in journal[s] : e.pay.burn = b => e.at \in at
    OBVIOUS
  <2> HIDE DEF m, at
  <2>8. m \in Nat
    BY <2>1, <2>3, <2>5
  <2> QED
    BY <2>5, <2>6, <2>7, <2>8
<1> QED
  BY <1>1, <1>2

-----------------------------------------------------------------------------
(* What a step may do to each part of the state. *)

\* One authorisation that PegoutRound::may_sign_burn allowed.
Authorises(s) ==
    \E t \in Readings, o \in Outcomes, pay \in Payment :
        /\ MaySignBurn(s, pay.burn, t)
        /\ Authorise(s, pay, t, o)

LEMMA ProposedType ==
  ASSUME TypeOK, NEW s \in Signers, NEW b \in Burns, NEW t \in Readings, NEW coin \in Coins
  PROVE  [burn |-> b, by |-> s, at |-> t, coin |-> coin] \in Payment
  BY ReadingsType DEF TypeOK, Payment

\* The journal, the memory of it and the signatures: nothing, a reload, or one
\* authorisation that was allowed.
LEMMA JournalSteps ==
  ASSUME TypeOK, [Next]_vars
  PROVE  \/ UNCHANGED <<journal, authorised, custody>>
         \/ \E s \in Signers : Restart(s) \/ Authorises(s)
<1>1. CASE UNCHANGED vars
  BY <1>1 DEF vars
<1>2. CASE AdvanceClock
  BY <1>2 DEF AdvanceClock
<1>3. ASSUME NEW s \in Signers, SignerStep(s)
      PROVE  UNCHANGED <<journal, authorised, custody>> \/ Restart(s) \/ Authorises(s)
  <2>1. CASE \E history \in SUBSET parent : Reconcile(s, history)
    BY <2>1 DEF Reconcile
  <2>2. ASSUME NEW m \in cosigned, OnSigned(s, m)
        PROVE  UNCHANGED <<journal, authorised, custody>>
    BY <2>2 DEF OnSigned
  <2>3. ASSUME NEW t \in Readings, NEW b \in Burns,
               TickWait(s, b, t) \/ TickFails(s, b, t) \/ TickDrop(s, b, t)
        PROVE  UNCHANGED <<journal, authorised, custody>>
    BY <2>3 DEF TickWait, TickFails, TickDrop
  <2>4. ASSUME NEW t \in Readings, NEW b \in Burns, NEW coin \in Coins, NEW o \in Outcomes,
               TickPropose(s, b, t, coin, o)
        PROVE  Authorises(s)
    <3> DEFINE pay == [burn |-> b, by |-> s, at |-> t, coin |-> coin]
    <3>1. pay \in Payment /\ pay.burn = b
      BY ProposedType
    <3>2. MaySignBurn(s, b, t) /\ Authorise(s, pay, t, o)
      BY <2>4 DEF TickPropose, MayPropose
    <3> HIDE DEF pay
    <3> QED
      BY <3>1, <3>2 DEF Authorises
  <2>5. ASSUME NEW t \in Readings, NEW pay \in psbts, OnProposalRefused(s, pay, t)
        PROVE  UNCHANGED <<journal, authorised, custody>>
    BY <2>5 DEF OnProposalRefused
  <2>6. ASSUME NEW t \in Readings, NEW pay \in psbts, NEW o \in Outcomes,
               OnProposal(s, pay, t, o)
        PROVE  Authorises(s)
    <3>1. pay \in Payment
      BY DEF TypeOK
    <3>2. MaySignBurn(s, pay.burn, t) /\ Authorise(s, pay, t, o)
      BY <2>6 DEF OnProposal, MayCosign
    <3> QED
      BY <3>1, <3>2 DEF Authorises
  <2> QED
    BY <1>3, <2>1, <2>2, <2>3, <2>4, <2>5, <2>6 DEF SignerStep
<1> QED
  BY <1>1, <1>2, <1>3 DEF Next

\* The payments in flight, the parent and the ledgers: nothing, something
\* forgotten, a burn recorded from the parent's history, or a payment whose
\* signatures are real carried on by maybe_finish.
Finishes(s) ==
    \E p \in PendingPegout :
        /\ \A r \in p.sigs : p.pay \in custody'[r]
        /\ MaybeFinish(s, p)

Forgets ==
    /\ pending' \in [Signers -> [Burns -> PendingPegout \cup {None}]]
    /\ \A r \in Signers, b \in Burns : pending'[r][b] \in {pending[r][b], None}
    /\ \A r \in Signers : ledger'[r] \subseteq ledger[r]
    /\ ledger' \in [Signers -> SUBSET Burns]
    /\ UNCHANGED parent

Records(s) ==
    /\ \E history \in SUBSET parent :
        ledger' = [ledger EXCEPT ![s] = @ \cup {b \in Burns : PaidIn(history, b)}]
    /\ UNCHANGED <<pending, parent>>

LEMMA PaySteps ==
  ASSUME TypeOK, SignaturesAreReal, [Next]_vars
  PROVE  Forgets \/ \E s \in Signers : Records(s) \/ Finishes(s)
<1>0. ASSUME UNCHANGED <<pending, ledger, parent>>
      PROVE  Forgets
  BY <1>0 DEF Forgets, TypeOK
<1>1. CASE UNCHANGED vars
  BY <1>0, <1>1 DEF vars
<1>2. CASE AdvanceClock
  BY <1>0, <1>2 DEF AdvanceClock
<1>3. ASSUME NEW s \in Signers, SignerStep(s)
      PROVE  Forgets \/ Records(s) \/ Finishes(s)
  <2>1. CASE Restart(s)
    <3>1. /\ pending' \in [Signers -> [Burns -> PendingPegout \cup {None}]]
          /\ \A r \in Signers, b \in Burns : pending'[r][b] \in {pending[r][b], None}
      BY <2>1 DEF Restart, Nothing, TypeOK
    <3>2. PICK kept \in SUBSET ledger[s] : ledger' = [ledger EXCEPT ![s] = kept]
      BY <2>1 DEF Restart
    <3>3. /\ ledger' \in [Signers -> SUBSET Burns]
          /\ \A r \in Signers : ledger'[r] \subseteq ledger[r]
      BY <3>2 DEF TypeOK
    <3> QED
      BY <2>1, <3>1, <3>3 DEF Restart, Forgets
  <2>2. CASE \E history \in SUBSET parent : Reconcile(s, history)
    BY <2>2 DEF Reconcile, Records
  <2>3. ASSUME NEW m \in cosigned, OnSigned(s, m)
        PROVE  Finishes(s)
    <3> DEFINE b == m.pay.burn
               p == [pending[s][b] EXCEPT !.sigs = @ \cup {m.by}]
    <3>1. m.by \in Signers /\ m.pay \in Payment /\ b \in Burns
      BY DEF TypeOK, Payment
    <3>2. pending[s][b] \in PendingPegout /\ m.pay = pending[s][b].pay
      BY <2>3, <3>1 DEF TypeOK, OnSigned
    <3>3. /\ p \in PendingPegout /\ p.pay = m.pay
          /\ p.sigs = pending[s][b].sigs \cup {m.by}
      BY <3>1, <3>2 DEF PendingPegout
    <3>4. custody' = custody /\ m.pay \in custody[m.by] /\ MaybeFinish(s, p)
      BY <2>3 DEF OnSigned
    <3>5. pending[s][b] # None
      BY <2>3 DEF OnSigned
    <3>6. \A r \in pending[s][b].sigs : m.pay \in custody[r]
      BY <3>1, <3>2, <3>5 DEF SignaturesAreReal
    <3> HIDE DEF p, b
    <3>7. \A r \in p.sigs : p.pay \in custody'[r]
      BY <3>3, <3>4, <3>6
    <3> QED
      BY <3>3, <3>4, <3>7 DEF Finishes
  <2>4. ASSUME NEW t \in Readings, NEW b \in Burns, TickWait(s, b, t) \/ TickFails(s, b, t)
        PROVE  Forgets
    BY <1>0, <2>4 DEF TickWait, TickFails
  <2>5. ASSUME NEW t \in Readings, NEW b \in Burns, TickDrop(s, b, t)
        PROVE  Forgets
    BY <2>5 DEF TickDrop, SetPending, Forgets, TypeOK
  <2>6. ASSUME NEW t \in Readings, NEW b \in Burns, NEW coin \in Coins, NEW o \in Outcomes,
               TickPropose(s, b, t, coin, o)
        PROVE  Forgets \/ Finishes(s)
    <3> DEFINE pay == [burn |-> b, by |-> s, at |-> t, coin |-> coin]
               p == [pay |-> pay, sigs |-> {s}]
    <3>1. pay \in Payment
      BY ProposedType
    <3>2. Authorise(s, pay, t, o)
      BY <2>6 DEF TickPropose
    <3>3. CASE o # "recorded"
      BY <1>0, <2>6, <3>3 DEF TickPropose
    <3>4. CASE o = "recorded"
      <4>1. MaybeFinish(s, p)
        BY <2>6, <3>4 DEF TickPropose
      <4> HIDE DEF pay
      <4>2. p \in PendingPegout /\ p.sigs = {s} /\ p.pay = pay
        BY <3>1 DEF PendingPegout
      <4>3. pay \in custody'[s]
        BY <3>2, <3>4 DEF Authorise, TypeOK
      <4> HIDE DEF p
      <4> QED
        BY <4>1, <4>2, <4>3 DEF Finishes
    <3> QED
      BY <3>3, <3>4
  <2>7. ASSUME NEW t \in Readings, NEW pay \in psbts, OnProposalRefused(s, pay, t)
        PROVE  Forgets
    BY <1>0, <2>7 DEF OnProposalRefused
  <2>8. ASSUME NEW t \in Readings, NEW pay \in psbts, NEW o \in Outcomes,
               OnProposal(s, pay, t, o)
        PROVE  Forgets
    BY <1>0, <2>8 DEF OnProposal
  <2> QED
    BY <1>3, <2>1, <2>2, <2>3, <2>4, <2>5, <2>6, <2>7, <2>8 DEF SignerStep
<1> QED
  BY <1>1, <1>2, <1>3 DEF Next

\* The relays: nothing, or one event more, and a 23513 only with its signature.
LEMMA RelaySteps ==
  ASSUME TypeOK, [Next]_vars
  PROVE  /\ psbts' \subseteq Payment
         /\ cosigned' \subseteq [by : Signers, pay : Payment]
         /\ \A m \in cosigned' : m \in cosigned \/ m.pay \in custody'[m.by]
<1>0. ASSUME UNCHANGED <<psbts, cosigned>>
      PROVE  /\ psbts' \subseteq Payment
             /\ cosigned' \subseteq [by : Signers, pay : Payment]
             /\ \A m \in cosigned' : m \in cosigned \/ m.pay \in custody'[m.by]
  BY <1>0 DEF TypeOK
<1>1. CASE UNCHANGED vars
  BY <1>0, <1>1 DEF vars
<1>2. CASE AdvanceClock
  BY <1>0, <1>2 DEF AdvanceClock
<1>3. ASSUME NEW s \in Signers, SignerStep(s)
      PROVE  /\ psbts' \subseteq Payment
             /\ cosigned' \subseteq [by : Signers, pay : Payment]
             /\ \A m \in cosigned' : m \in cosigned \/ m.pay \in custody'[m.by]
  <2>1. CASE Restart(s) \/ \E history \in SUBSET parent : Reconcile(s, history)
    BY <1>0, <2>1 DEF Restart, Reconcile
  <2>2. ASSUME NEW m \in cosigned, OnSigned(s, m)
        PROVE  UNCHANGED <<psbts, cosigned>>
    BY <2>2 DEF OnSigned
  <2>3. ASSUME NEW t \in Readings, NEW b \in Burns,
               TickWait(s, b, t) \/ TickFails(s, b, t) \/ TickDrop(s, b, t)
        PROVE  UNCHANGED <<psbts, cosigned>>
    BY <2>3 DEF TickWait, TickFails, TickDrop
  <2>4. ASSUME NEW t \in Readings, NEW b \in Burns, NEW coin \in Coins, NEW o \in Outcomes,
               TickPropose(s, b, t, coin, o)
        PROVE  psbts' \subseteq Payment /\ cosigned' = cosigned
    BY <2>4, ProposedType DEF TickPropose, TypeOK
  <2>5. ASSUME NEW t \in Readings, NEW pay \in psbts, OnProposalRefused(s, pay, t)
        PROVE  UNCHANGED <<psbts, cosigned>>
    BY <2>5 DEF OnProposalRefused
  <2>6. ASSUME NEW t \in Readings, NEW pay \in psbts, NEW o \in Outcomes,
               OnProposal(s, pay, t, o)
        PROVE  /\ psbts' \subseteq Payment
               /\ cosigned' \subseteq [by : Signers, pay : Payment]
               /\ \A m \in cosigned' : m \in cosigned \/ m.pay \in custody'[m.by]
    <3>1. pay \in Payment /\ psbts' = psbts
      BY <2>6 DEF OnProposal, TypeOK
    <3>2. CASE o # "recorded"
      BY <1>0, <2>6, <3>2 DEF OnProposal
    <3>3. CASE o = "recorded"
      <4>1. cosigned' = cosigned \cup {[by |-> s, pay |-> pay]}
        BY <2>6, <3>3 DEF OnProposal
      <4>2. pay \in custody'[s]
        BY <2>6, <3>3 DEF OnProposal, Authorise, TypeOK
      <4> QED
        BY <3>1, <4>1, <4>2 DEF TypeOK
    <3> QED
      BY <3>2, <3>3
  <2> QED
    BY <1>0, <1>3, <2>1, <2>2, <2>3, <2>4, <2>5, <2>6 DEF SignerStep, TypeOK
<1> QED
  BY <1>1, <1>2, <1>3 DEF Next

\* The clock, and the two memories that only pace the proposals.
LEMMA ClockSteps ==
  ASSUME TypeOK, [Next]_vars
  PROVE  /\ now' \in Nat /\ now <= now'
         /\ backoff' \in [Signers -> [Burns -> Nat \cup {None}]]
         /\ seen' \in [Signers -> [Burns -> Nat \cup {None}]]
<1>1. CASE UNCHANGED vars
  BY <1>1 DEF vars, TypeOK
<1>2. CASE AdvanceClock
  BY <1>2 DEF AdvanceClock, TypeOK
<1>3. ASSUME NEW s \in Signers, SignerStep(s)
      PROVE  /\ now' = now
             /\ backoff' \in [Signers -> [Burns -> Nat \cup {None}]]
             /\ seen' \in [Signers -> [Burns -> Nat \cup {None}]]
  <2>0. ASSUME NEW t \in Readings, NEW b \in Burns, SetSeen(s, b, t)
        PROVE  seen' \in [Signers -> [Burns -> Nat \cup {None}]]
    <3>1. t \in Nat
      BY ReadingsType DEF TypeOK
    <3>2. \A c \in Burns : FirstSeen(s, c, t) \in Nat \cup {None}
      BY <3>1 DEF FirstSeen, TypeOK
    <3> QED
      BY <2>0, <3>2 DEF SetSeen, TypeOK
  <2>1. CASE Restart(s)
    BY <2>1 DEF Restart, Nothing, TypeOK
  <2>2. CASE \E history \in SUBSET parent : Reconcile(s, history)
    BY <2>2 DEF Reconcile, TypeOK
  <2>3. ASSUME NEW m \in cosigned, OnSigned(s, m)
        PROVE  UNCHANGED <<now, backoff, seen>>
    BY <2>3 DEF OnSigned
  <2>4. ASSUME NEW t \in Readings, NEW b \in Burns, TickDrop(s, b, t)
        PROVE  UNCHANGED <<now, backoff, seen>>
    BY <2>4 DEF TickDrop
  <2>5. ASSUME NEW t \in Readings, NEW b \in Burns, TickWait(s, b, t)
        PROVE  UNCHANGED <<now, backoff>> /\ SetSeen(s, b, t)
    BY <2>5 DEF TickWait
  <2>6. ASSUME NEW t \in Readings, NEW b \in Burns, TickFails(s, b, t)
        PROVE  /\ now' = now /\ SetSeen(s, b, t)
               /\ backoff' \in [Signers -> [Burns -> Nat \cup {None}]]
    BY <2>6, ReadingsType DEF TickFails, TypeOK
  <2>7. ASSUME NEW t \in Readings, NEW b \in Burns, NEW coin \in Coins, NEW o \in Outcomes,
               TickPropose(s, b, t, coin, o)
        PROVE  /\ now' = now /\ SetSeen(s, b, t)
               /\ backoff' \in [Signers -> [Burns -> Nat \cup {None}]]
    <3>1. t \in Nat /\ backoff \in [Signers -> [Burns -> Nat \cup {None}]]
      BY ReadingsType DEF TypeOK
    <3>2. \/ backoff' = backoff
          \/ backoff' = [backoff EXCEPT ![s] = [@ EXCEPT ![b] = t]]
      BY <2>7 DEF TickPropose
    <3> QED
      BY <2>7, <3>1, <3>2 DEF TickPropose
  <2>8. ASSUME NEW t \in Readings, NEW pay \in psbts, NEW o \in Outcomes,
               OnProposalRefused(s, pay, t) \/ OnProposal(s, pay, t, o)
        PROVE  UNCHANGED <<now, backoff>> /\ SetSeen(s, pay.burn, t) /\ pay.burn \in Burns
    BY <2>8 DEF OnProposalRefused, OnProposal, TypeOK, Payment
  <2>9. Outcomes # {}
    BY DEF Outcomes
  <2>10. ASSUME NEW t \in Readings, NEW b \in Burns,
                TickWait(s, b, t) \/ TickFails(s, b, t) \/ TickDrop(s, b, t)
                \/ \E coin \in Coins, o \in Outcomes : TickPropose(s, b, t, coin, o)
         PROVE  /\ now' = now
                /\ backoff' \in [Signers -> [Burns -> Nat \cup {None}]]
                /\ seen' \in [Signers -> [Burns -> Nat \cup {None}]]
    BY <2>0, <2>4, <2>5, <2>6, <2>7, <2>10 DEF TypeOK
  <2>11. ASSUME NEW t \in Readings, NEW pay \in psbts,
                OnProposalRefused(s, pay, t)
                \/ \E o \in Outcomes : OnProposal(s, pay, t, o)
         PROVE  /\ now' = now
                /\ backoff' \in [Signers -> [Burns -> Nat \cup {None}]]
                /\ seen' \in [Signers -> [Burns -> Nat \cup {None}]]
    BY <2>0, <2>8, <2>9, <2>11 DEF TypeOK
  <2>12. ASSUME NEW m \in cosigned, OnSigned(s, m)
         PROVE  /\ now' = now
                /\ backoff' \in [Signers -> [Burns -> Nat \cup {None}]]
                /\ seen' \in [Signers -> [Burns -> Nat \cup {None}]]
    BY <2>3, <2>12 DEF TypeOK
  <2> QED
    BY <1>3, <2>1, <2>2, <2>10, <2>11, <2>12 DEF SignerStep
<1> QED
  BY <1>1, <1>2, <1>3 DEF Next, TypeOK

-----------------------------------------------------------------------------
(* Type correctness. *)

LEMMA MaybeFinishType ==
  ASSUME TypeOK, NEW s \in Signers, NEW p \in PendingPegout, MaybeFinish(s, p)
  PROVE  /\ pending' \in [Signers -> [Burns -> PendingPegout \cup {None}]]
         /\ ledger' \in [Signers -> SUBSET Burns]
         /\ parent' \subseteq Payment
<1>1. p.pay \in Payment /\ p.pay.burn \in Burns
  BY DEF PendingPegout, Payment
<1>2. PICK q \in {p, None} : SetPending(s, p.pay.burn, q)
  BY DEF MaybeFinish
<1>3. pending' \in [Signers -> [Burns -> PendingPegout \cup {None}]]
  BY <1>1, <1>2 DEF SetPending, TypeOK
<1>4. ledger' = ledger \/ ledger' = [ledger EXCEPT ![s] = @ \cup {p.pay.burn}]
  BY DEF MaybeFinish
<1>5. ledger' \in [Signers -> SUBSET Burns]
  <2>1. ledger[s] \cup {p.pay.burn} \in SUBSET Burns /\ ledger \in [Signers -> SUBSET Burns]
    BY <1>1 DEF TypeOK
  <2> QED
    BY <1>4, <2>1
<1>6. parent' = parent \/ parent' = parent \cup {p.pay}
  BY DEF MaybeFinish
<1> QED
  BY <1>1, <1>3, <1>5, <1>6 DEF TypeOK

LEMMA AuthoriseAdds ==
  ASSUME TypeOK, NEW s \in Signers, NEW pay \in Payment, NEW t \in Nat, NEW o \in Outcomes,
         Authorise(s, pay, t, o)
  PROVE  /\ \A r \in Signers : r # s => journal'[r] = journal[r]
         /\ \A e \in journal'[s] : e \in journal[s] \/ (e.pay = pay /\ e.at = t)
         /\ journal[s] \subseteq journal'[s]
         /\ \E e \in journal'[s] : e.pay = pay
         /\ journal' \in [Signers -> SUBSET VoteEntry]
         /\ authorised' \in [Signers -> [Burns -> Nat \cup {None}]]
         /\ custody' \in [Signers -> SUBSET Payment]
<1> DEFINE e == Entry(pay, t, "intent")
           f == Entry(pay, t, "signed")
<1>1. /\ e \in VoteEntry /\ e.pay = pay /\ e.at = t
      /\ f \in VoteEntry /\ f.pay = pay /\ f.at = t
  BY DEF Entry, VoteEntry
<1>2. PICK F \in SUBSET {f} : journal' = [journal EXCEPT ![s] = @ \cup {e} \cup F]
  BY DEF Authorise
<1>3. journal'[s] = journal[s] \cup {e} \cup F
  BY <1>2 DEF TypeOK
<1>4. journal' \in [Signers -> SUBSET VoteEntry]
  <2> HIDE DEF e, f
  <2> QED BY <1>1, <1>2 DEF TypeOK
<1>5. \A r \in Signers : r # s => journal'[r] = journal[r]
  BY <1>2 DEF TypeOK
<1>6. /\ authorised' \in [Signers -> [Burns -> Nat \cup {None}]]
      /\ custody' \in [Signers -> SUBSET Payment]
  BY DEF Authorise, TypeOK, Payment
<1> HIDE DEF e, f
<1> QED
  BY <1>1, <1>3, <1>4, <1>5, <1>6

\* Every variable stays in its type, and no record is dated past every clock.
LEMMA TypeStep ==
  ASSUME TypeInv, SignaturesAreReal, [Next]_vars
  PROVE  TypeInv'
<1> USE DEF TypeInv
<1>0. /\ now \in Nat /\ now' \in Nat /\ now <= now' /\ Skew \in Nat
      /\ \A s \in Signers : \A e \in journal[s] : e.at \in Nat
  BY ClockSteps, ConfigAssumption DEF TypeOK, VoteEntry
<1>1. /\ journal' \in [Signers -> SUBSET VoteEntry]
      /\ authorised' \in [Signers -> [Burns -> Nat \cup {None}]]
      /\ custody' \in [Signers -> SUBSET Payment]
      /\ JournalPast'
  <2>1. CASE UNCHANGED <<journal, authorised, custody>>
    BY <1>0, <2>1 DEF TypeOK, JournalPast
  <2>2. ASSUME NEW s \in Signers, Restart(s)
        PROVE  /\ journal' = journal /\ custody' = custody
               /\ authorised' \in [Signers -> [Burns -> Nat \cup {None}]]
    <3>1. \A b \in Burns : LastAuthorised(s, b) \in Nat \cup {None}
      BY LastAuthorisedValue
    <3> QED
      BY <2>2, <3>1 DEF Restart, TypeOK
  <2>3. ASSUME NEW s \in Signers, Authorises(s)
        PROVE  /\ journal' \in [Signers -> SUBSET VoteEntry]
               /\ authorised' \in [Signers -> [Burns -> Nat \cup {None}]]
               /\ custody' \in [Signers -> SUBSET Payment]
               /\ JournalPast'
    <3>1. PICK t \in Readings, o \in Outcomes, pay \in Payment : Authorise(s, pay, t, o)
      BY <2>3 DEF Authorises
    <3>2. t \in Nat /\ t <= now + Skew
      BY <1>0, ReadingsType
    <3>3. /\ \A r \in Signers : r # s => journal'[r] = journal[r]
          /\ \A e \in journal'[s] : e \in journal[s] \/ (e.pay = pay /\ e.at = t)
      BY <3>1, <3>2, AuthoriseAdds
    <3>4. ASSUME NEW r \in Signers, NEW e \in journal'[r]
          PROVE  e.at <= now' + Skew
      <4>1. e \in journal[r] \/ e.at = t
        BY <3>3
      <4>2. e.at \in Nat /\ e.at <= now + Skew
        BY <1>0, <3>2, <4>1 DEF JournalPast
      <4> QED
        BY <1>0, <4>2
    <3> QED
      BY <3>1, <3>2, <3>4, AuthoriseAdds DEF JournalPast
  <2>4. ASSUME NEW s \in Signers, Restart(s)
        PROVE  JournalPast'
    BY <1>0, <2>2, <2>4 DEF JournalPast
  <2> QED
    BY <2>1, <2>2, <2>3, <2>4, JournalSteps DEF TypeOK
<1>2. /\ pending' \in [Signers -> [Burns -> PendingPegout \cup {None}]]
      /\ ledger' \in [Signers -> SUBSET Burns]
      /\ parent' \subseteq Payment
  <2>1. CASE Forgets
    BY <2>1 DEF Forgets, TypeOK
  <2>2. ASSUME NEW s \in Signers, Records(s)
        PROVE  /\ pending' = pending /\ parent' = parent
               /\ ledger' \in [Signers -> SUBSET Burns]
    BY <2>2 DEF Records, TypeOK
  <2>3. ASSUME NEW s \in Signers, Finishes(s)
        PROVE  /\ pending' \in [Signers -> [Burns -> PendingPegout \cup {None}]]
               /\ ledger' \in [Signers -> SUBSET Burns]
               /\ parent' \subseteq Payment
    BY <2>3, MaybeFinishType DEF Finishes
  <2> QED
    BY <2>1, <2>2, <2>3, PaySteps DEF TypeOK
<1>3. /\ psbts' \subseteq Payment
      /\ cosigned' \subseteq [by : Signers, pay : Payment]
  BY RelaySteps
<1>4. /\ backoff' \in [Signers -> [Burns -> Nat \cup {None}]]
      /\ seen' \in [Signers -> [Burns -> Nat \cup {None}]]
  BY ClockSteps
<1> QED
  BY <1>0, <1>1, <1>2, <1>3, <1>4 DEF TypeOK

-----------------------------------------------------------------------------
(* The journals. *)

\* Both paths ask the same memory, and the memory is never behind the journal, so
\* a new record is a window after every other one of its burn.
LEMMA JournalStep ==
  ASSUME TypeInv, JournalInv, [Next]_vars
  PROVE  JournalInv'
<1> USE DEF TypeInv
<1>0. \A s \in Signers : \A e \in journal[s] : /\ e.at \in Nat /\ e.pay \in Payment
                                               /\ e.pay.burn \in Burns
  BY DEF TypeOK, VoteEntry, Payment
<1>1. CASE UNCHANGED <<journal, authorised, custody>>
  BY <1>1 DEF JournalInv, MemoryCoversJournal, BurnVotesRespectWindow, SignaturesAreJournalled
<1>2. ASSUME NEW s \in Signers, Restart(s)
      PROVE  JournalInv'
  <2>1. journal' = journal /\ custody' = custody
    BY <1>2 DEF Restart
  <2>2. /\ \A b \in Burns : authorised'[s][b] = LastAuthorised(s, b)
        /\ \A r \in Signers : r # s => authorised'[r] = authorised[r]
    BY <1>2 DEF Restart, TypeOK
  <2>3. ASSUME ResignAfter # 0, NEW r \in Signers, NEW e \in journal[r]
        PROVE  /\ authorised'[r][e.pay.burn] # None
               /\ e.at <= authorised'[r][e.pay.burn]
    <3>1. CASE r # s
      BY <2>2, <2>3, <3>1 DEF JournalInv, MemoryCoversJournal
    <3>2. CASE r = s
      BY <1>0, <2>2, <3>2, LastAuthorisedValue, NoneAssumption
    <3> QED
      BY <3>1, <3>2
  <2>4. MemoryCoversJournal'
    BY <2>1, <2>3 DEF MemoryCoversJournal
  <2> QED
    BY <2>1, <2>4 DEF JournalInv, BurnVotesRespectWindow, SignaturesAreJournalled
<1>3. ASSUME NEW s \in Signers, Authorises(s)
      PROVE  JournalInv'
  <2>1. PICK t \in Readings, o \in Outcomes, pay \in Payment :
            MaySignBurn(s, pay.burn, t) /\ Authorise(s, pay, t, o)
    BY <1>3 DEF Authorises
  <2>2. t \in Nat /\ pay.burn \in Burns
    BY ReadingsType DEF TypeOK, Payment
  <2>3. /\ \A r \in Signers : r # s => journal'[r] = journal[r]
        /\ \A e \in journal'[s] : e \in journal[s] \/ (e.pay = pay /\ e.at = t)
        /\ journal[s] \subseteq journal'[s]
        /\ \E e \in journal'[s] : e.pay = pay
    BY <2>1, <2>2, AuthoriseAdds
  <2>4. /\ authorised'[s][pay.burn] = t
        /\ \A b \in Burns : b # pay.burn => authorised'[s][b] = authorised[s][b]
        /\ \A r \in Signers : r # s => authorised'[r] = authorised[r]
    BY <2>1, <2>2 DEF Authorise, TypeOK
  <2>5. /\ \A r \in Signers : r # s => custody'[r] = custody[r]
        /\ custody'[s] \subseteq custody[s] \cup {pay}
    BY <2>1 DEF Authorise, TypeOK
  <2>6. authorised[s][pay.burn] \in Nat \cup {None}
    BY <2>2 DEF TypeOK
  \* The records of the same burn are a window older than the new one.
  <2>7. ASSUME NEW e \in journal[s], e.pay.burn = pay.burn, ResignAfter # 0
        PROVE  ResignAfter # Never /\ e.at <= t /\ t - e.at >= ResignAfter
    <3>1. authorised[s][pay.burn] # None /\ e.at <= authorised[s][pay.burn]
      BY <2>7 DEF JournalInv, MemoryCoversJournal
    <3>2. ResignAfter # Never /\ Monus(t, authorised[s][pay.burn]) >= ResignAfter
      BY <2>1, <3>1 DEF MaySignBurn
    <3>3. ResignAfter \in Nat /\ authorised[s][pay.burn] \in Nat /\ e.at \in Nat
      BY <1>0, <2>6, <3>1, <3>2, ConfigAssumption
    <3> QED
      BY <2>2, <2>7, <3>1, <3>2, <3>3 DEF Monus
  <2>8. MemoryCoversJournal'
    <3> SUFFICES ASSUME ResignAfter # 0, NEW r \in Signers, NEW e \in journal'[r]
                 PROVE  /\ authorised'[r][e.pay.burn] # None
                        /\ e.at <= authorised'[r][e.pay.burn]
      BY DEF MemoryCoversJournal
    <3>1. CASE r # s
      BY <2>3, <2>4, <3>1 DEF JournalInv, MemoryCoversJournal
    <3>2. CASE r = s /\ e.pay.burn = pay.burn
      <4>1. e.at <= t
        BY <2>2, <2>3, <2>7, <3>2
      <4> QED
        BY <2>2, <2>4, <3>2, <4>1, NoneAssumption
    <3>3. CASE r = s /\ e.pay.burn # pay.burn
      <4>1. e \in journal[s]
        BY <2>3, <3>3
      <4>2. authorised'[s][e.pay.burn] = authorised[s][e.pay.burn]
        BY <1>0, <2>4, <3>3, <4>1
      <4> QED
        BY <3>3, <4>1, <4>2 DEF JournalInv, MemoryCoversJournal
    <3> QED
      BY <3>1, <3>2, <3>3
  <2>9. BurnVotesRespectWindow'
    <3> SUFFICES ASSUME NEW r \in Signers, NEW e \in journal'[r], NEW f \in journal'[r],
                        e.pay.burn = f.pay.burn, e.pay # f.pay
                 PROVE  /\ ResignAfter # Never
                        /\ e.at - f.at >= ResignAfter \/ f.at - e.at >= ResignAfter
      BY DEF BurnVotesRespectWindow
    <3>1. CASE e \in journal[r] /\ f \in journal[r]
      BY <3>1 DEF JournalInv, BurnVotesRespectWindow
    <3>2. CASE e \notin journal[r] \/ f \notin journal[r]
      <4>1. r = s
        BY <2>3, <3>2
      <4>2. /\ e \in journal[s] \/ (e.pay = pay /\ e.at = t)
            /\ f \in journal[s] \/ (f.pay = pay /\ f.at = t)
        BY <2>3, <4>1
      <4>3. CASE ResignAfter = 0
        <5>1. e.at \in Nat /\ f.at \in Nat
          BY <1>0, <2>2, <4>2
        <5> QED
          BY <4>3, <5>1, ConfigAssumption
      <4>4. CASE ResignAfter # 0
        BY <2>7, <3>2, <4>1, <4>2, <4>4
      <4> QED
        BY <4>3, <4>4
    <3> QED
      BY <3>1, <3>2
  <2>10. SignaturesAreJournalled'
    <3> SUFFICES ASSUME NEW r \in Signers, NEW q \in custody'[r]
                 PROVE  \E e \in journal'[r] : e.pay = q
      BY DEF SignaturesAreJournalled
    <3>1. CASE r # s
      BY <2>3, <2>5, <3>1 DEF JournalInv, SignaturesAreJournalled
    <3>2. CASE r = s
      BY <2>3, <2>5, <3>2 DEF JournalInv, SignaturesAreJournalled
    <3> QED
      BY <3>1, <3>2
  <2> QED
    BY <2>8, <2>9, <2>10 DEF JournalInv
<1> QED
  BY <1>1, <1>2, <1>3, JournalSteps

-----------------------------------------------------------------------------
(* The payments. *)

\* A signature is never unmade.
LEMMA CustodyGrows ==
  ASSUME TypeOK, [Next]_vars
  PROVE  \A r \in Signers : custody[r] \subseteq custody'[r]
<1>1. ASSUME NEW s \in Signers, Restart(s)
      PROVE  \A r \in Signers : custody[r] \subseteq custody'[r]
  BY <1>1 DEF Restart
<1>2. ASSUME NEW s \in Signers, Authorises(s)
      PROVE  \A r \in Signers : custody[r] \subseteq custody'[r]
  BY <1>2 DEF Authorises, Authorise, TypeOK
<1> QED
  BY <1>1, <1>2, JournalSteps

LEMMA SignerSets ==
  /\ IsFiniteSet(Signers) /\ Cardinality(Signers) = N
  /\ \A Q \in SUBSET Signers : IsFiniteSet(Q) /\ Cardinality(Q) \in Nat
<1>1. N \in Nat /\ N > 0 /\ N - 1 \in Int /\ 0 \in Int
  BY FederationAssumption
<1>2. IsFiniteSet(Signers) /\ Cardinality(Signers) = N
  <2>1. /\ IsFiniteSet(0 .. N - 1)
        /\ Cardinality(0 .. N - 1) = IF 0 > N - 1 THEN 0 ELSE N - 1 - 0 + 1
    BY <1>1, FS_Interval
  <2> QED
    BY <1>1, <2>1 DEF Signers
<1>3. \A Q \in SUBSET Signers : IsFiniteSet(Q) /\ Cardinality(Q) \in Nat
  BY <1>2, FS_Subset, FS_CardinalityType
<1> QED
  BY <1>2, <1>3

\* A set of signers that holds a quorum is one.
LEMMA LargerQuorum ==
  ASSUME NEW P \in SUBSET Signers, NEW Q \in SUBSET Signers, P \subseteq Q,
         Cardinality(P) >= K
  PROVE  Cardinality(Q) >= K
<1>1. IsFiniteSet(Q) /\ Cardinality(P) \in Nat /\ Cardinality(Q) \in Nat
  BY SignerSets
<1>2. Cardinality(P) <= Cardinality(Q)
  BY <1>1, FS_Subset
<1> QED
  BY <1>1, <1>2, FederationAssumption

\* Only a payment with K real signatures reaches the parent.
LEMMA PayStep ==
  ASSUME TypeInv, PayInv, [Next]_vars
  PROVE  PayInv'
<1> USE DEF TypeInv
<1>1. \A r \in Signers : custody[r] \subseteq custody'[r]
  BY CustodyGrows
<1>2. \A m \in cosigned' : m.pay \in custody'[m.by]
  <2>1. \A m \in cosigned : m.by \in Signers /\ m.pay \in custody[m.by]
    BY DEF PayInv, SignaturesAreReal, TypeOK
  <2> QED
    BY <1>1, <2>1, RelaySteps
<1>3. ASSUME NEW s \in Signers, NEW b \in Burns, pending[s][b] # None
      PROVE  \A r \in pending[s][b].sigs : pending[s][b].pay \in custody'[r]
  <2>1. pending[s][b].sigs \subseteq Signers
    BY <1>3 DEF TypeOK, PendingPegout
  <2> QED
    BY <1>1, <1>3, <2>1 DEF PayInv, SignaturesAreReal
<1>4. ASSUME NEW pay \in parent
      PROVE  Cardinality({r \in Signers : pay \in custody'[r]}) >= K
  <2> DEFINE P == {r \in Signers : pay \in custody[r]}
             Q == {r \in Signers : pay \in custody'[r]}
  <2>1. P \in SUBSET Signers /\ Q \in SUBSET Signers /\ P \subseteq Q
    BY <1>1
  <2>2. Cardinality(P) >= K
    BY DEF PayInv, PaymentsAreSigned
  <2> HIDE DEF P, Q
  <2>3. Cardinality(Q) >= K
    BY <2>1, <2>2, LargerQuorum
  <2> QED
    BY <2>3 DEF Q
<1>5. CASE \/ Forgets \/ \E s \in Signers : Records(s)
  <2>1. /\ parent' = parent
        /\ \A r \in Signers, b \in Burns : pending'[r][b] \in {pending[r][b], None}
    BY <1>5 DEF Forgets, Records
  <2> QED
    BY <1>2, <1>3, <1>4, <2>1 DEF PayInv, SignaturesAreReal, PaymentsAreSigned
<1>6. ASSUME NEW s \in Signers, Finishes(s)
      PROVE  PayInv'
  <2>1. PICK p \in PendingPegout : (\A r \in p.sigs : p.pay \in custody'[r]) /\ MaybeFinish(s, p)
    BY <1>6 DEF Finishes
  <2>2. p.pay.burn \in Burns /\ p.sigs \in SUBSET Signers
    BY DEF PendingPegout, Payment
  <2>3. PICK q \in {p, None} : SetPending(s, p.pay.burn, q)
    BY <2>1 DEF MaybeFinish
  <2>4. \A r \in Signers, b \in Burns : pending'[r][b] \in {pending[r][b], p, None}
    BY <2>2, <2>3 DEF SetPending, TypeOK
  <2>5. SignaturesAreReal'
    BY <1>2, <1>3, <2>1, <2>4 DEF SignaturesAreReal
  <2>6. parent' = parent \/ (parent' = parent \cup {p.pay} /\ Cardinality(p.sigs) >= K)
    BY <2>1 DEF MaybeFinish
  <2>7. ASSUME Cardinality(p.sigs) >= K
        PROVE  Cardinality({r \in Signers : p.pay \in custody'[r]}) >= K
    <3> DEFINE Q == {r \in Signers : p.pay \in custody'[r]}
    <3>1. Q \in SUBSET Signers /\ p.sigs \subseteq Q
      BY <2>1, <2>2
    <3> HIDE DEF Q
    <3>2. Cardinality(Q) >= K
      BY <2>2, <2>7, <3>1, LargerQuorum
    <3> QED
      BY <3>2 DEF Q
  <2>8. PaymentsAreSigned'
    <3> SUFFICES ASSUME NEW pay \in parent'
                 PROVE  Cardinality({r \in Signers : pay \in custody'[r]}) >= K
      BY DEF PaymentsAreSigned
    <3>1. CASE pay \in parent
      BY <1>4, <3>1
    <3>2. CASE pay \notin parent
      <4>1. pay = p.pay /\ Cardinality(p.sigs) >= K
        BY <2>6, <3>2
      <4> QED
        BY <2>7, <4>1
    <3> QED
      BY <3>1, <3>2
  <2> QED
    BY <2>5, <2>8 DEF PayInv
<1> QED
  BY <1>5, <1>6, PaySteps DEF PayInv

-----------------------------------------------------------------------------
(* The theorems. *)

LEMMA Initially == Init => IInv
<1> SUFFICES ASSUME Init PROVE IInv
  OBVIOUS
<1>1. TypeInv
  BY DEF Init, TypeInv, TypeOK, JournalPast, Nothing
<1>2. JournalInv
  BY DEF Init, JournalInv, MemoryCoversJournal, BurnVotesRespectWindow, SignaturesAreJournalled
<1>3. PayInv
  BY DEF Init, PayInv, SignaturesAreReal, PaymentsAreSigned, Nothing
<1> QED
  BY <1>1, <1>2, <1>3 DEF IInv

\* The inductive invariant of the peg-out round.
THEOREM Invariance == Spec => []IInv
<1>1. Init => IInv
  BY Initially
<1>2. IInv /\ [Next]_vars => IInv'
  BY TypeStep, JournalStep, PayStep DEF IInv, PayInv
<1> QED
  BY <1>1, <1>2, PTL DEF Spec

\* Every variable keeps its type.
THEOREM TypeCorrect == Spec => []TypeOK
  BY Invariance, PTL DEF IInv, TypeInv

\* No signer authorises two payments of one burn within the re-signing window, on
\* either path and across restarts, whatever its clock does within its skew.
THEOREM BurnVotesAlwaysRespectWindow == Spec => []BurnVotesRespectWindow
  BY Invariance, PTL DEF IInv, JournalInv

\* Every payment out of the peg has a quorum of journalled authorisations.
THEOREM PaymentsAlwaysHaveQuorum == Spec => []PaymentsHaveQuorum
<1>1. IInv => PaymentsHaveQuorum
  <2> SUFFICES ASSUME IInv, NEW pay \in parent
               PROVE  Cardinality({r \in Signers : \E e \in journal[r] : e.pay = pay}) >= K
    BY DEF PaymentsHaveQuorum
  <2> DEFINE P == {r \in Signers : pay \in custody[r]}
             Q == {r \in Signers : \E e \in journal[r] : e.pay = pay}
  <2>1. Cardinality(P) >= K
    BY DEF IInv, PayInv, PaymentsAreSigned
  <2>2. P \in SUBSET Signers /\ Q \in SUBSET Signers /\ P \subseteq Q
    BY DEF IInv, JournalInv, SignaturesAreJournalled
  <2> HIDE DEF P, Q
  <2>3. Cardinality(Q) >= K
    BY <2>1, <2>2, LargerQuorum
  <2> QED
    BY <2>3 DEF Q
<1> QED
  BY <1>1, Invariance, PTL

\* Any two quorums of a federation with 2K > N share a signer.
LEMMA QuorumsMeet ==
  ASSUME 2 * K > N, NEW P \in SUBSET Signers, NEW Q \in SUBSET Signers,
         Cardinality(P) >= K, Cardinality(Q) >= K
  PROVE  \E r \in Signers : r \in P /\ r \in Q
<1>1. /\ IsFiniteSet(Signers) /\ Cardinality(Signers) = N
      /\ IsFiniteSet(P) /\ Cardinality(P) \in Nat
      /\ IsFiniteSet(Q) /\ Cardinality(Q) \in Nat
  BY SignerSets
<1>2. Cardinality(P \cup Q) = Cardinality(P) + Cardinality(Q) - Cardinality(P \cap Q)
  BY <1>1, FS_Union
<1>3. P \cup Q \in SUBSET Signers
  OBVIOUS
<1>4. Cardinality(P \cup Q) <= N
  BY <1>1, <1>3, FS_Subset
<1>5. Cardinality(P \cap Q) # 0
  BY <1>1, <1>2, <1>4, FederationAssumption
<1>6. P \cap Q # {}
  BY <1>5, FS_EmptySet
<1> QED
  BY <1>6

\* Under the strict rule, with 2K > N, no burn is ever paid twice out of the peg:
\* a signer in both quorums would have authorised the burn twice.
THEOREM StrictPaidOnce ==
  ASSUME ResignAfter = Never, 2 * K > N
  PROVE  Spec => []PaidOnce
<1>1. IInv => PaidOnce
  <2> SUFFICES ASSUME IInv, NEW p \in parent, NEW q \in parent, p.burn = q.burn
               PROVE  p = q
    BY DEF PaidOnce
  <2> DEFINE P == {r \in Signers : p \in custody[r]}
             Q == {r \in Signers : q \in custody[r]}
  <2>1. Cardinality(P) >= K /\ Cardinality(Q) >= K
    BY DEF IInv, PayInv, PaymentsAreSigned
  <2>2. P \in SUBSET Signers /\ Q \in SUBSET Signers
    OBVIOUS
  <2>3. \E r \in Signers : r \in P /\ r \in Q
    <3> HIDE DEF P, Q
    <3> QED BY <2>1, <2>2, QuorumsMeet
  <2>4. PICK r \in Signers : p \in custody[r] /\ q \in custody[r]
    BY <2>3
  <2>5. PICK e \in journal[r] : e.pay = p
    BY <2>4 DEF IInv, JournalInv, SignaturesAreJournalled
  <2>6. PICK f \in journal[r] : f.pay = q
    BY <2>4 DEF IInv, JournalInv, SignaturesAreJournalled
  <2> QED
    BY <2>5, <2>6 DEF IInv, JournalInv, BurnVotesRespectWindow
<1> QED
  BY <1>1, Invariance, PTL

\* Whatever the burns and their transactions, a burn any signer has recorded as
\* paid has a payment on the parent, its own or one of another burn of the same
\* sidechain transaction (maybe_finish, mark_paid, reconcile).
THEOREM RecordedAlwaysWasPaid == Spec => []RecordedWasPaid
<1>1. Init => RecordedWasPaid
  BY DEF Init, RecordedWasPaid
<1>2. IInv /\ RecordedWasPaid /\ [Next]_vars => RecordedWasPaid'
  <2> SUFFICES ASSUME IInv, RecordedWasPaid, [Next]_vars
               PROVE  RecordedWasPaid'
    OBVIOUS
  <2>0. TypeOK /\ SignaturesAreReal
    BY DEF IInv, TypeInv, PayInv
  <2>1. CASE Forgets
    BY <2>1 DEF Forgets, RecordedWasPaid
  <2>2. ASSUME NEW s \in Signers, Records(s)
        PROVE  RecordedWasPaid'
    <3>0. PICK history \in SUBSET parent :
            ledger' = [ledger EXCEPT ![s] = @ \cup {b \in Burns : PaidIn(history, b)}]
      BY <2>2 DEF Records
    <3>1. \A r \in Signers : \A b \in ledger'[r] : b \in ledger[r] \/ (b \in Burns /\ PaidIn(history, b))
      BY <2>0, <3>0 DEF TypeOK
    <3>2. ASSUME NEW b \in Burns, PaidIn(history, b)
          PROVE  \E pay \in parent :
                    \/ pay.burn = b
                    \/ TxOf[pay.burn] = TxOf[b] /\ \E c \in Burns \ {b} : TxOf[c] = TxOf[b]
      <4>1. PICK pay \in parent : TxOf[pay.burn] = TxOf[b]
        BY <3>2 DEF PaidIn
      <4>2. pay.burn \in Burns
        BY <2>0 DEF TypeOK, Payment
      <4> QED
        BY <4>1, <4>2
    <3> QED
      BY <2>2, <3>1, <3>2 DEF Records, RecordedWasPaid
  <2>3. ASSUME NEW s \in Signers, Finishes(s)
        PROVE  RecordedWasPaid'
    <3>1. PICK p \in PendingPegout : MaybeFinish(s, p)
      BY <2>3 DEF Finishes
    <3>2. \/ ledger' = ledger /\ parent \subseteq parent'
          \/ /\ ledger' = [ledger EXCEPT ![s] = @ \cup {p.pay.burn}]
             /\ parent' = parent \cup {p.pay}
      BY <3>1 DEF MaybeFinish
    <3>3. CASE ledger' = ledger /\ parent \subseteq parent'
      BY <3>3 DEF RecordedWasPaid
    <3>4. CASE /\ ledger' = [ledger EXCEPT ![s] = @ \cup {p.pay.burn}]
               /\ parent' = parent \cup {p.pay}
      <4>1. \A r \in Signers : \A b \in ledger'[r] : b \in ledger[r] \/ b = p.pay.burn
        BY <2>0, <3>4 DEF TypeOK
      <4> QED
        BY <3>4, <4>1 DEF RecordedWasPaid
    <3> QED
      BY <3>2, <3>3, <3>4
  <2> QED
    BY <2>0, <2>1, <2>2, <2>3, PaySteps
<1> QED
  BY <1>1, <1>2, Invariance, PTL DEF Spec
=============================================================================
