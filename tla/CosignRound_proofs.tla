------------------------- MODULE CosignRound_proofs -------------------------
(***************************************************************************)
(* Proofs about the co-signing round, for any number of signers, any       *)
(* threshold and any settings.                                             *)
(***************************************************************************)
EXTENDS CosignRound, TLAPS, FiniteSetTheorems, SequenceTheorems,
        WellFoundedInduction

LEMMA MonusType == \A a, b \in Nat : Monus(a, b) \in Nat
  BY DEF Monus

LEMMA ReadingsType == now \in Nat => Readings \subseteq Nat
  BY ConfigAssumption DEF Readings, Monus

LEMMA GenesisType == Genesis \in BlockHash
  BY FederationAssumption DEF Genesis, BlockHash, Signers

LEMMA HashType == \A b \in SealedBlock : HashOf(b) \in BlockHash
  BY DEF SealedBlock, Template, HashOf, BlockHash, Heights

\* The hash of a chain's tip is a block hash.
LEMMA TipType ==
  ASSUME TypeOK, NEW s \in Signers
  PROVE  Tip(s) \in BlockHash /\ Height(s) \in Nat
<1>1. chain[s] \in Seq(SealedBlock) /\ Len(chain[s]) \in Nat
  BY DEF TypeOK
<1>2. CASE chain[s] = <<>>
  BY <1>1, <1>2, GenesisType DEF Tip, Height
<1>3. CASE chain[s] # <<>>
  <2>1. Len(chain[s]) \in 1 .. Len(chain[s])
    BY <1>1, <1>3
  <2>2. chain[s][Len(chain[s])] \in SealedBlock
    BY <1>1, <2>1
  <2> QED
    BY <1>1, <1>3, <2>2, HashType DEF Tip, Height
<1> QED
  BY <1>2, <1>3

\* The template a signer builds on its tip is a template of the next height.
LEMMA NextTemplateType ==
  ASSUME TypeOK, NEW s \in Signers, NEW t \in Nat, Height(s) < MaxHeight
  PROVE  NextTemplate(s, t) \in Template
<1>1. Tip(s) \in BlockHash /\ Height(s) \in Nat /\ Height(s) + 1 \in Heights
  BY TipType, BoundAssumption DEF Heights
<1>2. Tip(s).time \in Nat
  BY <1>1 DEF BlockHash
<1>3. Larger(t, Tip(s).time + 1) \in Nat
  BY <1>2 DEF Larger
<1> QED
  BY <1>1, <1>3 DEF NextTemplate, Template

-----------------------------------------------------------------------------
(* Type correctness. *)

LEMMA EntryType ==
  ASSUME NEW tmpl \in Template, NEW role \in {"proposed", "signed"}, NEW t \in Nat,
         NEW stage \in {"intent", "signed"}
  PROVE  Entry(tmpl, role, t, stage) \in VoteEntry
  BY DEF Entry, VoteEntry, Template

LEMMA AuthoriseType ==
  ASSUME TypeOK, NEW s \in Signers, NEW tmpl \in Template,
         NEW role \in {"proposed", "signed"}, NEW t \in Nat, NEW o \in Outcomes,
         Authorise(s, tmpl, role, t, o)
  PROVE  /\ journal' \in [Signers -> Seq(VoteEntry)]
         /\ signed' \in [Signers -> [Heights -> Nat \cup {None}]]
         /\ custody' \in [Signers -> SUBSET Template]
<1>1. /\ Entry(tmpl, role, t, "intent") \in VoteEntry
      /\ Entry(tmpl, role, t, "signed") \in VoteEntry
  BY EntryType
<1>2. journal[s] \in Seq(VoteEntry)
  BY DEF TypeOK
<1>3. Append(journal[s], Entry(tmpl, role, t, "intent")) \in Seq(VoteEntry)
  BY <1>1, <1>2
<1>4. Append(Append(journal[s], Entry(tmpl, role, t, "intent")),
             Entry(tmpl, role, t, "signed")) \in Seq(VoteEntry)
  BY <1>1, <1>3
<1>5. journal' \in [Signers -> Seq(VoteEntry)]
  BY <1>3, <1>4 DEF TypeOK, Authorise
<1>6. signed' \in [Signers -> [Heights -> Nat \cup {None}]]
  BY DEF TypeOK, Authorise, Template
<1>7. custody' \in [Signers -> SUBSET Template]
  BY DEF TypeOK, Authorise
<1> QED
  BY <1>5, <1>6, <1>7

LEMMA MaybeSealType ==
  ASSUME TypeOK, NEW s \in Signers, NEW p \in Pending, NEW due \in Nat \cup {None},
         NEW t \in Nat, MaybeSeal(s, p, due, t)
  PROVE  /\ pending' \in [Signers -> Pending \cup {None}]
         /\ dueSince' \in [Signers -> Nat \cup {None}]
         /\ chain' \in [Signers -> Seq(SealedBlock)]
         /\ sealed' \subseteq SealedBlock
         /\ published' \subseteq sealed' /\ faults' \in Nat
<1> DEFINE b == [tmpl |-> p.tmpl, signers |-> p.sigs]
<1>1. b \in SealedBlock
  BY DEF Pending, SealedBlock
<1>2. chain[s] \in Seq(SealedBlock)
  BY DEF TypeOK
<1>3. Append(chain[s], b) \in Seq(SealedBlock)
  BY <1>1, <1>2
<1>4. chain' \in [Signers -> Seq(SealedBlock)]
  BY <1>3 DEF TypeOK, MaybeSeal
<1>5. pending' \in [Signers -> Pending \cup {None}]
  BY DEF TypeOK, MaybeSeal
<1>6. dueSince' \in [Signers -> Nat \cup {None}]
  BY DEF TypeOK, MaybeSeal
<1>7. sealed' \subseteq SealedBlock
  BY <1>1 DEF TypeOK, MaybeSeal
<1>8. published' \subseteq sealed' /\ faults' \in Nat
  BY DEF TypeOK, MaybeSeal, Fault
<1> QED
  BY <1>4, <1>5, <1>6, <1>7, <1>8

\* A restart leaves a beginning of one chain, and the other chains alone.
LEMMA RestartCuts ==
  ASSUME TypeOK, NEW s \in Signers, Restart(s)
  PROVE  /\ \A r \in Signers : r # s => chain'[r] = chain[r]
         /\ \E n \in 0 .. Height(s) :
               /\ chain' = [chain EXCEPT ![s] = SubSeq(@, 1, n)]
               /\ chain'[s] = SubSeq(chain[s], 1, n)
               /\ chain'[s] \in Seq(SealedBlock) /\ Len(chain'[s]) = n
               /\ \A i \in 1 .. n : i \in DOMAIN chain[s] /\ chain'[s][i] = chain[s][i]
         /\ chain' \in [Signers -> Seq(SealedBlock)] /\ faults' \in Nat
<1> DEFINE c == chain[s]
<1>1. c \in Seq(SealedBlock) /\ Len(c) \in Nat /\ Height(s) = Len(c)
      /\ chain = [r \in Signers |-> chain[r]] /\ faults \in Nat
  BY DEF TypeOK, Height
<1>2. c = SubSeq(c, 1, Len(c))
  <2> HIDE DEF c
  <2> QED BY <1>1, SubSeqFull
<1>3. chain = [chain EXCEPT ![s] = SubSeq(@, 1, Len(c))]
  BY <1>1, <1>2
<1>5. PICK n \in 0 .. Len(c) : chain' = [chain EXCEPT ![s] = SubSeq(@, 1, n)]
  BY <1>1, <1>3 DEF Restart
<1>6. chain'[s] = SubSeq(c, 1, n) /\ \A r \in Signers : r # s => chain'[r] = chain[r]
  BY <1>1, <1>5
<1>7. /\ SubSeq(c, 1, n) \in Seq(SealedBlock) /\ Len(SubSeq(c, 1, n)) = n
      /\ \A i \in 1 .. n : i \in DOMAIN c /\ SubSeq(c, 1, n)[i] = c[i]
  <2> HIDE DEF c
  <2>1. n \in Nat /\ n <= Len(c)
    BY <1>1
  <2> QED BY <1>1, <2>1
<1>8. chain' \in [Signers -> Seq(SealedBlock)]
  BY <1>1, <1>5, <1>7 DEF TypeOK
<1>9. faults' \in Nat
  BY <1>1 DEF Restart, Fault
<1> QED
  BY <1>1, <1>5, <1>6, <1>7, <1>8, <1>9

\* A non-empty set of indices of a sequence has a last one.
LEMMA LastIndex ==
  ASSUME NEW n \in Nat, NEW I, I \subseteq 1 .. n, I # {}
  PROVE  \E m \in I : \A k \in I : k <= m
<1> DEFINE R == OpToRel(<, Nat)
           D == {n - i : i \in I}
<1>1. IsWellFoundedOn(R, Nat)
  BY NatLessThanWellFounded
<1>0. \A i \in I : n - i \in Nat /\ i \in Nat
  OBVIOUS
<1>2. D \subseteq Nat /\ D # {}
  <2>1. D # {}
    OBVIOUS
  <2> QED BY <1>0, <2>1
<1>3. \E x \in D : \A y \in D : ~ (<<y, x>> \in R)
  <2> HIDE DEF D, R
  <2> QED BY <1>1, <1>2, WFMin
<1>4. PICK x \in D : \A y \in D : ~ (<<y, x>> \in R)
  BY <1>3
<1>5. \A y \in Nat : y < x => <<y, x>> \in R
  BY <1>2, <1>4 DEF OpToRel
<1>6. \A y \in D : ~ (y < x)
  BY <1>2, <1>4, <1>5
<1>7. PICK m \in I : x = n - m
  BY <1>4
<1>8. \A k \in I : k <= m
  <2> SUFFICES ASSUME NEW k \in I PROVE k <= m
    OBVIOUS
  <2>1. n - k \in D
    OBVIOUS
  <2>2. ~ (n - k < n - m)
    BY <1>6, <1>7, <2>1
  <2> QED
    BY <1>0, <2>2
<1> QED
  BY <1>8

\* What a restart loads for a height: nothing when the journal has no record of
\* it, and otherwise the time of the last record.
LEMMA LastAtValue ==
  ASSUME NEW j \in Seq(VoteEntry), NEW h
  PROVE  \/ /\ \A i \in DOMAIN j : j[i].height # h
            /\ LastAt(j, h) = None
         \/ \E i \in DOMAIN j : /\ j[i].height = h
                                /\ LastAt(j, h) = j[i].at
                                /\ \A k \in DOMAIN j : j[k].height = h => k <= i
<1> DEFINE at == {i \in DOMAIN j : j[i].height = h}
<1>1. CASE at = {}
  BY <1>1 DEF LastAt
<1>2. CASE at # {}
  <2>1. Len(j) \in Nat /\ at \subseteq 1 .. Len(j)
    OBVIOUS
  <2>2. \E m \in at : \A k \in at : k <= m
    BY <1>2, <2>1, LastIndex
  <2> DEFINE m == CHOOSE i \in at : \A k \in at : k <= i
  <2>3. m \in at /\ \A k \in at : k <= m
    BY <2>2
  <2>4. LastAt(j, h) = j[m].at
    BY <1>2 DEF LastAt
  <2>5. m \in DOMAIN j /\ j[m].height = h
    BY <2>3
  <2>6. \A k \in DOMAIN j : j[k].height = h => k <= m
    BY <2>3
  <2> HIDE DEF m
  <2> QED
    BY <2>4, <2>5, <2>6
<1> QED
  BY <1>1, <1>2

LEMMA LastAtType ==
  ASSUME NEW j \in Seq(VoteEntry), NEW h
  PROVE  LastAt(j, h) \in Nat \cup {None}
<1>0. \A i \in DOMAIN j : j[i] \in VoteEntry
  OBVIOUS
<1>1. \A i \in DOMAIN j : j[i].at \in Nat
  BY <1>0 DEF VoteEntry
<1>2. LastAt(j, h) = None \/ \E i \in DOMAIN j : LastAt(j, h) = j[i].at
  BY LastAtValue
<1> QED
  BY <1>1, <1>2

\* Every variable stays in its type, for any federation and any settings; the
\* bounds of the model are not needed.
LEMMA TypeStep ==
  ASSUME TypeOK, [Next]_vars
  PROVE  TypeOK'
<1>1. CASE UNCHANGED vars
  BY <1>1 DEF TypeOK, vars
<1>2. CASE AdvanceClock
  BY <1>2 DEF TypeOK, AdvanceClock
<1>3. ASSUME NEW s \in Signers, SignerStep(s)
      PROVE  TypeOK'
  <2>1. CASE TickNotDue(s)
    BY <2>1 DEF TypeOK, TickNotDue
  <2>2. CASE Restart(s)
    <3>1. \A h \in Heights : LastAt(journal[s], h) \in Nat \cup {None}
      BY LastAtType DEF TypeOK
    <3> QED
      BY <2>2, <3>1, RestartCuts DEF TypeOK, Restart
  <2>3. ASSUME NEW t \in Readings, TickDrop(s, t)
        PROVE  TypeOK'
    BY <2>3 DEF TypeOK, TickDrop
  <2>4. ASSUME NEW t \in Readings
        PROVE  t \in Nat /\ Due(s, t) \in Nat
    BY ReadingsType DEF TypeOK, Due
  <2>5. ASSUME NEW t \in Readings, TickDue(s, t)
        PROVE  TypeOK'
    BY <2>4, <2>5 DEF TypeOK, TickDue
  <2>6. ASSUME NEW t \in Readings, NEW m \in partials, OnPartial(s, m, t)
        PROVE  TypeOK'
    <3> DEFINE p == [pending[s] EXCEPT !.sigs = @ \cup {m.by}]
    <3>1. pending[s] \in Pending /\ m.by \in Signers
      BY <2>6 DEF TypeOK, OnPartial
    <3>2. p \in Pending
      BY <3>1 DEF Pending
    <3>3. dueSince[s] \in Nat \cup {None} /\ t \in Nat
      BY <2>4 DEF TypeOK
    <3>4. MaybeSeal(s, p, dueSince[s], t)
      BY <2>6 DEF OnPartial
    <3>5. /\ pending' \in [Signers -> Pending \cup {None}]
          /\ dueSince' \in [Signers -> Nat \cup {None}]
          /\ chain' \in [Signers -> Seq(SealedBlock)]
          /\ sealed' \subseteq SealedBlock
          /\ published' \subseteq sealed' /\ faults' \in Nat
      <4> HIDE DEF p
      <4> QED BY <3>2, <3>3, <3>4, MaybeSealType
    <3> QED
      BY <2>6, <3>5 DEF TypeOK, OnPartial
  <2>7. ASSUME NEW t \in Readings, NEW b \in published, OnSealed(s, b, t)
        PROVE  TypeOK'
    <3>1. b \in SealedBlock /\ chain[s] \in Seq(SealedBlock)
      BY DEF TypeOK
    <3>2. Append(chain[s], b) \in Seq(SealedBlock)
      BY <3>1
    <3> QED
      <4>0. chain' = [chain EXCEPT ![s] = Append(@, b)]
        BY <2>7 DEF OnSealed
      <4>1. chain' \in [Signers -> Seq(SealedBlock)]
        BY <3>2, <4>0 DEF TypeOK
      <4>4. dueSince' \in [Signers -> Nat \cup {None}]
        BY <2>7 DEF TypeOK, OnSealed
      <4>5. faults' \in Nat
        BY <2>7 DEF TypeOK, OnSealed, Fault
      <4>2. pending' \in [Signers -> Pending \cup {None}]
        BY <2>7 DEF TypeOK, OnSealed
      <4>3. UNCHANGED <<now, journal, signed, custody, proposals, partials, sealed, published>>
        BY <2>7 DEF OnSealed
      <4> QED
        BY <4>1, <4>2, <4>3, <4>4, <4>5 DEF TypeOK
  <2>8. ASSUME NEW t \in Readings, NEW o \in Outcomes, TickPropose(s, t, o)
        PROVE  TypeOK'
    <3> DEFINE tmpl == NextTemplate(s, t)
               p == [tmpl |-> tmpl, sigs |-> {s}, at |-> t]
    <3>1. tmpl \in Template
      BY <2>4, <2>8, NextTemplateType DEF TickPropose
    <3>3. Authorise(s, tmpl, "proposed", t, o)
      BY <2>8 DEF TickPropose
    <3>4. p \in Pending /\ Due(s, t) \in Nat \cup {None} /\ t \in Nat
      BY <2>4, <3>1 DEF Pending
    <3>5. /\ journal' \in [Signers -> Seq(VoteEntry)]
          /\ signed' \in [Signers -> [Heights -> Nat \cup {None}]]
          /\ custody' \in [Signers -> SUBSET Template]
      <4> HIDE DEF tmpl
      <4> QED BY <3>1, <3>3, <3>4, AuthoriseType
    <3>6. CASE o = "recorded"
      <4>1. MaybeSeal(s, p, Due(s, t), t) /\ proposals' = proposals \cup {tmpl}
        BY <2>8, <3>6 DEF TickPropose
      <4>2. /\ pending' \in [Signers -> Pending \cup {None}]
            /\ dueSince' \in [Signers -> Nat \cup {None}]
            /\ chain' \in [Signers -> Seq(SealedBlock)]
            /\ sealed' \subseteq SealedBlock
            /\ published' \subseteq sealed' /\ faults' \in Nat
        <5> HIDE DEF p
        <5> QED BY <3>4, <4>1, MaybeSealType
      <4> QED
        BY <2>8, <3>1, <3>5, <4>1, <4>2 DEF TypeOK, TickPropose
    <3>7. CASE o # "recorded"
      BY <2>8, <3>4, <3>5, <3>7 DEF TypeOK, TickPropose
    <3> QED
      BY <3>6, <3>7
  <2>9. ASSUME NEW t \in Readings, NEW o \in Outcomes, NEW tmpl \in proposals,
               OnProposal(s, tmpl, t, o)
        PROVE  TypeOK'
    <3>1. tmpl \in Template /\ t \in Nat
      BY <2>4 DEF TypeOK
    <3>3. Authorise(s, tmpl, "signed", t, o)
      BY <2>9 DEF OnProposal
    <3>4. /\ journal' \in [Signers -> Seq(VoteEntry)]
          /\ signed' \in [Signers -> [Heights -> Nat \cup {None}]]
          /\ custody' \in [Signers -> SUBSET Template]
      BY <3>1, <3>3, AuthoriseType
    <3> QED
      BY <2>9, <3>1, <3>4 DEF TypeOK, OnProposal
  <2> QED
    BY <1>3, <2>1, <2>2, <2>3, <2>5, <2>6, <2>7, <2>8, <2>9 DEF SignerStep
<1> QED
  BY <1>1, <1>2, <1>3 DEF Next

-----------------------------------------------------------------------------
(* The journal. *)

\* What every step does to the journal, the memory of it and the signatures:
\* nothing, a reload, or one authorisation that Round::may_resign allowed.
Authorises(s) ==
    \E t \in Nat, o \in Outcomes, role \in {"proposed", "signed"}, tmpl \in Template :
        /\ MayResign(s, tmpl.height, t)
        /\ tmpl.by = s => tmpl.at = t
        /\ Authorise(s, tmpl, role, t, o)

LEMMA JournalSteps ==
  ASSUME TypeOK, [Next]_vars
  PROVE  \/ UNCHANGED <<journal, signed, custody>>
         \/ \E s \in Signers : Restart(s) \/ Authorises(s)
<1>1. CASE UNCHANGED vars
  BY <1>1 DEF vars
<1>2. CASE AdvanceClock
  BY <1>2 DEF AdvanceClock
<1>3. ASSUME NEW s \in Signers, SignerStep(s)
      PROVE  UNCHANGED <<journal, signed, custody>> \/ Restart(s) \/ Authorises(s)
  <2>1. CASE TickNotDue(s)
    BY <2>1 DEF TickNotDue
  <2>2. CASE Restart(s)
    BY <2>2
  <2>3. ASSUME NEW t \in Readings, TickDrop(s, t) \/ TickDue(s, t)
        PROVE  UNCHANGED <<journal, signed, custody>>
    BY <2>3 DEF TickDrop, TickDue
  <2>4. ASSUME NEW t \in Readings, NEW m \in partials, OnPartial(s, m, t)
        PROVE  UNCHANGED <<journal, signed, custody>>
    BY <2>4 DEF OnPartial
  <2>5. ASSUME NEW t \in Readings, NEW b \in published, OnSealed(s, b, t)
        PROVE  UNCHANGED <<journal, signed, custody>>
    BY <2>5 DEF OnSealed
  <2>6. ASSUME NEW t \in Readings
        PROVE  t \in Nat
    BY ReadingsType DEF TypeOK
  <2>7. ASSUME NEW t \in Readings, NEW o \in Outcomes, TickPropose(s, t, o)
        PROVE  Authorises(s)
    <3> DEFINE tmpl == NextTemplate(s, t)
    <3>1. tmpl \in Template
      BY <2>6, <2>7, NextTemplateType DEF TickPropose
    <3>2. tmpl.height = Height(s) + 1 /\ tmpl.at = t
      BY DEF NextTemplate
    <3>3. MayResign(s, tmpl.height, t) /\ Authorise(s, tmpl, "proposed", t, o)
      BY <2>7, <3>2 DEF TickPropose
    <3> HIDE DEF tmpl
    <3> QED
      BY <2>6, <3>1, <3>2, <3>3 DEF Authorises
  <2>8. ASSUME NEW t \in Readings, NEW o \in Outcomes, NEW tmpl \in proposals,
               OnProposal(s, tmpl, t, o)
        PROVE  Authorises(s)
    <3>1. tmpl \in Template /\ tmpl.by # s
      BY <2>8 DEF TypeOK, OnProposal
    <3>2. MayResign(s, tmpl.height, t) /\ Authorise(s, tmpl, "signed", t, o)
      BY <2>8 DEF OnProposal
    <3> QED
      BY <2>6, <3>1, <3>2 DEF Authorises
  <2> QED
    BY <1>3, <2>1, <2>2, <2>3, <2>4, <2>5, <2>7, <2>8 DEF SignerStep
<1> QED
  BY <1>1, <1>2, <1>3 DEF Next

\* The journal of a signer after an authorisation: what it was, and then one or
\* two records of the new vote.
LEMMA AuthoriseAppends ==
  ASSUME TypeOK, NEW s \in Signers, NEW tmpl \in Template, NEW role, NEW t \in Nat,
         NEW o, Authorise(s, tmpl, role, t, o)
  PROVE  /\ \A i \in DOMAIN journal[s] :
                i \in DOMAIN journal'[s] /\ journal'[s][i] = journal[s][i]
         /\ \A i \in DOMAIN journal'[s] : i \notin DOMAIN journal[s] =>
                /\ \A k \in DOMAIN journal[s] : k < i
                /\ journal'[s][i].height = tmpl.height
                /\ journal'[s][i].subject = tmpl
                /\ journal'[s][i].at = t
         /\ Len(journal[s]) + 1 \in DOMAIN journal'[s]
         /\ Len(journal[s]) + 1 \notin DOMAIN journal[s]
<1> DEFINE j == journal[s]
           e == Entry(tmpl, role, t, "intent")
           f == Entry(tmpl, role, t, "signed")
<1>1. j \in Seq(VoteEntry) /\ Len(j) \in Nat /\ DOMAIN j = 1 .. Len(j)
  BY DEF TypeOK
<1>2. journal'[s] = Append(j, e) \/ journal'[s] = Append(Append(j, e), f)
  BY DEF Authorise, TypeOK
<1>3. /\ e.height = tmpl.height /\ e.subject = tmpl /\ e.at = t
      /\ f.height = tmpl.height /\ f.subject = tmpl /\ f.at = t
  BY DEF Entry
<1> HIDE DEF j, e, f
<1>4. CASE journal'[s] = Append(j, e)
  <2>1. DOMAIN journal'[s] = 1 .. Len(j) + 1
    BY <1>1, <1>4
  <2>2. journal'[s][Len(j) + 1] = e /\ \A i \in 1 .. Len(j) : journal'[s][i] = j[i]
    BY <1>1, <1>4
  <2> QED
    BY <1>1, <1>3, <2>1, <2>2 DEF j
<1>5. CASE journal'[s] = Append(Append(j, e), f)
  <2>1. DOMAIN journal'[s] = 1 .. Len(j) + 2
    BY <1>1, <1>5
  <2>2. /\ journal'[s][Len(j) + 1] = e /\ journal'[s][Len(j) + 2] = f
        /\ \A i \in 1 .. Len(j) : journal'[s][i] = j[i]
    BY <1>1, <1>5
  <2>3. \A i \in 1 .. Len(j) + 2 : i \in 1 .. Len(j) \/ i = Len(j) + 1 \/ i = Len(j) + 2
    BY <1>1
  <2>4. \A i \in DOMAIN j : i \in DOMAIN journal'[s] /\ journal'[s][i] = j[i]
    BY <1>1, <2>1, <2>2
  <2>5. \A i \in DOMAIN journal'[s] : i \notin DOMAIN j =>
           /\ journal'[s][i].height = tmpl.height
           /\ journal'[s][i].subject = tmpl
           /\ journal'[s][i].at = t
    BY <1>1, <1>3, <2>1, <2>2, <2>3
  <2>6. \A i \in DOMAIN journal'[s] : i \notin DOMAIN j => \A k \in DOMAIN j : k < i
    BY <1>1, <2>1
  <2>7. Len(j) + 1 \in DOMAIN journal'[s] /\ Len(j) + 1 \notin DOMAIN j
    BY <1>1, <2>1
  <2> QED
    BY <2>4, <2>5, <2>6, <2>7 DEF j
<1> QED
  BY <1>2, <1>4, <1>5

\* The journal part of the invariant is inductive.
LEMMA JournalStep ==
  ASSUME TypeOK, JournalInv, [Next]_vars
  PROVE  JournalInv'
<1>1. CASE UNCHANGED <<journal, signed, custody>>
  BY <1>1 DEF JournalInv, JournalFits, JournalOrdered, MemoryCoversJournal,
              VotesRespectWindow, SignaturesAreJournalled
<1>2. ASSUME NEW s \in Signers, Restart(s)
      PROVE  JournalInv'
  <2>1. UNCHANGED <<journal, custody>>
    BY <1>2 DEF Restart
  <2>2. JournalFits' /\ JournalOrdered' /\ VotesRespectWindow' /\ SignaturesAreJournalled'
    BY <2>1 DEF JournalInv, JournalFits, JournalOrdered, VotesRespectWindow,
                SignaturesAreJournalled
  <2>3. ASSUME NEW r \in Signers, NEW i \in DOMAIN journal[r]
        PROVE  LET e == journal[r][i] IN
               signed'[r][e.height] # None /\ e.at <= signed'[r][e.height]
    <3>1. CASE r # s
      BY <1>2, <3>1 DEF JournalInv, MemoryCoversJournal, Restart, TypeOK
    <3>2. CASE r = s
      <4> DEFINE j == journal[s]
                 h == j[i].height
      <4>1. j \in Seq(VoteEntry)
        BY DEF TypeOK
      <4>2. \A k \in DOMAIN j : j[k] \in VoteEntry
        BY <4>1
      <4>3. h \in Heights /\ \A k \in DOMAIN j : j[k].at \in Nat
        BY <3>2, <4>2 DEF VoteEntry
      <4>4. signed'[s][h] = LastAt(j, h)
        BY <1>2, <4>3 DEF Restart, TypeOK
      <4>5. PICK k \in DOMAIN j : /\ j[k].height = h
                                 /\ LastAt(j, h) = j[k].at
                                 /\ \A m \in DOMAIN j : j[m].height = h => m <= k
        <5> HIDE DEF h, j
        <5>1. i \in DOMAIN j /\ j[i].height = h
          BY <3>2 DEF h, j
        <5> QED BY <4>1, <5>1, LastAtValue
      <4>6. i <= k /\ i \in Nat /\ k \in Nat
        BY <3>2, <4>1, <4>5
      <4>7. j[i].at <= j[k].at
        BY <3>2, <4>3, <4>5, <4>6 DEF JournalInv, JournalOrdered
      <4>8. j[k].at # None
        BY <4>3, NoneAssumption
      <4> QED
        BY <3>2, <4>4, <4>5, <4>7, <4>8
    <3> QED
      BY <3>1, <3>2
  <2>4. MemoryCoversJournal'
    BY <2>1, <2>3 DEF MemoryCoversJournal
  <2> QED
    BY <2>2, <2>4 DEF JournalInv
<1>3. ASSUME NEW s \in Signers, Authorises(s)
      PROVE  JournalInv'
  <2>1. PICK t \in Nat, o \in Outcomes, role \in {"proposed", "signed"}, tmpl \in Template :
           /\ MayResign(s, tmpl.height, t)
           /\ tmpl.by = s => tmpl.at = t
           /\ Authorise(s, tmpl, role, t, o)
    BY <1>3 DEF Authorises
  <2> DEFINE Old(i) == i \in DOMAIN journal[s]
  <2>2. \A r \in Signers : r # s => journal'[r] = journal[r] /\ signed'[r] = signed[r]
                                   /\ custody'[r] = custody[r]
    BY <2>1 DEF Authorise, TypeOK
  <2>0. \A i \in DOMAIN journal'[s] : i \in Nat
    <3>1. TypeOK'
      BY TypeStep
    <3> QED
      BY <3>1 DEF TypeOK
  <2>3. /\ \A i \in DOMAIN journal[s] :
              i \in DOMAIN journal'[s] /\ journal'[s][i] = journal[s][i]
        /\ \A i \in DOMAIN journal'[s] : i \notin DOMAIN journal[s] =>
              /\ \A k \in DOMAIN journal[s] : k < i
              /\ journal'[s][i].height = tmpl.height
              /\ journal'[s][i].subject = tmpl
              /\ journal'[s][i].at = t
        /\ Len(journal[s]) + 1 \in DOMAIN journal'[s]
        /\ Len(journal[s]) + 1 \notin DOMAIN journal[s]
    BY <2>1, AuthoriseAppends
  <2>4. \A i \in DOMAIN journal'[s] : i \notin DOMAIN journal[s] =>
           /\ \A k \in DOMAIN journal[s] : k < i
           /\ journal'[s][i].height = tmpl.height
           /\ journal'[s][i].subject = tmpl
           /\ journal'[s][i].at = t
    BY <2>3
  <2>5. \E i \in DOMAIN journal'[s] : i \notin DOMAIN journal[s]
    BY <2>3
  <2>6. /\ signed'[s][tmpl.height] = t /\ t # None
        /\ \A h \in Heights : h # tmpl.height => signed'[s][h] = signed[s][h]
    BY <2>1, NoneAssumption DEF Authorise, TypeOK, Template
  <2>7. \A i \in DOMAIN journal[s] :
           /\ journal[s][i].at \in Nat /\ journal[s][i].height \in Heights
           /\ journal[s][i].height = tmpl.height =>
                 /\ signed[s][tmpl.height] \in Nat
                 /\ journal[s][i].at <= signed[s][tmpl.height]
    <3>1. \A i \in DOMAIN journal[s] : journal[s][i] \in VoteEntry
      BY DEF TypeOK
    <3>2. \A h \in Heights : signed[s][h] # None => signed[s][h] \in Nat
      BY DEF TypeOK
    <3>3. tmpl.height \in Heights
      BY DEF Template
    <3> QED
      BY <3>1, <3>2, <3>3 DEF VoteEntry, JournalInv, MemoryCoversJournal
  <2>8. \A i \in DOMAIN journal[s] : journal[s][i].height = tmpl.height =>
           ResignAfter # Never /\ ResignAfter \in Nat /\ t - journal[s][i].at > ResignAfter
    <3> SUFFICES ASSUME NEW i \in DOMAIN journal[s], journal[s][i].height = tmpl.height
                 PROVE  /\ ResignAfter # Never /\ ResignAfter \in Nat
                        /\ t - journal[s][i].at > ResignAfter
      OBVIOUS
    <3>1. signed[s][tmpl.height] \in Nat /\ journal[s][i].at <= signed[s][tmpl.height]
      BY <2>7
    <3>2. ResignAfter # Never /\ Monus(t, signed[s][tmpl.height]) > ResignAfter
      BY <2>1, <3>1, NoneAssumption DEF MayResign
    <3>3. ResignAfter \in Nat
      BY <3>2, ConfigAssumption
    <3> QED
      BY <2>7, <3>1, <3>2, <3>3 DEF Monus
  <2>9. JournalFits'
    BY <2>1, <2>2, <2>3, <2>4 DEF JournalInv, JournalFits
  <2>10. JournalOrdered'
    <3> SUFFICES ASSUME NEW r \in Signers, NEW i \in DOMAIN journal'[r],
                        NEW k \in DOMAIN journal'[r], i < k,
                        journal'[r][i].height = journal'[r][k].height
                 PROVE  journal'[r][i].at <= journal'[r][k].at
      BY DEF JournalOrdered
    <3>1. CASE r # s
      BY <2>2, <3>1 DEF JournalInv, JournalOrdered
    <3>2. CASE r = s /\ Old(i) /\ Old(k)
      BY <2>3, <3>2 DEF JournalInv, JournalOrdered
    <3>3. CASE r = s /\ Old(i) /\ ~Old(k)
      BY <2>3, <2>4, <2>7, <2>8, <3>3
    <3>4. CASE r = s /\ ~Old(i) /\ Old(k)
      <4>1. k < i /\ i \in Nat /\ k \in Nat
        BY <2>0, <2>4, <3>4
      <4> QED
        BY <4>1
    <3>5. CASE r = s /\ ~Old(i) /\ ~Old(k)
      BY <2>4, <3>5
    <3> QED
      BY <3>1, <3>2, <3>3, <3>4, <3>5
  <2>11. MemoryCoversJournal'
    <3> SUFFICES ASSUME NEW r \in Signers, NEW i \in DOMAIN journal'[r]
                 PROVE  LET e == journal'[r][i] IN
                        signed'[r][e.height] # None /\ e.at <= signed'[r][e.height]
      BY DEF MemoryCoversJournal
    <3>1. CASE r # s
      BY <2>2, <3>1 DEF JournalInv, MemoryCoversJournal
    <3>2. CASE r = s /\ Old(i) /\ journal[s][i].height = tmpl.height
      <4>1. journal[s][i].at <= t
        BY <2>7, <2>8, <3>2
      <4> QED
        BY <2>3, <2>6, <3>2, <4>1
    <3>3. CASE r = s /\ Old(i) /\ journal[s][i].height # tmpl.height
      BY <2>3, <2>6, <2>7, <3>3 DEF JournalInv, MemoryCoversJournal
    <3>4. CASE r = s /\ ~Old(i)
      BY <2>4, <2>6, <3>4
    <3> QED
      BY <3>1, <3>2, <3>3, <3>4
  <2>12. VotesRespectWindow'
    <3> SUFFICES ASSUME NEW r \in Signers, NEW i \in DOMAIN journal'[r],
                        NEW k \in DOMAIN journal'[r], i < k,
                        journal'[r][i].height = journal'[r][k].height,
                        journal'[r][i].subject # journal'[r][k].subject
                 PROVE  /\ ResignAfter # Never
                        /\ journal'[r][k].at - journal'[r][i].at > ResignAfter
      BY DEF VotesRespectWindow
    <3>1. CASE r # s
      BY <2>2, <3>1 DEF JournalInv, VotesRespectWindow
    <3>2. CASE r = s /\ Old(i) /\ Old(k)
      BY <2>3, <3>2 DEF JournalInv, VotesRespectWindow
    <3>3. CASE r = s /\ Old(i) /\ ~Old(k)
      BY <2>3, <2>4, <2>7, <2>8, <3>3
    <3>4. CASE r = s /\ ~Old(i) /\ Old(k)
      <4>1. k < i /\ i \in Nat /\ k \in Nat
        BY <2>0, <2>4, <3>4
      <4> QED
        BY <4>1
    <3>5. CASE r = s /\ ~Old(i) /\ ~Old(k)
      BY <2>4, <3>5
    <3> QED
      BY <3>1, <3>2, <3>3, <3>4, <3>5
  <2>13. SignaturesAreJournalled'
    <3> SUFFICES ASSUME NEW r \in Signers, NEW x \in custody'[r]
                 PROVE  \E i \in DOMAIN journal'[r] : journal'[r][i].subject = x
      BY DEF SignaturesAreJournalled
    <3>1. CASE r # s
      BY <2>2, <3>1 DEF JournalInv, SignaturesAreJournalled
    <3>2. CASE r = s /\ x \in custody[s]
      BY <2>3, <3>2 DEF JournalInv, SignaturesAreJournalled
    <3>3. CASE r = s /\ x = tmpl
      BY <2>4, <2>5, <3>3
    <3>4. custody'[s] \subseteq custody[s] \cup {tmpl}
      BY <2>1 DEF Authorise, TypeOK
    <3> QED
      BY <3>1, <3>2, <3>3, <3>4
  <2> QED
    BY <2>9, <2>10, <2>11, <2>12, <2>13 DEF JournalInv
<1> QED
  BY <1>1, <1>2, <1>3, JournalSteps

-----------------------------------------------------------------------------
(* Sealing. *)

LEMMA CustodyGrows ==
  ASSUME TypeOK, [Next]_vars
  PROVE  \A r \in Signers : custody[r] \subseteq custody'[r]
<1>1. CASE UNCHANGED <<journal, signed, custody>>
  BY <1>1
<1>2. ASSUME NEW s \in Signers, Restart(s)
      PROVE  \A r \in Signers : custody[r] \subseteq custody'[r]
  BY <1>2 DEF Restart
<1>3. ASSUME NEW s \in Signers, Authorises(s)
      PROVE  \A r \in Signers : custody[r] \subseteq custody'[r]
  BY <1>3 DEF Authorises, Authorise, TypeOK
<1> QED
  BY <1>1, <1>2, <1>3, JournalSteps

\* The template a signer may propose now is none that was ever sealed: it would
\* have journalled it, at this very time.
LEMMA ProposalIsFresh ==
  ASSUME TypeOK, JournalInv, SealInv, NEW s \in Signers, NEW t \in Nat,
         Height(s) < MaxHeight, MayResign(s, Height(s) + 1, t)
  PROVE  \A b \in sealed : b.tmpl # NextTemplate(s, t)
<1> SUFFICES ASSUME NEW b \in sealed, b.tmpl = NextTemplate(s, t)
             PROVE  FALSE
  OBVIOUS
<1> DEFINE h == Height(s) + 1
<1>1. b.tmpl.by = s /\ b.tmpl.at = t /\ b.tmpl.height = h
  BY DEF NextTemplate
<1>2. b.tmpl \in custody[s]
  BY <1>1 DEF SealInv, SignaturesAreReal
<1>3. PICK i \in DOMAIN journal[s] : journal[s][i].subject = b.tmpl
  BY <1>2 DEF JournalInv, SignaturesAreJournalled
<1>4. journal[s][i].height = h /\ journal[s][i].at = t
  BY <1>1, <1>3 DEF JournalInv, JournalFits
<1>5. signed[s][h] # None /\ t <= signed[s][h]
  BY <1>4 DEF JournalInv, MemoryCoversJournal
<1>6. h \in Heights
  BY TipType, BoundAssumption DEF Heights
<1>7. signed[s][h] \in Nat
  BY <1>5, <1>6 DEF TypeOK
<1>8. ResignAfter \in Nat /\ Monus(t, signed[s][h]) > ResignAfter
  BY <1>5, ConfigAssumption DEF MayResign
<1> HIDE DEF h
<1> QED
  BY <1>5, <1>7, <1>8 DEF Monus

\* Appending a published block of the next height on the tip keeps a chain well made.
LEMMA ChainGrows ==
  ASSUME TypeOK, ChainsAreSealed, NEW s \in Signers, NEW b \in SealedBlock,
         b.tmpl.height = Height(s) + 1, b.tmpl.prev = Tip(s),
         chain' = [chain EXCEPT ![s] = Append(@, b)],
         b \in sealed', sealed \subseteq sealed'
  PROVE  ChainsAreSealed'
<1> SUFFICES ASSUME NEW r \in Signers, NEW h \in DOMAIN chain'[r]
             PROVE  /\ chain'[r][h] \in sealed'
                    /\ chain'[r][h].tmpl.height = h
                    /\ chain'[r][h].tmpl.prev = IF h = 1 THEN Genesis ELSE HashOf(chain'[r][h - 1])
  BY DEF ChainsAreSealed
<1>1. CASE r # s
  <2>1. chain'[r] = chain[r]
    BY <1>1 DEF TypeOK
  <2>2. /\ chain[r][h] \in sealed /\ chain[r][h].tmpl.height = h
        /\ chain[r][h].tmpl.prev = IF h = 1 THEN Genesis ELSE HashOf(chain[r][h - 1])
    BY <2>1, Zenon DEF ChainsAreSealed
  <2> QED
    BY <2>1, <2>2, Zenon
<1>2. CASE r = s
  <2> DEFINE c == chain[s]
  <2>1. c \in Seq(SealedBlock) /\ Len(c) \in Nat /\ DOMAIN c = 1 .. Len(c)
    BY DEF TypeOK
  <2>2. chain'[s] = Append(c, b)
    BY DEF TypeOK
  <2>3. /\ DOMAIN chain'[s] = 1 .. Len(c) + 1
        /\ chain'[s][Len(c) + 1] = b
        /\ \A i \in 1 .. Len(c) : chain'[s][i] = c[i]
    <3> HIDE DEF c
    <3> QED BY <2>1, <2>2
  <2>4. CASE h \in 1 .. Len(c)
    <3>1. chain'[s][h] = c[h] /\ (h # 1 => h - 1 \in 1 .. Len(c))
      BY <2>1, <2>3, <2>4
    <3>2. h # 1 => chain'[s][h - 1] = c[h - 1]
      BY <2>3, <3>1
    <3> QED
      BY <1>2, <2>1, <2>4, <3>1, <3>2 DEF ChainsAreSealed
  <2>5. CASE h = Len(c) + 1
    <3>1. chain'[s][h] = b /\ b.tmpl.height = h
      BY <2>3, <2>5 DEF Height
    <3>2. CASE c = <<>>
      <4>1. h = 1 /\ Tip(s) = Genesis
        BY <2>5, <3>2 DEF Tip
      <4> QED
        BY <1>2, <3>1, <4>1
    <3>3. CASE c # <<>>
      <4>1. Len(c) \in 1 .. Len(c)
        BY <2>1, <3>3
      <4>2. h # 1 /\ h - 1 = Len(c) /\ chain'[s][h - 1] = c[Len(c)]
        BY <2>1, <2>3, <2>5, <4>1
      <4>3. Tip(s) = HashOf(c[Len(c)])
        BY <3>3 DEF Tip
      <4> QED
        BY <1>2, <3>1, <4>2, <4>3
    <3> QED
      BY <3>2, <3>3
  <2> QED
    BY <1>2, <2>1, <2>3, <2>4, <2>5
<1> QED
  BY <1>1, <1>2

\* A block sealed on a chain has sealed blocks of all lower heights under it.
LEMMA SealOnTop ==
  ASSUME TypeOK, ChainsAreSealed, SealedOnSealed, NEW s \in Signers, NEW b \in SealedBlock,
         b.tmpl.height = Height(s) + 1, sealed' = sealed \cup {b}
  PROVE  SealedOnSealed'
<1> SUFFICES ASSUME NEW c \in sealed', NEW h \in 1 .. c.tmpl.height
             PROVE  \E d \in sealed' : d.tmpl.height = h
  BY DEF SealedOnSealed
<1>1. CASE c \in sealed
  BY <1>1 DEF SealedOnSealed
<1>2. CASE c = b
  <2>1. chain[s] \in Seq(SealedBlock) /\ Len(chain[s]) \in Nat /\ Height(s) = Len(chain[s])
    BY DEF TypeOK, Height
  <2>2. CASE h = Height(s) + 1
    BY <2>2
  <2>3. CASE h # Height(s) + 1
    <3>1. h \in DOMAIN chain[s]
      BY <1>2, <2>1, <2>3
    <3>2. chain[s][h] \in sealed /\ chain[s][h].tmpl.height = h
      BY <3>1 DEF ChainsAreSealed
    <3> QED
      BY <3>2
  <2> QED
    BY <2>2, <2>3
<1> QED
  BY <1>1, <1>2

\* What is left of a chain after a restart is still well made.
LEMMA CutChains ==
  ASSUME TypeOK, ChainsAreSealed, NEW s \in Signers, Restart(s)
  PROVE  ChainsAreSealed'
<1> SUFFICES ASSUME NEW r \in Signers, NEW h \in DOMAIN chain'[r]
             PROVE  /\ chain'[r][h] \in sealed'
                    /\ chain'[r][h].tmpl.height = h
                    /\ chain'[r][h].tmpl.prev = IF h = 1 THEN Genesis ELSE HashOf(chain'[r][h - 1])
  BY DEF ChainsAreSealed
<1>0. sealed' = sealed
  BY DEF Restart
<1>1. CASE r # s
  <2>1. chain'[r] = chain[r]
    BY <1>1, RestartCuts
  <2>2. /\ chain[r][h] \in sealed /\ chain[r][h].tmpl.height = h
        /\ chain[r][h].tmpl.prev = IF h = 1 THEN Genesis ELSE HashOf(chain[r][h - 1])
    BY <2>1, Zenon DEF ChainsAreSealed
  <2> QED
    BY <1>0, <2>1, <2>2, Zenon
<1>2. CASE r = s
  <2>1. PICK n \in 0 .. Height(s) :
           /\ chain'[s] \in Seq(SealedBlock) /\ Len(chain'[s]) = n
           /\ \A i \in 1 .. n : i \in DOMAIN chain[s] /\ chain'[s][i] = chain[s][i]
    BY RestartCuts
  <2>2. h \in 1 .. n /\ (h # 1 => h - 1 \in 1 .. n)
    BY <1>2, <2>1
  <2>3. /\ h \in DOMAIN chain[s] /\ chain'[s][h] = chain[s][h]
        /\ h # 1 => chain'[s][h - 1] = chain[s][h - 1]
    BY <2>1, <2>2
  <2>4. /\ chain[s][h] \in sealed /\ chain[s][h].tmpl.height = h
        /\ chain[s][h].tmpl.prev = IF h = 1 THEN Genesis ELSE HashOf(chain[s][h - 1])
    BY <2>3, Zenon DEF ChainsAreSealed
  <2> QED
    BY <1>0, <1>2, <2>3, <2>4
<1> QED
  BY <1>1, <1>2

\* Sets of signers are finite.
LEMMA SignerSets ==
  /\ IsFiniteSet(Signers) /\ Cardinality(Signers) = N
  /\ \A Q \in SUBSET Signers : IsFiniteSet(Q) /\ Cardinality(Q) \in Nat
<1>1. N \in Nat /\ N > 0 /\ N - 1 \in Int /\ 0 \in Int
  BY FederationAssumption
<1>2. IsFiniteSet(Signers) /\ Cardinality(Signers) = N
  <2>1. /\ IsFiniteSet(0 .. N - 1)
        /\ Cardinality(0 .. N - 1) = IF 0 > N - 1 THEN 0 ELSE N - 1 - 0 + 1
    BY <1>1, FS_Interval
  <2> QED
    BY <1>1, <2>1 DEF Signers
<1>3. \A Q \in SUBSET Signers : IsFiniteSet(Q) /\ Cardinality(Q) \in Nat
  BY <1>2, FS_Subset, FS_CardinalityType
<1> QED
  BY <1>2, <1>3

\* Round::maybe_seal keeps the sealing part of the invariant, given that the
\* proposal is the signer's own, holds real signatures and is not sealed yet.
LEMMA MaybeSealStep ==
  ASSUME TypeOK, SealInv, NEW s \in Signers, NEW p \in Pending, NEW due, NEW t,
         MaybeSeal(s, p, due, t),
         p.tmpl.by = s, s \in p.sigs, \A r \in p.sigs : p.tmpl \in custody'[r],
         \A b \in sealed : b.tmpl # p.tmpl,
         \A r \in Signers : custody[r] \subseteq custody'[r],
         UNCHANGED partials
  PROVE  SealInv'
<1> DEFINE b == [tmpl |-> p.tmpl, signers |-> p.sigs]
<1>1. b \in SealedBlock /\ b.tmpl = p.tmpl /\ b.signers = p.sigs
  BY DEF Pending, SealedBlock
<1>2. \A r \in Signers : r # s => pending'[r] = pending[r]
  BY DEF MaybeSeal, TypeOK
<1>3. \A r \in Signers : pending[r] # None => pending[r] \in Pending
  BY DEF TypeOK
<1>4. Cardinality(p.sigs) \in Nat /\ K \in Nat
  BY SignerSets, FederationAssumption DEF Pending
<1>5. CASE Cardinality(p.sigs) < K
  <2>1. pending'[s] = p /\ UNCHANGED <<chain, sealed>>
    BY <1>4, <1>5 DEF MaybeSeal, TypeOK
  <2>2. \A m \in partials' : m.tmpl \in custody'[m.by]
    BY DEF SealInv, SignaturesAreReal, TypeOK
  <2>3. ASSUME NEW r \in Signers, pending'[r] # None
        PROVE  /\ pending'[r].tmpl.by = r
               /\ r \in pending'[r].sigs
               /\ \A q \in pending'[r].sigs : pending'[r].tmpl \in custody'[q]
    <3>1. CASE r = s
      BY <2>1, <3>1
    <3>2. CASE r # s
      <4>1. pending'[r] = pending[r] /\ pending[r] \in Pending
        BY <1>2, <1>3, <2>3, <3>2
      <4> QED
        BY <2>3, <4>1 DEF SealInv, SignaturesAreReal, Pending
    <3> QED
      BY <3>1, <3>2
  <2>4. SignaturesAreReal'
    <3>1. \A c \in sealed : c \in SealedBlock
      BY DEF TypeOK
    <3> QED
      BY <2>1, <2>2, <2>3, <3>1 DEF SealInv, SignaturesAreReal, SealedBlock
  <2>5. PendingNotSealed'
    BY <1>2, <2>1 DEF SealInv, PendingNotSealed
  <2>6. SealedOnce' /\ ChainsAreSealed' /\ SealedOnSealed'
    BY <2>1 DEF SealInv, SealedOnce, ChainsAreSealed, SealedOnSealed
  <2> QED
    BY <2>4, <2>5, <2>6 DEF SealInv
<1>6. CASE Cardinality(p.sigs) >= K
  <2>1. /\ pending'[s] = None
        /\ \/ /\ Valid(s, b, t, custody')
              /\ chain' = [chain EXCEPT ![s] = Append(@, b)]
              /\ sealed' = sealed \cup {b}
           \/ UNCHANGED <<chain, sealed>>
    BY <1>4, <1>6 DEF MaybeSeal, TypeOK
  <2>2. \A m \in partials' : m.tmpl \in custody'[m.by]
    BY DEF SealInv, SignaturesAreReal, TypeOK
  <2>3. ASSUME NEW r \in Signers, pending'[r] # None
        PROVE  /\ r # s /\ pending'[r] = pending[r] /\ pending[r] \in Pending
               /\ pending'[r].tmpl.by = r
               /\ r \in pending'[r].sigs
               /\ \A q \in pending'[r].sigs : pending'[r].tmpl \in custody'[q]
    <3>1. r # s /\ pending'[r] = pending[r] /\ pending[r] \in Pending
      BY <1>2, <1>3, <2>1, <2>3
    <3> QED
      BY <2>3, <3>1 DEF SealInv, SignaturesAreReal, Pending
  <2>4. ASSUME NEW c \in sealed'
        PROVE  /\ c.tmpl.by \in c.signers
               /\ Cardinality(c.signers) >= K
               /\ \A r \in c.signers : c.tmpl \in custody'[r]
    <3>1. CASE c \in sealed
      <4>1. c \in SealedBlock
        BY <3>1 DEF TypeOK
      <4> QED
        BY <3>1, <4>1 DEF SealInv, SignaturesAreReal, SealedBlock
    <3>2. CASE c = b
      BY <1>1, <1>6, <3>2
    <3> QED
      BY <2>1, <3>1, <3>2
  <2>5. SignaturesAreReal'
    BY <2>2, <2>3, <2>4 DEF SignaturesAreReal
  <2>6. PendingNotSealed'
    <3> SUFFICES ASSUME NEW r \in Signers, pending'[r] # None, NEW c \in sealed'
                 PROVE  c.tmpl # pending'[r].tmpl
      BY DEF PendingNotSealed
    <3>1. CASE c \in sealed
      BY <2>3, <3>1 DEF SealInv, PendingNotSealed
    <3>2. CASE c = b
      BY <1>1, <2>3, <3>2
    <3> QED
      BY <2>1, <3>1, <3>2
  <2>7. SealedOnce'
    BY <1>1, <2>1 DEF SealInv, SealedOnce
  <2>8. ChainsAreSealed'
    <3>1. CASE UNCHANGED <<chain, sealed>>
      BY <3>1 DEF SealInv, ChainsAreSealed
    <3>2. CASE /\ Valid(s, b, t, custody')
               /\ chain' = [chain EXCEPT ![s] = Append(@, b)]
               /\ sealed' = sealed \cup {b}
      <4>1. b.tmpl.height = Height(s) + 1 /\ b.tmpl.prev = Tip(s)
        BY <3>2 DEF Valid
      <4> HIDE DEF b
      <4> QED
        BY <1>1, <3>2, <4>1, ChainGrows DEF SealInv
    <3> QED
      BY <2>1, <3>1, <3>2
  <2>9. SealedOnSealed'
    <3>1. CASE UNCHANGED <<chain, sealed>>
      BY <3>1 DEF SealInv, SealedOnSealed
    <3>2. CASE Valid(s, b, t, custody') /\ sealed' = sealed \cup {b}
      <4>1. b.tmpl.height = Height(s) + 1
        BY <3>2 DEF Valid
      <4> HIDE DEF b
      <4> QED
        BY <1>1, <3>2, <4>1, SealOnTop DEF SealInv
    <3> QED
      BY <2>1, <3>1, <3>2
  <2> QED
    BY <2>5, <2>6, <2>7, <2>8, <2>9 DEF SealInv
<1> QED
  BY <1>4, <1>5, <1>6

\* A step that only empties the slot of a proposal, or leaves everything the
\* sealing part speaks of alone.
LEMMA QuietStep ==
  ASSUME TypeOK, SealInv,
         \A r \in Signers : pending'[r] = pending[r] \/ pending'[r] = None,
         \A r \in Signers : custody[r] \subseteq custody'[r],
         \A m \in partials' : m \in partials \/ m.tmpl \in custody'[m.by],
         ChainsAreSealed', UNCHANGED sealed
  PROVE  SealInv'
<1>1. \A r \in Signers : pending[r] # None => pending[r] \in Pending
  BY DEF TypeOK
<1>2. \A c \in sealed : c \in SealedBlock
  BY DEF TypeOK
<1>3. \A m \in partials : m.by \in Signers
  BY DEF TypeOK
<1>4. ASSUME NEW m \in partials'
      PROVE  m.tmpl \in custody'[m.by]
  BY <1>3 DEF SealInv, SignaturesAreReal
<1>5. ASSUME NEW r \in Signers, pending'[r] # None
      PROVE  /\ pending'[r].tmpl.by = r
             /\ r \in pending'[r].sigs
             /\ \A q \in pending'[r].sigs : pending'[r].tmpl \in custody'[q]
  <2>1. pending'[r] = pending[r] /\ pending[r] \in Pending
    BY <1>1, <1>5
  <2> QED
    BY <1>5, <2>1 DEF SealInv, SignaturesAreReal, Pending
<1>6. SignaturesAreReal'
  BY <1>2, <1>4, <1>5 DEF SealInv, SignaturesAreReal, SealedBlock
<1>7. PendingNotSealed'
  BY DEF SealInv, PendingNotSealed
<1>8. SealedOnce' /\ SealedOnSealed'
  BY DEF SealInv, SealedOnce, SealedOnSealed
<1> QED
  BY <1>6, <1>7, <1>8 DEF SealInv

LEMMA SameChains ==
  ASSUME SealInv, UNCHANGED <<chain, sealed>>
  PROVE  ChainsAreSealed'
  BY DEF SealInv, ChainsAreSealed

\* The sealing part of the invariant is inductive.
LEMMA SealStep ==
  ASSUME TypeOK, JournalInv, SealInv, [Next]_vars
  PROVE  SealInv'
<1>0. \A r \in Signers : custody[r] \subseteq custody'[r]
  BY CustodyGrows
<1>1. CASE UNCHANGED vars
  <2>1. UNCHANGED <<chain, sealed, pending, partials>>
    BY <1>1 DEF vars
  <2> QED
    BY <1>0, <2>1, QuietStep, SameChains
<1>2. CASE AdvanceClock
  <2>1. UNCHANGED <<chain, sealed, pending, partials>>
    BY <1>2 DEF AdvanceClock
  <2> QED
    BY <1>0, <2>1, QuietStep, SameChains
<1>3. ASSUME NEW s \in Signers, SignerStep(s)
      PROVE  SealInv'
  <2>0. ASSUME NEW t \in Readings
        PROVE  t \in Nat
    BY ReadingsType DEF TypeOK
  <2>1. CASE TickNotDue(s) \/ Restart(s) \/ \E t \in Readings : TickDrop(s, t) \/ TickDue(s, t)
    <3>1. /\ pending' = [pending EXCEPT ![s] = None]
          /\ UNCHANGED <<sealed, partials>>
      BY <2>1 DEF TickNotDue, Restart, TickDrop, TickDue
    <3>2. \A r \in Signers : pending'[r] = pending[r] \/ pending'[r] = None
      BY <3>1 DEF TypeOK
    <3>3. ChainsAreSealed'
      <4>1. CASE Restart(s)
        BY <4>1, CutChains DEF SealInv
      <4>2. CASE ~Restart(s)
        <5>1. UNCHANGED <<chain, sealed>>
          BY <2>1, <4>2 DEF TickNotDue, TickDrop, TickDue
        <5> QED
          BY <5>1, SameChains
      <4> QED
        BY <4>1, <4>2
    <3> QED
      BY <1>0, <3>1, <3>2, <3>3, QuietStep
  <2>2. ASSUME NEW t \in Readings, NEW m \in partials, OnPartial(s, m, t)
        PROVE  SealInv'
    <3> DEFINE p == [pending[s] EXCEPT !.sigs = @ \cup {m.by}]
    <3>1. pending[s] # None /\ pending[s] \in Pending /\ m.by \in Signers
      BY <2>2 DEF TypeOK, OnPartial
    <3>2. /\ p \in Pending /\ p.tmpl = pending[s].tmpl
          /\ p.sigs = pending[s].sigs \cup {m.by}
      BY <3>1 DEF Pending
    <3>3. MaybeSeal(s, p, dueSince[s], t) /\ UNCHANGED <<custody, partials>>
      BY <2>2 DEF OnPartial
    <3>4. p.tmpl.by = s /\ s \in p.sigs /\ \A b \in sealed : b.tmpl # p.tmpl
      BY <3>1, <3>2 DEF SealInv, SignaturesAreReal, PendingNotSealed
    <3>5. \A r \in p.sigs : p.tmpl \in custody'[r]
      BY <2>2, <3>1, <3>2, <3>3 DEF SealInv, SignaturesAreReal, OnPartial
    <3> HIDE DEF p
    <3> QED
      BY <1>0, <3>2, <3>3, <3>4, <3>5, MaybeSealStep
  <2>3. ASSUME NEW t \in Readings, NEW b \in published, OnSealed(s, b, t)
        PROVE  SealInv'
    <3>1. /\ Valid(s, b, t, custody)
          /\ chain' = [chain EXCEPT ![s] = Append(@, b)]
          /\ UNCHANGED <<sealed, partials, custody>>
      BY <2>3 DEF OnSealed
    <3>2. \A r \in Signers : pending'[r] = pending[r] \/ pending'[r] = None
      BY <2>3 DEF OnSealed, TypeOK
    <3>3. ChainsAreSealed'
      BY <3>1, ChainGrows DEF SealInv, Valid, TypeOK
    <3>4. \A r \in Signers : pending'[r] # None => pending'[r] = pending[r]
      BY <3>2
    <3>5. SignaturesAreReal' /\ PendingNotSealed' /\ SealedOnce' /\ SealedOnSealed'
      BY <3>1, <3>4 DEF SealInv, SignaturesAreReal, PendingNotSealed, SealedOnce, SealedOnSealed
    <3> QED
      BY <3>3, <3>5 DEF SealInv
  <2>4. ASSUME NEW t \in Readings, NEW o \in Outcomes, TickPropose(s, t, o)
        PROVE  SealInv'
    <3> DEFINE tmpl == NextTemplate(s, t)
               p == [tmpl |-> tmpl, sigs |-> {s}, at |-> t]
    <3>1. tmpl \in Template /\ tmpl.by = s
      BY <2>0, <2>4, NextTemplateType DEF TickPropose, NextTemplate
    <3>2. CASE o = "recorded"
      <4>1. /\ MaybeSeal(s, p, Due(s, t), t)
            /\ Authorise(s, tmpl, "proposed", t, o) /\ UNCHANGED partials
        BY <2>4, <3>2 DEF TickPropose
      <4>2. tmpl \in custody'[s]
        BY <3>2, <4>1 DEF Authorise, TypeOK
      <4>3. \A b \in sealed : b.tmpl # tmpl
        BY <2>0, <2>4, ProposalIsFresh DEF TickPropose
      <4> HIDE DEF tmpl
      <4>4. p \in Pending /\ p.tmpl = tmpl /\ p.sigs = {s}
        BY <2>0, <3>1 DEF Pending
      <4> HIDE DEF p
      <4> QED
        BY <1>0, <3>1, <4>1, <4>2, <4>3, <4>4, MaybeSealStep
    <3>3. CASE o # "recorded"
      <4>1. /\ pending' = [pending EXCEPT ![s] = None]
            /\ UNCHANGED <<chain, sealed, partials>>
        BY <2>4, <3>3 DEF TickPropose
      <4>2. \A r \in Signers : pending'[r] = pending[r] \/ pending'[r] = None
        BY <4>1 DEF TypeOK
      <4> QED
        BY <1>0, <4>1, <4>2, QuietStep, SameChains
    <3> QED
      BY <3>2, <3>3
  <2>5. ASSUME NEW t \in Readings, NEW o \in Outcomes, NEW tmpl \in proposals,
               OnProposal(s, tmpl, t, o)
        PROVE  SealInv'
    <3>1. UNCHANGED <<chain, sealed, pending>> /\ Authorise(s, tmpl, "signed", t, o)
      BY <2>5 DEF OnProposal
    <3>2. \A m \in partials' : m \in partials \/ m.tmpl \in custody'[m.by]
      <4>1. CASE o = "recorded"
        <5>1. tmpl \in custody'[s] /\ partials' = partials \cup {[by |-> s, tmpl |-> tmpl]}
          BY <2>5, <3>1, <4>1 DEF Authorise, OnProposal, TypeOK
        <5> QED
          BY <5>1
      <4>2. CASE o # "recorded"
        BY <2>5, <4>2 DEF OnProposal
      <4> QED
        BY <4>1, <4>2
    <3> QED
      BY <1>0, <3>1, <3>2, QuietStep, SameChains
  <2> QED
    BY <1>3, <2>1, <2>2, <2>3, <2>4, <2>5 DEF SignerStep
<1> QED
  BY <1>1, <1>2, <1>3 DEF Next

-----------------------------------------------------------------------------
(* The theorems. *)

LEMMA Initially == Init => IInv
<1> SUFFICES ASSUME Init PROVE IInv
  OBVIOUS
<1>1. TypeOK
  BY DEF Init, TypeOK
<1>2. \A s \in Signers : /\ journal[s] = <<>> /\ chain[s] = <<>>
                         /\ pending[s] = None /\ custody[s] = {}
  BY DEF Init
<1>3. JournalInv
  BY <1>2 DEF JournalInv, JournalFits, JournalOrdered, MemoryCoversJournal,
              VotesRespectWindow, SignaturesAreJournalled
<1>4. SealInv
  BY <1>2 DEF Init, SealInv, SignaturesAreReal, PendingNotSealed, SealedOnce,
              ChainsAreSealed, SealedOnSealed
<1> QED
  BY <1>1, <1>3, <1>4 DEF IInv

\* The invariant holds in every reachable state.
THEOREM Invariance == Spec => []IInv
<1>1. Init => IInv
  BY Initially
<1>2. IInv /\ [Next]_vars => IInv'
  BY TypeStep, JournalStep, SealStep DEF IInv
<1> QED
  BY <1>1, <1>2, PTL DEF Spec

\* Every variable keeps its type.
THEOREM TypeCorrect == Spec => []TypeOK
  BY Invariance, PTL DEF IInv

\* Every signature is journalled by its signer, whatever failed or crashed.
THEOREM SignaturesAlwaysJournalled == Spec => []SignaturesAreJournalled
  BY Invariance, PTL DEF IInv, JournalInv

\* No signer votes twice at one height within the re-signing window, and under
\* the strict rule never, across restarts and whatever its clock does.
THEOREM VotesAlwaysRespectWindow == Spec => []VotesRespectWindow
  BY Invariance, PTL DEF IInv, JournalInv

\* A template is sealed to one hash only.
THEOREM AlwaysSealedOnce == Spec => []SealedOnce
  BY Invariance, PTL DEF IInv, SealInv

\* The journal records behind the K signatures of a block exist.
LEMMA QuorumFromInv == IInv => BlocksHaveQuorum
<1> SUFFICES ASSUME IInv, NEW s \in Signers, NEW h \in DOMAIN chain[s]
             PROVE  LET b == chain[s][h] IN
                    /\ b.tmpl.height = h
                    /\ b.tmpl.prev = IF h = 1 THEN Genesis ELSE HashOf(chain[s][h - 1])
                    /\ Cardinality({r \in b.signers :
                            \E i \in DOMAIN journal[r] : journal[r][i].subject = b.tmpl}) >= K
  BY DEF BlocksHaveQuorum
<1> DEFINE b == chain[s][h]
           Q == {r \in b.signers : \E i \in DOMAIN journal[r] : journal[r][i].subject = b.tmpl}
<1>1. b \in sealed /\ b.tmpl.height = h
      /\ b.tmpl.prev = IF h = 1 THEN Genesis ELSE HashOf(chain[s][h - 1])
  BY DEF IInv, SealInv, ChainsAreSealed
<1>2. Cardinality(b.signers) >= K /\ \A r \in b.signers : b.tmpl \in custody[r]
  BY <1>1 DEF IInv, SealInv, SignaturesAreReal
<1>3. b.signers \subseteq Signers
  BY <1>1 DEF IInv, TypeOK, SealedBlock
<1>4. \A r \in b.signers : \E i \in DOMAIN journal[r] : journal[r][i].subject = b.tmpl
  BY <1>2, <1>3 DEF IInv, JournalInv, SignaturesAreJournalled
<1>5. Q = b.signers
  BY <1>4
<1> QED
  BY <1>1, <1>2, <1>5

\* Every block in every chain has a quorum of journalled votes behind it.
THEOREM BlocksAlwaysHaveQuorum == Spec => []BlocksHaveQuorum
  BY Invariance, QuorumFromInv, PTL

\* Any two quorums of a federation with 2K > N share a signer.
LEMMA QuorumsMeet ==
  ASSUME 2 * K > N, NEW P \in SUBSET Signers, NEW Q \in SUBSET Signers,
         Cardinality(P) >= K, Cardinality(Q) >= K
  PROVE  \E r \in Signers : r \in P /\ r \in Q
<1>1. /\ IsFiniteSet(Signers) /\ Cardinality(Signers) = N
      /\ IsFiniteSet(P) /\ Cardinality(P) \in Nat
      /\ IsFiniteSet(Q) /\ Cardinality(Q) \in Nat
  BY SignerSets
<1>2. Cardinality(P \cup Q) = Cardinality(P) + Cardinality(Q) - Cardinality(P \cap Q)
  BY <1>1, FS_Union
<1>3. P \cup Q \in SUBSET Signers
  OBVIOUS
<1>4. Cardinality(P \cup Q) <= N
  BY <1>1, <1>3, FS_Subset
<1>5. Cardinality(P \cap Q) # 0
  BY <1>1, <1>2, <1>4, FederationAssumption
<1>6. P \cap Q # {}
  BY <1>5, FS_EmptySet
<1> QED
  BY <1>6

\* Under the strict rule two sealed blocks of one height are the same block.
LEMMA OneBlockPerHeight ==
  ASSUME ResignAfter = Never, 2 * K > N, IInv,
         NEW b \in sealed, NEW c \in sealed, b.tmpl.height = c.tmpl.height
  PROVE  b = c
<1>1. b \in SealedBlock /\ c \in SealedBlock
  BY DEF IInv, TypeOK
<1>2. b.signers \in SUBSET Signers /\ c.signers \in SUBSET Signers
  BY <1>1 DEF SealedBlock
<1>3. /\ Cardinality(b.signers) >= K /\ \A r \in b.signers : b.tmpl \in custody[r]
      /\ Cardinality(c.signers) >= K /\ \A r \in c.signers : c.tmpl \in custody[r]
  BY DEF IInv, SealInv, SignaturesAreReal
<1>4. PICK r \in Signers : r \in b.signers /\ r \in c.signers
  BY <1>2, <1>3, QuorumsMeet
<1>5. PICK i \in DOMAIN journal[r] : journal[r][i].subject = b.tmpl
  BY <1>3, <1>4 DEF IInv, JournalInv, SignaturesAreJournalled
<1>6. PICK k \in DOMAIN journal[r] : journal[r][k].subject = c.tmpl
  BY <1>3, <1>4 DEF IInv, JournalInv, SignaturesAreJournalled
<1>7. journal[r][i].height = journal[r][k].height
  BY <1>4, <1>5, <1>6 DEF IInv, JournalInv, JournalFits
<1>8. i \in Nat /\ k \in Nat
  BY <1>4, <1>5, <1>6 DEF IInv, TypeOK
<1>9. i < k \/ k < i \/ i = k
  BY <1>8
<1>10. b.tmpl = c.tmpl
  BY <1>4, <1>5, <1>6, <1>7, <1>9 DEF IInv, JournalInv, VotesRespectWindow
<1> QED
  BY <1>10 DEF IInv, SealInv, SealedOnce

\* Under the strict rule, with 2K > N, no two signers ever have different blocks
\* at one height: the chains of the federation never fork.
THEOREM StrictAgreement ==
  ASSUME ResignAfter = Never, 2 * K > N
  PROVE  Spec => []Agreement
<1>1. IInv => Agreement
  <2> SUFFICES ASSUME IInv, NEW r \in Signers, NEW s \in Signers,
                      NEW h \in DOMAIN chain[r] \cap DOMAIN chain[s]
               PROVE  chain[r][h] = chain[s][h]
    BY DEF Agreement
  <2>1. /\ chain[r][h] \in sealed /\ chain[r][h].tmpl.height = h
        /\ chain[s][h] \in sealed /\ chain[s][h].tmpl.height = h
    BY DEF IInv, SealInv, ChainsAreSealed
  <2> QED
    BY <2>1, OneBlockPerHeight
<1> QED
  BY <1>1, Invariance, PTL

-----------------------------------------------------------------------------
(* The strict round implements one replicated ledger. *)

Strict == ResignAfter = Never /\ 2 * K > N

OneBlock == \A b, c \in sealed : b.tmpl.height = c.tmpl.height => b = c

LEMMA StrictOneBlock == Strict /\ IInv => OneBlock
  BY OneBlockPerHeight DEF Strict, OneBlock

\* The blocks ever sealed are one sequence, a block per height.
DecidedFits ==
    \E n \in Nat :
        /\ SealedHeights = 1 .. n
        /\ Decided \in Seq(SealedBlock) /\ Len(Decided) = n
        /\ \A b \in sealed : b.tmpl.height \in 1 .. n /\ Decided[b.tmpl.height] = b

LEMMA SealedAre ==
  ASSUME IInv
  PROVE  \E n \in Nat : SealedHeights = 1 .. n
<1>1. SealedHeights \subseteq 1 .. MaxHeight /\ MaxHeight \in Nat
  BY BoundAssumption DEF IInv, TypeOK, SealedBlock, Template, Heights, SealedHeights
<1>2. CASE SealedHeights = {}
  <2>1. SealedHeights = 1 .. 0
    BY <1>2
  <2> QED
    BY <2>1
<1>3. CASE SealedHeights # {}
  <2>1. PICK m \in SealedHeights : \A k \in SealedHeights : k <= m
    BY <1>1, <1>3, LastIndex
  <2>2. m \in Nat /\ SealedHeights \subseteq 1 .. m
    BY <1>1, <2>1
  <2>3. PICK b \in sealed : b.tmpl.height = m
    BY <2>1 DEF SealedHeights
  <2>4. \A h \in 1 .. m : \E c \in sealed : c.tmpl.height = h
    BY <2>3 DEF IInv, SealInv, SealedOnSealed
  <2>5. 1 .. m \subseteq SealedHeights
    BY <2>4 DEF SealedHeights
  <2> QED
    BY <2>2, <2>5
<1> QED
  BY <1>2, <1>3

LEMMA StrictDecided == Strict /\ IInv => DecidedFits
<1> SUFFICES ASSUME Strict, IInv PROVE DecidedFits
  OBVIOUS
<1>1. PICK n \in Nat : SealedHeights = 1 .. n
  BY SealedAre
<1>2. \A b \in sealed : b \in SealedBlock /\ b.tmpl.height \in 1 .. n
  BY <1>1 DEF IInv, TypeOK, SealedHeights
<1>3. ASSUME NEW h \in 1 .. n
      PROVE  Decided[h] \in sealed /\ Decided[h].tmpl.height = h
  <2>1. \E b \in sealed : b.tmpl.height = h
    BY <1>1 DEF SealedHeights
  <2>2. Decided[h] = CHOOSE b \in sealed : b.tmpl.height = h
    BY <1>1 DEF Decided
  <2> QED
    BY <2>1, <2>2
<1>4. \A b \in sealed : Decided[b.tmpl.height] = b
  BY <1>2, <1>3, StrictOneBlock DEF OneBlock
<1>5. Decided = [h \in 1 .. n |-> Decided[h]]
  BY <1>1 DEF Decided
<1>6. \A h \in 1 .. n : Decided[h] \in SealedBlock
  BY <1>2, <1>3
<1>7. Decided \in Seq(SealedBlock) /\ Len(Decided) = n
  <2> HIDE DEF Decided
  <2>1. Decided \in [1 .. n -> SealedBlock]
    BY <1>5, <1>6
  <2> QED
    BY <2>1
<1> QED
  BY <1>1, <1>2, <1>4, <1>7 DEF DecidedFits

\* One chain grows by one sealed block of its next height, new or not.
Grows(s, b) ==
    /\ b.tmpl.height = Height(s) + 1
    /\ chain' = [chain EXCEPT ![s] = Append(@, b)]
    /\ sealed' = sealed \cup {b}

LEMMA ChainSteps ==
  ASSUME TypeOK, [Next]_vars
  PROVE  \/ UNCHANGED <<chain, sealed>>
         \/ \E s \in Signers : Restart(s) \/ \E b \in SealedBlock : Grows(s, b)
<1>1. CASE UNCHANGED vars
  BY <1>1 DEF vars
<1>2. CASE AdvanceClock
  BY <1>2 DEF AdvanceClock
<1>3. ASSUME NEW s \in Signers, SignerStep(s)
      PROVE  UNCHANGED <<chain, sealed>> \/ Restart(s) \/ \E b \in SealedBlock : Grows(s, b)
  <2>1. ASSUME NEW p \in Pending, NEW due, NEW t, MaybeSeal(s, p, due, t)
        PROVE  UNCHANGED <<chain, sealed>> \/ \E b \in SealedBlock : Grows(s, b)
    <3> DEFINE b == [tmpl |-> p.tmpl, signers |-> p.sigs]
    <3>1. b \in SealedBlock
      BY DEF Pending, SealedBlock
    <3>2. UNCHANGED <<chain, sealed>> \/ Grows(s, b)
      BY <2>1 DEF MaybeSeal, Grows, Valid
    <3> QED
      BY <3>1, <3>2
  <2>2. CASE TickNotDue(s) \/ Restart(s) \/ \E t \in Readings : TickDrop(s, t) \/ TickDue(s, t)
    BY <2>2 DEF TickNotDue, TickDrop, TickDue
  <2>3. ASSUME NEW t \in Readings, NEW m \in partials, OnPartial(s, m, t)
        PROVE  UNCHANGED <<chain, sealed>> \/ \E b \in SealedBlock : Grows(s, b)
    <3> DEFINE p == [pending[s] EXCEPT !.sigs = @ \cup {m.by}]
    <3>1. pending[s] \in Pending /\ m.by \in Signers
      BY <2>3 DEF TypeOK, OnPartial
    <3>2. p \in Pending
      BY <3>1 DEF Pending
    <3>3. MaybeSeal(s, p, dueSince[s], t)
      BY <2>3 DEF OnPartial
    <3> HIDE DEF p
    <3> QED
      BY <2>1, <3>2, <3>3
  <2>4. ASSUME NEW t \in Readings, NEW b \in published, OnSealed(s, b, t)
        PROVE  UNCHANGED <<chain, sealed>> \/ \E c \in SealedBlock : Grows(s, c)
    <3>1. b \in SealedBlock /\ b \in sealed
      BY DEF TypeOK
    <3>2. Grows(s, b)
      BY <2>4, <3>1 DEF OnSealed, Valid, Grows
    <3> QED
      BY <3>1, <3>2
  <2>5. ASSUME NEW t \in Readings, NEW o \in Outcomes, TickPropose(s, t, o)
        PROVE  UNCHANGED <<chain, sealed>> \/ \E b \in SealedBlock : Grows(s, b)
    <3> DEFINE p == [tmpl |-> NextTemplate(s, t), sigs |-> {s}, at |-> t]
    <3>1. t \in Nat /\ NextTemplate(s, t) \in Template
      BY <2>5, ReadingsType, NextTemplateType DEF TickPropose, TypeOK
    <3>2. p \in Pending
      BY <3>1 DEF Pending
    <3>3. MaybeSeal(s, p, Due(s, t), t) \/ UNCHANGED <<chain, sealed>>
      BY <2>5 DEF TickPropose
    <3> HIDE DEF p
    <3> QED
      BY <2>1, <3>2, <3>3
  <2>6. ASSUME NEW t \in Readings, NEW o \in Outcomes, NEW tmpl \in proposals,
               OnProposal(s, tmpl, t, o)
        PROVE  UNCHANGED <<chain, sealed>>
    BY <2>6 DEF OnProposal
  <2> QED
    BY <1>3, <2>2, <2>3, <2>4, <2>5, <2>6 DEF SignerStep
<1> QED
  BY <1>1, <1>2, <1>3 DEF Next

\* A chain that grows learns the next block of the ledger, or decides it.
LEMMA LedgerStep ==
  ASSUME Strict, IInv, IInv', NEW s \in Signers, NEW b \in SealedBlock, Grows(s, b)
  PROVE  Ledger!Next
<1>1. OneBlock' /\ DecidedFits /\ DecidedFits'
  BY StrictOneBlock, StrictDecided, PTL
<1>2. /\ chain[s] \in Seq(SealedBlock) /\ Len(chain[s]) \in Nat /\ Height(s) = Len(chain[s])
      /\ DOMAIN chain[s] = 1 .. Len(chain[s])
  BY DEF IInv, TypeOK, Height
<1>3. chain' = [chain EXCEPT ![s] = Append(chain[s], b)]
  BY DEF Grows
<1>4. b.tmpl.height = Len(chain[s]) + 1 /\ sealed' = sealed \cup {b}
  BY <1>2 DEF Grows
<1>5. PICK n \in Nat :
         /\ SealedHeights = 1 .. n
         /\ Decided \in Seq(SealedBlock) /\ Len(Decided) = n
         /\ \A c \in sealed : c.tmpl.height \in 1 .. n /\ Decided[c.tmpl.height] = c
  BY <1>1 DEF DecidedFits
<1>6. CASE b \in sealed
  <2>1. Decided' = Decided
    BY <1>4, <1>6 DEF Decided, SealedHeights
  <2>2. Len(chain[s]) < Len(Decided) /\ Decided[Len(chain[s]) + 1] = b
    BY <1>2, <1>4, <1>5, <1>6
  <2>3. Ledger!Learn(s)
    BY <1>3, <2>1, <2>2 DEF Ledger!Learn
  <2> QED
    BY <2>3 DEF Ledger!Next
<1>7. CASE b \notin sealed
  <2>1. ~\E c \in sealed : c.tmpl.height = Len(chain[s]) + 1
    BY <1>1, <1>4, <1>7 DEF OneBlock
  <2>2. Len(chain[s]) + 1 \notin 1 .. n
    BY <1>5, <2>1 DEF SealedHeights
  <2>3. \A h \in 1 .. Len(chain[s]) : chain[s][h] \in sealed /\ chain[s][h].tmpl.height = h
    BY <1>2 DEF IInv, SealInv, ChainsAreSealed
  <2>4. \A h \in 1 .. Len(chain[s]) : h \in 1 .. n /\ Decided[h] = chain[s][h]
    BY <1>5, <2>3
  <2>5. n = Len(chain[s])
    <3>1. n < Len(chain[s]) + 1
      BY <1>2, <2>2
    <3>2. Len(chain[s]) # 0 => Len(chain[s]) \in 1 .. n
      BY <1>2, <2>4
    <3> QED
      BY <1>2, <3>1, <3>2
  <2>6. Decided = chain[s]
    BY <1>2, <1>5, <2>4, <2>5, SeqEqual
  <2>7. PICK m \in Nat :
           /\ SealedHeights' = 1 .. m
           /\ Decided' \in Seq(SealedBlock) /\ Len(Decided') = m
           /\ \A c \in sealed' : c.tmpl.height \in 1 .. m /\ Decided'[c.tmpl.height] = c
    BY <1>1 DEF DecidedFits
  <2>8. SealedHeights' = SealedHeights \cup {n + 1}
    BY <1>4, <2>5 DEF SealedHeights
  <2>9. m = n + 1
    <3>1. n + 1 \in 1 .. m
      BY <2>7, <2>8
    <3>2. m \in 1 .. m
      BY <2>7, <3>1
    <3>3. m \in 1 .. n \/ m = n + 1
      BY <1>5, <2>7, <2>8, <3>2, Zenon
    <3> QED
      BY <1>5, <2>7, <3>1, <3>3
  <2>10. Decided'[n + 1] = b /\ \A h \in 1 .. n : Decided'[h] = chain[s][h]
    <3>1. Decided'[n + 1] = b
      BY <1>4, <2>5, <2>7
    <3>2. \A h \in 1 .. n : chain[s][h] \in sealed' /\ chain[s][h].tmpl.height = h
      BY <1>4, <2>3, <2>5
    <3> QED
      BY <2>7, <3>1, <3>2
  <2>11. /\ Append(chain[s], b) \in Seq(SealedBlock) /\ Len(Append(chain[s], b)) = n + 1
         /\ Append(chain[s], b)[n + 1] = b
         /\ \A h \in 1 .. n : Append(chain[s], b)[h] = chain[s][h]
    BY <1>2, <2>5
  <2>12. \A h \in 1 .. n + 1 : Decided'[h] = Append(chain[s], b)[h]
    BY <2>10, <2>11
  <2>13. Decided' = Append(chain[s], b)
    BY <2>7, <2>9, <2>11, <2>12, SeqEqual
  <2>14. Ledger!Extended(Decided, Decided')
    BY <2>5, <2>6, <2>11, <2>13 DEF Ledger!Extended
  <2>15. Ledger!Decide(s)
    BY <1>3, <2>6, <2>13, <2>14 DEF Ledger!Decide
  <2> QED
    BY <2>15 DEF Ledger!Next
<1> QED
  BY <1>6, <1>7

\* Under the strict rule with 2K > N the round implements one replicated ledger:
\* every seal and every received block extends or follows a single sequence of
\* blocks, also when signers restart with block files that lost any of them.
THEOREM StrictImplementsLedger ==
  ASSUME ResignAfter = Never, 2 * K > N
  PROVE  Spec => ImplementsLedger
<1>0. Strict
  BY DEF Strict
<1>1. Init => Ledger!Init
  <2> SUFFICES ASSUME Init PROVE Ledger!Init
    OBVIOUS
  <2>1. SealedHeights = {}
    BY DEF Init, SealedHeights
  <2>2. Decided = <<>>
    BY <2>1 DEF Decided
  <2> QED
    BY <2>2 DEF Init, Ledger!Init
<1>2. IInv /\ IInv' /\ [Next]_vars => [Ledger!Next]_<<Decided, chain>>
  <2> SUFFICES ASSUME IInv, IInv', [Next]_vars
               PROVE  [Ledger!Next]_<<Decided, chain>>
    OBVIOUS
  <2>1. \/ UNCHANGED <<chain, sealed>>
        \/ \E s \in Signers : Restart(s) \/ \E b \in SealedBlock : Grows(s, b)
    BY ChainSteps DEF IInv
  <2>2. CASE UNCHANGED <<chain, sealed>>
    BY <2>2 DEF Decided, SealedHeights
  <2>3. ASSUME NEW s \in Signers, Restart(s)
        PROVE  Ledger!Next
    <3>1. PICK n \in 0 .. Height(s) : chain' = [chain EXCEPT ![s] = SubSeq(@, 1, n)]
      BY <2>3, RestartCuts DEF IInv
    <3>2. Decided' = Decided
      BY <2>3 DEF Restart, Decided, SealedHeights
    <3>3. Ledger!Lose(s)
      BY <3>1, <3>2 DEF Ledger!Lose, Height
    <3> QED
      BY <3>3 DEF Ledger!Next
  <2>4. ASSUME NEW s \in Signers, NEW b \in SealedBlock, Grows(s, b)
        PROVE  Ledger!Next
    BY <1>0, <2>4, LedgerStep
  <2> QED
    BY <2>1, <2>2, <2>3, <2>4
<1> QED
  BY <1>1, <1>2, Invariance, PTL DEF Spec, ImplementsLedger, Ledger!Spec
=============================================================================
