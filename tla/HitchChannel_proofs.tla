------------------------- MODULE HitchChannel_proofs -------------------------
(***************************************************************************)
(* Proofs about the payment channel, for any hashes, funds, delays and     *)
(* bounds, and for either side holding the lower key: what each machine    *)
(* holds (SideInv) is enough to recognise, catch up with and restore from  *)
(* whatever either side has signed.                                        *)
(*                                                                         *)
(* Each step of a side is first reduced to what it does to that side's     *)
(* machine (Moves): it stands still, proposes, drops its pending update,   *)
(* or enters the next state.  Every part of the invariant is then shown    *)
(* once for each of the four.                                              *)
(***************************************************************************)
EXTENDS HitchChannel, TLAPS
-----------------------------------------------------------------------------
(* The inductive invariant. *)

\* The numbers of a machine fit together: what lies above the agreed state is
\* the pending update, an update is pending or set aside for the next state only
\* when no secret is awaited.
Numbered(s) ==
    /\ states[s][0] = Opening
    /\ \A k \in Numbers : k <= num[s] => states[s][k] # None
    /\ \A k \in Numbers : k > num[s] /\ states[s][k] # None => pending[s] # None /\ pending[s].n = k
    /\ pending[s] # None => /\ pending[s].n = num[s] + 1
                            /\ states[s][num[s] + 1] # None
                            /\ awaiting[s] = None
    /\ awaiting[s] # None => awaiting[s] = num[s] /\ num[s] >= 1
    /\ \A a \in alts[s] : /\ a.n >= 1 /\ a.n <= num[s] + 1
                          /\ a.n = num[s] + 1 => awaiting[s] = None

\* Every state s holds can be built.
Built(s) ==
    /\ \A k \in Numbers : states[s][k] # None => states[s][k].bal["A"] >= Fee
    /\ \A a \in alts[s] : a.st.bal["A"] >= Fee

\* The HTLCs of agreed states are behind the sequence, and those of a state that
\* may become the agreed one are, once its update has been noted.
Sequenced(s) ==
    /\ seq[s] >= 1
    /\ \A k \in Numbers : k <= num[s] => \A x \in states[s][k].htlcs : x.id < seq[s]
    /\ pending[s] # None =>
        \A x \in states[s][pending[s].n].htlcs :
            x.id < seq[s] \/ (pending[s].upd.t = "add" /\ x.id = pending[s].upd.id)
    /\ \A a \in alts[s] : \A x \in a.st.htlcs :
            x.id < seq[s] \/ (a.upd.t = "add" /\ x.id = a.upd.id)

\* The other side has signed every state s has agreed to.
Signed(s) ==
    /\ \A k \in Numbers : k <= num[s] => [n |-> k, st |-> states[s][k]] \in SignedBy(Other(s))
    /\ pending[s] # None =>
        [t |-> "update", by |-> s, n |-> pending[s].n, upd |-> pending[s].upd,
         st |-> states[s][pending[s].n], k |-> pending[s].k] \in net

\* s still holds whatever it has signed: agreed, pending or set aside.
Holds(s, n, st) ==
    \/ n <= num[s] /\ states[s][n] = st
    \/ pending[s] # None /\ pending[s].n = n /\ states[s][n] = st
    \/ \E a \in alts[s] : a.n = n /\ a.st = st

\* What the messages of s say is true of s for ever.
Said(s) ==
    \A m \in net : m.by = s =>
        /\ m.t = "update" => m.n >= 1 /\ m.n <= num[s] + 1 /\ Holds(s, m.n, m.st)
        /\ m.t = "ack" => m.n >= 1 /\ m.n <= num[s] /\ states[s][m.n] = m.st
        /\ m.t = "revoke" => m.n >= 1 /\ m.n <= num[s]
        /\ m.t \in {"sync", "synced"} => \A i \in m.reveals : i < num[s]
        /\ m.t = "close" => coop[s] = m.st /\ m.n = num[s]

\* A side is at most one state ahead, and then by an update of the other's.
Ahead(s) ==
    num[s] > num[Other(s)] =>
        /\ num[s] = num[Other(s)] + 1
        /\ \E m \in net : /\ m.t = "update" /\ m.by = Other(s)
                          /\ m.n = num[s] /\ m.st = states[s][num[s]]

\* Only secrets of states that the other side has left are known.
Revealed(s) == \A i \in revoked[s] : i < num[Other(s)]

\* While the channel is live, every secret of an earlier state is here, but for
\* the one that is awaited.
Final(s) ==
    status[s] \in Live =>
        \A i \in Numbers : i < num[s] => i \in revoked[s] \/ (awaiting[s] # None /\ i = num[s] - 1)

\* A side that has begun to close stays where it is, and what it publishes is
\* the state it is in.
Closing(s) ==
    /\ status[s] = "open" => coop[s] = None
    /\ status[s] \in {"closing-asked", "closing"} => pending[s] = None
    /\ coop[s] # None => coop[s] = states[s][num[s]]
    /\ \A tx \in sent : tx.t = "commit" /\ tx.by = s =>
        /\ status[s] \notin Live \cup {"closing"}
        /\ close[s] = tx /\ tx.n = num[s] /\ tx.st = states[s][num[s]]
    /\ \A tx \in sent : tx.t = "coop" => coop[s] = tx.st

Fair(s) == status[s] \notin {"spent-unknown", "punishing"}

SideInv(s) ==
    /\ Numbered(s) /\ Built(s) /\ Sequenced(s) /\ Signed(s) /\ Said(s)
    /\ Ahead(s) /\ Revealed(s) /\ Final(s) /\ Closing(s) /\ Fair(s)

IInv == TypeOK /\ (spend # None => spend \in sent) /\ \A s \in Sides : SideInv(s)
-----------------------------------------------------------------------------
(* Facts about the operators. *)

LEMMA TwoSides ==
    ASSUME NEW s \in Sides
    PROVE  Other(s) \in Sides /\ Other(s) # s /\ Other(Other(s)) = s /\ Sides = {s, Other(s)}
  BY DEF Sides, Other

LEMMA OtherSide ==
    ASSUME NEW s \in Sides, NEW p \in Sides, p # s
    PROVE  p = Other(s) /\ s = Other(p)
  BY DEF Sides, Other

LEMMA OpeningSound == Opening \in State /\ Opening.bal["A"] >= Fee /\ Opening.htlcs = {}
  BY SideAssumption DEF Opening, State

\* The fields of a message of each kind.
LEMMA MessageFields ==
    ASSUME NEW m \in Message
    PROVE  /\ m.by \in Sides /\ m.n \in Numbers
           /\ m.t = "update" => m.upd \in Update /\ m.st \in State /\ m.k \in Nat
           /\ m.t = "ack" => m.st \in State
           /\ m.t = "close" => m.st \in State
           /\ m.t \in {"sync", "synced"} => m.missing \subseteq Numbers /\ m.reveals \subseteq Numbers
  BY DEF Message

LEMMA UpdateFields ==
    ASSUME NEW u \in Update
    PROVE  /\ u.t \in {"pay", "add", "settle", "fail"}
           /\ u.t = "add" => u.id \in Nat /\ u.hash \in Hashes /\ u.expiry \in Nat
           /\ u.t = "settle" => u.id \in Nat /\ u.hash \in Hashes
           /\ u.t = "fail" => u.id \in Nat
  BY DEF Update

\* The largest of a set that has a largest element.
LEMMA MaxIs ==
    ASSUME NEW S \in SUBSET Int, NEW x \in S, \A y \in S : x >= y
    PROVE  Max(S) = x
  <1>1. Max(S) \in S /\ \A y \in S : Max(S) >= y
    BY DEF Max
  <1>2. Max(S) \in Int /\ x \in Int /\ Max(S) >= x /\ x >= Max(S)
    BY <1>1
  <1> QED  BY <1>2

\* Once the HTLCs of a state are behind the sequence, the sequence is the next id.
LEMMA NextIdIsSeq ==
    ASSUME NEW s \in Sides, seq[s] \in Nat, NEW st \in State, \A x \in st.htlcs : x.id < seq[s]
    PROVE  NextHtlcId(s, st) = seq[s]
  <1> DEFINE S == {h.id + 1 : h \in st.htlcs} \cup {seq[s]}
  <1>1. \A h \in st.htlcs : h.id \in Nat
    BY DEF State, Htlc
  <1>2. S \in SUBSET Int /\ \A y \in S : seq[s] >= y
    BY <1>1
  <1>3. Max(S) = seq[s]
    BY <1>2, MaxIs
  <1> QED  BY <1>3 DEF NextHtlcId

\* What an accepted update makes of a state that can be built.
LEMMA NextStatesSound ==
    ASSUME NEW s \in Sides, NEW st \in State, NEW upd \in Update, NEW p \in Sides,
           NEW x \in NextStates(s, st, upd, p)
    PROVE  /\ x \in State /\ x.bal["A"] >= Fee
           /\ \A y \in x.htlcs : y \in st.htlcs \/ (upd.t = "add" /\ y.id = upd.id)
  <1>1. x.bal[p] >= 0 /\ x.bal["A"] >= Fee
    BY DEF NextStates
  <1>2. upd.t \in {"pay", "add", "settle", "fail"}
    BY UpdateFields
  <1>3. st.bal \in [Sides -> Nat] /\ st.htlcs \in SUBSET Htlc
    BY DEF State
  <1>4. CASE upd.t = "pay"
    <2>1. x = Paid(st, p, Other(p))
      BY <1>4 DEF NextStates
    <2>2. x = [bal |-> [st.bal EXCEPT ![p] = @ - 1, ![Other(p)] = @ + 1], htlcs |-> st.htlcs]
      BY <2>1 DEF Paid
    <2>3. x.bal \in [Sides -> Nat]
      <3>1. x.bal = [st.bal EXCEPT ![p] = @ - 1, ![Other(p)] = @ + 1]
        BY <2>2
      <3>2. x.bal \in [Sides -> Int]
        BY <3>1, <1>3, TwoSides
      <3>3. \A q \in Sides : q # p => x.bal[q] \in Nat
        BY <3>1, <1>3, TwoSides, OtherSide
      <3>4. x.bal[p] \in Nat
        BY <1>1, <3>2
      <3> QED  BY <3>2, <3>3, <3>4
    <2> QED  BY <2>2, <2>3, <1>1, <1>3 DEF State
  <1>5. CASE upd.t = "add"
    <2>1. x = Offered(st, p, upd)
      BY <1>5 DEF NextStates
    <2>2. x.bal \in [Sides -> Nat]
      <3>1. x.bal = [st.bal EXCEPT ![p] = @ - 1]
        BY <2>1 DEF Offered
      <3>2. x.bal \in [Sides -> Int]
        BY <3>1, <1>3
      <3>3. \A q \in Sides : q # p => x.bal[q] \in Nat
        BY <3>1, <1>3
      <3>4. x.bal[p] \in Nat
        BY <1>1, <3>2
      <3> QED  BY <3>2, <3>3, <3>4
    <2>3. [id |-> upd.id, from |-> p, hash |-> upd.hash, expiry |-> upd.expiry] \in Htlc
      BY <1>5, UpdateFields DEF Htlc
    <2> QED  BY <2>1, <2>2, <2>3, <1>1, <1>3, <1>5 DEF State, Offered
  <1>6. ASSUME NEW h \in st.htlcs, NEW to \in Sides, x = Resolved(st, h, to)
        PROVE  x \in State /\ x.htlcs \subseteq st.htlcs
    <2>1. x.bal = [st.bal EXCEPT ![to] = @ + 1] /\ x.htlcs = st.htlcs \ {h}
      BY <1>6 DEF Resolved
    <2>2. x.bal \in [Sides -> Nat]
      BY <2>1, <1>3
    <2> QED  BY <2>1, <2>2, <1>3, <1>6 DEF State, Resolved
  <1>7. CASE upd.t = "settle"
    <2>1. PICK h \in st.htlcs : x = Resolved(st, h, p)
      BY <1>7 DEF NextStates
    <2> QED  BY <2>1, <1>1, <1>6
  <1>8. CASE upd.t = "fail"
    <2>1. PICK h \in st.htlcs : x = Resolved(st, h, h.from)
      BY <1>8 DEF NextStates
    <2>2. h.from \in Sides
      BY <1>3 DEF Htlc
    <2> QED  BY <2>1, <2>2, <1>1, <1>6
  <1> QED  BY <1>2, <1>4, <1>5, <1>7, <1>8
-----------------------------------------------------------------------------
(* Types. *)

LEMMA Typed ==
    ASSUME TypeOK, NEW s \in Sides
    PROVE  /\ status[s] \in Statuses /\ num[s] \in Numbers /\ num[s] \in Nat /\ num[s] <= MaxN
           /\ states[s] \in [Numbers -> State \cup {None}]
           /\ accepted[s] \in Nat
           /\ pending[s] \in [n : Numbers, upd : Update, k : Nat] \cup {None}
           /\ awaiting[s] \in Numbers \cup {None}
           /\ revoked[s] \in SUBSET Numbers
           /\ alts[s] \in SUBSET [n : Numbers, st : State, upd : Update]
           /\ knows[s] \in SUBSET Hashes /\ seq[s] \in Nat
           /\ coop[s] \in State \cup {None} /\ close[s] \in Tx \cup {None}
           /\ made[s] \in Nat /\ view[s] \in Nat
           /\ Numbers \subseteq Nat /\ 0 \in Numbers
  BY NumberAssumption DEF TypeOK, Numbers

\* The agreed state of a side.
LEMMA CurrentSound ==
    ASSUME IInv, NEW s \in Sides
    PROVE  /\ Current(s) \in State
           /\ \A x \in Current(s).htlcs : x.id < seq[s]
           /\ NextHtlcId(s, Current(s)) = seq[s]
  <1>1. num[s] \in Numbers /\ states[s][num[s]] \in State \cup {None} /\ seq[s] \in Nat /\ num[s] <= num[s]
    BY Typed DEF IInv
  <1>2. Numbered(s) /\ Sequenced(s)
    BY DEF IInv, SideInv
  <1>3. Current(s) \in State /\ \A x \in Current(s).htlcs : x.id < seq[s]
    BY <1>1, <1>2 DEF Numbered, Sequenced, Current
  <1> QED  BY <1>1, <1>3, NextIdIsSeq

\* The record of a pending update, as Aside keeps it.
Kept(s) == [n |-> pending[s].n, st |-> states[s][pending[s].n], upd |-> pending[s].upd]

LEMMA PendingSound ==
    ASSUME IInv, NEW s \in Sides, pending[s] # None
    PROVE  /\ pending[s].n = num[s] + 1 /\ num[s] + 1 \in Numbers
           /\ states[s][num[s] + 1] \in State
           /\ pending[s].upd \in Update /\ pending[s].k \in Nat
           /\ Kept(s) \in [n : Numbers, st : State, upd : Update]
           /\ Kept(s).n = num[s] + 1 /\ Kept(s).st = states[s][num[s] + 1]
           /\ Kept(s).upd = pending[s].upd
  <1>1. /\ pending[s] \in [n : Numbers, upd : Update, k : Nat]
        /\ states[s] \in [Numbers -> State \cup {None}]
    BY Typed DEF IInv
  <1>2. /\ pending[s].n = num[s] + 1 /\ states[s][num[s] + 1] # None
    BY DEF IInv, SideInv, Numbered
  <1>3. pending[s].n \in Numbers /\ pending[s].upd \in Update /\ pending[s].k \in Nat
    BY <1>1
  <1>4. states[s][num[s] + 1] \in State
    BY <1>1, <1>2, <1>3
  <1> QED  BY <1>2, <1>3, <1>4 DEF Kept

LEMMA AsideSound ==
    ASSUME IInv, NEW s \in Sides
    PROVE  /\ Aside(s) \in SUBSET [n : Numbers, st : State, upd : Update]
           /\ alts[s] \subseteq Aside(s)
           /\ \A a \in Aside(s) : a \in alts[s] \/ (pending[s] # None /\ a = Kept(s))
           /\ pending[s] = None => Aside(s) = alts[s]
           /\ pending[s] # None => \E a \in Aside(s) : a.n = num[s] + 1 /\ a.st = states[s][num[s] + 1]
  <1>1. alts[s] \in SUBSET [n : Numbers, st : State, upd : Update]
    BY Typed DEF IInv
  <1>2. CASE pending[s] = None
    BY <1>1, <1>2 DEF Aside
  <1>3. CASE pending[s] # None
    <2>1. /\ pending[s].n = num[s] + 1 /\ Kept(s).n = num[s] + 1
          /\ Kept(s).st = states[s][num[s] + 1]
          /\ Kept(s) \in [n : Numbers, st : State, upd : Update]
      BY <1>3, PendingSound
    <2>2. CASE \E a \in alts[s] : a.n = pending[s].n /\ a.st = states[s][a.n]
      <3>1. Aside(s) = alts[s]
        BY <2>2 DEF Aside
      <3> QED  BY <3>1, <2>2, <2>1, <1>1, <1>3
    <2>3. CASE ~ \E a \in alts[s] : a.n = pending[s].n /\ a.st = states[s][a.n]
      <3>1. Aside(s) = alts[s] \cup {Kept(s)}
        BY <2>3, <1>3 DEF Aside, Kept
      <3> QED  BY <3>1, <2>1, <1>1, <1>3
    <2> QED  BY <2>2, <2>3
  <1> QED  BY <1>2, <1>3

LEMMA DropType ==
    ASSUME IInv, NEW s \in Sides, DropPending(s)
    PROVE  /\ alts' \in [Sides -> SUBSET [n : Numbers, st : State, upd : Update]]
           /\ states' \in [Sides -> [Numbers -> State \cup {None}]]
           /\ pending' \in [Sides -> [n : Numbers, upd : Update, k : Nat] \cup {None}]
  <1>1. TypeOK
    BY DEF IInv
  <1>2. alts' \in [Sides -> SUBSET [n : Numbers, st : State, upd : Update]]
    BY <1>1, AsideSound DEF TypeOK, DropPending
  <1>3. pending' \in [Sides -> [n : Numbers, upd : Update, k : Nat] \cup {None}]
    BY <1>1 DEF TypeOK, DropPending
  <1>4. states' \in [Sides -> [Numbers -> State \cup {None}]]
    <2>1. [states[s] EXCEPT ![pending[s].n] = None] \in [Numbers -> State \cup {None}]
      BY <1>1, Typed
    <2> QED  BY <2>1, <1>1 DEF TypeOK, DropPending
  <1> QED  BY <1>2, <1>3, <1>4

LEMMA LearnType ==
    ASSUME TypeOK, NEW s \in Sides, NEW upd \in Update, Learn(s, upd)
    PROVE  /\ seq' \in [Sides -> Nat] /\ knows' \in [Sides -> SUBSET Hashes]
           /\ seq'[s] >= seq[s] /\ (upd.t = "add" => seq'[s] > upd.id)
           /\ seq'[Other(s)] = seq[Other(s)]
  <1> DEFINE S == {seq[s], upd.id + 1}
             v == IF upd.t = "add" THEN Max(S) ELSE seq[s]
  <1>1. seq[s] \in Nat
    BY Typed
  <1>2. v \in Nat /\ v >= seq[s] /\ (upd.t = "add" => v > upd.id)
    <2>1. CASE upd.t = "add"
      <3>1. upd.id \in Nat
        BY <2>1, UpdateFields
      <3>2. CASE upd.id + 1 >= seq[s]
        <4>1. Max(S) = upd.id + 1
          BY <3>1, <3>2, <1>1, MaxIs
        <4> QED  BY <4>1, <3>1, <3>2, <2>1, <1>1
      <3>3. CASE ~(upd.id + 1 >= seq[s])
        <4>1. Max(S) = seq[s]
          BY <3>1, <3>3, <1>1, MaxIs
        <4> QED  BY <4>1, <3>1, <3>3, <2>1, <1>1
      <3> QED  BY <3>2, <3>3
    <2> QED  BY <2>1, <1>1
  <1>3. seq' = [seq EXCEPT ![s] = v]
    BY DEF Learn
  <1>4. upd.t = "settle" => upd.hash \in Hashes
    BY UpdateFields
  <1>5. knows' \in [Sides -> SUBSET Hashes]
    <2>1. knows[s] \cup (IF upd.t = "settle" THEN {upd.hash} ELSE {}) \in SUBSET Hashes
      BY <1>4, Typed
    <2> QED  BY <2>1 DEF TypeOK, Learn
  <1> HIDE DEF v
  <1> QED  BY <1>2, <1>3, <1>5, TwoSides DEF TypeOK

LEMMA RevealsType ==
    ASSUME TypeOK, NEW s \in Sides, NEW is \in SUBSET Numbers, TakeReveals(s, is)
    PROVE  /\ revoked' \in [Sides -> SUBSET Numbers]
           /\ awaiting' \in [Sides -> Numbers \cup {None}]
           /\ revoked'[s] = revoked[s] \cup is /\ revoked'[Other(s)] = revoked[Other(s)]
           /\ awaiting'[s] = IF awaiting[s] # None /\ awaiting[s] - 1 \in revoked[s] \cup is
                             THEN None ELSE awaiting[s]
           /\ awaiting'[Other(s)] = awaiting[Other(s)]
  BY TwoSides DEF TypeOK, TakeReveals

LEMMA LeftType ==
    ASSUME TypeOK, NEW s \in Sides, LeftOver(s)
    PROVE  /\ buffered' \in [Sides -> [n : Numbers, over : BOOLEAN] \cup {None}]
           /\ buffered'[Other(s)] = buffered[Other(s)]
           /\ \/ buffered'[s] = buffered[s] /\ (buffered[s] # None => awaiting'[s] # None)
              \/ buffered[s] # None /\ buffered'[s] # None /\ buffered'[s].n = buffered[s].n /\ buffered'[s].over
  <1>1. buffered[s] \in [n : Numbers, over : BOOLEAN] \cup {None} /\ Other(s) # s /\ Other(s) \in Sides
    BY TwoSides DEF TypeOK
  <1>2. CASE buffered[s] # None /\ awaiting'[s] = None
    <2>1. PICK y : y = [buffered[s] EXCEPT !.over = TRUE]
      OBVIOUS
    <2>2. y \in [n : Numbers, over : BOOLEAN] /\ y.n = buffered[s].n /\ y.over
      BY <1>1, <1>2, <2>1
    <2>3. buffered' = [buffered EXCEPT ![s] = y]
      BY <1>2, <2>1 DEF LeftOver
    <2> QED  BY <1>1, <1>2, <2>2, <2>3, NoneAssumption DEF TypeOK
  <1>3. CASE ~(buffered[s] # None /\ awaiting'[s] = None)
    <2>1. buffered' = [buffered EXCEPT ![s] = buffered[s]]
      BY <1>3 DEF LeftOver
    <2> QED  BY <1>1, <1>3, <2>1 DEF TypeOK
  <1> QED  BY <1>2, <1>3

LEMMA AskedType ==
    ASSUME IInv, NEW s \in Sides, NEW upd \in Asked(s)
    PROVE  upd \in Update
  <1>1. Current(s) \in State /\ NextHtlcId(s, Current(s)) \in Nat
    BY CurrentSound, Typed DEF IInv
  <1>2. Current(s).htlcs \in SUBSET Htlc
    BY <1>1 DEF State
  <1>3. HashesBy[s] \subseteq Hashes /\ Expiries \subseteq Nat
    BY SideAssumption, NumberAssumption
  <1>4. CASE upd = [t |-> "pay"]
    BY <1>4 DEF Update
  <1>5. CASE \E h \in HashesBy[s], e \in Expiries :
            upd = [t |-> "add", id |-> NextHtlcId(s, Current(s)), hash |-> h, expiry |-> e]
    <2>1. PICK h \in HashesBy[s], e \in Expiries :
            upd = [t |-> "add", id |-> NextHtlcId(s, Current(s)), hash |-> h, expiry |-> e]
      BY <1>5
    <2>2. upd \in [t : {"add"}, id : Nat, hash : Hashes, expiry : Nat]
      BY <1>1, <1>3, <2>1
    <2> QED  BY <2>2 DEF Update
  <1>6. CASE \E h \in Current(s).htlcs : upd = [t |-> "settle", id |-> h.id, hash |-> h.hash]
    BY <1>2, <1>6 DEF Update, Htlc
  <1>7. CASE \E h \in Current(s).htlcs : upd = [t |-> "fail", id |-> h.id]
    BY <1>2, <1>7 DEF Update, Htlc
  <1> QED  BY <1>4, <1>5, <1>6, <1>7 DEF Asked

LEMMA SyncType ==
    ASSUME IInv, NEW s \in Sides, NEW tag \in {"sync", "synced"},
           NEW missing \in SUBSET Numbers, NEW asked \in SUBSET Numbers
    PROVE  /\ SyncMessage(s, tag, missing, asked) \in Message
           /\ SyncMessage(s, tag, missing, asked).t = tag
           /\ SyncMessage(s, tag, missing, asked).by = s
           /\ \A i \in SyncMessage(s, tag, missing, asked).reveals : i < num[s]
  <1> DEFINE r == {i \in asked \cup {num[s] - 1} : i >= 0 /\ MayReveal(s, i)}
             p == IF pending[s] = None THEN None ELSE pending[s].n
             m == [t |-> tag, by |-> s, n |-> num[s], pending |-> p, missing |-> missing, reveals |-> r]
  <1>1. num[s] \in 0 .. MaxN /\ MaxN \in Nat /\ Numbers = 0 .. MaxN
    BY Typed, NumberAssumption DEF IInv, Numbers
  <1>2. \A i \in r : i < num[s] /\ i \in Numbers
    <2> TAKE i \in r
    <2>1. i >= 0 /\ i < num[s] /\ (i \in Numbers \/ i = num[s] - 1)
      BY DEF MayReveal
    <2> QED  BY <1>1, <2>1
  <1>3. p \in Numbers \cup {None}
    BY PendingSound
  <1>4. SyncMessage(s, tag, missing, asked) = m
    BY DEF SyncMessage
  <1> HIDE DEF r, p
  <1>5. m \in [t : {"sync", "synced"}, by : Sides, n : Numbers, pending : Numbers \cup {None},
               missing : SUBSET Numbers, reveals : SUBSET Numbers]
    BY <1>1, <1>2, <1>3
  <1>6. m \in Message
    BY <1>5 DEF Message
  <1> QED  BY <1>2, <1>4, <1>6

\* Every step keeps the types.
LEMMA ProposeType ==
    ASSUME IInv, NEW s \in Sides, NEW upd \in Asked(s), Propose(s, upd)
    PROVE  TypeOK'
  <1>1. TypeOK /\ upd \in Update /\ Current(s) \in State
    BY AskedType, CurrentSound DEF IInv
  <1>2. num[s] + 1 \in Numbers /\ made[s] + 1 \in Nat
    <2>1. num[s] \in Nat /\ made[s] \in Nat /\ MaxN \in Nat
      BY <1>1, Typed, NumberAssumption
    <2>2. num[s] < MaxN
      BY DEF Propose
    <2> QED  BY ONLY <2>1, <2>2 DEF Numbers
  <1>3. PICK st \in NextStates(s, Current(s), upd, s) :
            /\ states' = [states EXCEPT ![s] = [@ EXCEPT ![num[s] + 1] = st]]
            /\ net' = net \cup {[t |-> "update", by |-> s, n |-> num[s] + 1, upd |-> upd, st |-> st,
                                 k |-> made[s] + 1]}
    BY DEF Propose, Send
  <1>4. st \in State
    BY <1>1, NextStatesSound
  <1>5. states' \in [Sides -> [Numbers -> State \cup {None}]]
    <2>1. [states[s] EXCEPT ![num[s] + 1] = st] \in [Numbers -> State \cup {None}]
      BY <1>1, <1>4, Typed
    <2> QED  BY <2>1, <1>1, <1>3 DEF TypeOK
  <1>6. net' \subseteq Message
    BY <1>1, <1>2, <1>3, <1>4 DEF TypeOK, Message
  <1>7. pending' \in [Sides -> [n : Numbers, upd : Update, k : Nat] \cup {None}]
    BY <1>1, <1>2 DEF TypeOK, Propose
  <1>8. made' \in [Sides -> Nat]
    BY <1>1, <1>2 DEF TypeOK, Propose
  <1> QED  BY <1>1, <1>5, <1>6, <1>7, <1>8 DEF TypeOK, Propose

LEMMA AcceptType ==
    ASSUME IInv, NEW s \in Sides, NEW m \in net, ReceiveUpdateAccept(s, m)
    PROVE  TypeOK'
  <1>1. TypeOK /\ m \in Message /\ m.t = "update"
    BY DEF IInv, TypeOK, ReceiveUpdateAccept
  <1>2. m.n \in Numbers /\ m.upd \in Update /\ m.st \in State /\ m.k \in Nat
    BY <1>1, MessageFields
  <1>3. seq' \in [Sides -> Nat] /\ knows' \in [Sides -> SUBSET Hashes]
    BY <1>1, <1>2, LearnType DEF ReceiveUpdateAccept
  <1>4. states' \in [Sides -> [Numbers -> State \cup {None}]]
    <2>1. [states[s] EXCEPT ![m.n] = m.st] \in [Numbers -> State \cup {None}]
      BY <1>1, <1>2, Typed
    <2> QED  BY <2>1, <1>1 DEF TypeOK, ReceiveUpdateAccept
  <1>5. net' \subseteq Message
    <2>1. [t |-> "ack", by |-> s, n |-> m.n, st |-> m.st] \in Message
      BY <1>2 DEF Message
    <2> QED  BY <2>1, <1>1 DEF TypeOK, ReceiveUpdateAccept, Send
  <1>6. alts' \in [Sides -> SUBSET [n : Numbers, st : State, upd : Update]]
    BY <1>1, AsideSound DEF TypeOK, ReceiveUpdateAccept
  <1>7. /\ pending' \in [Sides -> [n : Numbers, upd : Update, k : Nat] \cup {None}]
        /\ accepted' \in [Sides -> Nat]
        /\ num' \in [Sides -> Numbers] /\ awaiting' \in [Sides -> Numbers \cup {None}]
    BY <1>1, <1>2 DEF TypeOK, ReceiveUpdateAccept
  <1> QED  BY <1>1, <1>3, <1>4, <1>5, <1>6, <1>7 DEF TypeOK, ReceiveUpdateAccept

LEMMA AdvanceType ==
    ASSUME IInv, NEW s \in Sides, NEW m \in net, m.t = "ack", m.by = Other(s), NEW upd \in Update,
           Advance(s, m, upd)
    PROVE  /\ seq' \in [Sides -> Nat] /\ knows' \in [Sides -> SUBSET Hashes]
           /\ accepted' \in [Sides -> Nat] /\ num' \in [Sides -> Numbers]
           /\ revoked' \in [Sides -> SUBSET Numbers] /\ net' \subseteq Message
           /\ m.n \in Numbers /\ m.n - 1 \in Numbers /\ m.st \in State
  <1>1. TypeOK /\ m \in Message
    BY DEF IInv, TypeOK
  <1>2. m.n \in Numbers /\ m.st \in State
    BY <1>1, MessageFields
  <1>3. m.n >= 1
    BY TwoSides DEF IInv, SideInv, Said
  <1>4. m.n - 1 \in Numbers
    BY <1>2, <1>3, NumberAssumption DEF Numbers
  <1>5. seq' \in [Sides -> Nat] /\ knows' \in [Sides -> SUBSET Hashes]
    BY <1>1, LearnType DEF Advance
  <1>6. net' \subseteq Message
    BY <1>1, <1>2 DEF TypeOK, Advance, Send, Message
  <1>7. /\ accepted' \in [Sides -> Nat] /\ num' \in [Sides -> Numbers]
        /\ revoked' \in [Sides -> SUBSET Numbers]
    BY <1>1, <1>2, <1>4 DEF TypeOK, Advance
  <1> QED  BY <1>2, <1>4, <1>5, <1>6, <1>7

LEMMA TypeStep ==
    ASSUME IInv, Next
    PROVE  TypeOK'
  <1>0. TypeOK
    BY DEF IInv
  <1>1. CASE NewBlock
    <2>1. view' \in [Sides -> Nat]
      BY <1>0, <1>1 DEF TypeOK, NewBlock
    <2> QED  BY <1>0, <1>1, <2>1 DEF TypeOK, NewBlock
  <1>2. ASSUME NEW tx \in sent, Confirm(tx)
        PROVE  TypeOK'
    BY <1>0, <1>2 DEF TypeOK, Confirm
  <1>3. ASSUME NEW s \in Sides, SideStep(s)
        PROVE  TypeOK'
    <2>1. ASSUME NEW upd \in Asked(s), Propose(s, upd)
          PROVE  TypeOK'
      BY <2>1, ProposeType
    <2>2. ASSUME NEW h \in Hashes, RememberPreimage(s, h)
          PROVE  TypeOK'
      BY <1>0, <2>2 DEF TypeOK, RememberPreimage
    <2>3. CASE TickExpire(s)
      <3>1. DropPending(s)
        BY <2>3 DEF TickExpire
      <3> QED  BY <1>0, <2>3, <3>1, DropType DEF TypeOK, TickExpire
    <2>4. CASE SendSync(s)
      <3>1. Missing(s) \in SUBSET Numbers /\ {} \in SUBSET Numbers
        BY <1>0, Typed, NumberAssumption DEF Missing, Numbers
      <3>2. SyncMessage(s, "sync", Missing(s), {}) \in Message
        BY <3>1, SyncType
      <3> QED  BY <1>0, <2>4, <3>2 DEF TypeOK, SendSync, Send
    <2>5. CASE CloseChannel(s)
      <3>1. Current(s) \in State /\ num[s] \in Numbers
        BY <1>0, CurrentSound, Typed
      <3>2. net' \subseteq Message
        BY <1>0, <2>5, <3>1 DEF TypeOK, CloseChannel, Send, Message
      <3>3. status' \in [Sides -> Statuses] /\ coop' \in [Sides -> State \cup {None}]
        BY <1>0, <2>5, <3>1 DEF TypeOK, CloseChannel, Statuses
      <3> QED  BY <1>0, <2>5, <3>2, <3>3 DEF TypeOK, CloseChannel
    <2>6. CASE ForceClose(s)
      <3>1. DropPending(s)
        BY <2>6 DEF ForceClose
      <3>2. [t |-> "commit", by |-> s, n |-> num[s], st |-> Current(s)] \in Tx
        BY <1>0, CurrentSound, Typed DEF Tx
      <3>3. close' \in [Sides -> Tx \cup {None}] /\ sent' \subseteq Tx
        BY <1>0, <2>6, <3>2 DEF TypeOK, ForceClose, Publish
      <3>4. status' \in [Sides -> Statuses] /\ awaiting' \in [Sides -> Numbers \cup {None}]
        BY <1>0, <2>6 DEF TypeOK, ForceClose, Statuses
      <3> QED  BY <1>0, <2>6, <3>1, <3>3, <3>4, DropType DEF TypeOK, ForceClose
    <2>7. CASE OnSpend(s)
      <3>1. Classified(s, spend) \in Statuses
        BY DEF Classified, Statuses
      <3> QED  BY <1>0, <2>7, <3>1 DEF TypeOK, OnSpend
    <2>8. ASSUME NEW m \in net
          PROVE  /\ m \in Message
                 /\ m.by # s => m.by = Other(s)
      BY <1>0, MessageFields, OtherSide DEF TypeOK
    <2>9. ASSUME NEW m \in net, ReceiveUpdateReject(s, m)
          PROVE  TypeOK'
      <3>1. m.n \in Numbers /\ m.k \in Nat
        BY <2>8, <2>9, MessageFields DEF ReceiveUpdateReject
      <3>2. net' \subseteq Message
        BY <1>0, <2>9, <3>1 DEF TypeOK, ReceiveUpdateReject, Send, Message
      <3> QED  BY <1>0, <2>9, <3>2 DEF TypeOK, ReceiveUpdateReject
    <2>10. ASSUME NEW m \in net, ReceiveUpdateAccept(s, m)
           PROVE  TypeOK'
      BY <2>10, AcceptType
    <2>11. ASSUME NEW m \in net, ReceiveAck(s, m)
           PROVE  TypeOK'
      <3>1. m.t = "ack" /\ m.by = Other(s) /\ pending[s].upd \in Update /\ Advance(s, m, pending[s].upd)
        BY <2>8, <2>11, PendingSound DEF ReceiveAck
      <3>2. pending' \in [Sides -> [n : Numbers, upd : Update, k : Nat] \cup {None}]
        BY <1>0, <2>11 DEF TypeOK, ReceiveAck
      <3>3. /\ seq' \in [Sides -> Nat] /\ knows' \in [Sides -> SUBSET Hashes]
            /\ accepted' \in [Sides -> Nat] /\ num' \in [Sides -> Numbers]
            /\ revoked' \in [Sides -> SUBSET Numbers] /\ net' \subseteq Message
        BY <3>1, AdvanceType
      <3>4. UNCHANGED <<status, awaiting, buffered, coop, close, made, view, sent, spend, states, alts>>
        BY <2>11 DEF ReceiveAck, Advance
      <3> QED  BY <1>0, <3>2, <3>3, <3>4 DEF TypeOK
    <2>12. ASSUME NEW m \in net, AdoptAlternative(s, m)
           PROVE  TypeOK'
      <3>1. PICK a \in alts[s] : Advance(s, m, a.upd) /\ alts' = [alts EXCEPT ![s] = Aside(s) \ {a}]
        BY <2>12 DEF AdoptAlternative
      <3>2. m.t = "ack" /\ m.by = Other(s) /\ a.upd \in Update
        BY <1>0, <2>8, <2>12, Typed DEF AdoptAlternative
      <3>3. pending' \in [Sides -> [n : Numbers, upd : Update, k : Nat] \cup {None}]
        BY <1>0, <2>12 DEF TypeOK, AdoptAlternative
      <3>4. alts' \in [Sides -> SUBSET [n : Numbers, st : State, upd : Update]]
        BY <1>0, <3>1, AsideSound DEF TypeOK
      <3>5. m.n \in Numbers /\ m.st \in State
        BY <3>2, <2>8, MessageFields
      <3>6. states' \in [Sides -> [Numbers -> State \cup {None}]]
        <4>1. [states[s] EXCEPT ![m.n] = m.st] \in [Numbers -> State \cup {None}]
          BY <1>0, <3>5, Typed
        <4> QED  BY <4>1, <1>0, <2>12 DEF TypeOK, AdoptAlternative
      <3> QED  BY <1>0, <3>1, <3>2, <3>3, <3>4, <3>6, AdvanceType DEF TypeOK, Advance
    <2>13. ASSUME NEW m \in net, ReceiveRevoke(s, m)
           PROVE  TypeOK'
      <3>1. m.n \in Numbers /\ m.n >= 1
        BY <2>8, <2>13, MessageFields, TwoSides DEF ReceiveRevoke, IInv, SideInv, Said
      <3>2. {m.n - 1} \in SUBSET Numbers
        BY <3>1, NumberAssumption DEF Numbers
      <3>3. revoked' \in [Sides -> SUBSET Numbers] /\ awaiting' \in [Sides -> Numbers \cup {None}]
        <4>1. CASE m.n - 1 \in revoked[s]
          BY <1>0, <2>13, <4>1 DEF TypeOK, ReceiveRevoke
        <4>2. CASE m.n - 1 \notin revoked[s]
          BY <1>0, <2>13, <3>2, <4>2, RevealsType DEF ReceiveRevoke
        <4> QED  BY <4>1, <4>2
      <3>4. buffered' \in [Sides -> [n : Numbers, over : BOOLEAN] \cup {None}]
        <4>1. CASE LeftOver(s)
          BY <1>0, <4>1, LeftType
        <4>2. CASE buffered' = [buffered EXCEPT ![s] = IF awaiting'[s] = None THEN None ELSE @]
          BY <1>0, <4>2 DEF TypeOK
        <4> QED  BY <2>13, <4>1, <4>2 DEF ReceiveRevoke
      <3>5. UNCHANGED <<status, num, states, accepted, pending, alts, knows, seq, coop, close, made, view,
                        net, sent, spend>>
        BY <2>13 DEF ReceiveRevoke
      <3> QED  BY <1>0, <3>3, <3>4, <3>5 DEF TypeOK
    <2>14. ASSUME NEW m \in net, ReceiveReject(s, m)
           PROVE  TypeOK'
      <3>1. DropPending(s)
        BY <2>14 DEF ReceiveReject
      <3> QED  BY <1>0, <2>14, <3>1, DropType DEF TypeOK, ReceiveReject
    <2>15. ASSUME NEW m \in net, ReceiveSync(s, m)
           PROVE  TypeOK'
      <3> DEFINE taken == {i \in m.reveals : i <= num[s] + 1}
                 answer == IF m.t = "sync" THEN {SyncMessage(s, "synced", Missing(s) \ taken, m.missing)}
                           ELSE {}
      <3>1. m.t \in {"sync", "synced"} /\ TakeReveals(s, taken)
            /\ net' = net \cup answer \cup AckAgain(s, m)
        BY <2>15 DEF ReceiveSync
      <3>2. taken \in SUBSET Numbers /\ m.missing \in SUBSET Numbers
        BY <3>1, <2>8, MessageFields
      <3>3. Missing(s) \ taken \in SUBSET Numbers
        BY <1>0, Typed, NumberAssumption DEF Missing, Numbers
      <3>4. answer \subseteq Message
        <4> HIDE DEF taken
        <4>1. SyncMessage(s, "synced", Missing(s) \ taken, m.missing) \in Message
          BY <3>2, <3>3, SyncType
        <4> QED  BY <4>1
      <3>5. AckAgain(s, m) \subseteq Message
        <4>1. [t |-> "ack", by |-> s, n |-> num[s], st |-> Current(s)] \in Message
          BY <1>0, CurrentSound, Typed DEF Message
        <4> QED  BY <4>1 DEF AckAgain
      <3>6. net' \subseteq Message
        BY <1>0, <3>1, <3>4, <3>5 DEF TypeOK
      <3>7. revoked' \in [Sides -> SUBSET Numbers] /\ awaiting' \in [Sides -> Numbers \cup {None}]
        BY <1>0, <3>1, <3>2, RevealsType
      <3>8. DropPending(s) \/ UNCHANGED <<alts, states, pending>>
        BY <2>15 DEF ReceiveSync
      <3>9. /\ alts' \in [Sides -> SUBSET [n : Numbers, st : State, upd : Update]]
            /\ states' \in [Sides -> [Numbers -> State \cup {None}]]
            /\ pending' \in [Sides -> [n : Numbers, upd : Update, k : Nat] \cup {None}]
        BY <1>0, <3>8, DropType DEF TypeOK
      <3>10. UNCHANGED <<status, num, accepted, knows, seq, coop, close, made, view, sent, spend>>
        BY <2>15 DEF ReceiveSync
      <3> HIDE DEF taken, answer
      <3>11. buffered' \in [Sides -> [n : Numbers, over : BOOLEAN] \cup {None}]
        BY <1>0, <2>15, LeftType DEF ReceiveSync
      <3> QED  BY <1>0, <3>6, <3>7, <3>9, <3>10, <3>11 DEF TypeOK
    <2>16. ASSUME NEW m \in net, ReceiveClose(s, m)
           PROVE  TypeOK'
      <3>1. m.st \in State
        BY <2>8, <2>16, MessageFields DEF ReceiveClose
      <3>2. [t |-> "coop", st |-> m.st] \in Tx
        BY <3>1 DEF Tx
      <3>3. close' \in [Sides -> Tx \cup {None}] /\ sent' \subseteq Tx
        BY <1>0, <2>16, <3>2 DEF TypeOK, ReceiveClose, Publish
      <3>4. status' \in [Sides -> Statuses] /\ coop' \in [Sides -> State \cup {None}]
        BY <1>0, <2>16, <3>1 DEF TypeOK, ReceiveClose, Statuses
      <3> QED  BY <1>0, <2>16, <3>3, <3>4 DEF TypeOK, ReceiveClose
    <2>17. ASSUME NEW m \in net, ReceiveUpdateBuffer(s, m)
           PROVE  TypeOK'
      <3>1. m.n \in Numbers
        BY <2>8, <2>17, MessageFields DEF ReceiveUpdateBuffer
      <3>2. buffered' \in [Sides -> [n : Numbers, over : BOOLEAN] \cup {None}]
        BY <1>0, <2>17, <3>1 DEF TypeOK, ReceiveUpdateBuffer
      <3> QED  BY <1>0, <2>17, <3>2 DEF TypeOK, ReceiveUpdateBuffer
    <2> QED  BY <1>3, <2>1, <2>2, <2>3, <2>4, <2>5, <2>6, <2>7, <2>9, <2>10, <2>11, <2>12, <2>13,
                <2>14, <2>15, <2>16, <2>17 DEF SideStep
  <1> QED  BY <1>1, <1>2, <1>3 DEF Next
-----------------------------------------------------------------------------
(* What the steps of side s do to its states: nothing, add a pending update, *)
(* set it aside, or enter the next state.                                     *)

Same(s) ==
    /\ status'[s] = status[s] /\ num'[s] = num[s] /\ states'[s] = states[s]
    /\ pending'[s] = pending[s] /\ awaiting'[s] = awaiting[s] /\ revoked'[s] = revoked[s]
    /\ alts'[s] = alts[s] /\ seq'[s] = seq[s] /\ coop'[s] = coop[s] /\ close'[s] = close[s]

Still(s) ==
    /\ num'[s] = num[s] /\ states'[s] = states[s] /\ pending'[s] = pending[s]
    /\ alts'[s] = alts[s] /\ seq'[s] = seq[s] /\ awaiting'[s] \in {awaiting[s], None}

Proposes(s) ==
    /\ status[s] = "open"
    /\ num'[s] = num[s] /\ alts'[s] = alts[s] /\ seq'[s] = seq[s]
    /\ pending[s] = None /\ awaiting[s] = None /\ awaiting'[s] = None /\ pending'[s] # None
    /\ num[s] + 1 \in Numbers /\ pending'[s].n = num[s] + 1 /\ pending'[s].upd \in Update
    /\ \A k \in Numbers : k # num[s] + 1 => states'[s][k] = states[s][k]
    /\ states'[s][num[s] + 1] \in State /\ states'[s][num[s] + 1].bal["A"] >= Fee
    /\ \A x \in states'[s][num[s] + 1].htlcs :
            x.id < seq[s] \/ (pending'[s].upd.t = "add" /\ x.id = pending'[s].upd.id)
    /\ [t |-> "update", by |-> s, n |-> pending'[s].n, upd |-> pending'[s].upd,
        st |-> states'[s][num[s] + 1], k |-> pending'[s].k] \in net'

Drops(s) ==
    /\ num'[s] = num[s] /\ seq'[s] = seq[s]
    /\ pending'[s] = None /\ awaiting'[s] \in {awaiting[s], None}
    /\ alts'[s] = Aside(s)
    /\ \A k \in Numbers : k # num[s] + 1 => states'[s][k] = states[s][k]
    /\ pending[s] # None => states'[s][num[s] + 1] = None
    /\ pending[s] = None => states'[s] = states[s]

\* s enters state n, which is st, on the word of the other side.
Enters(s, n, st) ==
    /\ status[s] = "open" /\ status'[s] = "open" /\ coop'[s] = coop[s] /\ sent' = sent
    /\ n = num[s] + 1 /\ n \in Numbers /\ num'[s] = n /\ pending'[s] = None
    /\ st \in State /\ states'[s][n] = st /\ st.bal["A"] >= Fee
    /\ \A k \in Numbers : k # n => states'[s][k] = states[s][k]
    /\ awaiting[s] = None /\ awaiting'[s] \in {None, n}
    /\ seq'[s] >= seq[s] /\ \A x \in st.htlcs : x.id < seq'[s]
    /\ \A a \in alts'[s] : a \in alts[s] \/ (pending[s] # None /\ a = Kept(s))
    /\ \A a \in alts[s] : a \in alts'[s] \/ (a.n = n /\ a.st = st)
    /\ pending[s] # None =>
        states[s][n] = st \/ \E a \in alts'[s] : a.n = n /\ a.st = states[s][n]
    /\ \E m \in net : /\ m.by = Other(s) /\ m.n = n /\ m.st = st
                      /\ m.t = "update" \/ (m.t = "ack" /\ n <= num[Other(s)])

Moves(s) ==
    \/ Still(s) \/ Proposes(s) \/ Drops(s)
    \/ \E n \in Numbers, st \in State : Enters(s, n, st)

LEMMA DropMoves ==
    ASSUME IInv, NEW s \in Sides, DropPending(s), num' = num, seq' = seq,
           awaiting'[s] \in {awaiting[s], None}
    PROVE  /\ Drops(s)
           /\ states'[Other(s)] = states[Other(s)] /\ pending'[Other(s)] = pending[Other(s)]
           /\ alts'[Other(s)] = alts[Other(s)]
  <1>1. TypeOK
    BY DEF IInv
  <1>2. alts'[s] = Aside(s) /\ alts'[Other(s)] = alts[Other(s)]
    BY <1>1, TwoSides DEF TypeOK, DropPending
  <1>3. pending'[s] = None /\ pending'[Other(s)] = pending[Other(s)]
    BY <1>1, TwoSides DEF TypeOK, DropPending
  <1>4. CASE pending[s] = None
    BY <1>2, <1>3, <1>4 DEF Drops, DropPending
  <1>5. CASE pending[s] # None
    <2>1. pending[s].n = num[s] + 1 /\ num[s] + 1 \in Numbers
      BY <1>5, PendingSound
    <2>2. states' = [states EXCEPT ![s] = [@ EXCEPT ![num[s] + 1] = None]]
      BY <1>5, <2>1 DEF DropPending
    <2>3. /\ states'[s] = [states[s] EXCEPT ![num[s] + 1] = None]
          /\ states'[Other(s)] = states[Other(s)]
      BY <1>1, <2>2, TwoSides DEF TypeOK
    <2>4. /\ \A k \in Numbers : k # num[s] + 1 => states'[s][k] = states[s][k]
          /\ states'[s][num[s] + 1] = None
      BY <1>1, <2>1, <2>3, Typed
    <2> QED  BY <1>2, <1>3, <1>5, <2>3, <2>4 DEF Drops
  <1> QED  BY <1>4, <1>5

LEMMA ProposeMoves ==
    ASSUME IInv, NEW s \in Sides, NEW upd \in Asked(s), Propose(s, upd)
    PROVE  Same(Other(s)) /\ Proposes(s)
  <1>1. TypeOK /\ upd \in Update /\ Current(s) \in State
    BY AskedType, CurrentSound DEF IInv
  <1>2. num[s] + 1 \in Numbers /\ made[s] + 1 \in Nat
    <2>1. num[s] \in Nat /\ made[s] \in Nat /\ MaxN \in Nat
      BY <1>1, Typed, NumberAssumption
    <2>2. num[s] < MaxN
      BY DEF Propose
    <2> QED  BY ONLY <2>1, <2>2 DEF Numbers
  <1>3. PICK st \in NextStates(s, Current(s), upd, s) :
            /\ states' = [states EXCEPT ![s] = [@ EXCEPT ![num[s] + 1] = st]]
            /\ net' = net \cup {[t |-> "update", by |-> s, n |-> num[s] + 1, upd |-> upd, st |-> st,
                                 k |-> made[s] + 1]}
    BY DEF Propose, Send
  <1>4. /\ st \in State /\ st.bal["A"] >= Fee
        /\ \A y \in st.htlcs : y \in Current(s).htlcs \/ (upd.t = "add" /\ y.id = upd.id)
    BY <1>1, NextStatesSound
  <1>5. states'[s] = [states[s] EXCEPT ![num[s] + 1] = st] /\ states'[Other(s)] = states[Other(s)]
    BY <1>1, <1>3, TwoSides DEF TypeOK
  <1>6. /\ \A k \in Numbers : k # num[s] + 1 => states'[s][k] = states[s][k]
        /\ states'[s][num[s] + 1] = st
    BY <1>1, <1>2, <1>5, Typed
  <1>7. /\ pending'[s] = [n |-> num[s] + 1, upd |-> upd, k |-> made[s] + 1]
        /\ pending'[Other(s)] = pending[Other(s)]
    BY <1>1, TwoSides DEF TypeOK, Propose
  <1>8. pending'[s] # None
    BY <1>1, <1>2, <1>7, NoneAssumption
  <1>9. /\ num' = num /\ alts' = alts /\ seq' = seq /\ awaiting' = awaiting /\ status' = status
        /\ revoked' = revoked /\ coop' = coop /\ close' = close
        /\ pending[s] = None /\ awaiting[s] = None /\ status[s] = "open"
    BY DEF Propose
  <1>10. \A x \in st.htlcs : x.id < seq[s] \/ (upd.t = "add" /\ x.id = upd.id)
    BY <1>4, CurrentSound
  <1>11. Same(Other(s))
    BY <1>5, <1>7, <1>9 DEF Same
  <1>12. [t |-> "update", by |-> s, n |-> pending'[s].n, upd |-> pending'[s].upd,
        st |-> states'[s][num[s] + 1], k |-> pending'[s].k] \in net'
    BY <1>3, <1>6, <1>7
  <1>13. pending'[s].n = num[s] + 1 /\ pending'[s].upd = upd
    BY <1>7
  <1> QED  BY <1>1, <1>2, <1>4, <1>6, <1>8, <1>9, <1>10, <1>11, <1>12, <1>13 DEF Proposes

LEMMA AcceptMoves ==
    ASSUME IInv, NEW s \in Sides, NEW m \in net, ReceiveUpdateAccept(s, m)
    PROVE  Same(Other(s)) /\ Enters(s, m.n, m.st)
  <1>1. TypeOK /\ m \in Message /\ m.t = "update" /\ m.by # s
    BY DEF IInv, TypeOK, ReceiveUpdateAccept
  <1>2. m.n \in Numbers /\ m.upd \in Update /\ m.st \in State /\ m.by = Other(s)
    BY <1>1, MessageFields, OtherSide
  <1>3. status[s] = "open" /\ m.n = num[s] + 1 /\ awaiting[s] = None
    BY DEF ReceiveUpdateAccept, Considered
  <1>4. /\ m.st.bal["A"] >= Fee
        /\ \A y \in m.st.htlcs : y \in Current(s).htlcs \/ (m.upd.t = "add" /\ y.id = m.upd.id)
    BY <1>2, CurrentSound, NextStatesSound, TwoSides DEF ReceiveUpdateAccept, Verified
  <1>5. /\ seq'[s] >= seq[s] /\ (m.upd.t = "add" => seq'[s] > m.upd.id)
        /\ seq'[Other(s)] = seq[Other(s)] /\ seq'[s] \in Nat /\ seq[s] \in Nat
    BY <1>1, <1>2, LearnType, Typed DEF ReceiveUpdateAccept
  <1>6. \A x \in m.st.htlcs : x.id < seq'[s]
    <2> TAKE x \in m.st.htlcs
    <2>1. x.id \in Nat
      BY <1>2 DEF State, Htlc
    <2>2. x.id < seq[s] \/ x.id < seq'[s]
      BY <1>4, <1>5, CurrentSound
    <2> QED  BY <2>1, <2>2, <1>5
  <1>7. /\ states'[s] = [states[s] EXCEPT ![m.n] = m.st] /\ states'[Other(s)] = states[Other(s)]
    BY <1>1, TwoSides DEF TypeOK, ReceiveUpdateAccept
  <1>8. states'[s][m.n] = m.st /\ \A k \in Numbers : k # m.n => states'[s][k] = states[s][k]
    BY <1>1, <1>2, <1>7, Typed
  <1>9. /\ num'[s] = m.n /\ pending'[s] = None /\ awaiting'[s] = m.n /\ alts'[s] = Aside(s)
        /\ num'[Other(s)] = num[Other(s)] /\ pending'[Other(s)] = pending[Other(s)]
        /\ awaiting'[Other(s)] = awaiting[Other(s)] /\ alts'[Other(s)] = alts[Other(s)]
    BY <1>1, TwoSides DEF TypeOK, ReceiveUpdateAccept
  <1>10. status' = status /\ revoked' = revoked /\ coop' = coop /\ close' = close /\ sent' = sent
    BY DEF ReceiveUpdateAccept
  <1>11. Same(Other(s))
    BY <1>5, <1>7, <1>9, <1>10 DEF Same
  <1>12. /\ \A a \in alts'[s] : a \in alts[s] \/ (pending[s] # None /\ a = Kept(s))
         /\ \A a \in alts[s] : a \in alts'[s]
         /\ pending[s] # None => \E a \in alts'[s] : a.n = m.n /\ a.st = states[s][m.n]
    BY <1>3, <1>9, AsideSound
  <1> QED  BY <1>1, <1>2, <1>3, <1>4, <1>5, <1>6, <1>8, <1>9, <1>10, <1>11, <1>12 DEF Enters

LEMMA AdvanceMoves ==
    ASSUME IInv, NEW s \in Sides, NEW m \in net, m.t = "ack", m.by = Other(s), m.n = num[s] + 1,
           NEW upd \in Update, Advance(s, m, upd),
           \A x \in m.st.htlcs : x.id < seq[s] \/ (upd.t = "add" /\ x.id = upd.id)
    PROVE  /\ num'[s] = m.n /\ num'[Other(s)] = num[Other(s)] /\ m.n <= num[Other(s)]
           /\ revoked'[s] = revoked[s] \cup {num[s]} /\ revoked'[Other(s)] = revoked[Other(s)]
           /\ status' = status /\ awaiting' = awaiting /\ coop' = coop /\ close' = close /\ sent' = sent
           /\ seq'[s] >= seq[s] /\ seq'[Other(s)] = seq[Other(s)]
           /\ \A x \in m.st.htlcs : x.id < seq'[s]
           /\ m.n \in Numbers /\ m.st \in State
  <1>1. TypeOK /\ m \in Message
    BY DEF IInv, TypeOK
  <1>2. m.n \in Numbers /\ m.st \in State
    BY <1>1, MessageFields
  <1>3. m.n <= num[Other(s)]
    BY TwoSides DEF IInv, SideInv, Said
  <1>4. /\ seq'[s] >= seq[s] /\ (upd.t = "add" => seq'[s] > upd.id)
        /\ seq'[Other(s)] = seq[Other(s)] /\ seq'[s] \in Nat /\ seq[s] \in Nat
    BY <1>1, LearnType, Typed DEF Advance
  <1>5. \A x \in m.st.htlcs : x.id < seq'[s]
    <2> TAKE x \in m.st.htlcs
    <2>1. x.id \in Nat
      BY <1>2 DEF State, Htlc
    <2>2. x.id < seq[s] \/ x.id < seq'[s]
      BY <1>4
    <2> QED  BY <2>1, <2>2, <1>4
  <1>6. num'[s] = m.n /\ num'[Other(s)] = num[Other(s)]
    BY <1>1, TwoSides DEF TypeOK, Advance
  <1>7. revoked'[s] = revoked[s] \cup {num[s]} /\ revoked'[Other(s)] = revoked[Other(s)]
    <2>1. m.n - 1 = num[s]
      BY <1>1, Typed
    <2>2. revoked'[s] = revoked[s] \cup {m.n - 1} /\ revoked'[Other(s)] = revoked[Other(s)]
      BY <1>1, TwoSides DEF TypeOK, Advance
    <2> QED  BY <2>1, <2>2
  <1>8. status' = status /\ awaiting' = awaiting /\ coop' = coop /\ close' = close /\ sent' = sent
    BY DEF Advance
  <1> QED  BY <1>2, <1>3, <1>4, <1>5, <1>6, <1>7, <1>8

LEMMA AckMoves ==
    ASSUME IInv, NEW s \in Sides, NEW m \in net, ReceiveAck(s, m)
    PROVE  /\ Same(Other(s)) /\ Enters(s, m.n, m.st)
           /\ revoked'[s] = revoked[s] \cup {num[s]} /\ awaiting' = awaiting
  <1>1. TypeOK /\ m \in Message /\ m.t = "ack" /\ m.by # s
    BY DEF IInv, TypeOK, ReceiveAck
  <1>2. m.by = Other(s)
    BY <1>1, MessageFields, OtherSide
  <1>3. pending[s] # None /\ m.n = pending[s].n /\ m.st = states[s][m.n]
        /\ Advance(s, m, pending[s].upd) /\ status[s] \in Live
        /\ pending' = [pending EXCEPT ![s] = None] /\ states' = states /\ alts' = alts
    BY DEF ReceiveAck
  <1>4. m.n = num[s] + 1 /\ pending[s].upd \in Update /\ m.st \in State /\ m.n \in Numbers
    BY <1>3, PendingSound
  <1>5. Numbered(s) /\ Built(s) /\ Sequenced(s) /\ Closing(s)
    BY DEF IInv, SideInv
  <1>6. status[s] = "open"
    BY <1>3, <1>5 DEF Closing, Live
  <1>7. awaiting[s] = None
    BY <1>3, <1>5 DEF Numbered
  <1>8. m.st.bal["A"] >= Fee
    BY <1>3, <1>4, <1>5, NoneAssumption DEF Built
  <1>9. \A x \in m.st.htlcs : x.id < seq[s] \/ (pending[s].upd.t = "add" /\ x.id = pending[s].upd.id)
    BY <1>3, <1>4, <1>5 DEF Sequenced
  <1>10. /\ num'[s] = m.n /\ num'[Other(s)] = num[Other(s)] /\ m.n <= num[Other(s)]
         /\ revoked'[s] = revoked[s] \cup {num[s]} /\ revoked'[Other(s)] = revoked[Other(s)]
         /\ status' = status /\ awaiting' = awaiting /\ coop' = coop /\ close' = close /\ sent' = sent
         /\ seq'[s] >= seq[s] /\ seq'[Other(s)] = seq[Other(s)]
         /\ \A x \in m.st.htlcs : x.id < seq'[s]
    BY <1>1, <1>2, <1>3, <1>4, <1>9, AdvanceMoves
  <1>11. pending'[s] = None /\ pending'[Other(s)] = pending[Other(s)]
    BY <1>1, <1>3, TwoSides DEF TypeOK
  <1>12. Same(Other(s))
    BY <1>3, <1>10, <1>11 DEF Same
  <1> QED  BY <1>1, <1>2, <1>3, <1>4, <1>6, <1>7, <1>8, <1>10, <1>11, <1>12 DEF Enters

LEMMA AdoptMoves ==
    ASSUME IInv, NEW s \in Sides, NEW m \in net, AdoptAlternative(s, m)
    PROVE  /\ Same(Other(s)) /\ Enters(s, m.n, m.st)
           /\ revoked'[s] = revoked[s] \cup {num[s]} /\ awaiting' = awaiting
  <1>1. TypeOK /\ m \in Message /\ m.t = "ack" /\ m.by # s
    BY DEF IInv, TypeOK, AdoptAlternative
  <1>2. m.by = Other(s) /\ m.n \in Numbers /\ m.st \in State
    BY <1>1, MessageFields, OtherSide
  <1>3. PICK a \in alts[s] : /\ a.n = m.n /\ a.st = m.st /\ Advance(s, m, a.upd)
                             /\ alts' = [alts EXCEPT ![s] = Aside(s) \ {a}]
    BY DEF AdoptAlternative
  <1>4. /\ status[s] = "open" /\ m.n = num[s] + 1
        /\ pending[s] # None => m.st # states[s][m.n]
        /\ pending' = [pending EXCEPT ![s] = None]
        /\ states' = [states EXCEPT ![s] = [@ EXCEPT ![m.n] = m.st]]
    BY DEF AdoptAlternative
  <1>5. Numbered(s) /\ Built(s) /\ Sequenced(s)
    BY DEF IInv, SideInv
  <1>6. awaiting[s] = None
    BY <1>3, <1>4, <1>5 DEF Numbered
  <1>7. m.st.bal["A"] >= Fee
    BY <1>3, <1>5 DEF Built
  <1>8. \A x \in m.st.htlcs : x.id < seq[s] \/ (a.upd.t = "add" /\ x.id = a.upd.id)
    BY <1>3, <1>5 DEF Sequenced
  <1>9. a.upd \in Update
    BY <1>1, Typed
  <1>10. /\ num'[s] = m.n /\ num'[Other(s)] = num[Other(s)] /\ m.n <= num[Other(s)]
         /\ revoked'[s] = revoked[s] \cup {num[s]} /\ revoked'[Other(s)] = revoked[Other(s)]
         /\ status' = status /\ awaiting' = awaiting /\ coop' = coop /\ close' = close /\ sent' = sent
         /\ seq'[s] >= seq[s] /\ seq'[Other(s)] = seq[Other(s)]
         /\ \A x \in m.st.htlcs : x.id < seq'[s]
    BY <1>1, <1>2, <1>3, <1>4, <1>8, <1>9, AdvanceMoves
  <1>11. pending'[s] = None /\ pending'[Other(s)] = pending[Other(s)]
    BY <1>1, <1>4, TwoSides DEF TypeOK
  <1>12. alts'[s] = Aside(s) \ {a} /\ alts'[Other(s)] = alts[Other(s)]
    BY <1>1, <1>3, TwoSides DEF TypeOK
  <1>13. states'[s] = [states[s] EXCEPT ![m.n] = m.st] /\ states'[Other(s)] = states[Other(s)]
    BY <1>1, <1>4, TwoSides DEF TypeOK
  <1>14. states'[s][m.n] = m.st /\ \A k \in Numbers : k # m.n => states'[s][k] = states[s][k]
    BY <1>1, <1>2, <1>13, Typed
  <1>15. Same(Other(s))
    BY <1>10, <1>11, <1>12, <1>13 DEF Same
  <1>16. /\ \A b \in alts'[s] : b \in alts[s] \/ (pending[s] # None /\ b = Kept(s))
         /\ \A b \in alts[s] : b \in alts'[s] \/ (b.n = m.n /\ b.st = m.st)
    BY <1>3, <1>12, AsideSound
  <1>17. pending[s] # None => \E b \in alts'[s] : b.n = m.n /\ b.st = states[s][m.n]
    BY <1>3, <1>4, <1>12, AsideSound
  <1> QED  BY <1>1, <1>2, <1>4, <1>6, <1>7, <1>10, <1>11, <1>14, <1>15, <1>16, <1>17 DEF Enters

\* What a new message of s says of s.
Says(s, m) ==
    /\ m.t = "update" => m.n >= 1 /\ m.n <= num[s] + 1 /\ Holds(s, m.n, m.st)
    /\ m.t = "ack" => m.n >= 1 /\ m.n <= num[s] /\ states[s][m.n] = m.st
    /\ m.t = "revoke" => m.n >= 1 /\ m.n <= num[s]
    /\ m.t \in {"sync", "synced"} => \A i \in m.reveals : i < num[s]
    /\ m.t = "close" => coop[s] = m.st /\ m.n = num[s]

New(s) == \A m \in net' : m \in net \/ (m.by = s /\ Says(s, m)')

Step(s) == /\ Same(Other(s)) /\ Moves(s) /\ New(s)
           /\ net \subseteq net' /\ sent \subseteq sent' /\ spend' = spend

\* A step that leaves the states of s alone.
LEMMA StillMoves ==
    ASSUME IInv, NEW s \in Sides, num' = num, states' = states, pending' = pending, alts' = alts,
           seq' = seq, awaiting' = awaiting
    PROVE  Still(s)
  BY DEF Still

LEMMA SideMoves ==
    ASSUME IInv, NEW s \in Sides, SideStep(s)
    PROVE  Step(s)
  <1> DEFINE o == Other(s)
  <1>0. TypeOK /\ TypeOK' /\ o \in Sides /\ o # s /\ num[s] \in Nat
    BY TypeStep, TwoSides, Typed DEF IInv, Next
  <1>1. ASSUME NEW upd \in Asked(s), Propose(s, upd)
        PROVE  Step(s)
    <2>1. Same(o) /\ Proposes(s)
      BY <1>1, ProposeMoves
    <2>2. PICK st : net' = net \cup {[t |-> "update", by |-> s, n |-> num[s] + 1, upd |-> upd, st |-> st,
                                 k |-> made[s] + 1]}
                 /\ states' = [states EXCEPT ![s] = [@ EXCEPT ![num[s] + 1] = st]]
      BY <1>1 DEF Propose, Send
    <2>3. states'[s][num[s] + 1] = st
      <3>1. states'[s] = [states[s] EXCEPT ![num[s] + 1] = st]
        BY <1>0, <2>2 DEF TypeOK
      <3>2. num[s] + 1 \in Numbers
        BY <2>1 DEF Proposes
      <3> QED  BY <1>0, <3>1, <3>2, Typed
    <2>4. New(s)
      <3> SUFFICES ASSUME NEW m \in net', m \notin net
                   PROVE  m.by = s /\ Says(s, m)'
        BY DEF New
      <3>1. m.t = "update" /\ m.by = s /\ m.n = num[s] + 1 /\ m.st = st
        BY <2>2
      <3>2. Holds(s, m.n, m.st)'
        BY <3>1, <2>1, <2>3 DEF Holds, Proposes
      <3>3. m.n >= 1 /\ m.n <= num'[s] + 1
        BY <3>1, <2>1, <1>0 DEF Proposes
      <3> QED  BY <3>1, <3>2, <3>3 DEF Says
    <2>5. net \subseteq net' /\ sent \subseteq sent' /\ spend' = spend
      BY <1>1, <2>2 DEF Propose
    <2> QED  BY <2>1, <2>4, <2>5 DEF Step, Moves
  <1>2. ASSUME NEW h \in Hashes, RememberPreimage(s, h)
        PROVE  Step(s)
    BY <1>2, StillMoves DEF RememberPreimage, Step, Same, Moves, New
  <1>3. CASE TickExpire(s)
    <2>1. /\ Drops(s) /\ states'[o] = states[o] /\ pending'[o] = pending[o] /\ alts'[o] = alts[o]
      BY <1>3, DropMoves DEF TickExpire
    <2> QED  BY <1>3, <2>1 DEF TickExpire, Step, Same, Moves, New
  <1>4. CASE SendSync(s)
    <2>1. Missing(s) \in SUBSET Numbers /\ {} \in SUBSET Numbers
      BY <1>0, Typed, NumberAssumption DEF Missing, Numbers
    <2> DEFINE y == SyncMessage(s, "sync", Missing(s), {})
    <2>2. y.t = "sync" /\ y.by = s /\ \A i \in y.reveals : i < num[s]
      BY <2>1, SyncType
    <2>3. net' = net \cup {y} /\ num' = num
      BY <1>4 DEF SendSync, Send
    <2> HIDE DEF y
    <2>4. New(s)
      BY <2>2, <2>3 DEF New, Says
    <2> QED  BY <1>4, <2>3, <2>4, StillMoves DEF SendSync, Step, Same, Moves
  <1>5. CASE CloseChannel(s)
    <2>1. net' = net \cup {[t |-> "close", by |-> s, n |-> num[s], st |-> Current(s)]} /\ num' = num
      BY <1>5 DEF CloseChannel, Send
    <2>2. /\ coop'[s] = Current(s) /\ coop'[o] = coop[o]
          /\ status'[o] = status[o]
      BY <1>0, <1>5 DEF TypeOK, CloseChannel
    <2>3. New(s)
      <3> SUFFICES ASSUME NEW m \in net', m \notin net
                   PROVE  m.by = s /\ Says(s, m)'
        BY DEF New
      <3>1. m.t = "close" /\ m.by = s /\ m.n = num[s] /\ m.st = Current(s)
        BY <2>1
      <3> QED  BY <3>1, <2>1, <2>2 DEF Says
    <2> QED  BY <1>5, <2>1, <2>2, <2>3, StillMoves DEF CloseChannel, Step, Same, Moves
  <1>6. CASE ForceClose(s)
    <2>1. awaiting'[s] = None /\ awaiting'[o] = awaiting[o] /\ status'[o] = status[o] /\ close'[o] = close[o]
      BY <1>0, <1>6 DEF TypeOK, ForceClose, Publish
    <2>2. /\ Drops(s) /\ states'[o] = states[o] /\ pending'[o] = pending[o] /\ alts'[o] = alts[o]
      BY <1>6, <2>1, DropMoves DEF ForceClose
    <2> QED  BY <1>6, <2>1, <2>2 DEF ForceClose, Publish, Step, Same, Moves, New
  <1>7. CASE OnSpend(s)
    <2>1. status'[o] = status[o]
      BY <1>0, <1>7 DEF TypeOK, OnSpend
    <2> QED  BY <1>7, <2>1, StillMoves DEF OnSpend, Step, Same, Moves, New
  <1>8. ASSUME NEW m \in net
        PROVE  /\ m \in Message
               /\ m.by # s => m.by = o
    BY <1>0, MessageFields, OtherSide DEF TypeOK
  <1>9. ASSUME NEW m \in net, ReceiveUpdateReject(s, m)
        PROVE  Step(s)
    <2>1. net' = net \cup {[t |-> "reject", by |-> s, n |-> m.n, k |-> m.k]}
      BY <1>9 DEF ReceiveUpdateReject, Send
    <2>2. New(s)
      BY <2>1 DEF New, Says
    <2> QED  BY <1>9, <2>1, <2>2, StillMoves DEF ReceiveUpdateReject, Step, Same, Moves
  <1>10. ASSUME NEW m \in net, ReceiveUpdateAccept(s, m)
         PROVE  Step(s)
    <2>1. Same(o) /\ Enters(s, m.n, m.st)
      BY <1>10, AcceptMoves
    <2>2. net' = net \cup {[t |-> "ack", by |-> s, n |-> m.n, st |-> m.st]} /\ sent' = sent /\ spend' = spend
      BY <1>10 DEF ReceiveUpdateAccept, Send
    <2>3. m.n = num[s] + 1 /\ num'[s] = m.n /\ states'[s][m.n] = m.st /\ m.n \in Numbers /\ m.st \in State
      BY <2>1 DEF Enters
    <2>4. New(s)
      <3> SUFFICES ASSUME NEW x \in net', x \notin net
                   PROVE  x.by = s /\ Says(s, x)'
        BY DEF New
      <3>1. x.t = "ack" /\ x.by = s /\ x.n = m.n /\ x.st = m.st
        BY <2>2
      <3>2. x.n >= 1 /\ x.n <= num'[s] /\ states'[s][x.n] = x.st
        BY <3>1, <2>3, <1>0
      <3> QED  BY <3>1, <3>2 DEF Says
    <2> QED  BY <2>1, <2>2, <2>3, <2>4 DEF Step, Moves
  <1>11. ASSUME NEW m \in net, Same(o), Enters(s, m.n, m.st), spend' = spend,
                net' = net \cup {[t |-> "revoke", by |-> s, n |-> m.n]}
         PROVE  Step(s)
    <2>1. m.n = num[s] + 1 /\ num'[s] = m.n /\ m.n \in Numbers /\ m.st \in State /\ sent' = sent
      BY <1>11 DEF Enters
    <2>2. New(s)
      <3> SUFFICES ASSUME NEW x \in net', x \notin net
                   PROVE  x.by = s /\ Says(s, x)'
        BY DEF New
      <3>1. x.t = "revoke" /\ x.by = s /\ x.n = m.n
        BY <1>11
      <3>2. x.n >= 1 /\ x.n <= num'[s]
        BY <3>1, <2>1, <1>0
      <3> QED  BY <3>1, <3>2 DEF Says
    <2> QED  BY <1>11, <2>1, <2>2 DEF Step, Moves
  <1>12. ASSUME NEW m \in net, ReceiveAck(s, m)
         PROVE  Step(s)
    BY <1>11, <1>12, AckMoves DEF ReceiveAck, Advance, Send
  <1>13. ASSUME NEW m \in net, AdoptAlternative(s, m)
         PROVE  Step(s)
    BY <1>11, <1>13, AdoptMoves DEF AdoptAlternative, Advance, Send
  <1>14. ASSUME NEW m \in net, ReceiveRevoke(s, m)
         PROVE  Step(s)
    <2>1. m.n \in Numbers /\ m.n >= 1
      BY <1>8, <1>14, MessageFields, TwoSides DEF ReceiveRevoke, IInv, SideInv, Said
    <2>2. {m.n - 1} \in SUBSET Numbers
      BY <2>1, NumberAssumption DEF Numbers
    <2>3. revoked'[o] = revoked[o] /\ awaiting'[o] = awaiting[o] /\ awaiting'[s] \in {awaiting[s], None}
      BY <1>0, <1>14, <2>2, RevealsType DEF ReceiveRevoke
    <2> QED  BY <1>14, <2>3 DEF ReceiveRevoke, Step, Same, Moves, Still, New
  <1>15. ASSUME NEW m \in net, ReceiveReject(s, m)
         PROVE  Step(s)
    <2>1. /\ Drops(s) /\ states'[o] = states[o] /\ pending'[o] = pending[o] /\ alts'[o] = alts[o]
      BY <1>15, DropMoves DEF ReceiveReject
    <2> QED  BY <1>15, <2>1 DEF ReceiveReject, Step, Same, Moves, New
  <1>16. ASSUME NEW m \in net, ReceiveSync(s, m)
         PROVE  Step(s)
    <2> DEFINE taken == {i \in m.reveals : i <= num[s] + 1}
               y == SyncMessage(s, "synced", Missing(s) \ taken, m.missing)
               answer == IF m.t = "sync" THEN {y} ELSE {}
    <2>1. m.t \in {"sync", "synced"} /\ TakeReveals(s, taken)
          /\ net' = net \cup answer \cup AckAgain(s, m)
      BY <1>16 DEF ReceiveSync
    <2>2. taken \in SUBSET Numbers /\ m.missing \in SUBSET Numbers
      BY <2>1, <1>8, MessageFields
    <2>3. Missing(s) \ taken \in SUBSET Numbers
      BY <1>0, Typed, NumberAssumption DEF Missing, Numbers
    <2>4. revoked'[o] = revoked[o] /\ awaiting'[o] = awaiting[o] /\ awaiting'[s] \in {awaiting[s], None}
      BY <1>0, <2>1, <2>2, RevealsType
    <2> HIDE DEF taken
    <2>5. y.t = "synced" /\ y.by = s /\ \A i \in y.reveals : i < num[s]
      <3> DEFINE M == Missing(s) \ taken
                 A == m.missing
      <3>1. M \in SUBSET Numbers /\ A \in SUBSET Numbers /\ "synced" \in {"sync", "synced"}
        BY <2>2, <2>3
      <3> HIDE DEF M, A
      <3>2. /\ SyncMessage(s, "synced", M, A).t = "synced" /\ SyncMessage(s, "synced", M, A).by = s
            /\ \A i \in SyncMessage(s, "synced", M, A).reveals : i < num[s]
        BY <3>1, SyncType
      <3> QED  BY <3>2 DEF M, A
    <2> HIDE DEF y
    <2>6. UNCHANGED <<status, num, accepted, knows, seq, coop, close, made, view, sent, spend>>
      BY <1>16 DEF ReceiveSync
    <2>7. \/ DropPending(s)
          \/ UNCHANGED <<alts, states, pending>>
      BY <1>16 DEF ReceiveSync
    <2>8. /\ Still(s) \/ Drops(s)
          /\ states'[o] = states[o] /\ pending'[o] = pending[o] /\ alts'[o] = alts[o]
      <3>1. CASE DropPending(s)
        BY <3>1, <2>4, <2>6, DropMoves
      <3>2. CASE UNCHANGED <<alts, states, pending>>
        BY <3>2, <2>4, <2>6 DEF Still
      <3> QED  BY <2>7, <3>1, <3>2
    <2>9. states'[s][num[s]] = states[s][num[s]]
      BY <2>8, <1>0, Typed DEF Still, Drops
    <2>10. \A x \in AckAgain(s, m) : x.t = "ack" /\ x.by = s /\ x.n >= 1 /\ x.n = num[s] /\ x.st = Current(s)
      <3>1. m.n \in Nat
        BY <1>8, MessageFields, NumberAssumption DEF Numbers
      <3>2. \A x \in AckAgain(s, m) :
                /\ x = [t |-> "ack", by |-> s, n |-> num[s], st |-> Current(s)] /\ m.n + 1 = num[s]
        BY DEF AckAgain
      <3> QED  BY <3>1, <3>2, <1>0
    <2>11. New(s)
      <3> SUFFICES ASSUME NEW x \in net', x \notin net
                   PROVE  x.by = s /\ Says(s, x)'
        BY DEF New
      <3>1. CASE x \in answer
        BY <3>1, <2>5, <2>6 DEF Says
      <3>2. CASE x \in AckAgain(s, m)
        <4>1. x.t = "ack" /\ x.by = s /\ x.n >= 1 /\ x.n = num[s] /\ x.st = Current(s)
          BY <3>2, <2>10
        <4>2. x.n <= num'[s] /\ states'[s][x.n] = x.st
          BY <4>1, <2>6, <2>9, <1>0 DEF Current
        <4> QED  BY <4>1, <4>2 DEF Says
      <3> QED  BY <3>1, <3>2, <2>1
    <2> HIDE DEF answer
    <2>12. net \subseteq net'
      BY <2>1
    <2> QED  BY <2>4, <2>6, <2>8, <2>11, <2>12 DEF Step, Same, Moves
  <1>17. ASSUME NEW m \in net, ReceiveClose(s, m)
         PROVE  Step(s)
    <2>1. status'[o] = status[o] /\ coop'[o] = coop[o] /\ close'[o] = close[o]
      BY <1>0, <1>17 DEF TypeOK, ReceiveClose, Publish
    <2> QED  BY <1>17, <2>1, StillMoves DEF ReceiveClose, Publish, Step, Same, Moves, New
  <1>18. ASSUME NEW m \in net, ReceiveUpdateBuffer(s, m)
         PROVE  Step(s)
    BY <1>18, StillMoves DEF ReceiveUpdateBuffer, Step, Same, Moves, New
  <1> QED  BY <1>1, <1>2, <1>3, <1>4, <1>5, <1>6, <1>7, <1>9, <1>10, <1>12, <1>13, <1>14, <1>15,
              <1>16, <1>17, <1>18 DEF SideStep
-----------------------------------------------------------------------------
(* The parts of the invariant that follow from how the states move. *)

LEMMA SignedGrows ==
    ASSUME net \subseteq net', NEW s, NEW c \in SignedBy(s)
    PROVE  c \in SignedBy(s)'
  BY DEF SignedBy, Opening

\* What a side keeps when the other moves.
LEMMA OtherKeeps ==
    ASSUME IInv, NEW s \in Sides, Step(s)
    PROVE  /\ Numbered(Other(s))' /\ Built(Other(s))' /\ Sequenced(Other(s))' /\ Signed(Other(s))'
           /\ Said(Other(s))' /\ Final(Other(s))'
  <1> DEFINE o == Other(s)
  <1>1. o \in Sides /\ o # s /\ SideInv(o)
    BY TwoSides DEF IInv
  <1>2. Same(o) /\ New(s) /\ net \subseteq net'
    BY DEF Step
  <1>3. Numbered(o)'
    BY <1>1, <1>2 DEF SideInv, Same, Numbered, Opening
  <1>4. Built(o)'
    BY <1>1, <1>2 DEF SideInv, Same, Built
  <1>5. Sequenced(o)'
    BY <1>1, <1>2 DEF SideInv, Same, Sequenced
  <1>6. Signed(o)'
    BY <1>1, <1>2, SignedGrows DEF SideInv, Same, Signed
  <1>7. Said(o)'
    <2> SUFFICES ASSUME NEW m \in net', m.by = o
                 PROVE  Says(o, m)'
      BY DEF Said, Says
    <2>1. m \in net
      BY <1>1, <1>2 DEF New
    <2>2. Says(o, m)
      BY <2>1, <1>1 DEF SideInv, Said, Says
    <2> QED  BY <2>2, <1>2 DEF Says, Same, Holds
  <1>8. Final(o)'
    BY <1>1, <1>2 DEF SideInv, Same, Final
  <1> QED  BY <1>3, <1>4, <1>5, <1>6, <1>7, <1>8

LEMMA NumberedStep ==
    ASSUME IInv, NEW s \in Sides, Step(s), TypeOK'
    PROVE  Numbered(s)'
  <1>1. Numbered(s) /\ Moves(s) /\ TypeOK
    BY DEF IInv, SideInv, Step
  <1>2. num[s] \in Nat /\ Numbers \subseteq Nat /\ 0 \in Numbers
    BY <1>1, Typed
  <1>3. Opening' = Opening
    BY DEF Opening
  <1>4. CASE Still(s)
    BY <1>1, <1>4, <1>3 DEF Numbered, Still
  <1>5. CASE Proposes(s)
    <2>1. states'[s][0] = Opening
      BY <1>1, <1>2, <1>5 DEF Numbered, Proposes
    <2>2. \A k \in Numbers : k <= num'[s] => states'[s][k] # None
      BY <1>1, <1>2, <1>5 DEF Numbered, Proposes
    <2>3. \A k \in Numbers : k > num'[s] /\ states'[s][k] # None => pending'[s] # None /\ pending'[s].n = k
      BY <1>1, <1>2, <1>5 DEF Numbered, Proposes
    <2>4. pending'[s].n = num'[s] + 1 /\ states'[s][num'[s] + 1] # None /\ awaiting'[s] = None
      BY <1>5, NoneAssumption DEF Proposes
    <2>5. \A a \in alts'[s] : /\ a.n >= 1 /\ a.n <= num'[s] + 1
      BY <1>1, <1>5 DEF Numbered, Proposes
    <2> QED  BY <1>3, <2>1, <2>2, <2>3, <2>4, <2>5 DEF Numbered
  <1>6. CASE Drops(s)
    <2>1. num'[s] = num[s] /\ pending'[s] = None /\ alts'[s] = Aside(s) /\ awaiting'[s] \in {awaiting[s], None}
      BY <1>6 DEF Drops
    <2>2. states'[s][0] = Opening
      BY <1>1, <1>2, <1>6 DEF Numbered, Drops
    <2>3. \A k \in Numbers : k <= num'[s] => states'[s][k] # None
      BY <1>1, <1>2, <1>6 DEF Numbered, Drops
    <2>4. \A k \in Numbers : k > num'[s] => states'[s][k] = None
      BY <1>1, <1>2, <1>6 DEF Numbered, Drops
    <2>5. \A a \in alts'[s] : /\ a.n >= 1 /\ a.n <= num[s] + 1
                              /\ a.n = num[s] + 1 => awaiting'[s] = None
      <3> TAKE a \in alts'[s]
      <3>1. CASE a \in alts[s]
        BY <3>1, <2>1, <1>1 DEF Numbered
      <3>2. CASE pending[s] # None /\ a = Kept(s)
        <4>1. a.n = num[s] + 1
          BY <3>2, PendingSound
        <4>2. awaiting[s] = None
          BY <3>2, <1>1 DEF Numbered
        <4> QED  BY <4>1, <4>2, <2>1, <1>2
      <3> QED  BY <3>1, <3>2, <2>1, AsideSound
    <2>6. awaiting'[s] # None => awaiting'[s] = num'[s] /\ num'[s] >= 1
      BY <2>1, <1>1 DEF Numbered
    <2> QED  BY <1>3, <2>1, <2>2, <2>3, <2>4, <2>5, <2>6 DEF Numbered
  <1>7. ASSUME NEW n \in Numbers, NEW st \in State, Enters(s, n, st)
        PROVE  Numbered(s)'
    <2>1. n = num[s] + 1 /\ num'[s] = n /\ pending'[s] = None /\ states'[s][n] = st
          /\ awaiting'[s] \in {None, n}
      BY <1>7 DEF Enters
    <2>2. \A k \in Numbers : k # n => states'[s][k] = states[s][k]
      BY <1>7 DEF Enters
    <2>3. states'[s][0] = Opening
      BY <1>1, <1>2, <2>1, <2>2 DEF Numbered
    <2>4. \A k \in Numbers : k <= n => states'[s][k] # None
      BY <1>1, <1>2, <2>1, <2>2, NoneAssumption DEF Numbered
    <2>5. \A k \in Numbers : k > n => states'[s][k] = None
      <3> SUFFICES ASSUME NEW k \in Numbers, k > n, states[s][k] # None
                   PROVE  FALSE
        BY <1>2, <2>1, <2>2
      <3>1. k > num[s]
        BY <2>1, <1>2
      <3>2. pending[s] # None /\ pending[s].n = k /\ pending[s].n = num[s] + 1
        BY <3>1, <1>1 DEF Numbered
      <3> QED  BY <3>2, <2>1, <1>2
    <2>6. \A a \in alts'[s] : a.n >= 1 /\ a.n <= n
      <3> TAKE a \in alts'[s]
      <3>1. CASE a \in alts[s]
        BY <3>1, <2>1, <1>1 DEF Numbered
      <3>2. CASE pending[s] # None /\ a = Kept(s)
        BY <3>2, <2>1, <1>2, PendingSound
      <3> QED  BY <3>1, <3>2, <1>7 DEF Enters
    <2>7. \A a \in alts'[s] : a.n <= num'[s] + 1 /\ a.n # num'[s] + 1
      <3> TAKE a \in alts'[s]
      <3>1. a.n \in Nat
        <4>1. alts'[s] \in SUBSET [n : Numbers, st : State, upd : Update]
          BY DEF TypeOK
        <4> QED  BY <4>1, <1>2
      <3> QED  BY <3>1, <2>1, <2>6, <1>2
    <2>8. n >= 1
      BY <2>1, <1>2
    <2> QED  BY <1>3, <2>1, <2>3, <2>4, <2>5, <2>6, <2>7, <2>8 DEF Numbered
  <1> QED  BY <1>1, <1>4, <1>5, <1>6, <1>7 DEF Moves

LEMMA BuiltStep ==
    ASSUME IInv, NEW s \in Sides, Step(s), TypeOK'
    PROVE  Built(s)'
  <1>1. Numbered(s) /\ Built(s) /\ Moves(s) /\ TypeOK
    BY DEF IInv, SideInv, Step
  <1>2. pending[s] # None => Kept(s).st.bal["A"] >= Fee
    <2> SUFFICES ASSUME pending[s] # None PROVE Kept(s).st.bal["A"] >= Fee
      OBVIOUS
    <2>1. Kept(s).st = states[s][num[s] + 1] /\ num[s] + 1 \in Numbers /\ states[s][num[s] + 1] \in State
      BY PendingSound
    <2> QED  BY <2>1, <1>1, NoneAssumption DEF Built
  <1>3. CASE Still(s)
    BY <1>1, <1>3 DEF Built, Still
  <1>4. CASE Proposes(s)
    BY <1>1, <1>4 DEF Built, Proposes
  <1>5. CASE Drops(s)
    <2>1. \A k \in Numbers : states'[s][k] # None => states'[s][k] = states[s][k]
      BY <1>5 DEF Drops
    <2>2. \A a \in alts'[s] : a.st.bal["A"] >= Fee
      BY <1>1, <1>2, <1>5, AsideSound DEF Built, Drops
    <2> QED  BY <2>1, <2>2, <1>1 DEF Built
  <1>6. ASSUME NEW n \in Numbers, NEW st \in State, Enters(s, n, st)
        PROVE  Built(s)'
    BY <1>1, <1>2, <1>6 DEF Built, Enters
  <1> QED  BY <1>1, <1>3, <1>4, <1>5, <1>6 DEF Moves

LEMMA SequencedStep ==
    ASSUME IInv, NEW s \in Sides, Step(s), TypeOK'
    PROVE  Sequenced(s)'
  <1>1. Numbered(s) /\ Sequenced(s) /\ Moves(s) /\ TypeOK
    BY DEF IInv, SideInv, Step
  <1>2. num[s] \in Nat /\ Numbers \subseteq Nat /\ seq[s] \in Nat /\ seq'[s] \in Nat
    BY <1>1, Typed DEF TypeOK
  <1>3. pending[s] # None =>
            \A x \in Kept(s).st.htlcs : x.id < seq[s] \/ (Kept(s).upd.t = "add" /\ x.id = Kept(s).upd.id)
    BY <1>1, PendingSound DEF Sequenced
  <1>4. CASE Still(s)
    BY <1>1, <1>4 DEF Sequenced, Still
  <1>5. CASE Proposes(s)
    <2>1. \A k \in Numbers : k <= num'[s] => \A x \in states'[s][k].htlcs : x.id < seq'[s]
      BY <1>1, <1>2, <1>5 DEF Sequenced, Proposes
    <2> QED  BY <2>1, <1>1, <1>5 DEF Sequenced, Proposes
  <1>6. CASE Drops(s)
    <2>1. \A k \in Numbers : k <= num'[s] => \A x \in states'[s][k].htlcs : x.id < seq'[s]
      BY <1>1, <1>2, <1>6 DEF Sequenced, Drops
    <2>2. \A a \in alts'[s] : \A x \in a.st.htlcs :
            x.id < seq'[s] \/ (a.upd.t = "add" /\ x.id = a.upd.id)
      BY <1>1, <1>3, <1>6, AsideSound DEF Sequenced, Drops
    <2> QED  BY <2>1, <2>2, <1>1, <1>6 DEF Sequenced, Drops
  <1>7. ASSUME NEW n \in Numbers, NEW st \in State, Enters(s, n, st)
        PROVE  Sequenced(s)'
    <2>1. /\ n = num[s] + 1 /\ num'[s] = n /\ states'[s][n] = st /\ pending'[s] = None
          /\ \A k \in Numbers : k # n => states'[s][k] = states[s][k]
          /\ seq'[s] >= seq[s] /\ \A x \in st.htlcs : x.id < seq'[s]
      BY <1>7 DEF Enters
    <2>2. \A S \in SUBSET Htlc : \A x \in S : x.id \in Nat
      BY DEF Htlc
    <2>3. \A k \in Numbers : k <= n => \A x \in states'[s][k].htlcs : x.id < seq'[s]
      <3> SUFFICES ASSUME NEW k \in Numbers, k <= n, k # n, NEW x \in states[s][k].htlcs
                   PROVE  x.id < seq'[s]
        BY <2>1
      <3>1. k <= num[s]
        BY <2>1, <1>2
      <3>2. states[s][k] \in State
        BY <3>1, <1>1, Typed DEF Numbered
      <3>3. x.id \in Nat
        BY <3>2, <2>2 DEF State
      <3> QED  BY <3>1, <3>3, <2>1, <1>1, <1>2 DEF Sequenced
    <2>4. \A a \in alts'[s] : \A x \in a.st.htlcs :
            x.id < seq'[s] \/ (a.upd.t = "add" /\ x.id = a.upd.id)
      <3> TAKE a \in alts'[s]
      <3> TAKE x \in a.st.htlcs
      <3>1. a.st \in State
        BY DEF TypeOK
      <3>2. x.id \in Nat
        BY <3>1, <2>2 DEF State
      <3>3. a \in alts[s] \/ (pending[s] # None /\ a = Kept(s))
        BY <1>7 DEF Enters
      <3>4. x.id < seq[s] \/ (a.upd.t = "add" /\ x.id = a.upd.id)
        BY <3>3, <1>1, <1>3 DEF Sequenced
      <3> QED  BY <3>2, <3>4, <2>1, <1>2
    <2>5. seq'[s] >= 1
      BY <2>1, <1>1, <1>2 DEF Sequenced
    <2> QED  BY <2>1, <2>3, <2>4, <2>5 DEF Sequenced
  <1> QED  BY <1>1, <1>4, <1>5, <1>6, <1>7 DEF Moves

LEMMA SignedStep ==
    ASSUME IInv, NEW s \in Sides, Step(s), TypeOK'
    PROVE  Signed(s)'
  <1>1. Numbered(s) /\ Signed(s) /\ Moves(s) /\ TypeOK /\ net \subseteq net'
    BY DEF IInv, SideInv, Step
  <1>2. num[s] \in Nat /\ Numbers \subseteq Nat
    BY <1>1, Typed
  <1>3. \A c : c \in SignedBy(Other(s)) => c \in SignedBy(Other(s))'
    BY <1>1, SignedGrows
  <1>4. CASE Still(s)
    BY <1>1, <1>3, <1>4 DEF Signed, Still
  <1>5. CASE Proposes(s)
    <2>1. \A k \in Numbers : k <= num'[s] => states'[s][k] = states[s][k]
      BY <1>2, <1>5 DEF Proposes
    <2>2. num'[s] = num[s] /\ pending'[s].n = num[s] + 1
      BY <1>5 DEF Proposes
    <2>3. [t |-> "update", by |-> s, n |-> pending'[s].n, upd |-> pending'[s].upd,
           st |-> states'[s][pending'[s].n], k |-> pending'[s].k] \in net'
      BY <1>5, <2>2 DEF Proposes
    <2>4. \A k \in Numbers : k <= num'[s] => [n |-> k, st |-> states'[s][k]] \in SignedBy(Other(s))'
      BY <2>1, <2>2, <1>1, <1>3 DEF Signed
    <2> QED  BY <2>3, <2>4 DEF Signed
  <1>6. CASE Drops(s)
    <2>1. \A k \in Numbers : k <= num'[s] => states'[s][k] = states[s][k]
      BY <1>2, <1>6 DEF Drops
    <2>2. num'[s] = num[s] /\ pending'[s] = None
      BY <1>6 DEF Drops
    <2>3. \A k \in Numbers : k <= num'[s] => [n |-> k, st |-> states'[s][k]] \in SignedBy(Other(s))'
      BY <2>1, <2>2, <1>1, <1>3 DEF Signed
    <2> QED  BY <2>2, <2>3 DEF Signed
  <1>7. ASSUME NEW n \in Numbers, NEW st \in State, Enters(s, n, st)
        PROVE  Signed(s)'
    <2>1. /\ n = num[s] + 1 /\ num'[s] = n /\ states'[s][n] = st /\ pending'[s] = None
          /\ \A k \in Numbers : k # n => states'[s][k] = states[s][k]
      BY <1>7 DEF Enters
    <2>2. PICK m \in net : m.by = Other(s) /\ m.n = n /\ m.st = st /\ m.t \in {"update", "ack"}
      BY <1>7 DEF Enters
    <2>3. [n |-> n, st |-> st] \in SignedBy(Other(s))
      BY <2>2 DEF SignedBy
    <2>4. \A k \in Numbers : k <= n => [n |-> k, st |-> states'[s][k]] \in SignedBy(Other(s))'
      <3> TAKE k \in Numbers
      <3>1. CASE k = n
        BY <3>1, <2>1, <2>3, <1>3
      <3>2. CASE k # n
        <4>1. k <= n => k <= num[s]
          BY <3>2, <2>1, <1>2
        <4> QED  BY <3>2, <4>1, <2>1, <1>1, <1>3 DEF Signed
      <3> QED  BY <3>1, <3>2
    <2> QED  BY <2>1, <2>4 DEF Signed
  <1> QED  BY <1>1, <1>4, <1>5, <1>6, <1>7 DEF Moves

\* What s has signed it goes on holding.
LEMMA HoldsOn ==
    ASSUME IInv, NEW s \in Sides, Moves(s), TypeOK', NEW n \in Numbers, NEW st \in State, Holds(s, n, st)
    PROVE  Holds(s, n, st)'
  <1>1. Numbered(s) /\ TypeOK
    BY DEF IInv, SideInv
  <1>2. num[s] \in Nat /\ Numbers \subseteq Nat
    BY <1>1, Typed
  <1>3. CASE Still(s)
    BY <1>3 DEF Holds, Still
  <1>4. CASE Proposes(s)
    <2>1. n <= num[s] => states'[s][n] = states[s][n]
      BY <1>2, <1>4 DEF Proposes
    <2> QED  BY <1>4, <2>1 DEF Holds, Proposes
  <1>5. CASE Drops(s)
    <2>1. n <= num[s] => states'[s][n] = states[s][n]
      BY <1>2, <1>5 DEF Drops
    <2>2. CASE pending[s] # None /\ pending[s].n = n /\ states[s][n] = st
      <3>1. n = num[s] + 1
        BY <2>2, PendingSound
      <3> QED  BY <3>1, <2>2, <1>5, AsideSound DEF Holds, Drops
    <2> QED  BY <1>5, <2>1, <2>2, AsideSound DEF Holds, Drops
  <1>6. ASSUME NEW n2 \in Numbers, NEW st2 \in State, Enters(s, n2, st2)
        PROVE  Holds(s, n, st)'
    <2>1. /\ n2 = num[s] + 1 /\ num'[s] = n2 /\ states'[s][n2] = st2
          /\ \A k \in Numbers : k # n2 => states'[s][k] = states[s][k]
          /\ \A a \in alts[s] : a \in alts'[s] \/ (a.n = n2 /\ a.st = st2)
          /\ pending[s] # None =>
                states[s][n2] = st2 \/ \E a \in alts'[s] : a.n = n2 /\ a.st = states[s][n2]
      BY <1>6 DEF Enters
    <2>2. CASE n <= num[s] /\ states[s][n] = st
      <3>1. n # n2 /\ n <= n2
        BY <2>1, <2>2, <1>2
      <3> QED  BY <3>1, <2>1, <2>2 DEF Holds
    <2>3. n2 <= num'[s]
      BY <2>1, <1>2
    <2>4. CASE pending[s] # None /\ pending[s].n = n /\ states[s][n] = st
      <3>1. n = n2
        BY <2>1, <2>4, PendingSound
      <3> QED  BY <3>1, <2>1, <2>3, <2>4 DEF Holds
    <2>5. CASE \E a \in alts[s] : a.n = n /\ a.st = st
      BY <2>1, <2>3, <2>5 DEF Holds
    <2> QED  BY <2>2, <2>4, <2>5 DEF Holds
  <1> QED  BY <1>3, <1>4, <1>5, <1>6 DEF Moves

\* Agreed states do not change, numbers only grow, one at a time, and only those of
\* an open side.
LEMMA MovesForward ==
    ASSUME TypeOK, NEW s \in Sides, Moves(s)
    PROVE  /\ num'[s] \in Nat /\ num'[s] >= num[s] /\ num'[s] <= num[s] + 1
           /\ \A k \in Numbers : k <= num[s] => states'[s][k] = states[s][k]
           /\ status[s] # "open" => num'[s] = num[s]
  <1>1. num[s] \in Nat /\ Numbers \subseteq Nat
    BY Typed
  <1>2. \A k \in Numbers : k <= num[s] => k # num[s] + 1
    BY <1>1
  <1>3. CASE num'[s] = num[s] /\ \A k \in Numbers : k # num[s] + 1 => states'[s][k] = states[s][k]
    <2>1. num'[s] \in Nat /\ num'[s] >= num[s] /\ num'[s] <= num[s] + 1
      BY <1>1, <1>3
    <2> QED  BY <1>2, <1>3, <2>1
  <1>4. ASSUME NEW n \in Numbers, NEW st \in State, Enters(s, n, st)
        PROVE  /\ num'[s] \in Nat /\ num'[s] >= num[s] /\ num'[s] <= num[s] + 1
               /\ \A k \in Numbers : k <= num[s] => states'[s][k] = states[s][k]
               /\ status[s] # "open" => num'[s] = num[s]
    <2>1. n = num[s] + 1 /\ num'[s] = n /\ status[s] = "open"
      BY <1>4 DEF Enters
    <2>2. \A k \in Numbers : k # n => states'[s][k] = states[s][k]
      BY <1>4 DEF Enters
    <2>3. num'[s] \in Nat /\ num'[s] >= num[s] /\ num'[s] <= num[s] + 1
      BY <1>1, <2>1
    <2> QED  BY <1>2, <2>1, <2>2, <2>3
  <1>5. CASE Still(s)
    BY <1>3, <1>5 DEF Still
  <1>6. CASE Proposes(s)
    BY <1>3, <1>6 DEF Proposes
  <1>7. CASE Drops(s)
    BY <1>3, <1>7 DEF Drops
  <1> QED  BY <1>4, <1>5, <1>6, <1>7 DEF Moves

\* A side with a close in its messages is not open, and so it stays where it is.
LEMMA SaidStep ==
    ASSUME IInv, NEW s \in Sides, Step(s), TypeOK', coop[s] # None => coop'[s] = coop[s]
    PROVE  Said(s)'
  <1>1. SideInv(s) /\ Moves(s) /\ New(s) /\ TypeOK
    BY DEF IInv, Step
  <1>2. num[s] \in Nat /\ Numbers \subseteq Nat
    BY <1>1, Typed
  <1>3. num'[s] \in Nat /\ num'[s] >= num[s]
        /\ \A k \in Numbers : k <= num[s] => states'[s][k] = states[s][k]
    BY <1>1, MovesForward
  <1>4. status[s] # "open" => num'[s] = num[s]
    BY <1>1, MovesForward
  <1> SUFFICES ASSUME NEW m \in net', m.by = s
               PROVE  Says(s, m)'
    BY DEF Said, Says
  <1>5. CASE m \notin net
    BY <1>1, <1>5 DEF New
  <1>6. CASE m \in net
    <2>1. Says(s, m) /\ m \in Message /\ m.n \in Numbers
      BY <1>1, <1>6, MessageFields DEF SideInv, Said, Says, TypeOK
    <2>0. m.n \in Nat
      BY <2>1, <1>2
    <2>2. m.t = "update" => m.n >= 1 /\ m.n <= num'[s] + 1 /\ Holds(s, m.n, m.st)'
      <3> SUFFICES ASSUME m.t = "update"
                   PROVE  m.n >= 1 /\ m.n <= num'[s] + 1 /\ Holds(s, m.n, m.st)'
        OBVIOUS
      <3>1. m.n >= 1 /\ m.n <= num[s] + 1 /\ Holds(s, m.n, m.st) /\ m.st \in State
        BY <2>1, MessageFields DEF Says
      <3>2. Holds(s, m.n, m.st)'
        BY <3>1, <2>1, <1>1, HoldsOn
      <3>3. m.n <= num'[s] + 1
        BY <3>1, <2>0, <1>2, <1>3
      <3> QED  BY <3>1, <3>2, <3>3
    <2>3. m.t = "ack" => m.n >= 1 /\ m.n <= num'[s] /\ states'[s][m.n] = m.st
      <3> SUFFICES ASSUME m.t = "ack"
                   PROVE  m.n >= 1 /\ m.n <= num'[s] /\ states'[s][m.n] = m.st
        OBVIOUS
      <3>1. m.n >= 1 /\ m.n <= num[s] /\ states[s][m.n] = m.st
        BY <2>1 DEF Says
      <3> QED  BY <3>1, <2>0, <2>1, <1>2, <1>3
    <2>4. m.t = "revoke" => m.n >= 1 /\ m.n <= num'[s]
      <3> SUFFICES ASSUME m.t = "revoke"
                   PROVE  m.n >= 1 /\ m.n <= num'[s]
        OBVIOUS
      <3>1. m.n >= 1 /\ m.n <= num[s]
        BY <2>1 DEF Says
      <3> QED  BY <3>1, <2>0, <1>2, <1>3
    <2>5. m.t \in {"sync", "synced"} => \A i \in m.reveals : i < num'[s]
      <3> SUFFICES ASSUME m.t \in {"sync", "synced"}, NEW i \in m.reveals
                   PROVE  i < num'[s]
        OBVIOUS
      <3>1. i \in Nat /\ i < num[s]
        BY <2>1, <1>2, MessageFields DEF Says
      <3> QED  BY <3>1, <1>2, <1>3
    <2>6. m.t = "close" => coop'[s] = m.st /\ m.n = num'[s]
      <3> SUFFICES ASSUME m.t = "close"
                   PROVE  coop'[s] = m.st /\ m.n = num'[s]
        OBVIOUS
      <3>1. coop[s] = m.st /\ m.n = num[s] /\ m.st \in State
        BY <2>1, MessageFields DEF Says
      <3>2. coop[s] # None
        BY <3>1, NoneAssumption
      <3>3. status[s] # "open"
        BY <3>2, <1>1 DEF SideInv, Closing
      <3> QED  BY <3>1, <3>2, <3>3, <1>4
    <2> QED  BY <2>2, <2>3, <2>4, <2>5, <2>6 DEF Says
  <1> QED  BY <1>5, <1>6

LEMMA AheadStep ==
    ASSUME IInv, NEW s \in Sides, Step(s), TypeOK'
    PROVE  Ahead(s)' /\ Ahead(Other(s))'
  <1> DEFINE o == Other(s)
  <1>1. /\ Ahead(s) /\ Ahead(o) /\ Moves(s) /\ TypeOK /\ net \subseteq net' /\ Same(o)
        /\ o \in Sides /\ Other(o) = s
    BY TwoSides DEF IInv, SideInv, Step
  <1>2. num[s] \in Nat /\ num[o] \in Nat /\ num[s] \in Numbers
    BY <1>1, Typed
  <1>3. CASE num'[s] = num[s] /\ states'[s][num[s]] = states[s][num[s]]
    BY <1>1, <1>3 DEF Ahead, Same
  <1>4. ASSUME NEW n \in Numbers, NEW st \in State, Enters(s, n, st)
        PROVE  Ahead(s)' /\ Ahead(o)'
    <2>1. n = num[s] + 1 /\ num'[s] = n /\ states'[s][n] = st
      BY <1>4 DEF Enters
    <2>2. PICK m \in net : /\ m.by = o /\ m.n = n /\ m.st = st
                           /\ m.t = "update" \/ (m.t = "ack" /\ n <= num[o])
      BY <1>4 DEF Enters
    <2>3. m.t = "update" => n <= num[o] + 1
      BY <1>1, <2>2 DEF IInv, SideInv, Said
    <2>4. num'[o] = num[o] /\ states'[o] = states[o]
      BY <1>1 DEF Same
    <2>5. Ahead(s)'
      BY <1>1, <1>2, <2>1, <2>2, <2>3, <2>4 DEF Ahead
    <2>6. ~(num'[o] > num'[s])
      BY <1>1, <1>2, <2>1, <2>4 DEF Ahead
    <2> QED  BY <1>1, <2>5, <2>6 DEF Ahead
  <1>5. Still(s) \/ Proposes(s) \/ Drops(s) => num'[s] = num[s] /\ states'[s][num[s]] = states[s][num[s]]
    BY <1>2 DEF Still, Proposes, Drops
  <1> QED  BY <1>1, <1>3, <1>4, <1>5 DEF Moves
-----------------------------------------------------------------------------
(* Secrets. *)

LEMMA TakeFinal ==
    ASSUME IInv, NEW s \in Sides, NEW is \in SUBSET Numbers, TakeReveals(s, is),
           \A i \in is : i < num[Other(s)], num' = num, status' = status
    PROVE  Revealed(s)' /\ Final(s)'
  <1>1. TypeOK /\ Numbered(s) /\ Revealed(s) /\ Final(s) /\ num[s] \in Nat /\ Numbers \subseteq Nat
    BY Typed DEF IInv, SideInv
  <1>2. /\ revoked'[s] = revoked[s] \cup is
        /\ awaiting'[s] = IF awaiting[s] # None /\ awaiting[s] - 1 \in revoked[s] \cup is
                          THEN None ELSE awaiting[s]
    BY <1>1, RevealsType
  <1>3. awaiting[s] # None => awaiting[s] = num[s]
    BY <1>1 DEF Numbered
  <1>4. Revealed(s)'
    BY <1>1, <1>2 DEF Revealed
  <1>5. Final(s)'
    BY <1>1, <1>2, <1>3 DEF Final
  <1> QED  BY <1>4, <1>5

LEMMA RevealStep ==
    ASSUME IInv, NEW s \in Sides, SideStep(s)
    PROVE  Revealed(s)' /\ Final(s)'
  <1> DEFINE o == Other(s)
  <1>0. /\ TypeOK /\ o \in Sides /\ num[s] \in Nat /\ num[o] \in Nat /\ Numbers \subseteq Nat
        /\ Numbered(s) /\ Revealed(s) /\ Final(s) /\ revoked[s] \in SUBSET Numbers /\ num[s] \in Numbers
    BY TwoSides, Typed DEF IInv, SideInv
  <1>00. num'[o] = num[o]
    BY SideMoves DEF Step, Same
  <1>1. ASSUME revoked'[s] = revoked[s], num'[s] = num[s], awaiting'[s] = awaiting[s],
               status'[s] \in Live => status[s] \in Live
        PROVE  Revealed(s)' /\ Final(s)'
    BY <1>0, <1>00, <1>1 DEF Revealed, Final
  <1>2. ASSUME NEW upd \in Asked(s), Propose(s, upd)
        PROVE  Revealed(s)' /\ Final(s)'
    BY <1>1, <1>2 DEF Propose
  <1>3. ASSUME NEW h \in Hashes, RememberPreimage(s, h)
        PROVE  Revealed(s)' /\ Final(s)'
    BY <1>1, <1>3 DEF RememberPreimage
  <1>4. CASE TickExpire(s)
    BY <1>1, <1>4 DEF TickExpire
  <1>5. CASE SendSync(s)
    BY <1>1, <1>5 DEF SendSync
  <1>6. CASE CloseChannel(s)
    BY <1>1, <1>6 DEF CloseChannel, Live
  <1>7. CASE ForceClose(s)
    <2>1. revoked' = revoked /\ num' = num /\ status'[s] = "force-closing"
      BY <1>0, <1>7 DEF ForceClose, TypeOK
    <2> QED  BY <2>1, <1>0 DEF Revealed, Final, Live
  <1>8. CASE OnSpend(s)
    <2>1. revoked' = revoked /\ num' = num /\ awaiting' = awaiting /\ status'[s] = Classified(s, spend)
      BY <1>0, <1>8 DEF OnSpend, TypeOK
    <2>2. status'[s] \notin Live
      BY <2>1 DEF Classified, Live
    <2> QED  BY <1>1, <2>1, <2>2
  <1>9. ASSUME NEW m \in net
        PROVE  /\ m \in Message /\ m.n \in Numbers
               /\ m.by # s => m.by = o /\ Says(o, m)
    BY <1>0, MessageFields, OtherSide DEF TypeOK, IInv, SideInv, Said, Says
  <1>10. ASSUME NEW m \in net, ReceiveUpdateReject(s, m)
         PROVE  Revealed(s)' /\ Final(s)'
    BY <1>1, <1>10 DEF ReceiveUpdateReject
  <1>11. ASSUME NEW m \in net, ReceiveUpdateAccept(s, m)
         PROVE  Revealed(s)' /\ Final(s)'
    <2>1. /\ revoked' = revoked /\ num'[s] = m.n /\ m.n = num[s] + 1 /\ awaiting'[s] = m.n
          /\ Missing(s) = {}
      BY <1>0, <1>11 DEF ReceiveUpdateAccept, Considered, TypeOK
    <2>2. awaiting'[s] # None
      BY <2>1, <1>9, <1>11, NoneAssumption
    <2>3. \A i \in Numbers : i < num[s] => i \in revoked[s]
      <3> SUFFICES ASSUME NEW i \in Numbers, i < num[s]
                   PROVE  i \in revoked[s]
        OBVIOUS
      <3>1. i \in 0 .. num[s] - 1
        BY <1>0
      <3> QED  BY <3>1, <2>1 DEF Missing
    <2>4. \A i \in Numbers : i < num'[s] => i < num[s] \/ i = num'[s] - 1
      <3> TAKE i \in Numbers
      <3>1. i \in Nat /\ num[s] \in Nat /\ num'[s] = num[s] + 1
        BY <2>1, <1>0
      <3> QED  BY <3>1
    <2> QED  BY <2>1, <2>2, <2>3, <2>4, <1>0, <1>00 DEF Revealed, Final
  <1>12. ASSUME NEW m \in net, Enters(s, m.n, m.st), m.n <= num[o],
                revoked'[s] = revoked[s] \cup {num[s]}, awaiting' = awaiting
         PROVE  Revealed(s)' /\ Final(s)'
    <2>1. num'[s] = num[s] + 1 /\ awaiting[s] = None /\ num[s] < num[o] /\ status[s] = "open"
      BY <1>0, <1>12 DEF Enters
    <2>2. \A i \in Numbers : i < num[s] => i \in revoked[s]
      BY <2>1, <1>0 DEF Final, Live
    <2>3. \A i \in Numbers : i < num'[s] => i < num[s] \/ i = num[s]
      BY <2>1, <1>0
    <2> QED  BY <1>12, <2>1, <2>2, <2>3, <1>0, <1>00 DEF Revealed, Final
  <1>13. ASSUME NEW m \in net, ReceiveAck(s, m)
         PROVE  Revealed(s)' /\ Final(s)'
    <2>1. m.n <= num[o]
      BY <1>9, <1>13 DEF ReceiveAck, Says
    <2> QED  BY <2>1, <1>12, <1>13, AckMoves
  <1>14. ASSUME NEW m \in net, AdoptAlternative(s, m)
         PROVE  Revealed(s)' /\ Final(s)'
    <2>1. m.n <= num[o]
      BY <1>9, <1>14 DEF AdoptAlternative, Says
    <2> QED  BY <2>1, <1>12, <1>14, AdoptMoves
  <1>15. ASSUME NEW m \in net, ReceiveRevoke(s, m)
         PROVE  Revealed(s)' /\ Final(s)'
    <2>1. m.n >= 1 /\ m.n <= num[o] /\ m.n \in Numbers
      BY <1>9, <1>15 DEF ReceiveRevoke, Says
    <2>2. {m.n - 1} \in SUBSET Numbers /\ \A i \in {m.n - 1} : i < num[o]
      BY <2>1, <1>0, NumberAssumption DEF Numbers
    <2>3. num' = num /\ status' = status
      BY <1>15 DEF ReceiveRevoke
    <2>4. CASE m.n - 1 \in revoked[s]
      <3>1. revoked' = revoked /\ awaiting' = awaiting
        BY <1>15, <2>4 DEF ReceiveRevoke
      <3> QED  BY <1>1, <2>3, <3>1
    <2>5. CASE m.n - 1 \notin revoked[s]
      <3>1. TakeReveals(s, {m.n - 1})
        BY <1>15, <2>5 DEF ReceiveRevoke
      <3> QED  BY <2>2, <2>3, <3>1, TakeFinal
    <2> QED  BY <2>4, <2>5
  <1>16. ASSUME NEW m \in net, ReceiveReject(s, m)
         PROVE  Revealed(s)' /\ Final(s)'
    BY <1>1, <1>16 DEF ReceiveReject
  <1>17. ASSUME NEW m \in net, ReceiveSync(s, m)
         PROVE  Revealed(s)' /\ Final(s)'
    <2> DEFINE taken == {i \in m.reveals : i <= num[s] + 1}
    <2>1. m.t \in {"sync", "synced"} /\ m.by # s /\ TakeReveals(s, taken) /\ num' = num /\ status' = status
      BY <1>17 DEF ReceiveSync
    <2>2. taken \in SUBSET Numbers
      BY <2>1, <1>9, MessageFields
    <2>3. \A i \in taken : i < num[o]
      BY <2>1, <1>9 DEF Says
    <2> HIDE DEF taken
    <2> QED  BY <2>1, <2>2, <2>3, TakeFinal
  <1>18. ASSUME NEW m \in net, ReceiveClose(s, m)
         PROVE  Revealed(s)' /\ Final(s)'
    <2>1. revoked' = revoked /\ num' = num /\ awaiting' = awaiting /\ status[s] \in Live
      BY <1>18 DEF ReceiveClose
    <2> QED  BY <1>1, <2>1
  <1>19. ASSUME NEW m \in net, ReceiveUpdateBuffer(s, m)
         PROVE  Revealed(s)' /\ Final(s)'
    BY <1>1, <1>19 DEF ReceiveUpdateBuffer
  <1> QED  BY <1>2, <1>3, <1>4, <1>5, <1>6, <1>7, <1>8, <1>10, <1>11, <1>13, <1>14, <1>15, <1>16,
              <1>17, <1>18, <1>19 DEF SideStep
-----------------------------------------------------------------------------
(* Closing. *)

\* on_spend knows every transaction that can spend the funding, and none of
\* them is of a state whose secret has been given up.
LEMMA SpendIsKnown ==
    ASSUME IInv, NEW s \in Sides, spend # None
    PROVE  Classified(s, spend) \notin {"spent-unknown", "punishing"}
  <1> DEFINE o == Other(s)
  <1>0. /\ TypeOK /\ o \in Sides /\ o # s /\ Other(o) = s /\ spend \in sent /\ spend \in Tx
        /\ num[s] \in Nat /\ num[o] \in Nat /\ num[o] \in Numbers /\ num[s] \in Numbers
        /\ Numbers \subseteq Nat /\ SideInv(s) /\ SideInv(o)
    BY TwoSides, Typed DEF IInv, TypeOK
  <1>1. CASE spend.t = "coop"
    <2>1. spend = [t |-> "coop", st |-> spend.st]
      BY <1>0, <1>1 DEF Tx
    <2>2. coop[s] = spend.st
      BY <1>0, <1>1 DEF SideInv, Closing
    <2> QED  BY <2>1, <2>2 DEF Classified
  <1>2. CASE spend.t = "commit" /\ spend.by = s
    <2>1. spend = close[s]
      BY <1>0, <1>2 DEF SideInv, Closing
    <2> QED  BY <2>1 DEF Classified
  <1>3. CASE spend.t = "commit" /\ spend.by = o
    <2>1. spend.n = num[o] /\ spend.st = states[o][num[o]]
      BY <1>0, <1>3 DEF SideInv, Closing
    <2>2. spend.n \notin revoked[s]
      BY <2>1, <1>0 DEF SideInv, Revealed
    <2>3. [n |-> spend.n, st |-> spend.st] \in SignedBy(s)
      BY <2>1, <1>0 DEF SideInv, Signed
    <2>4. Holds(s, spend.n, spend.st)
      <3>1. CASE [n |-> spend.n, st |-> spend.st] = [n |-> 0, st |-> Opening]
        <4>1. spend.n = 0 /\ spend.st = Opening
          BY <3>1
        <4> QED  BY <4>1, <1>0 DEF SideInv, Numbered, Holds
      <3>2. CASE \E m \in net : /\ m.by = s /\ m.t \in {"update", "ack"}
                                /\ [n |-> spend.n, st |-> spend.st] = [n |-> m.n, st |-> m.st]
        <4>1. PICK m \in net : /\ m.by = s /\ m.t \in {"update", "ack"}
                               /\ spend.n = m.n /\ spend.st = m.st
          BY <3>2
        <4> QED  BY <4>1, <1>0 DEF SideInv, Said, Holds
      <3> QED  BY <2>3, <3>1, <3>2 DEF SignedBy
    <2>5. [n |-> spend.n, st |-> spend.st] \in Agreed(s) \cup PendingState(s) \cup SetAside(s)
      <3>1. CASE spend.n <= num[s] /\ states[s][spend.n] = spend.st
        <4>1. spend.n \in 0 .. num[s]
          BY <3>1, <2>1, <1>0
        <4> QED  BY <3>1, <4>1 DEF Agreed
      <3>2. CASE pending[s] # None /\ pending[s].n = spend.n /\ states[s][spend.n] = spend.st
        BY <3>2 DEF PendingState
      <3>3. CASE \E a \in alts[s] : a.n = spend.n /\ a.st = spend.st
        <4>1. PICK a \in alts[s] : a.n = spend.n /\ a.st = spend.st
          BY <3>3
        <4>2. a.n <= num[s] + 1
          BY <1>0 DEF SideInv, Numbered
        <4> QED  BY <4>1, <4>2 DEF SetAside
      <3> QED  BY <2>4, <3>1, <3>2, <3>3 DEF Holds
    <2> QED  BY <2>2, <2>5, <1>0, <1>3 DEF Classified
  <1>4. spend.t = "coop" \/ (spend.t = "commit" /\ spend.by \in Sides)
    BY <1>0 DEF Tx
  <1> QED  BY <1>1, <1>2, <1>3, <1>4, OtherSide

LEMMA CloseStep ==
    ASSUME IInv, NEW s \in Sides, SideStep(s)
    PROVE  /\ Closing(s)' /\ Closing(Other(s))' /\ Fair(s)' /\ Fair(Other(s))'
           /\ coop[s] # None => coop'[s] = coop[s]
  <1> DEFINE o == Other(s)
             Goal == /\ Closing(s)' /\ Closing(o)' /\ Fair(s)' /\ Fair(o)'
                     /\ coop[s] # None => coop'[s] = coop[s]
  <1>0. /\ TypeOK /\ o \in Sides /\ o # s /\ num[s] \in Numbers /\ num[s] \in Nat
        /\ Closing(s) /\ Closing(o) /\ Fair(s) /\ Fair(o) /\ Numbered(s)
    BY TwoSides, Typed DEF IInv, SideInv
  <1>1. Moves(s) /\ Same(o)
    BY SideMoves DEF Step
  <1>2. Fair(o)'
    BY <1>0, <1>1 DEF Fair, Same
  <1>3. /\ num'[o] = num[o] /\ states'[o] = states[o] /\ status'[o] = status[o]
        /\ pending'[o] = pending[o] /\ coop'[o] = coop[o] /\ close'[o] = close[o]
    BY <1>1 DEF Same
  <1>4. sent' = sent => Closing(o)'
    BY <1>0, <1>3 DEF Closing
  \* The states of a side that is not open stay as they are.
  <1>5. status[s] # "open" => /\ num'[s] = num[s] /\ states'[s][num[s]] = states[s][num[s]]
                              /\ pending[s] = None => pending'[s] = None
    BY <1>0, <1>1 DEF Moves, Still, Proposes, Drops, Enters
  <1>6. ASSUME status'[s] = status[s], coop'[s] = coop[s], close'[s] = close[s], sent' = sent
        PROVE  Goal
    <2>1. Closing(s)'
      <3>1. CASE status[s] = "open"
        <4>1. coop[s] = None /\ \A tx \in sent : ~(tx.t = "commit" /\ tx.by = s)
          BY <3>1, <1>0 DEF Closing, Live
        <4> QED  BY <3>1, <4>1, <1>0, <1>6 DEF Closing
      <3>2. CASE status[s] # "open"
        <4>1. num'[s] = num[s] /\ states'[s][num'[s]] = states[s][num[s]]
          BY <3>2, <1>5
        <4>2. status'[s] \in {"closing-asked", "closing"} => pending'[s] = None
          BY <3>2, <1>0, <1>5, <1>6 DEF Closing
        <4> QED  BY <3>2, <4>1, <4>2, <1>0, <1>6 DEF Closing
      <3> QED  BY <3>1, <3>2
    <2>2. Fair(s)'
      BY <1>0, <1>6 DEF Fair
    <2> QED  BY <2>1, <2>2, <1>2, <1>4, <1>6
  <1>7. ASSUME UNCHANGED <<status, coop, close, sent>>
        PROVE  Goal
    BY <1>6, <1>7
  <1>8. ASSUME CloseChannel(s) PROVE Goal
    <2>1. /\ num' = num /\ states' = states /\ pending' = pending /\ close' = close /\ sent' = sent
          /\ status[s] = "open" /\ pending[s] = None
          /\ status'[s] = "closing-asked" /\ coop'[s] = states[s][num[s]]
      BY <1>0, <1>8 DEF CloseChannel, Current, TypeOK
    <2>2. coop[s] = None /\ \A tx \in sent : ~(tx.t = "commit" /\ tx.by = s)
      BY <2>1, <1>0 DEF Closing, Live
    <2>3. \A tx \in sent : tx.t # "coop"
      BY <2>2, <1>0, NoneAssumption DEF Closing, TypeOK, Tx
    <2>4. Closing(s)' /\ Fair(s)'
      BY <2>1, <2>2, <2>3 DEF Closing, Fair
    <2> QED  BY <2>1, <2>2, <2>4, <1>2, <1>4
  <1>9. ASSUME ForceClose(s) PROVE Goal
    <2> DEFINE c == [t |-> "commit", by |-> s, n |-> num[s], st |-> Current(s)]
    <2>1. /\ num' = num /\ coop' = coop /\ sent' = sent \cup {c} /\ status[s] \in Live \cup {"closing"}
          /\ status'[s] = "force-closing" /\ close'[s] = c
      BY <1>0, <1>9 DEF ForceClose, Publish, TypeOK
    <2>2. /\ c.t = "commit" /\ c.by = s /\ c.n = num[s] /\ c.st = states[s][num[s]]
      BY DEF Current
    <2> HIDE DEF c
    <2>3. states'[s][num[s]] = states[s][num[s]]
      BY <1>0, <1>1, <2>1 DEF Moves, Still, Proposes, Drops, Enters
    <2>4. \A tx \in sent : ~(tx.t = "commit" /\ tx.by = s)
      BY <2>1, <1>0 DEF Closing
    <2>5. Closing(s)'
      <3>1. \A tx \in sent' : tx.t = "commit" /\ tx.by = s => tx = c
        BY <2>1, <2>4
      <3>2. \A tx \in sent' : tx.t = "coop" => coop'[s] = tx.st
        BY <2>1, <2>2, <1>0 DEF Closing
      <3>3. coop'[s] # None => coop'[s] = states'[s][num'[s]]
        BY <2>1, <2>3, <1>0 DEF Closing
      <3> QED  BY <3>1, <3>2, <3>3, <2>1, <2>2, <2>3 DEF Closing, Live
    <2>6. Closing(o)'
      <3>1. \A tx \in sent' : tx.t = "commit" /\ tx.by = o => tx \in sent
        BY <2>1, <2>2, <1>0
      <3>2. \A tx \in sent' : tx.t = "coop" => tx \in sent
        BY <2>1, <2>2
      <3> QED  BY <3>1, <3>2, <1>0, <1>3 DEF Closing
    <2> QED  BY <2>1, <2>5, <2>6, <1>2 DEF Fair
  <1>10. ASSUME OnSpend(s) PROVE Goal
    <2>1. /\ num' = num /\ states' = states /\ coop' = coop /\ close' = close /\ sent' = sent
          /\ status'[s] = Classified(s, spend) /\ spend # None
      BY <1>0, <1>10 DEF OnSpend, TypeOK
    <2>2. status'[s] \notin Live \cup {"closing", "closing-asked", "open"}
      BY <2>1 DEF Classified, Live
    <2>3. Closing(s)'
      BY <2>1, <2>2, <1>0 DEF Closing
    <2>4. Fair(s)'
      BY <2>1, SpendIsKnown DEF Fair
    <2> QED  BY <2>1, <2>3, <2>4, <1>2, <1>4
  <1>11. ASSUME NEW m \in net, ReceiveClose(s, m)
         PROVE  Goal
    <2> DEFINE c == [t |-> "coop", st |-> m.st]
    <2>1. /\ num' = num /\ states' = states /\ pending' = pending /\ sent' = sent \cup {c}
          /\ status[s] \in Live /\ pending[s] = None /\ m.st = states[s][num[s]]
          /\ status'[s] = "closing" /\ coop'[s] = m.st
      BY <1>0, <1>11 DEF ReceiveClose, Publish, TypeOK, Current
    <2>2. coop[o] = m.st
      <3>1. m.by = o /\ m.t = "close"
        BY <1>0, <1>11, MessageFields, OtherSide DEF ReceiveClose, TypeOK
      <3> QED  BY <3>1, <1>0 DEF IInv, SideInv, Said
    <2>3. coop[s] # None => coop'[s] = coop[s]
      BY <2>1, <1>0 DEF Closing
    <2>4. c.t = "coop" /\ c.st = m.st
      OBVIOUS
    <2> HIDE DEF c
    <2>5. \A tx \in sent : tx.t = "coop" => coop[s] = tx.st /\ coop[s] # None
      BY <1>0, NoneAssumption DEF Closing, TypeOK, Tx
    <2>6. \A tx \in sent : ~(tx.t = "commit" /\ tx.by = s)
      BY <2>1, <1>0 DEF Closing
    <2>7. Closing(s)'
      <3>1. \A tx \in sent' : ~(tx.t = "commit" /\ tx.by = s)
        BY <2>1, <2>4, <2>6
      <3>2. \A tx \in sent' : tx.t = "coop" => coop'[s] = tx.st
        BY <2>1, <2>3, <2>4, <2>5
      <3> QED  BY <3>1, <3>2, <2>1 DEF Closing
    <2>8. Closing(o)'
      <3>1. \A tx \in sent' : tx.t = "commit" /\ tx.by = o => tx \in sent
        BY <2>1, <2>4
      <3>2. \A tx \in sent' : tx.t = "coop" => coop'[o] = tx.st
        BY <2>1, <2>2, <2>4, <1>0, <1>3 DEF Closing
      <3> QED  BY <3>1, <3>2, <1>0, <1>3 DEF Closing
    <2> QED  BY <2>1, <2>3, <2>7, <2>8, <1>2 DEF Fair
  <1> HIDE DEF Goal
  <1>12. ASSUME NEW upd \in Asked(s), Propose(s, upd) PROVE Goal
    BY <1>7, <1>12 DEF Propose
  <1>13. ASSUME NEW h \in Hashes, RememberPreimage(s, h) PROVE Goal
    BY <1>7, <1>13 DEF RememberPreimage
  <1>14. ASSUME TickExpire(s) PROVE Goal
    BY <1>7, <1>14 DEF TickExpire
  <1>15. ASSUME SendSync(s) PROVE Goal
    BY <1>7, <1>15 DEF SendSync
  <1>16. ASSUME NEW m \in net, ReceiveUpdateReject(s, m) PROVE Goal
    BY <1>7, <1>16 DEF ReceiveUpdateReject
  <1>17. ASSUME NEW m \in net, ReceiveUpdateAccept(s, m) PROVE Goal
    BY <1>7, <1>17 DEF ReceiveUpdateAccept
  <1>18. ASSUME NEW m \in net, ReceiveAck(s, m) PROVE Goal
    BY <1>7, <1>18 DEF ReceiveAck, Advance
  <1>19. ASSUME NEW m \in net, AdoptAlternative(s, m) PROVE Goal
    BY <1>7, <1>19 DEF AdoptAlternative, Advance
  <1>20. ASSUME NEW m \in net, ReceiveRevoke(s, m) PROVE Goal
    BY <1>7, <1>20 DEF ReceiveRevoke
  <1>21. ASSUME NEW m \in net, ReceiveReject(s, m) PROVE Goal
    BY <1>7, <1>21 DEF ReceiveReject
  <1>22. ASSUME NEW m \in net, ReceiveSync(s, m) PROVE Goal
    BY <1>7, <1>22 DEF ReceiveSync
  <1>24. ASSUME NEW m \in net, ReceiveUpdateBuffer(s, m) PROVE Goal
    BY <1>7, <1>24 DEF ReceiveUpdateBuffer
  <1>23. Goal
    BY <1>8, <1>9, <1>10, <1>11, <1>12, <1>13, <1>14, <1>15, <1>16, <1>17, <1>18, <1>19, <1>20,
       <1>21, <1>22, <1>24 DEF SideStep
  <1> QED  BY <1>23 DEF Goal
-----------------------------------------------------------------------------
(* The invariant, and what follows from it. *)

LEMMA InitInv == Init => IInv
  <1> SUFFICES ASSUME Init PROVE IInv
    OBVIOUS
  <1>1. 0 \in Numbers /\ Numbers \subseteq Nat
    BY NumberAssumption DEF Numbers
  <1>2. TypeOK
    <2>1. states \in [Sides -> [Numbers -> State \cup {None}]]
      BY OpeningSound DEF Init
    <2> QED  BY <1>1, <2>1 DEF Init, TypeOK, Statuses
  <1>3. ASSUME NEW s \in Sides PROVE SideInv(s)
    <2>1. /\ status[s] = "open" /\ num[s] = 0 /\ pending[s] = None /\ awaiting[s] = None
          /\ revoked[s] = {} /\ alts[s] = {} /\ seq[s] = 1 /\ coop[s] = None /\ close[s] = None
          /\ num[Other(s)] = 0 /\ net = {} /\ sent = {}
      BY TwoSides DEF Init
    <2>2. states[s][0] = Opening /\ \A k \in Numbers : k # 0 => states[s][k] = None
      BY <1>1 DEF Init
    <2>3. \A k \in Numbers : k <= 0 => k = 0
      BY <1>1
    <2>4. Opening # None /\ Opening.bal["A"] >= Fee /\ Opening.htlcs = {}
      BY OpeningSound, NoneAssumption
    <2>5. Numbered(s)
      BY <1>1, <2>1, <2>2, <2>3, <2>4 DEF Numbered
    <2>6. Built(s) /\ Sequenced(s)
      BY <1>1, <2>1, <2>2, <2>3, <2>4 DEF Built, Sequenced
    <2>7. Signed(s)
      BY <2>1, <2>2, <2>3 DEF Signed, SignedBy
    <2>8. Said(s) /\ Ahead(s) /\ Revealed(s) /\ Closing(s) /\ Fair(s)
      BY <2>1 DEF Said, Ahead, Revealed, Closing, Fair
    <2>9. Final(s)
      <3>1. \A i \in Numbers : ~(i < num[s])
        BY <1>1, <2>1
      <3> QED  BY <3>1 DEF Final
    <2> QED  BY <2>5, <2>6, <2>7, <2>8, <2>9 DEF SideInv
  <1> QED  BY <1>2, <1>3 DEF Init, IInv

LEMMA NextInv == IInv /\ [Next]_vars => IInv'
  <1> SUFFICES ASSUME IInv, [Next]_vars PROVE IInv'
    OBVIOUS
  <1>1. ASSUME UNCHANGED <<status, num, states, pending, awaiting, revoked, alts, seq, coop, close,
                           net, sent>>
        PROVE  \A s \in Sides : SideInv(s)'
    <2> TAKE s \in Sides
    <2>1. SideInv(s)
      BY DEF IInv
    <2>2. SignedBy(Other(s))' = SignedBy(Other(s)) /\ Opening' = Opening
      BY <1>1 DEF SignedBy, Opening
    <2>3. Numbered(s)' /\ Built(s)' /\ Sequenced(s)'
      BY <1>1, <2>1, <2>2 DEF SideInv, Numbered, Built, Sequenced
    <2>4. Signed(s)'
      BY <1>1, <2>1, <2>2 DEF SideInv, Signed
    <2>5. Said(s)'
      BY <1>1, <2>1 DEF SideInv, Said, Holds
    <2>6. Ahead(s)' /\ Revealed(s)' /\ Final(s)' /\ Closing(s)' /\ Fair(s)'
      BY <1>1, <2>1 DEF SideInv, Ahead, Revealed, Final, Closing, Fair
    <2> QED  BY <2>3, <2>4, <2>5, <2>6 DEF SideInv
  <1>2. CASE UNCHANGED vars
    <2>1. TypeOK' /\ (spend' # None => spend' \in sent')
      BY <1>2 DEF IInv, TypeOK, vars
    <2> QED  BY <2>1, <1>1, <1>2 DEF IInv, vars
  <1>3. CASE NewBlock
    <2>1. TypeOK'
      BY <1>3, TypeStep DEF Next
    <2> QED  BY <2>1, <1>1, <1>3 DEF IInv, NewBlock
  <1>4. ASSUME NEW tx \in sent, Confirm(tx) PROVE IInv'
    <2>1. TypeOK'
      BY <1>4, TypeStep DEF Next
    <2> QED  BY <2>1, <1>1, <1>4 DEF IInv, Confirm
  <1>5. ASSUME NEW s \in Sides, SideStep(s) PROVE IInv'
    <2> DEFINE o == Other(s)
    <2>1. TypeOK' /\ Step(s) /\ o \in Sides /\ Other(o) = s /\ Sides = {s, o} /\ o # s
      BY <1>5, TypeStep, SideMoves, TwoSides DEF Next
    <2>2. SideInv(s)'
      <3>1. coop[s] # None => coop'[s] = coop[s]
        BY <1>5, CloseStep
      <3> QED  BY <1>5, <2>1, <3>1, NumberedStep, BuiltStep, SequencedStep, SignedStep, SaidStep, AheadStep,
                  RevealStep, CloseStep DEF SideInv
    <2>3. Revealed(o)'
      <3>1. /\ revoked[o] \in SUBSET Numbers /\ Numbers \subseteq Nat /\ num[s] \in Nat
            /\ revoked'[o] = revoked[o] /\ Revealed(o)
        BY <2>1, Typed DEF IInv, SideInv, Step, Same
      <3>2. num'[s] \in Nat /\ num'[s] >= num[s]
        BY <2>1, <3>1 DEF Step, Moves, Still, Proposes, Drops, Enters
      <3>3. \A i \in revoked[o] : i \in Nat /\ i < num[s]
        BY <2>1, <3>1 DEF Revealed
      <3>4. \A i \in revoked[o] : i < num'[s]
        BY <3>1, <3>2, <3>3
      <3> QED  BY <2>1, <3>1, <3>4 DEF Revealed
    <2>4. SideInv(o)'
      BY <1>5, <2>1, <2>3, OtherKeeps, AheadStep, CloseStep DEF SideInv
    <2>5. spend' # None => spend' \in sent'
      BY <2>1 DEF Step, IInv
    <2> QED  BY <2>1, <2>2, <2>4, <2>5 DEF IInv
  <1> QED  BY <1>2, <1>3, <1>4, <1>5 DEF Next

\* Every reachable state of the channel satisfies the inductive invariant: both
\* machines are well numbered, hold all that they have signed, are at most one
\* state apart, and keep back the secret of what they may still publish.
THEOREM ChannelInvariant == Spec => []IInv
  BY InitInv, NextInv, PTL DEF Spec

\* s holds what it has signed, as on_spend looks for it.
LEMMA SignedIsHeld ==
    ASSUME IInv, NEW s \in Sides, NEW c \in SignedBy(s)
    PROVE  c = [n |-> c.n, st |-> c.st] /\ c.n \in Numbers /\ Holds(s, c.n, c.st)
  <1>1. TypeOK /\ SideInv(s) /\ num[s] \in Nat /\ 0 \in Numbers
    BY Typed DEF IInv
  <1>2. CASE c = [n |-> 0, st |-> Opening]
    BY <1>1, <1>2 DEF SideInv, Numbered, Holds
  <1>3. CASE \E m \in net : m.by = s /\ m.t \in {"update", "ack"} /\ c = [n |-> m.n, st |-> m.st]
    <2>1. PICK m \in net : m.by = s /\ m.t \in {"update", "ack"} /\ c = [n |-> m.n, st |-> m.st]
      BY <1>3
    <2>2. m.n \in Numbers
      BY <1>1, MessageFields DEF TypeOK
    <2> QED  BY <2>1, <2>2, <1>1 DEF SideInv, Said, Holds
  <1> QED  BY <1>2, <1>3 DEF SignedBy

\* A close is never a surprise and never punished: whatever was set aside,
\* rejected or adopted before, on_spend recognises the transaction that spends
\* the funding, and it is of a state whose secret was never given up.
THEOREM ClosesAreFair == Spec => []CloseIsFair
  <1>1. IInv => CloseIsFair
    BY DEF IInv, SideInv, Fair, CloseIsFair
  <1> QED  BY <1>1, ChannelInvariant, PTL

\* A side that is behind is one state behind and still holds the state the other
\* side has accepted, so that receive_ack or adopt_alternative takes it there.
THEOREM AlwaysCanCatchUp == Spec => []CanCatchUp
  <1>1. IInv => CanCatchUp
    <2> SUFFICES ASSUME IInv, NEW s \in Sides, num[s] < num[Other(s)]
                 PROVE  /\ num[Other(s)] = num[s] + 1
                        /\ [n |-> num[s] + 1, st |-> Current(Other(s))] \in PendingState(s) \cup SetAside(s)
      BY DEF CanCatchUp
    <2> DEFINE o == Other(s)
    <2>1. /\ o \in Sides /\ Other(o) = s /\ SideInv(o) /\ SideInv(s) /\ num[s] \in Nat /\ num[o] \in Nat
          /\ TypeOK
      BY TwoSides, Typed DEF IInv
    <2>2. num[o] > num[s]
      BY <2>1
    <2>3. /\ num[o] = num[s] + 1
          /\ \E m \in net : m.t = "update" /\ m.by = s /\ m.n = num[o] /\ m.st = Current(o)
      BY <2>1, <2>2 DEF SideInv, Ahead, Current
    <2>4. Holds(s, num[s] + 1, Current(o))
      BY <2>1, <2>3 DEF SideInv, Said
    <2>5. ~(num[s] + 1 <= num[s])
      BY <2>1
    <2>6. CASE pending[s] # None /\ pending[s].n = num[s] + 1 /\ states[s][num[s] + 1] = Current(o)
      BY <2>3, <2>6 DEF PendingState
    <2>7. CASE \E a \in alts[s] : a.n = num[s] + 1 /\ a.st = Current(o)
      <3>1. PICK a \in alts[s] : a.n = num[s] + 1 /\ a.st = Current(o)
        BY <2>7
      <3>2. a.n <= num[s] + 1
        BY <3>1, <2>1
      <3> QED  BY <2>3, <3>1, <3>2 DEF SetAside
    <2> QED  BY <2>3, <2>4, <2>5, <2>6, <2>7 DEF Holds
  <1> QED  BY <1>1, ChannelInvariant, PTL

-----------------------------------------------------------------------------
(* The update that is kept while a secret is awaited. *)

\* It is for the next state while the secret is awaited; one whose moment has
\* passed is for that state or for one that has been agreed since.
Keeping(s) ==
    buffered[s] # None =>
        /\ buffered[s].n <= num[s] + 1
        /\ ~buffered[s].over => awaiting[s] # None /\ buffered[s].n = num[s] + 1

\* What a step of side s does to it.
Keeps(s) ==
    \/ buffered'[s] = None
    \/ buffered'[s] = buffered[s] /\ (buffered[s] # None /\ awaiting[s] # None => awaiting'[s] = awaiting[s])
    \/ /\ buffered'[s] # None /\ buffered'[s].n = num[s] + 1
       /\ awaiting[s] # None /\ awaiting'[s] = awaiting[s]
    \/ buffered[s] # None /\ buffered'[s] # None /\ buffered'[s].n = buffered[s].n /\ buffered'[s].over

LEMMA BufferMoves ==
    ASSUME IInv, NEW s \in Sides, SideStep(s)
    PROVE  Keeps(s) /\ buffered'[Other(s)] = buffered[Other(s)]
  <1> DEFINE o == Other(s)
             Goal == Keeps(s) /\ buffered'[o] = buffered[o]
  <1>0. TypeOK /\ o \in Sides /\ o # s /\ awaiting[s] \in Numbers \cup {None}
    BY TwoSides DEF IInv, TypeOK
  <1>1. ASSUME UNCHANGED <<buffered, awaiting>> PROVE Goal
    BY <1>1 DEF Keeps
  <1>2. ASSUME LeftOver(s), awaiting'[s] \in {awaiting[s], None} PROVE Goal
    <2>1. /\ buffered'[o] = buffered[o]
          /\ \/ buffered'[s] = buffered[s] /\ (buffered[s] # None => awaiting'[s] # None)
             \/ buffered[s] # None /\ buffered'[s] # None /\ buffered'[s].n = buffered[s].n /\ buffered'[s].over
      BY <1>0, <1>2, LeftType
    <2> QED  BY <1>2, <2>1 DEF Keeps
  <1> HIDE DEF Goal
  <1>3. ASSUME NEW upd \in Asked(s), Propose(s, upd) PROVE Goal
    BY <1>1, <1>3 DEF Propose
  <1>4. ASSUME NEW h \in Hashes, RememberPreimage(s, h) PROVE Goal
    BY <1>1, <1>4 DEF RememberPreimage
  <1>5. ASSUME TickExpire(s) \/ SendSync(s) PROVE Goal
    BY <1>1, <1>5 DEF TickExpire, SendSync
  <1>6. ASSUME CloseChannel(s) \/ OnSpend(s) PROVE Goal
    BY <1>1, <1>6 DEF CloseChannel, OnSpend
  <1>7. ASSUME ForceClose(s) PROVE Goal
    <2>1. buffered'[s] = None /\ buffered'[o] = buffered[o]
      BY <1>0, <1>7 DEF ForceClose, TypeOK
    <2> QED  BY <2>1 DEF Goal, Keeps
  <1>8. ASSUME NEW m \in net, ReceiveUpdateReject(s, m) \/ ReceiveReject(s, m) \/ ReceiveClose(s, m) PROVE Goal
    BY <1>1, <1>8 DEF ReceiveUpdateReject, ReceiveReject, ReceiveClose
  <1>9. ASSUME NEW m \in net, ReceiveAck(s, m) \/ AdoptAlternative(s, m) PROVE Goal
    BY <1>1, <1>9 DEF ReceiveAck, AdoptAlternative, Advance
  <1>10. ASSUME NEW m \in net, ReceiveUpdateAccept(s, m) PROVE Goal
    <2>1. buffered' = buffered /\ awaiting[s] = None
      BY <1>10 DEF ReceiveUpdateAccept, Considered
    <2> QED  BY <2>1 DEF Goal, Keeps
  <1>11. ASSUME NEW m \in net, ReceiveUpdateBuffer(s, m) PROVE Goal
    <2>1. /\ m.n = num[s] + 1 /\ awaiting[s] # None /\ awaiting' = awaiting /\ m.n \in Numbers
          /\ buffered' = [buffered EXCEPT ![s] = [n |-> m.n, over |-> FALSE]]
      BY <1>0, <1>11, MessageFields DEF ReceiveUpdateBuffer, TypeOK
    <2>2. PICK y : y = [n |-> m.n, over |-> FALSE]
      OBVIOUS
    <2>3. y # None /\ y.n = num[s] + 1
      <3>1. y \in [n : Numbers, over : BOOLEAN]
        BY <2>1, <2>2
      <3>2. y # None
        BY <3>1, NoneAssumption
      <3> QED  BY <2>1, <2>2, <3>2
    <2>4. buffered'[s] = y /\ buffered'[o] = buffered[o]
      BY <1>0, <2>1, <2>2 DEF TypeOK
    <2> QED  BY <2>1, <2>3, <2>4 DEF Goal, Keeps
  <1>12. ASSUME NEW m \in net, ReceiveRevoke(s, m) PROVE Goal
    <2>1. awaiting'[s] \in {awaiting[s], None}
      <3>1. CASE m.n - 1 \in revoked[s]
        BY <1>12, <3>1 DEF ReceiveRevoke
      <3>2. CASE m.n - 1 \notin revoked[s]
        BY <1>0, <1>12, <3>2 DEF ReceiveRevoke, TakeReveals, TypeOK
      <3> QED  BY <3>1, <3>2
    <2>2. CASE LeftOver(s)
      BY <1>2, <2>1, <2>2
    <2>3. CASE buffered' = [buffered EXCEPT ![s] = IF awaiting'[s] = None THEN None ELSE @]
      <3>1. buffered'[o] = buffered[o] /\ buffered'[s] = IF awaiting'[s] = None THEN None ELSE buffered[s]
        BY <1>0, <2>3 DEF TypeOK
      <3> QED  BY <2>1, <3>1 DEF Goal, Keeps
    <2> QED  BY <1>12, <2>2, <2>3 DEF ReceiveRevoke
  <1>13. ASSUME NEW m \in net, ReceiveSync(s, m) PROVE Goal
    <2>1. PICK taken : TakeReveals(s, taken) /\ LeftOver(s)
      BY <1>13 DEF ReceiveSync
    <2>2. awaiting'[s] \in {awaiting[s], None}
      BY <1>0, <2>1 DEF TakeReveals, TypeOK
    <2> QED  BY <1>2, <2>1, <2>2
  <1>14. ASSUME NEW m \in net,
                 \/ ReceiveUpdateReject(s, m) \/ ReceiveUpdateBuffer(s, m) \/ ReceiveUpdateAccept(s, m)
                 \/ AdoptAlternative(s, m) \/ ReceiveAck(s, m) \/ ReceiveRevoke(s, m)
                 \/ ReceiveReject(s, m) \/ ReceiveSync(s, m) \/ ReceiveClose(s, m)
         PROVE  Goal
    BY <1>8, <1>9, <1>10, <1>11, <1>12, <1>13, <1>14
  <1>15. Goal
    BY <1>3, <1>4, <1>5, <1>6, <1>7, <1>14, Zenon DEF SideStep
  <1> QED  BY <1>15 DEF Goal

LEMMA KeepingStep ==
    ASSUME IInv, IInv', \A s \in Sides : Keeping(s), [Next]_vars
    PROVE  \A s \in Sides : Keeping(s)'
  <1>1. ASSUME UNCHANGED <<buffered, awaiting, num>> PROVE \A s \in Sides : Keeping(s)'
    BY <1>1 DEF Keeping
  <1>2. ASSUME NEW s \in Sides, SideStep(s), NEW q \in Sides PROVE Keeping(q)'
    <2>1. Step(s) /\ Keeps(s) /\ buffered'[Other(s)] = buffered[Other(s)] /\ Keeping(s) /\ Keeping(q)
      BY <1>2, SideMoves, BufferMoves
    <2>2. CASE q = Other(s)
      <3>1. Same(q)
        BY <2>1, <2>2 DEF Step
      <3>2. num'[q] = num[q] /\ awaiting'[q] = awaiting[q] /\ buffered'[q] = buffered[q]
        BY <2>1, <2>2, <3>1 DEF Same
      <3> QED  BY <2>1, <3>2 DEF Keeping
    <2>3. CASE q = s
      <3>0. TypeOK /\ TypeOK'
        BY DEF IInv
      <3>1. num[s] \in Nat /\ TypeOK /\ TypeOK' /\ num'[s] \in Nat
        <4>1. num[s] \in Numbers /\ num'[s] \in Numbers
          BY <3>0 DEF TypeOK
        <4> QED  BY <3>0, <4>1, NumberAssumption DEF Numbers
      <3>2. num'[s] >= num[s] /\ (awaiting[s] # None => num'[s] = num[s])
        BY <2>1, <3>1 DEF Step, Moves, Still, Proposes, Drops, Enters
      <3>3. buffered[s] # None => buffered[s].n \in Nat
        BY <3>1, NumberAssumption DEF TypeOK, Numbers
      <3>4. CASE buffered'[s] = None
        BY <2>3, <3>4 DEF Keeping
      <3>5. CASE /\ buffered'[s] = buffered[s]
                 /\ buffered[s] # None /\ awaiting[s] # None => awaiting'[s] = awaiting[s]
        BY <2>1, <2>3, <3>1, <3>2, <3>3, <3>5 DEF Keeping
      <3>6. CASE /\ buffered'[s] # None /\ buffered'[s].n = num[s] + 1
                 /\ awaiting[s] # None /\ awaiting'[s] = awaiting[s]
        BY <2>3, <3>1, <3>2, <3>6 DEF Keeping
      <3>7. CASE /\ buffered[s] # None /\ buffered'[s] # None /\ buffered'[s].n = buffered[s].n
                 /\ buffered'[s].over
        BY <2>1, <2>3, <3>1, <3>2, <3>3, <3>7 DEF Keeping
      <3> QED  BY <2>1, <3>4, <3>5, <3>6, <3>7 DEF Keeps
    <2> QED  BY <2>2, <2>3, TwoSides
  <1>3. CASE NewBlock
    BY <1>1, <1>3 DEF NewBlock
  <1>4. ASSUME NEW tx \in sent, Confirm(tx) PROVE \A s \in Sides : Keeping(s)'
    BY <1>1, <1>4 DEF Confirm
  <1>5. CASE UNCHANGED vars
    BY <1>1, <1>5 DEF vars
  <1> QED  BY <1>2, <1>3, <1>4, <1>5 DEF Next

\* Whatever restore checks but the update kept for later.
LEMMA RestSound ==
    ASSUME IInv, NEW s \in Sides, NEW m, m.n = num[s], m.states = states[s], m.pending = pending[s],
           m.awaiting = awaiting[s], m.alternatives = alts[s], m.seq = seq[s], BufferedIsSound(m)
    PROVE  Validate(s, m)
  <1>2. /\ TypeOK /\ Numbered(s) /\ Built(s) /\ Sequenced(s) /\ Signed(s)
        /\ num[s] \in Nat /\ num[s] \in Numbers /\ seq[s] \in Nat /\ Numbers \subseteq Nat
        /\ states[s] \in [Numbers -> State \cup {None}]
        /\ alts[s] \in SUBSET [n : Numbers, st : State, upd : Update]
    BY Typed DEF IInv, SideInv
  <1>3. m.seq # 0 /\ m.states[m.n] # None
    BY <1>2 DEF Numbered, Sequenced
  <1>4. \A k \in Numbers : k > m.n /\ m.states[k] # None => m.pending # None /\ m.pending.n = k
    BY <1>2 DEF Numbered
  <1>5. \A k \in 0 .. m.n : AgreedIsSound(s, m, k)
    <2> SUFFICES ASSUME NEW k \in 0 .. m.n
                 PROVE  AgreedIsSound(s, m, k)
      OBVIOUS
    <2>1. k \in Numbers /\ k <= num[s]
      BY <1>2, NumberAssumption DEF Numbers
    <2>2. states[s][k] \in State /\ states[s][k].bal["A"] >= Fee
      BY <2>1, <1>2 DEF Numbered, Built
    <2>3. \A x \in states[s][k].htlcs : x.id < seq[s]
      BY <2>1, <1>2 DEF Sequenced
    <2>4. [n |-> k, st |-> states[s][k]] \in SignedBy(Other(s))
      BY <2>1, <1>2 DEF Signed
    <2> QED  BY <2>2, <2>3, <2>4 DEF AgreedIsSound, Buildable
  <1>6. \A a \in m.alternatives : Buildable(a.st)
    BY <1>2 DEF Built, Buildable
  <1>7. PendingIsSound(s, m)
    <2> SUFFICES ASSUME pending[s] # None
                 PROVE  PendingIsSound(s, m)
      BY DEF PendingIsSound
    <2>1. /\ pending[s].n = num[s] + 1 /\ num[s] + 1 \in Numbers /\ states[s][num[s] + 1] \in State
      BY PendingSound
    <2>2. states[s][num[s] + 1] # None /\ states[s][num[s] + 1].bal["A"] >= Fee
      BY <2>1, <1>2, NoneAssumption DEF Built
    <2>3. [t |-> "update", by |-> s, n |-> pending[s].n, upd |-> pending[s].upd,
           st |-> states[s][num[s] + 1], k |-> pending[s].k] \in net
      BY <2>1, <1>2 DEF Signed
    <2> QED  BY <2>1, <2>2, <2>3 DEF PendingIsSound, Buildable
  <1>8. AwaitingIsSound(m)
    BY <1>2 DEF AwaitingIsSound, Numbered
  <1> QED  BY <1>3, <1>4, <1>5, <1>6, <1>7, <1>8 DEF Validate

\* A crash at any point leaves a machine that restore accepts, but for an update
\* that was kept for later, that no on_revoke handed back, and whose number the
\* channel has agreed on since.
THEOREM SnapshotsAlwaysRestore == Spec => []SnapshotRestores
  <1>1. Init => IInv /\ \A s \in Sides : Keeping(s)
    BY InitInv DEF Init, Keeping
  <1>2. IInv /\ (\A s \in Sides : Keeping(s)) /\ [Next]_vars => IInv' /\ (\A s \in Sides : Keeping(s))'
    BY NextInv, KeepingStep
  <1>3. IInv /\ (\A s \in Sides : Keeping(s)) => SnapshotRestores
    <2> SUFFICES ASSUME IInv, NEW s \in Sides, Keeping(s)
                 PROVE  \/ Validate(s, Snapshot(s))
                        \/ /\ buffered[s] # None /\ buffered[s].over /\ buffered[s].n <= num[s]
                           /\ Validate(s, [Snapshot(s) EXCEPT !.buffered = None])
      BY DEF SnapshotRestores
    <2>1. PICK m, x : m = Snapshot(s) /\ x = [Snapshot(s) EXCEPT !.buffered = None]
      OBVIOUS
    <2>2. /\ m.n = num[s] /\ m.states = states[s] /\ m.pending = pending[s] /\ m.awaiting = awaiting[s]
          /\ m.alternatives = alts[s] /\ m.seq = seq[s]
          /\ m.buffered = IF buffered[s] = None THEN None ELSE buffered[s].n
      BY <2>1 DEF Snapshot
    <2>3. /\ x.n = num[s] /\ x.states = states[s] /\ x.pending = pending[s] /\ x.awaiting = awaiting[s]
          /\ x.alternatives = alts[s] /\ x.seq = seq[s] /\ x.buffered = None
      BY <2>1 DEF Snapshot
    <2>4. Validate(s, x)
      BY <2>3, RestSound DEF BufferedIsSound
    <2>5. num[s] \in Nat /\ (buffered[s] # None => buffered[s].n \in Nat)
      BY NumberAssumption DEF IInv, TypeOK, Numbers
    <2>6. CASE buffered[s] = None \/ buffered[s].n = num[s] + 1
      <3>1. BufferedIsSound(m)
        BY <2>2, <2>6 DEF BufferedIsSound
      <3> QED  BY <2>1, <2>2, <3>1, RestSound
    <2>7. CASE buffered[s] # None /\ buffered[s].n # num[s] + 1
      <3>1. buffered[s].over /\ buffered[s].n <= num[s]
        BY <2>5, <2>7 DEF Keeping
      <3> QED  BY <2>1, <2>4, <2>7, <3>1
    <2> QED  BY <2>6, <2>7
  <1> QED  BY <1>1, <1>2, <1>3, PTL DEF Spec

\* While the channel is live, Router::tick gives up no payment that a state this
\* side has signed, and the other has not revoked, still holds.
THEOREM LiveReleasesAreSafe == Spec => []LiveReleaseIsSafe
  <1>1. IInv => LiveReleaseIsSafe
    <2> SUFFICES ASSUME IInv, NEW s \in Sides, NEW h \in Hashes, status[s] \in Live, Released(s, h),
                        NEW c \in SignedBy(s), c.n \notin revoked[s], h \in HashesOf(c.st)
                 PROVE  FALSE
      BY DEF LiveReleaseIsSafe, StillSigned
    <2>1. SideInv(s) /\ c.n \in Numbers /\ Holds(s, c.n, c.st) /\ num[s] \in Nat /\ Numbers \subseteq Nat
      BY SignedIsHeld, Typed DEF IInv
    <2>2. /\ pending[s] = None /\ awaiting[s] = None
          /\ h \notin HashesOf(Current(s))
          /\ \A a \in alts[s] : a.n \notin revoked[s] => h \notin HashesOf(a.st)
      BY DEF Released, Bound
    <2>3. CASE c.n <= num[s] /\ states[s][c.n] = c.st
      <3>1. CASE c.n = num[s]
        BY <2>2, <2>3, <3>1 DEF Current
      <3>2. CASE c.n # num[s]
        <4>0. c.n \in Nat
          BY <2>1
        <4>1. c.n < num[s]
          BY <4>0, <2>1, <2>3, <3>2
        <4> QED  BY <4>1, <2>1, <2>2 DEF SideInv, Final
      <3> QED  BY <3>1, <3>2
    <2>4. CASE \E a \in alts[s] : a.n = c.n /\ a.st = c.st
      BY <2>2, <2>4
    <2> QED  BY <2>1, <2>2, <2>3, <2>4 DEF Holds
  <1> QED  BY <1>1, ChannelInvariant, PTL
-----------------------------------------------------------------------------
(***************************************************************************)
(* When two sides of a channel can hold different states of one number.    *)
(*                                                                         *)
(* The argument follows the updates of the side with the lower key, which  *)
(* never gives way: an update of its own that is gone has been agreed,     *)
(* rejected for good, set aside at a deadline, or left behind in a channel *)
(* that is closing (Accounted, RejectIsFinal).  The two sides cross in one *)
(* state at most, since only the state before it leads on from both        *)
(* (Crossed, MeetAgain).                                                   *)
(***************************************************************************)

(* The inductive invariant. *)

Low == LowKey
High == Other(LowKey)

\* x is what upd of side p makes of st, whatever the heights and what is known.
Leads(st, upd, p, x) ==
    \/ upd.t = "pay" /\ x = Paid(st, p, Other(p))
    \/ /\ upd.t = "add" /\ x = Offered(st, p, upd)
       /\ \A y \in st.htlcs : y.id < upd.id
    \/ /\ upd.t = "settle"
       /\ \E h \in st.htlcs : /\ h.id = upd.id /\ h.from # p /\ h.hash = upd.hash
                              /\ x = Resolved(st, h, p)
    \/ /\ upd.t = "fail"
       /\ \E h \in st.htlcs : h.id = upd.id /\ x = Resolved(st, h, h.from)

\* No two HTLCs of a state have one id.
Distinct(st) == \A x, y \in st.htlcs : x.id = y.id => x = y

Updates(s) == {m \in net : m.t = "update" /\ m.by = s}
RejectedBy(s, m) == \E r \in net : r.t = "reject" /\ r.by = s /\ r.n = m.n /\ r.k = m.k

\* An update of s is counted, of a hash of its own if it adds an HTLC, and leads
\* from the state before to the one that was signed; an update that fails an HTLC
\* of its own comes when that has expired.
Proposed(s) ==
    /\ \A m \in Updates(s) :
        /\ m.k >= 1 /\ m.k <= made[s]
        /\ m.upd.t = "add" => m.upd.hash \in HashesBy[s]
        /\ Leads(states[s][m.n - 1], m.upd, s, m.st)
        /\ m.upd.t = "fail" => \A h \in states[s][m.n - 1].htlcs :
                h.id = m.upd.id /\ h.from = s => view[s] >= h.expiry
    /\ \A m, x \in Updates(s) : m.k = x.k => m = x
    /\ \A r \in net : r.t = "reject" /\ r.by = Other(s) => r.k <= made[s]
    /\ \A a \in alts[s] : \E m \in Updates(s) : m.n = a.n /\ m.st = a.st /\ m.upd = a.upd

\* Agreed states have distinct ids, and both sides could compute them from the
\* one before.
Meets(X, Y, st) == \E upd \in Update, p \in Sides : Leads(X, upd, p, st) /\ Leads(Y, upd, p, st)
Common(n, st) == Meets(states["A"][n - 1], states["B"][n - 1], st)
Computed(s) ==
    \A k \in Numbers : k <= num[s] =>
        /\ Distinct(states[s][k])
        /\ k >= 1 => Common(k, states[s][k])

\* The side that is ahead is so by the very update it has accepted; a side that
\* has asked to close awaits nothing.
AheadBy(s) ==
    /\ num[s] > num[Other(s)] =>
        \E m \in Updates(Other(s)) : /\ m.n = num[s] /\ m.st = states[s][num[s]] /\ m.k = accepted[s]
    /\ status[s] = "closing-asked" => awaiting[s] = None

\* The two sides are in different states only where they crossed: each in one
\* the other proposed, from a state they shared.
Crossed ==
    \A n \in Numbers : n <= num["A"] /\ n <= num["B"] /\ states["A"][n] # states["B"][n] =>
        /\ n >= 1 /\ states["A"][n - 1] = states["B"][n - 1]
        /\ \A s \in Sides : \E upd \in Update : Leads(states[s][n - 1], upd, Other(s), states[s][n])

\* An update by which the side with the lower key fails its own HTLC.
OwnFail(m) ==
    m.upd.t = "fail" /\ \E x \in states[Low][m.n - 1].htlcs :
        x.id = m.upd.id /\ x.from = Low /\ view[Low] >= x.expiry

DeadlineAlt(n, st) == \E a \in alts[Low] : a.n = n /\ a.st = st /\ AtDeadline(Low, a)

\* Where an update of the side with the lower key has gone.
Accounted(m) ==
    \/ pending[Low] # None /\ pending[Low].k = m.k
    \/ m.n <= num[Low] /\ states[Low][m.n] = m.st
    \/ RejectedBy(High, m)
    \/ DeadlineAlt(m.n, m.st)
    \/ m.n <= num[Low] /\ m.n <= num[High] /\ states[High][m.n] # m.st
    \/ m.n > num[Low] /\ status[Low] \notin Live

\* An update that the other side, in the state it is in, refuses.
Refused(m) == m.st \notin NextStates(High, states[High][num[High]], m.upd, Low)

\* What the other side has rejected it does not accept later.
RejectIsFinal(m) ==
    \/ OwnFail(m)
    \/ m.n <= num[High] /\ m.n <= num[Low]
    \/ num[High] = m.n /\ num[Low] < m.n /\ accepted[High] # m.k
    \/ num[High] < m.n /\ status[High] # "open"
    \/ num[High] + 1 = m.n /\ Refused(m)
    \/ /\ m.n <= num[High] + 1 /\ m.n <= num[Low] + 1
       /\ states[Low][m.n - 1] # states[High][m.n - 1]

Settled ==
    /\ \A m \in Updates(Low) : Accounted(m) /\ (RejectedBy(High, m) => RejectIsFinal(m))
    /\ \A n \in Numbers : n <= num[Low] /\ n <= num[High] /\ states[Low][n] # states[High][n] =>
            DeadlineAlt(n, states[High][n])

SplitInv ==
    /\ IInv
    /\ \A s \in Sides : Proposed(s) /\ Computed(s) /\ AheadBy(s)
    /\ Crossed /\ Settled
-----------------------------------------------------------------------------
(* Facts about the states an update leads to. *)

LEMMA StateFields ==
    ASSUME NEW st \in State
    PROVE  /\ st.bal \in [Sides -> Nat] /\ st.htlcs \in SUBSET Htlc
           /\ st = [bal |-> st.bal, htlcs |-> st.htlcs]
           /\ \A h \in st.htlcs : h.id \in Nat /\ h.from \in Sides /\ h.expiry \in Nat
  BY DEF State, Htlc

LEMMA SameState ==
    ASSUME NEW x \in State, NEW y \in State, x.htlcs = y.htlcs, \A q \in Sides : x.bal[q] = y.bal[q]
    PROVE  x = y
  <1>1. x.bal = y.bal
    BY StateFields
  <1> QED  BY <1>1, StateFields

\* The HTLC that an add offers.
Fresh(p, upd) == [id |-> upd.id, from |-> p, hash |-> upd.hash, expiry |-> upd.expiry]

LEMMA OfferedIs ==
    ASSUME NEW st \in State, NEW p \in Sides, NEW upd \in Update, upd.t = "add",
           \A y \in st.htlcs : y.id < upd.id
    PROVE  /\ Offered(st, p, upd).htlcs = st.htlcs \cup {Fresh(p, upd)}
           /\ Offered(st, p, upd).bal = [st.bal EXCEPT ![p] = @ - 1]
           /\ Fresh(p, upd).id = upd.id /\ Fresh(p, upd).from = p
           /\ Fresh(p, upd).expiry = upd.expiry
           /\ Fresh(p, upd) \notin st.htlcs
           /\ \A y \in st.htlcs : y.id # upd.id
  <1>1. Fresh(p, upd).id = upd.id /\ Fresh(p, upd).from = p /\ Fresh(p, upd).expiry = upd.expiry
    BY DEF Fresh
  <1>2. upd.id \in Nat
    BY UpdateFields
  <1>3. \A y \in st.htlcs : y.id # upd.id
    BY <1>2, StateFields
  <1>4. Fresh(p, upd) \notin st.htlcs
    BY <1>1, <1>3
  <1>5. /\ Offered(st, p, upd).htlcs = st.htlcs \cup {Fresh(p, upd)}
        /\ Offered(st, p, upd).bal = [st.bal EXCEPT ![p] = @ - 1]
    BY DEF Offered, Fresh
  <1> QED  BY <1>1, <1>3, <1>4, <1>5

LEMMA ResolvedIs ==
    ASSUME NEW st \in State, NEW h \in st.htlcs, NEW to \in Sides
    PROVE  /\ Resolved(st, h, to).htlcs = st.htlcs \ {h}
           /\ Resolved(st, h, to).bal = [st.bal EXCEPT ![to] = @ + 1]
  BY DEF Resolved

LEMMA PaidIs ==
    ASSUME NEW st \in State, NEW p \in Sides
    PROVE  /\ Paid(st, p, Other(p)).htlcs = st.htlcs
           /\ Paid(st, p, Other(p)).bal = [st.bal EXCEPT ![p] = @ - 1, ![Other(p)] = @ + 1]
  BY DEF Paid

\* What next_state gives is what the update leads to.
LEMMA NextLeads ==
    ASSUME NEW s \in Sides, NEW st \in State, seq[s] \in Nat, \A x \in st.htlcs : x.id < seq[s],
           NEW upd \in Update, NEW p \in Sides, NEW x \in NextStates(s, st, upd, p)
    PROVE  Leads(st, upd, p, x)
  <1>1. upd.t \in {"pay", "add", "settle", "fail"}
    BY UpdateFields
  <1>2. CASE upd.t = "pay"
    BY <1>2 DEF NextStates, Leads
  <1>3. CASE upd.t = "add"
    <2>1. x = Offered(st, p, upd) /\ MayAdd(s, st, upd)
      BY <1>3 DEF NextStates
    <2>2. upd.id = seq[s]
      BY <2>1, NextIdIsSeq DEF MayAdd
    <2> QED  BY <1>3, <2>1, <2>2 DEF Leads
  <1>4. CASE upd.t = "settle"
    <2>1. PICK h \in st.htlcs : MaySettle(s, h, upd, p) /\ x = Resolved(st, h, p)
      BY <1>4 DEF NextStates
    <2> QED  BY <1>4, <2>1 DEF Leads, MaySettle
  <1>5. CASE upd.t = "fail"
    <2>1. PICK h \in st.htlcs : MayFail(s, h, upd, p) /\ x = Resolved(st, h, h.from)
      BY <1>5 DEF NextStates
    <2> QED  BY <1>5, <2>1 DEF Leads, MayFail
  <1> QED  BY <1>1, <1>2, <1>3, <1>4, <1>5

\* How the HTLCs of a state and of the one an update leads to differ.
Differs(st, upd, p, x) ==
    \/ upd.t = "pay" /\ x.htlcs = st.htlcs
    \/ /\ upd.t = "add" /\ x.htlcs = st.htlcs \cup {Fresh(p, upd)}
       /\ Fresh(p, upd).id = upd.id /\ Fresh(p, upd).from = p
       /\ Fresh(p, upd).expiry = upd.expiry
       /\ Fresh(p, upd) \notin st.htlcs /\ \A y \in st.htlcs : y.id # upd.id
       /\ x.bal = [st.bal EXCEPT ![p] = @ - 1]
    \/ /\ upd.t \in {"settle", "fail"}
       /\ \E h \in st.htlcs : /\ h.id = upd.id /\ x.htlcs = st.htlcs \ {h}
                              /\ upd.t = "settle" => h.from # p

LEMMA LeadsHtlcs ==
    ASSUME NEW st \in State, NEW upd \in Update, NEW p \in Sides, NEW x, Leads(st, upd, p, x)
    PROVE  Differs(st, upd, p, x)
  <1>1. CASE upd.t = "pay" /\ x = Paid(st, p, Other(p))
    BY <1>1, PaidIs DEF Differs
  <1>2. CASE upd.t = "add" /\ x = Offered(st, p, upd) /\ \A y \in st.htlcs : y.id < upd.id
    BY <1>2, OfferedIs DEF Differs
  <1>3. CASE upd.t = "settle" /\ \E h \in st.htlcs : /\ h.id = upd.id /\ h.from # p
                                                     /\ x = Resolved(st, h, p)
    <2>1. PICK h \in st.htlcs : h.id = upd.id /\ h.from # p /\ x = Resolved(st, h, p)
      BY <1>3
    <2>2. x.htlcs = st.htlcs \ {h}
      BY <2>1 DEF Resolved
    <2> QED  BY <1>3, <2>1, <2>2 DEF Differs
  <1>4. CASE upd.t = "fail" /\ \E h \in st.htlcs : h.id = upd.id /\ x = Resolved(st, h, h.from)
    <2>1. PICK h \in st.htlcs : h.id = upd.id /\ x = Resolved(st, h, h.from)
      BY <1>4
    <2>2. x.htlcs = st.htlcs \ {h}
      BY <2>1 DEF Resolved
    <2> QED  BY <1>4, <2>1, <2>2 DEF Differs
  <1> QED  BY <1>1, <1>2, <1>3, <1>4 DEF Leads

LEMMA LeadsDistinct ==
    ASSUME NEW st \in State, NEW upd \in Update, NEW p \in Sides, NEW x, Leads(st, upd, p, x),
           Distinct(st)
    PROVE  Distinct(x)
  <1>1. Differs(st, upd, p, x)
    BY LeadsHtlcs
  <1> QED  BY <1>1 DEF Differs, Distinct

\* An update can be told from the state it leads to: an add and its expiry, and
\* the fail of an HTLC the proposer has offered itself.
LEMMA LeadsAgain ==
    ASSUME NEW st \in State, NEW u \in Update, NEW v \in Update, NEW p \in Sides, NEW x,
           Leads(st, u, p, x), Leads(st, v, p, x)
    PROVE  /\ u.t = "add" => v.t = "add" /\ v.expiry = u.expiry
           /\ \A h \in st.htlcs : u.t = "fail" /\ h.id = u.id /\ h.from = p /\ Distinct(st) =>
                v.t = "fail" /\ v.id = u.id
  <1>0. Differs(st, u, p, x) /\ Differs(st, v, p, x)
    BY LeadsHtlcs
  <1>1. ASSUME u.t = "add" PROVE v.t = "add" /\ v.expiry = u.expiry
    <2>1. /\ x.htlcs = st.htlcs \cup {Fresh(p, u)} /\ Fresh(p, u) \notin st.htlcs
          /\ Fresh(p, u).expiry = u.expiry
      BY <1>0, <1>1 DEF Differs
    <2>2. v.t = "add" /\ x.htlcs = st.htlcs \cup {Fresh(p, v)} /\ Fresh(p, v).expiry = v.expiry
      BY <1>0, <2>1 DEF Differs
    <2>3. Fresh(p, u) = Fresh(p, v)
      BY <2>1, <2>2
    <2> QED  BY <2>1, <2>2, <2>3
  <1>2. ASSUME NEW h \in st.htlcs, u.t = "fail", h.id = u.id, h.from = p, Distinct(st)
        PROVE  v.t = "fail" /\ v.id = u.id
    <2>1. x.htlcs = st.htlcs \ {h}
      BY <1>0, <1>2 DEF Distinct, Differs
    <2>2. PICK g \in st.htlcs : /\ v.t \in {"settle", "fail"} /\ g.id = v.id /\ x.htlcs = st.htlcs \ {g}
                                /\ v.t = "settle" => g.from # p
      BY <1>0, <2>1 DEF Differs
    <2>3. g = h
      BY <2>1, <2>2
    <2> QED  BY <1>2, <2>2, <2>3
  <1> QED  BY <1>1, <1>2

\* Two states that are not the same lead to one by the same update only when it
\* takes one HTLC of one id from each.
LEMMA MeetAt ==
    ASSUME NEW X \in State, NEW Y \in State, X # Y, NEW u \in Update, NEW p \in Sides, NEW x,
           Leads(X, u, p, x), Leads(Y, u, p, x)
    PROVE  \E g \in X.htlcs, h \in Y.htlcs :
            /\ g # h /\ g.id = h.id /\ x.htlcs = X.htlcs \ {g} /\ x.htlcs = Y.htlcs \ {h}
            /\ \/ u.t = "settle" /\ g.from # p /\ h.from # p
               \/ u.t = "fail" /\ x = Resolved(X, g, g.from)
  <1>0. X.bal \in [Sides -> Nat] /\ Y.bal \in [Sides -> Nat]
    BY StateFields
  <1>1. u.t # "pay"
    <2> SUFFICES ASSUME u.t = "pay" PROVE FALSE
      OBVIOUS
    <2>1. x = Paid(X, p, Other(p)) /\ x = Paid(Y, p, Other(p))
      BY DEF Leads
    <2>2. /\ X.htlcs = Y.htlcs
          /\ [X.bal EXCEPT ![p] = @ - 1, ![Other(p)] = @ + 1] = [Y.bal EXCEPT ![p] = @ - 1, ![Other(p)] = @ + 1]
      BY <2>1 DEF Paid
    <2>3. X.bal[p] - 1 = Y.bal[p] - 1 /\ X.bal[Other(p)] + 1 = Y.bal[Other(p)] + 1
      BY <2>2, <1>0, TwoSides
    <2>4. X.bal[p] = Y.bal[p] /\ X.bal[Other(p)] = Y.bal[Other(p)]
      BY <2>3, <1>0, TwoSides
    <2> QED  BY <2>2, <2>4, TwoSides, SameState
  <1>2. u.t # "add"
    <2> SUFFICES ASSUME u.t = "add" PROVE FALSE
      OBVIOUS
    <2>1. /\ x.htlcs = X.htlcs \cup {Fresh(p, u)} /\ Fresh(p, u) \notin X.htlcs
          /\ x.bal = [X.bal EXCEPT ![p] = @ - 1]
      <3>1. Differs(X, u, p, x)
        BY LeadsHtlcs
      <3> QED  BY <3>1 DEF Differs
    <2>2. /\ x.htlcs = Y.htlcs \cup {Fresh(p, u)} /\ Fresh(p, u) \notin Y.htlcs
          /\ x.bal = [Y.bal EXCEPT ![p] = @ - 1]
      <3>1. Differs(Y, u, p, x)
        BY LeadsHtlcs
      <3> QED  BY <3>1 DEF Differs
    <2>3. X.bal[p] - 1 = Y.bal[p] - 1 /\ X.bal[Other(p)] = Y.bal[Other(p)]
      BY <2>1, <2>2, <1>0, TwoSides
    <2>4. X.bal[p] = Y.bal[p]
      BY <2>3, <1>0
    <2>5. X.htlcs = Y.htlcs
      BY <2>1, <2>2
    <2> QED  BY <2>3, <2>4, <2>5, TwoSides, SameState
  \* The same HTLC taken from both leaves what was the same.
  <1>3. ASSUME NEW g \in X.htlcs, g \in Y.htlcs, NEW to \in Sides,
               x = Resolved(X, g, to), x = Resolved(Y, g, to)
        PROVE  FALSE
    <2>1. /\ X.htlcs \ {g} = Y.htlcs \ {g}
          /\ [X.bal EXCEPT ![to] = @ + 1] = [Y.bal EXCEPT ![to] = @ + 1]
      BY <1>3 DEF Resolved
    <2>2. X.bal[to] + 1 = Y.bal[to] + 1 /\ X.bal[Other(to)] = Y.bal[Other(to)]
      BY <2>1, <1>0, TwoSides
    <2>3. X.bal[to] = Y.bal[to]
      BY <2>2, <1>0
    <2>4. X.htlcs = Y.htlcs
      BY <2>1, <1>3
    <2> QED  BY <2>2, <2>3, <2>4, TwoSides, SameState
  <1>4. CASE u.t = "settle"
    <2>1. PICK g \in X.htlcs : g.id = u.id /\ g.from # p /\ x = Resolved(X, g, p)
      BY <1>4 DEF Leads
    <2>2. PICK h \in Y.htlcs : h.id = u.id /\ h.from # p /\ x = Resolved(Y, h, p)
      BY <1>4 DEF Leads
    <2>3. g # h
      BY <2>1, <2>2, <1>3
    <2>4. x.htlcs = X.htlcs \ {g} /\ x.htlcs = Y.htlcs \ {h}
      BY <2>1, <2>2 DEF Resolved
    <2> QED  BY <1>4, <2>1, <2>2, <2>3, <2>4
  <1>5. CASE u.t = "fail"
    <2>1. PICK g \in X.htlcs : g.id = u.id /\ x = Resolved(X, g, g.from)
      BY <1>5 DEF Leads
    <2>2. PICK h \in Y.htlcs : h.id = u.id /\ x = Resolved(Y, h, h.from)
      BY <1>5 DEF Leads
    <2>3. g.from \in Sides /\ h.from \in Sides
      BY StateFields
    <2>4. g # h
      BY <2>1, <2>2, <2>3, <1>3
    <2>5. x.htlcs = X.htlcs \ {g} /\ x.htlcs = Y.htlcs \ {h}
      BY <2>1, <2>2 DEF Resolved
    <2> QED  BY <1>5, <2>1, <2>2, <2>4, <2>5
  <1> QED  BY <1>1, <1>2, <1>4, <1>5, UpdateFields

\* Two sides that crossed, each in a state the other proposed, can only meet again
\* where they were.
LEMMA MeetAgain ==
    ASSUME NEW B \in State, Distinct(B), NEW X \in State, NEW Y \in State, X # Y,
           NEW u1 \in Update, NEW u2 \in Update, NEW p1 \in Sides, NEW p2 \in Sides, p1 # p2,
           Leads(B, u1, p1, X), Leads(B, u2, p2, Y),
           NEW u \in Update, NEW p \in Sides, NEW x \in State, Leads(X, u, p, x), Leads(Y, u, p, x)
    PROVE  x = B
  <1>1. PICK g \in X.htlcs, h \in Y.htlcs :
            /\ g # h /\ g.id = h.id /\ x.htlcs = X.htlcs \ {g} /\ x.htlcs = Y.htlcs \ {h}
            /\ \/ u.t = "settle" /\ g.from # p /\ h.from # p
               \/ u.t = "fail" /\ x = Resolved(X, g, g.from)
    BY MeetAt
  <1>2. ~(g \in B.htlcs /\ h \in B.htlcs)
    BY <1>1 DEF Distinct
  <1>3. g \notin B.htlcs => /\ u1.t = "add" /\ g = Fresh(p1, u1) /\ g.from = p1
                            /\ X.htlcs = B.htlcs \cup {g} /\ X.bal = [B.bal EXCEPT ![p1] = @ - 1]
                            /\ h \notin B.htlcs
    <2> SUFFICES ASSUME g \notin B.htlcs
                 PROVE  /\ u1.t = "add" /\ g = Fresh(p1, u1) /\ g.from = p1
                        /\ X.htlcs = B.htlcs \cup {g} /\ X.bal = [B.bal EXCEPT ![p1] = @ - 1]
                        /\ h \notin B.htlcs
      OBVIOUS
    <2>1. /\ u1.t = "add" /\ X.htlcs = B.htlcs \cup {Fresh(p1, u1)}
          /\ Fresh(p1, u1).id = u1.id /\ Fresh(p1, u1).from = p1
          /\ \A y \in B.htlcs : y.id # u1.id
          /\ X.bal = [B.bal EXCEPT ![p1] = @ - 1]
      <3>1. Differs(B, u1, p1, X)
        BY LeadsHtlcs
      <3> QED  BY <3>1 DEF Differs
    <2>2. g = Fresh(p1, u1)
      BY <2>1
    <2> QED  BY <2>1, <2>2, <1>1
  <1>4. h \notin B.htlcs => /\ h.from = p2 /\ Y.htlcs = B.htlcs \cup {h} /\ g \notin B.htlcs
    <2> SUFFICES ASSUME h \notin B.htlcs
                 PROVE  /\ h.from = p2 /\ Y.htlcs = B.htlcs \cup {h} /\ g \notin B.htlcs
      OBVIOUS
    <2>1. /\ u2.t = "add" /\ Y.htlcs = B.htlcs \cup {Fresh(p2, u2)}
          /\ Fresh(p2, u2).id = u2.id /\ Fresh(p2, u2).from = p2
          /\ \A y \in B.htlcs : y.id # u2.id
      <3>1. Differs(B, u2, p2, Y)
        BY LeadsHtlcs
      <3> QED  BY <3>1 DEF Differs
    <2>2. h = Fresh(p2, u2)
      BY <2>1
    <2> QED  BY <2>1, <2>2, <1>1
  <1>5. /\ g \notin B.htlcs /\ g.from = p1 /\ h.from = p2 /\ X.htlcs = B.htlcs \cup {g}
        /\ X.bal = [B.bal EXCEPT ![p1] = @ - 1]
    BY <1>2, <1>3, <1>4
  <1>6. u.t = "fail" /\ x = Resolved(X, g, p1)
    <2>1. ~(u.t = "settle" /\ g.from # p /\ h.from # p)
      BY <1>5 DEF Sides
    <2> QED  BY <1>1, <1>5, <2>1
  <1>7. x.htlcs = B.htlcs
    BY <1>1, <1>5
  <1>8. \A q \in Sides : x.bal[q] = B.bal[q]
    <2>1. x.bal = [X.bal EXCEPT ![p1] = @ + 1] /\ B.bal \in [Sides -> Nat] /\ X.bal \in [Sides -> Nat]
      BY <1>6, ResolvedIs, StateFields
    <2>2. x.bal[p1] = B.bal[p1] - 1 + 1
      BY <2>1, <1>5
    <2>3. x.bal[p1] = B.bal[p1]
      BY <2>1, <2>2
    <2>4. \A q \in Sides : q # p1 => x.bal[q] = B.bal[q]
      BY <2>1, <1>5
    <2> QED  BY <2>3, <2>4
  <1> QED  BY <1>7, <1>8, SameState
-----------------------------------------------------------------------------
(* Steps. *)

Enters2(s) ==
    \/ num'[s] = num[s] /\ accepted'[s] = accepted[s] /\ seq'[s] = seq[s]
    \/ \E m \in net : ReceiveUpdateAccept(s, m)
    \/ \E m \in net : m.t = "ack" /\ m.by = Other(s) /\ Enters(s, m.n, m.st) /\ accepted'[s] = 0
Proposes2(s) ==
    \/ \E upd \in Asked(s) : Propose(s, upd)
    \/ made' = made /\ \A m \in net' : m.t = "update" => m \in net
Rejects2(s) ==
    \/ \E m \in net : ReceiveUpdateReject(s, m)
    \/ \A m \in net' : m.t = "reject" => m \in net

\* What else a step of s does.
Acts(s) ==
    /\ view' = view /\ made'[Other(s)] = made[Other(s)] /\ accepted'[Other(s)] = accepted[Other(s)]
    /\ Enters2(s) /\ Proposes2(s) /\ Rejects2(s)

LEMMA SideActs ==
    ASSUME IInv, NEW s \in Sides, SideStep(s)
    PROVE  Acts(s)
  <1> DEFINE o == Other(s)
  <1>0. TypeOK /\ o \in Sides /\ o # s
    BY TwoSides DEF IInv
  <1>1. ASSUME UNCHANGED <<view, made, accepted, num, seq>>,
               \A m \in net' : m.t \in {"update", "reject"} => m \in net
        PROVE  Acts(s)
    BY <1>1 DEF Acts, Enters2, Proposes2, Rejects2
  <1>2. ASSUME NEW upd \in Asked(s), Propose(s, upd) PROVE Acts(s)
    <2>1. view' = view /\ num' = num /\ seq' = seq /\ accepted' = accepted
      BY <1>2 DEF Propose
    <2>2. made'[o] = made[o]
      BY <1>0, <1>2 DEF Propose, TypeOK
    <2>3. \A m \in net' : m.t = "reject" => m \in net
      BY <1>2 DEF Propose, Send
    <2> QED  BY <1>2, <2>1, <2>2, <2>3 DEF Acts, Enters2, Proposes2, Rejects2
  <1>3. ASSUME NEW h \in Hashes, RememberPreimage(s, h) PROVE Acts(s)
    BY <1>1, <1>3 DEF RememberPreimage
  <1>4. CASE TickExpire(s)
    BY <1>1, <1>4 DEF TickExpire
  <1>5. CASE SendSync(s)
    <2>1. \A m \in net' : m.t \in {"update", "reject"} => m \in net
      BY <1>5 DEF SendSync, Send, SyncMessage
    <2> QED  BY <1>1, <1>5, <2>1 DEF SendSync
  <1>6. CASE CloseChannel(s)
    <2>1. \A m \in net' : m.t \in {"update", "reject"} => m \in net
      BY <1>6 DEF CloseChannel, Send
    <2> QED  BY <1>1, <1>6, <2>1 DEF CloseChannel
  <1>7. CASE ForceClose(s)
    BY <1>1, <1>7 DEF ForceClose
  <1>8. CASE OnSpend(s)
    BY <1>1, <1>8 DEF OnSpend
  <1>9. ASSUME NEW m \in net, ReceiveUpdateReject(s, m) PROVE Acts(s)
    <2>1. \A x \in net' : x.t = "update" => x \in net
      BY <1>9 DEF ReceiveUpdateReject, Send
    <2>2. UNCHANGED <<view, made, accepted, num, seq>>
      BY <1>9 DEF ReceiveUpdateReject
    <2> QED  BY <1>9, <2>1, <2>2 DEF Acts, Enters2, Proposes2, Rejects2
  <1>10. ASSUME NEW m \in net, ReceiveUpdateAccept(s, m) PROVE Acts(s)
    <2>1. \A x \in net' : x.t \in {"update", "reject"} => x \in net
      BY <1>10 DEF ReceiveUpdateAccept, Send
    <2>2. UNCHANGED <<view, made>>
      BY <1>10 DEF ReceiveUpdateAccept
    <2>3. accepted'[o] = accepted[o]
      BY <1>0, <1>10 DEF ReceiveUpdateAccept, TypeOK
    <2> QED  BY <1>10, <2>1, <2>2, <2>3 DEF Acts, Enters2, Proposes2, Rejects2
  <1>11. ASSUME NEW m \in net, NEW upd, Advance(s, m, upd), m.t = "ack", m.by = o, Enters(s, m.n, m.st)
         PROVE  Acts(s)
    <2>1. \A x \in net' : x.t \in {"update", "reject"} => x \in net
      BY <1>11 DEF Advance, Send
    <2>2. UNCHANGED <<view, made>>
      BY <1>11 DEF Advance
    <2>3. accepted'[o] = accepted[o] /\ accepted'[s] = 0
      BY <1>0, <1>11 DEF Advance, TypeOK
    <2> QED  BY <1>11, <2>1, <2>2, <2>3 DEF Acts, Enters2, Proposes2, Rejects2
  <1>12. ASSUME NEW m \in net, m.by # s PROVE m.by = o
    BY <1>0, <1>12, MessageFields, OtherSide DEF TypeOK
  <1>13. ASSUME NEW m \in net, ReceiveAck(s, m) PROVE Acts(s)
    <2>1. m.t = "ack" /\ m.by # s /\ Advance(s, m, pending[s].upd)
      BY <1>13 DEF ReceiveAck
    <2> QED  BY <1>11, <1>12, <1>13, <2>1, AckMoves
  <1>14. ASSUME NEW m \in net, AdoptAlternative(s, m) PROVE Acts(s)
    <2>1. m.t = "ack" /\ m.by # s /\ \E a \in alts[s] : Advance(s, m, a.upd)
      BY <1>14 DEF AdoptAlternative
    <2> QED  BY <1>11, <1>12, <1>14, <2>1, AdoptMoves
  <1>15. ASSUME NEW m \in net, ReceiveRevoke(s, m) PROVE Acts(s)
    BY <1>1, <1>15 DEF ReceiveRevoke
  <1>16. ASSUME NEW m \in net, ReceiveReject(s, m) PROVE Acts(s)
    BY <1>1, <1>16 DEF ReceiveReject
  <1>17. ASSUME NEW m \in net, ReceiveSync(s, m) PROVE Acts(s)
    <2> DEFINE taken == {i \in m.reveals : i <= num[s] + 1}
               answer == IF m.t = "sync" THEN {SyncMessage(s, "synced", Missing(s) \ taken, m.missing)}
                         ELSE {}
    <2>1. net' = net \cup answer \cup AckAgain(s, m)
      BY <1>17 DEF ReceiveSync
    <2>2. \A x \in answer : x.t = "synced"
      BY DEF SyncMessage
    <2>3. \A x \in AckAgain(s, m) : x.t = "ack"
      BY DEF AckAgain
    <2> HIDE DEF answer
    <2>4. \A x \in net' : x.t \in {"update", "reject"} => x \in net
      BY <2>1, <2>2, <2>3
    <2>5. UNCHANGED <<view, made, accepted, num, seq>>
      BY <1>17 DEF ReceiveSync
    <2> QED  BY <1>1, <2>4, <2>5
  <1>18. ASSUME NEW m \in net, ReceiveClose(s, m) PROVE Acts(s)
    BY <1>1, <1>18 DEF ReceiveClose
  <1>19. ASSUME NEW m \in net, ReceiveUpdateBuffer(s, m) PROVE Acts(s)
    BY <1>1, <1>19 DEF ReceiveUpdateBuffer
  <1> QED  BY <1>2, <1>3, <1>4, <1>5, <1>6, <1>7, <1>8, <1>9, <1>10, <1>13, <1>14, <1>15, <1>16,
              <1>17, <1>18, <1>19 DEF SideStep

\* The same of either side, whoever moves.
LEMMA Frozen ==
    ASSUME IInv, NEW s \in Sides, SideStep(s), NEW q \in Sides
    PROVE  /\ num[q] \in Nat /\ num[q] \in Numbers /\ num'[q] \in Nat
           /\ num'[q] >= num[q] /\ num'[q] <= num[q] + 1
           /\ \A k \in Numbers : k <= num[q] => states'[q][k] = states[q][k]
           /\ status[q] # "open" => num'[q] = num[q]
  <1>1. TypeOK /\ Step(s) /\ num[q] \in Nat /\ num[q] \in Numbers /\ Numbers \subseteq Nat
    BY SideMoves, Typed DEF IInv
  <1>2. CASE q = Other(s)
    BY <1>1, <1>2 DEF Step, Same
  <1>3. CASE q = s
    <2>1. Moves(s)
      BY <1>1 DEF Step
    <2> QED  BY <1>1, <1>3, <2>1, MovesForward
  <1> QED  BY <1>2, <1>3, TwoSides

LEMMA SplitParts ==
    ASSUME SplitInv, NEW s \in Sides
    PROVE  IInv /\ TypeOK /\ SideInv(s) /\ Proposed(s) /\ Computed(s) /\ AheadBy(s)
  BY DEF SplitInv, IInv

\* What is in the message of an update.
LEMMA UpdateMessage ==
    ASSUME IInv, NEW s \in Sides, NEW m \in Updates(s)
    PROVE  /\ m \in net /\ m \in Message /\ m.t = "update" /\ m.by = s
           /\ m.n \in Numbers /\ m.n \in Nat /\ m.n >= 1 /\ m.n <= num[s] + 1
           /\ m.n - 1 \in Numbers /\ m.n - 1 <= num[s]
           /\ m.upd \in Update /\ m.st \in State /\ m.k \in Nat
           /\ Holds(s, m.n, m.st)
  <1>1. m \in net /\ m.t = "update" /\ m.by = s
    BY DEF Updates
  <1>2. m \in Message /\ TypeOK /\ num[s] \in Nat
    BY <1>1, Typed DEF IInv, TypeOK
  <1>3. m.n \in Numbers /\ m.upd \in Update /\ m.st \in State /\ m.k \in Nat
    BY <1>1, <1>2, MessageFields
  <1>4. m.n >= 1 /\ m.n <= num[s] + 1 /\ Holds(s, m.n, m.st)
    BY <1>1 DEF IInv, SideInv, Said
  <1>5. m.n \in Nat /\ m.n - 1 \in Numbers /\ m.n - 1 <= num[s]
    BY <1>2, <1>3, <1>4, NumberAssumption DEF Numbers
  <1> QED  BY <1>1, <1>2, <1>3, <1>4, <1>5

\* What a proposal adds.
Adds(s, upd, st) ==
    [t |-> "update", by |-> s, n |-> num[s] + 1, upd |-> upd, st |-> st, k |-> made[s] + 1]

LEMMA ProposeAdds ==
    ASSUME IInv, NEW s \in Sides, NEW upd \in Asked(s), Propose(s, upd)
    PROVE  \E st \in NextStates(s, Current(s), upd, s) :
            /\ net' = net \cup {Adds(s, upd, st)} /\ states'[s][num[s] + 1] = st
            /\ st \in State /\ upd \in Update /\ num[s] + 1 \in Numbers
            /\ made'[s] = made[s] + 1 /\ made[s] \in Nat
            /\ pending'[s] = [n |-> num[s] + 1, upd |-> upd, k |-> made[s] + 1]
            /\ Leads(Current(s), upd, s, st)
  <1>1. TypeOK /\ upd \in Update /\ Current(s) \in State /\ seq[s] \in Nat
        /\ \A x \in Current(s).htlcs : x.id < seq[s]
    BY AskedType, CurrentSound, Typed DEF IInv
  <1>2. num[s] + 1 \in Numbers /\ made[s] \in Nat
    <2>1. num[s] \in Nat /\ made[s] \in Nat /\ MaxN \in Nat
      BY <1>1, Typed, NumberAssumption
    <2>2. num[s] < MaxN
      BY DEF Propose
    <2> QED  BY ONLY <2>1, <2>2 DEF Numbers
  <1>3. PICK st \in NextStates(s, Current(s), upd, s) :
            /\ states' = [states EXCEPT ![s] = [@ EXCEPT ![num[s] + 1] = st]]
            /\ net' = net \cup {Adds(s, upd, st)}
    BY DEF Propose, Send, Adds
  <1>4. st \in State
    BY <1>1, NextStatesSound
  <1>5. states'[s][num[s] + 1] = st
    BY <1>1, <1>2, <1>3, Typed DEF TypeOK
  <1>6. made'[s] = made[s] + 1 /\ pending'[s] = [n |-> num[s] + 1, upd |-> upd, k |-> made[s] + 1]
    BY <1>1 DEF Propose, TypeOK
  <1>7. Leads(Current(s), upd, s, st)
    BY <1>1, NextLeads
  <1> QED  BY <1>1, <1>2, <1>3, <1>4, <1>5, <1>6, <1>7

\* An update of s is old, or it is the one that s proposes.
LEMMA NewUpdate ==
    ASSUME IInv, NEW s \in Sides, SideStep(s), NEW q \in Sides, NEW m \in Updates(q)'
    PROVE  \/ m \in Updates(q)
           \/ /\ q = s
              /\ \E upd \in Asked(s) : /\ Propose(s, upd)
                                       /\ \E st \in NextStates(s, Current(s), upd, s) : m = Adds(s, upd, st)
  <1>1. Proposes2(s)
    BY SideActs DEF Acts
  <1>2. m \in net' /\ m.t = "update" /\ m.by = q
    BY DEF Updates
  <1>3. CASE m \in net
    BY <1>2, <1>3 DEF Updates
  <1>4. CASE m \notin net
    <2>1. PICK upd \in Asked(s) : Propose(s, upd)
      BY <1>1, <1>2, <1>4 DEF Proposes2
    <2>2. PICK st \in NextStates(s, Current(s), upd, s) : net' = net \cup {Adds(s, upd, st)}
      BY <2>1, ProposeAdds
    <2>3. m = Adds(s, upd, st)
      BY <1>2, <1>4, <2>2
    <2>4. q = s
      BY <1>2, <2>3 DEF Adds
    <2> QED  BY <2>1, <2>3, <2>4
  <1> QED  BY <1>3, <1>4

LEMMA OldUpdate ==
    ASSUME net \subseteq net', NEW q, NEW m \in Updates(q)
    PROVE  m \in Updates(q)'
  BY DEF Updates

\* A reject is old, or it is of an update that s looks at.
LEMMA NewReject ==
    ASSUME IInv, NEW s \in Sides, SideStep(s), NEW r \in net', r.t = "reject"
    PROVE  \/ r \in net
           \/ \E m \in net : /\ ReceiveUpdateReject(s, m) /\ m \in Updates(Other(s))
                             /\ r = [t |-> "reject", by |-> s, n |-> m.n, k |-> m.k]
  <1>1. Rejects2(s)
    BY SideActs DEF Acts
  <1>2. ASSUME r \notin net
        PROVE  \E m \in net : /\ ReceiveUpdateReject(s, m) /\ m \in Updates(Other(s))
                              /\ r = [t |-> "reject", by |-> s, n |-> m.n, k |-> m.k]
    <2>1. PICK m \in net : ReceiveUpdateReject(s, m)
      BY <1>1, <1>2 DEF Rejects2
    <2>2. r = [t |-> "reject", by |-> s, n |-> m.n, k |-> m.k] /\ m.t = "update" /\ m.by # s
      BY <1>2, <2>1 DEF ReceiveUpdateReject, Send
    <2>3. m.by = Other(s)
      BY <2>2, MessageFields, OtherSide DEF IInv, TypeOK
    <2> QED  BY <2>1, <2>2, <2>3 DEF Updates
  <1> QED  BY <1>2

LEMMA ProposedOwn ==
    ASSUME SplitInv, NEW s \in Sides, SideStep(s)
    PROVE  Proposed(s)'
  <1>1. IInv /\ TypeOK /\ SideInv(s) /\ Proposed(s) /\ Computed(s) /\ Step(s) /\ Acts(s)
    BY SplitParts, SideMoves, SideActs
  <1>2. net \subseteq net' /\ view' = view /\ num[s] \in Numbers /\ num[s] \in Nat
    BY <1>1, Typed DEF Step, Acts
  <1>3. made[s] \in Nat /\ made'[s] \in Nat /\ made'[s] >= made[s]
    <2>1. CASE made' = made
      BY <1>1, <2>1, Typed DEF TypeOK
    <2>2. ASSUME NEW upd \in Asked(s), Propose(s, upd) PROVE made'[s] \in Nat /\ made'[s] >= made[s]
      <3>1. made'[s] = made[s] + 1 /\ made[s] \in Nat
        BY <1>1, <2>2, ProposeAdds
      <3> QED  BY <3>1
    <2>3. made[s] \in Nat
      BY <1>1 DEF TypeOK
    <2> QED  BY <1>1, <2>1, <2>2, <2>3 DEF Acts, Proposes2
  <1>4. \A m \in Updates(s) :
        /\ m.k >= 1 /\ m.k <= made'[s]
        /\ m.upd.t = "add" => m.upd.hash \in HashesBy[s]
        /\ Leads(states'[s][m.n - 1], m.upd, s, m.st)
        /\ m.upd.t = "fail" => \A h \in states'[s][m.n - 1].htlcs :
                h.id = m.upd.id /\ h.from = s => view'[s] >= h.expiry
    <2> TAKE m \in Updates(s)
    <2>1. m.n - 1 \in Numbers /\ m.n - 1 <= num[s] /\ m.k \in Nat
      BY <1>1, UpdateMessage
    <2>2. states'[s][m.n - 1] = states[s][m.n - 1]
      BY <1>1, <2>1, Frozen
    <2>3. m.k <= made'[s]
      BY <1>1, <1>3, <2>1 DEF Proposed
    <2> QED  BY <1>1, <1>2, <2>2, <2>3 DEF Proposed
  <1>5. ASSUME NEW upd \in Asked(s), Propose(s, upd),
               NEW st \in NextStates(s, Current(s), upd, s), Adds(s, upd, st) \in Updates(s)'
        PROVE  /\ Adds(s, upd, st).k = made[s] + 1 /\ made'[s] = made[s] + 1
               /\ Adds(s, upd, st).upd = upd /\ Adds(s, upd, st).n - 1 = num[s]
               /\ upd.t = "add" => upd.hash \in HashesBy[s]
               /\ Leads(states'[s][num[s]], upd, s, st)
               /\ upd.t = "fail" => \A h \in states'[s][num[s]].htlcs :
                    h.id = upd.id /\ h.from = s => view'[s] >= h.expiry
    <2>1. states'[s][num[s]] = Current(s)
      BY <1>1, <1>2, Frozen DEF Current
    <2>2. Current(s) \in State /\ upd \in Update /\ \A x \in Current(s).htlcs : x.id < seq[s]
      BY <1>1, CurrentSound, AskedType
    <2>3. Leads(Current(s), upd, s, st)
      BY <1>1, <2>2, NextLeads, Typed
    <2>4. made'[s] = made[s] + 1
      BY <1>1, <1>5, ProposeAdds
    <2>5. upd.t = "add" => upd.hash \in HashesBy[s]
      BY <1>5 DEF Asked
    <2>6. Distinct(Current(s))
      BY <1>1, <1>2 DEF Computed, Current
    <2>7. ASSUME upd.t = "fail", NEW h \in Current(s).htlcs, h.id = upd.id, h.from = s
          PROVE  view[s] >= h.expiry
      <3>1. PICK g \in Current(s).htlcs : MayFail(s, g, upd, s)
        BY <1>5, <2>7 DEF NextStates
      <3>2. g = h
        BY <2>6, <2>7, <3>1 DEF Distinct, MayFail
      <3> QED  BY <2>7, <3>1, <3>2 DEF MayFail
    <2>8. Adds(s, upd, st).k = made[s] + 1 /\ Adds(s, upd, st).upd = upd /\ Adds(s, upd, st).n = num[s] + 1
      BY DEF Adds
    <2> QED  BY <1>2, <2>1, <2>3, <2>4, <2>5, <2>7, <2>8
  <1>6. \A m \in Updates(s)' :
        /\ m.k >= 1 /\ m.k <= made'[s]
        /\ m.upd.t = "add" => m.upd.hash \in HashesBy[s]
        /\ Leads(states'[s][m.n - 1], m.upd, s, m.st)
        /\ m.upd.t = "fail" => \A h \in states'[s][m.n - 1].htlcs :
                h.id = m.upd.id /\ h.from = s => view'[s] >= h.expiry
    <2> TAKE m \in Updates(s)'
    <2>1. CASE m \in Updates(s)
      BY <1>4, <2>1
    <2>2. ASSUME NEW upd \in Asked(s), Propose(s, upd), NEW st \in NextStates(s, Current(s), upd, s),
                 m = Adds(s, upd, st)
          PROVE  /\ m.k >= 1 /\ m.k <= made'[s]
                 /\ m.upd.t = "add" => m.upd.hash \in HashesBy[s]
                 /\ Leads(states'[s][m.n - 1], m.upd, s, m.st)
                 /\ m.upd.t = "fail" => \A h \in states'[s][m.n - 1].htlcs :
                        h.id = m.upd.id /\ h.from = s => view'[s] >= h.expiry
      <3>1. m.st = st
        BY <2>2 DEF Adds
      <3>2. m.k >= 1 /\ m.k <= made'[s]
        BY <1>3, <1>5, <2>2
      <3> QED  BY <1>5, <2>2, <3>1, <3>2
    <2> QED  BY <1>1, <2>1, <2>2, NewUpdate
  <1>7. \A m, x \in Updates(s)' : m.k = x.k => m = x
    <2> TAKE m, x \in Updates(s)'
    <2> HAVE m.k = x.k
    <2>0. ASSUME NEW y \in Updates(s) PROVE y.k \in Nat /\ y.k <= made[s]
      BY <1>1, <2>0, UpdateMessage DEF Proposed
    <2>1. CASE m \in Updates(s) /\ x \in Updates(s)
      BY <1>1, <2>1 DEF Proposed
    <2>2. ASSUME NEW upd \in Asked(s), Propose(s, upd), NEW st \in NextStates(s, Current(s), upd, s),
                 NEW y \in Updates(s)', y = Adds(s, upd, st), NEW z \in Updates(s)', z.k = y.k
          PROVE  z = y
      <3>1. y.k = made[s] + 1
        BY <1>5, <2>2
      <3>2. z \notin Updates(s)
        BY <1>3, <2>0, <2>2, <3>1
      <3>3. z \in net' /\ z \notin net
        BY <2>2, <3>2 DEF Updates
      <3>4. y \notin net
        <4>1. y \notin Updates(s)
          BY <1>3, <2>0, <3>1
        <4>2. y.t = "update" /\ y.by = s
          BY <2>2 DEF Adds
        <4> QED  BY <4>1, <4>2 DEF Updates
      <3>5. y \in net'
        BY <2>2 DEF Updates
      <3>6. \E x2 : net' = net \cup {x2}
        BY <1>1, <2>2, ProposeAdds
      <3> QED  BY <3>3, <3>4, <3>5, <3>6
    <2> QED  BY <1>1, <2>1, <2>2, NewUpdate
  <1>8. \A r \in net' : r.t = "reject" /\ r.by = Other(s) => r.k <= made'[s]
    <2> SUFFICES ASSUME NEW r \in net', r.t = "reject", r.by = Other(s) PROVE r.k <= made'[s]
      OBVIOUS
    <2>1. r \in net
      BY <1>1, NewReject, TwoSides
    <2>2. r.k <= made[s] /\ r.k \in Nat
      BY <1>1, <2>1 DEF Proposed, TypeOK, Message
    <2> QED  BY <1>3, <2>2
  <1>9. \A a \in alts'[s] : \E m \in Updates(s)' : m.n = a.n /\ m.st = a.st /\ m.upd = a.upd
    <2> TAKE a \in alts'[s]
    <2>1. CASE a \in alts[s]
      BY <1>1, <1>2, <2>1, OldUpdate DEF Proposed
    <2>2. CASE pending[s] # None /\ a = Kept(s)
      <3> DEFINE m == [t |-> "update", by |-> s, n |-> pending[s].n, upd |-> pending[s].upd,
                       st |-> states[s][pending[s].n], k |-> pending[s].k]
      <3>1. m \in net
        BY <1>1, <2>2 DEF SideInv, Signed
      <3>2. m \in Updates(s)'
        BY <1>2, <3>1 DEF Updates
      <3>3. m.n = a.n /\ m.st = a.st /\ m.upd = a.upd
        BY <1>1, <2>2, PendingSound
      <3> QED  BY <3>2, <3>3
    <2>3. a \in alts[s] \/ (pending[s] # None /\ a = Kept(s))
      <3>1. CASE Drops(s)
        BY <1>1, <3>1, AsideSound DEF Drops
      <3> QED  BY <1>1, <3>1 DEF Step, Moves, Still, Proposes, Enters
    <2> QED  BY <2>1, <2>2, <2>3
  <1> QED  BY <1>6, <1>7, <1>8, <1>9 DEF Proposed

LEMMA ProposedSame ==
    ASSUME NEW q \in Sides, Proposed(q), Updates(q)' = Updates(q),
           view' = view, made'[q] = made[q], states'[q] = states[q], alts'[q] = alts[q],
           \A r \in net' : r.t = "reject" /\ r.by = Other(q) => r.k <= made'[q]
    PROVE  Proposed(q)'
  BY DEF Proposed

LEMMA ProposedOther ==
    ASSUME SplitInv, NEW s \in Sides, SideStep(s)
    PROVE  Proposed(Other(s))'
  <1> DEFINE o == Other(s)
  <1>1. o \in Sides /\ o # s /\ Other(o) = s
    BY TwoSides
  <1>2. IInv /\ TypeOK /\ Proposed(o) /\ Step(s) /\ Acts(s)
    BY <1>1, SplitParts, SideMoves, SideActs
  <1>3. /\ view' = view /\ made'[o] = made[o] /\ net \subseteq net'
        /\ states'[o] = states[o] /\ alts'[o] = alts[o]
    BY <1>2 DEF Step, Same, Acts
  <1>4. \A m \in Updates(o)' : m \in Updates(o)
    BY <1>1, <1>2, NewUpdate
  <1>5. \A m \in Updates(o) : m \in Updates(o)'
    BY <1>3, OldUpdate
  <1>6. \A r \in net' : r.t = "reject" /\ r.by = s => r.k <= made[o]
    <2> SUFFICES ASSUME NEW r \in net', r.t = "reject", r.by = s PROVE r.k <= made[o]
      OBVIOUS
    <2>1. CASE r \in net
      BY <1>1, <1>2, <2>1 DEF Proposed
    <2>2. ASSUME NEW m \in Updates(o), r = [t |-> "reject", by |-> s, n |-> m.n, k |-> m.k]
          PROVE  r.k <= made[o]
      BY <1>2, <2>2 DEF Proposed
    <2> QED  BY <1>2, <2>1, <2>2, NewReject
  <1>7. Updates(o)' = Updates(o)
    BY <1>4, <1>5
  <1>8. \A r \in net' : r.t = "reject" /\ r.by = Other(o) => r.k <= made'[o]
    BY <1>1, <1>3, <1>6
  <1> QED  BY <1>1, <1>2, <1>3, <1>7, <1>8, ProposedSame

LEMMA ProposedBlock ==
    ASSUME SplitInv, NEW s \in Sides, view'[s] >= view[s], view'[s] \in Nat,
           UNCHANGED <<num, states, alts, made, net>>
    PROVE  Proposed(s)'
  <1>1. IInv /\ TypeOK /\ Proposed(s) /\ SideInv(s) /\ Updates(s)' = Updates(s) /\ view[s] \in Nat
    BY SplitParts, Typed DEF Updates, TypeOK
  <1>2. ASSUME NEW m \in Updates(s), NEW h \in states[s][m.n - 1].htlcs,
               view[s] >= h.expiry
        PROVE  view'[s] >= h.expiry
    <2>1. m.n - 1 \in Numbers /\ m.n - 1 <= num[s]
      BY <1>1, UpdateMessage
    <2>2. states[s][m.n - 1] \in State
      BY <1>1, <2>1, Typed DEF SideInv, Numbered
    <2>3. h.expiry \in Nat
      BY <2>2, StateFields
    <2> QED  BY <1>1, <1>2, <2>3
  <1> QED  BY <1>1, <1>2 DEF Proposed
-----------------------------------------------------------------------------
(* Both sides could compute what either has agreed to. *)

\* What one side has agreed to, the other has or is about to have.
LEMMA BothHave ==
    ASSUME IInv, NEW q \in Sides, NEW k \in Numbers, k <= num[q], k >= 1, NEW p \in Sides
    PROVE  k - 1 \in Numbers /\ k - 1 <= num[p] /\ k \in Nat
  <1>1. TypeOK /\ num[q] \in Nat /\ num[p] \in Nat /\ k \in Nat
    BY Typed DEF IInv
  <1>2. k - 1 \in Numbers
    BY <1>1, NumberAssumption DEF Numbers
  <1>3. CASE p = q
    BY <1>1, <1>2, <1>3
  <1>4. CASE p = Other(q)
    <2>1. num[q] > num[p] => num[q] = num[p] + 1
      BY <1>4 DEF IInv, SideInv, Ahead
    <2> QED  BY <1>1, <1>2, <2>1
  <1> QED  BY <1>3, <1>4, TwoSides

LEMMA CommonIs ==
    ASSUME NEW n, NEW st, NEW s \in Sides
    PROVE  Common(n, st) <=> Meets(states[s][n - 1], states[Other(s)][n - 1], st)
  BY DEF Common, Meets, Sides, Other

\* A state that s enters is one that both sides can compute.
LEMMA EntersCommon ==
    ASSUME SplitInv, NEW s \in Sides, SideStep(s), num'[s] # num[s]
    PROVE  /\ num'[s] = num[s] + 1 /\ num'[s] \in Numbers /\ states'[s][num'[s]] \in State
           /\ Common(num'[s], states'[s][num'[s]]) /\ Distinct(states'[s][num'[s]])
           /\ num[s] <= num[Other(s)]
           /\ \/ \E m \in Updates(Other(s)) : /\ ReceiveUpdateAccept(s, m) /\ m.n = num'[s]
                                              /\ m.st = states'[s][num'[s]] /\ accepted'[s] = m.k
              \/ num'[s] <= num[Other(s)] /\ states[Other(s)][num'[s]] = states'[s][num'[s]]
                 /\ accepted'[s] = 0
  <1> DEFINE o == Other(s)
  <1>1. IInv /\ TypeOK /\ o \in Sides /\ Enters2(s) /\ Numbers \subseteq Nat
    BY SplitParts, SideActs, TwoSides, Typed DEF Acts
  <1>2. num[s] \in Nat /\ num[o] \in Nat /\ num[s] \in Numbers
    BY <1>1, Typed
  <1>3. ASSUME NEW m \in net, ReceiveUpdateAccept(s, m)
        PROVE  /\ num'[s] = num[s] + 1 /\ num'[s] \in Numbers /\ states'[s][num'[s]] \in State
               /\ Common(num'[s], states'[s][num'[s]]) /\ Distinct(states'[s][num'[s]])
               /\ num[s] <= num[o]
               /\ m \in Updates(o) /\ m.n = num'[s] /\ m.st = states'[s][num'[s]] /\ accepted'[s] = m.k
    <2>1. m.t = "update" /\ m.by # s /\ m.n = num[s] + 1 /\ Verified(s, m)
      BY <1>3 DEF ReceiveUpdateAccept, Considered
    <2>2. m \in Updates(o)
      BY <1>1, <2>1, MessageFields, OtherSide DEF Updates, TypeOK
    <2>3. m.n \in Numbers /\ m.n \in Nat /\ m.n <= num[o] + 1 /\ m.upd \in Update /\ m.st \in State
      BY <1>1, <2>2, UpdateMessage
    <2>4. num'[s] = m.n /\ states'[s][m.n] = m.st
      BY <1>1, <1>3, AcceptMoves DEF Enters
    <2>5. Leads(states[o][m.n - 1], m.upd, o, m.st)
      BY <1>1, <2>2, SplitParts DEF Proposed
    <2>6. Current(s) \in State /\ seq[s] \in Nat /\ \A x \in Current(s).htlcs : x.id < seq[s]
      BY <1>1, CurrentSound, Typed
    <2>7. m.by = o
      BY <2>2 DEF Updates
    <2>8. m.st \in NextStates(s, Current(s), m.upd, o)
      BY <2>1, <2>7 DEF Verified
    <2>9. Leads(Current(s), m.upd, o, m.st)
      BY <1>1, <2>3, <2>6, <2>8, NextLeads
    <2>10. m.n - 1 = num[s]
      BY <1>2, <2>1
    <2>11. Leads(states[s][m.n - 1], m.upd, o, m.st)
      BY <2>9, <2>10 DEF Current
    <2>12. Common(m.n, m.st)
      BY <1>1, <2>3, <2>5, <2>11, CommonIs DEF Meets
    <2>13. Distinct(Current(s))
      BY <1>2, SplitParts DEF Computed, Current
    <2>14. Distinct(m.st)
      BY <1>1, <2>3, <2>6, <2>9, <2>13, LeadsDistinct
    <2>15. accepted'[s] = m.k
      BY <1>1, <1>3 DEF ReceiveUpdateAccept, TypeOK
    <2>16. num[s] <= num[o]
      BY <1>2, <2>1, <2>3
    <2> QED  BY <2>1, <2>2, <2>3, <2>4, <2>12, <2>14, <2>15, <2>16
  <1>4. ASSUME NEW m \in net, m.t = "ack", m.by = o, Enters(s, m.n, m.st), accepted'[s] = 0
        PROVE  /\ num'[s] = num[s] + 1 /\ num'[s] \in Numbers /\ states'[s][num'[s]] \in State
               /\ Common(num'[s], states'[s][num'[s]]) /\ Distinct(states'[s][num'[s]])
               /\ num[s] <= num[o]
               /\ num'[s] <= num[o] /\ states[o][num'[s]] = states'[s][num'[s]] /\ accepted'[s] = 0
    <2>1. m.n = num[s] + 1 /\ m.n \in Numbers /\ num'[s] = m.n /\ states'[s][m.n] = m.st /\ m.st \in State
      BY <1>4 DEF Enters
    <2>2. m.n >= 1 /\ m.n <= num[o] /\ states[o][m.n] = m.st
      BY <1>1, <1>4 DEF IInv, SideInv, Said
    <2>3. Common(m.n, m.st) /\ Distinct(m.st)
      BY <1>1, <2>1, <2>2, SplitParts DEF Computed
    <2>4. num[s] <= num[o]
      BY <1>2, <2>1, <2>2
    <2> QED  BY <1>4, <2>1, <2>2, <2>3, <2>4
  <1> QED  BY <1>1, <1>3, <1>4 DEF Enters2

LEMMA ComputedStep ==
    ASSUME SplitInv, NEW s \in Sides, SideStep(s), NEW q \in Sides
    PROVE  Computed(q)'
  <1>1. IInv /\ TypeOK /\ Computed(q) /\ num[q] \in Nat /\ Numbers \subseteq Nat
    BY SplitParts, Typed
  <1>2. \A p \in Sides : \A k \in Numbers : k <= num[p] => states'[p][k] = states[p][k]
    BY <1>1, Frozen
  <1>3. ASSUME NEW k \in Numbers, k <= num[q]
        PROVE  Distinct(states'[q][k]) /\ (k >= 1 => Common(k, states[q][k])')
    <2>1. states'[q][k] = states[q][k] /\ Distinct(states[q][k])
      BY <1>1, <1>2, <1>3 DEF Computed
    <2>2. ASSUME k >= 1 PROVE Common(k, states[q][k])'
      <3>1. Common(k, states[q][k])
        BY <1>1, <1>3, <2>2 DEF Computed
      <3>2. \A p \in Sides : k - 1 \in Numbers /\ k - 1 <= num[p]
        BY <1>1, <1>3, <2>2, BothHave
      <3>3. \A p \in Sides : states'[p][k - 1] = states[p][k - 1]
        BY <1>2, <3>2
      <3>4. states'["A"][k - 1] = states["A"][k - 1] /\ states'["B"][k - 1] = states["B"][k - 1]
        BY <3>3 DEF Sides
      <3> QED  BY <2>1, <3>1, <3>4 DEF Common
    <2> QED  BY <2>1, <2>2
  <1>4. ASSUME num'[q] # num[q]
        PROVE  /\ num'[q] = num[q] + 1 /\ num'[q] \in Numbers
               /\ Distinct(states'[q][num'[q]]) /\ Common(num[q], states[q][num[q]])'
    <2>1. q = s
      BY <1>1, <1>4, TwoSides, SideMoves DEF Step, Same
    <2>2. /\ num'[q] = num[q] + 1 /\ num'[q] \in Numbers /\ Distinct(states'[q][num'[q]])
          /\ Common(num'[q], states'[q][num'[q]]) /\ num[q] <= num[Other(q)] /\ num[q] \in Numbers
      BY <1>1, <1>4, <2>1, EntersCommon, Typed
    <2>3. num'[q] - 1 = num[q] /\ num[q] <= num[q] /\ Other(q) \in Sides
      BY <1>1, <2>2, TwoSides
    <2>4. states'[q][num[q]] = states[q][num[q]] /\ states'[Other(q)][num[q]] = states[Other(q)][num[q]]
      BY <1>2, <2>2, <2>3
    <2>5. \A p \in Sides : states'[p][num[q]] = states[p][num[q]]
      BY <2>4, TwoSides
    <2>6. states'["A"][num[q]] = states["A"][num[q]] /\ states'["B"][num[q]] = states["B"][num[q]]
      BY <2>5 DEF Sides
    <2> QED  BY <2>2, <2>3, <2>6 DEF Common
  <1>5. \A k \in Numbers : k <= num'[q] => k <= num[q] \/ (k = num'[q] /\ num'[q] # num[q])
    <2>1. num'[q] = num[q] \/ num'[q] = num[q] + 1
      BY <1>4
    <2> QED  BY <1>1, <2>1
  <1> SUFFICES ASSUME NEW k \in Numbers, k <= num'[q]
               PROVE  Distinct(states'[q][k]) /\ (k >= 1 => Common(k, states[q][k])')
    BY DEF Computed
  <1>6. CASE k <= num[q]
    BY <1>3, <1>6
  <1>7. CASE k = num'[q] /\ num'[q] # num[q]
    BY <1>4, <1>7 DEF Common
  <1> QED  BY <1>5, <1>6, <1>7
-----------------------------------------------------------------------------
(* How a side comes to be ahead, and where the two cross. *)

LEMMA AsksOnce ==
    ASSUME IInv, NEW s \in Sides, SideStep(s), status'[s] = "closing-asked"
    PROVE  status[s] = "closing-asked" \/ awaiting'[s] = None
  <1>1. TypeOK
    BY DEF IInv
  <1>2. CASE CloseChannel(s)
    BY <1>2 DEF CloseChannel
  <1>3. CASE ForceClose(s)
    BY <1>1, <1>3 DEF ForceClose, TypeOK
  <1>4. CASE OnSpend(s)
    <2>1. status'[s] = Classified(s, spend)
      BY <1>1, <1>4 DEF OnSpend, TypeOK
    <2> QED  BY <2>1 DEF Classified
  <1>5. ASSUME NEW m \in net, ReceiveClose(s, m) PROVE status[s] = "closing-asked" \/ awaiting'[s] = None
    BY <1>1, <1>5 DEF ReceiveClose, TypeOK
  <1>6. ASSUME NEW m \in net, ReceiveAck(s, m) \/ AdoptAlternative(s, m) PROVE status' = status
    BY <1>6 DEF ReceiveAck, AdoptAlternative, Advance
  <1>7. ASSUME NEW m \in net, \/ ReceiveUpdateReject(s, m) \/ ReceiveUpdateAccept(s, m)
                              \/ ReceiveRevoke(s, m) \/ ReceiveReject(s, m) \/ ReceiveUpdateBuffer(s, m)
        PROVE  status' = status
    BY <1>7 DEF ReceiveUpdateReject, ReceiveUpdateAccept, ReceiveRevoke, ReceiveReject, ReceiveUpdateBuffer
  <1>8. ASSUME NEW m \in net, ReceiveSync(s, m) PROVE status' = status
    BY <1>8 DEF ReceiveSync
  <1>9. ASSUME NEW upd \in Asked(s), Propose(s, upd) PROVE status' = status
    BY <1>9 DEF Propose
  <1>10. ASSUME NEW h \in Hashes, RememberPreimage(s, h) PROVE status' = status
    BY <1>10 DEF RememberPreimage
  <1>11. CASE TickExpire(s) \/ SendSync(s)
    BY <1>11 DEF TickExpire, SendSync
  <1> QED  BY <1>2, <1>3, <1>4, <1>5, <1>6, <1>7, <1>8, <1>9, <1>10, <1>11 DEF SideStep

LEMMA AheadByOwn ==
    ASSUME SplitInv, NEW s \in Sides, SideStep(s)
    PROVE  AheadBy(s)'
  <1> DEFINE o == Other(s)
  <1>1. IInv /\ TypeOK /\ AheadBy(s) /\ Step(s) /\ Enters2(s) /\ net \subseteq net' /\ o \in Sides
    BY SplitParts, SideMoves, SideActs, TwoSides DEF Step, Acts
  <1>2. num[s] \in Nat /\ num[o] \in Nat /\ num[s] \in Numbers /\ num'[o] = num[o]
    BY <1>1, Typed DEF Step, Same
  <1>3. ASSUME num'[s] > num'[o]
        PROVE  \E m \in Updates(o)' : m.n = num'[s] /\ m.st = states'[s][num'[s]] /\ m.k = accepted'[s]
    <2>1. CASE num'[s] # num[s]
      <3>1. num'[s] = num[s] + 1
        BY <2>1, EntersCommon
      <3>2. ~(num'[s] <= num[o])
        BY <1>2, <1>3, <3>1
      <3>3. PICK m \in Updates(o) : m.n = num'[s] /\ m.st = states'[s][num'[s]] /\ accepted'[s] = m.k
        BY <2>1, <3>2, EntersCommon
      <3> QED  BY <1>1, <3>3, OldUpdate
    <2>2. CASE num'[s] = num[s]
      <3>1. accepted'[s] = accepted[s]
        <4>1. ASSUME NEW m \in net, ReceiveUpdateAccept(s, m) PROVE FALSE
          <5>1. num'[s] = num[s] + 1
            BY <1>1, <4>1, AcceptMoves DEF Enters
          <5> QED  BY <1>2, <2>2, <5>1
        <4>2. ASSUME NEW m \in net, Enters(s, m.n, m.st) PROVE FALSE
          <5>1. num'[s] = num[s] + 1
            BY <4>2 DEF Enters
          <5> QED  BY <1>2, <2>2, <5>1
        <4> QED  BY <1>1, <4>1, <4>2 DEF Enters2
      <3>2. num[s] > num[o] /\ num[s] <= num[s]
        BY <1>2, <1>3, <2>2
      <3>3. states'[s][num[s]] = states[s][num[s]]
        BY <1>1, <1>2, <3>2, Frozen
      <3>4. PICK m \in Updates(o) : m.n = num[s] /\ m.st = states[s][num[s]] /\ m.k = accepted[s]
        BY <1>1, <3>2 DEF AheadBy
      <3> QED  BY <1>1, <2>2, <3>1, <3>3, <3>4, OldUpdate
    <2> QED  BY <2>1, <2>2
  <1>4. ASSUME status'[s] = "closing-asked" PROVE awaiting'[s] = None
    <2>1. CASE status[s] = "closing-asked"
      <3>1. awaiting[s] = None
        BY <1>1, <2>1 DEF AheadBy
      <3>2. ASSUME NEW n \in Numbers, NEW st \in State, Enters(s, n, st) PROVE FALSE
        BY <2>1, <3>2 DEF Enters
      <3> QED  BY <1>1, <3>1, <3>2 DEF Step, Moves, Still, Proposes, Drops
    <2> QED  BY <1>1, <1>4, <2>1, AsksOnce
  <1> QED  BY <1>3, <1>4 DEF AheadBy

LEMMA AheadByOther ==
    ASSUME SplitInv, NEW s \in Sides, SideStep(s)
    PROVE  AheadBy(Other(s))'
  <1> DEFINE o == Other(s)
  <1>1. o \in Sides /\ Other(o) = s
    BY TwoSides
  <1>2. IInv /\ TypeOK /\ AheadBy(o) /\ Step(s) /\ Acts(s) /\ net \subseteq net'
    BY <1>1, SplitParts, SideMoves, SideActs DEF Step
  <1>3. /\ num'[o] = num[o] /\ states'[o] = states[o] /\ accepted'[o] = accepted[o]
        /\ status'[o] = status[o] /\ awaiting'[o] = awaiting[o]
    BY <1>2 DEF Step, Same, Acts
  <1>4. num'[o] > num'[s] => num[o] > num[s]
    <2>1. num[s] \in Nat /\ num'[s] \in Nat /\ num'[s] >= num[s] /\ num[o] \in Nat
      BY <1>1, <1>2, Frozen
    <2> QED  BY <1>3, <2>1
  <1>5. \A m \in Updates(s) : m \in Updates(s)'
    BY <1>2, OldUpdate
  <1> QED  BY <1>1, <1>2, <1>3, <1>4, <1>5 DEF AheadBy

\* After a split there is only one way on.
LEMMA NoSecondSplit ==
    ASSUME SplitInv, NEW s \in Sides, NEW k \in Numbers, k <= num[s], k <= num[Other(s)],
           states[s][k] # states[Other(s)][k],
           NEW x \in State, Meets(states[s][k], states[Other(s)][k], x),
           NEW y \in State, Meets(states[s][k], states[Other(s)][k], y)
    PROVE  x = y
  <1> DEFINE o == Other(s)
             B == states[s][k - 1]
             X == states[s][k]
             Y == states[o][k]
  <1>1. o \in Sides /\ Other(o) = s /\ s # o /\ IInv /\ TypeOK /\ Computed(s) /\ k \in Nat
    BY TwoSides, SplitParts DEF Numbers
  <1>2. k >= 1 /\ states[s][k - 1] = states[o][k - 1]
        /\ \A q \in Sides : \E upd \in Update : Leads(states[q][k - 1], upd, Other(q), states[q][k])
    BY <1>1 DEF SplitInv, Crossed, Sides, Other
  <1>3. k - 1 \in Numbers /\ k - 1 <= num[s]
    BY <1>1, <1>2, BothHave
  <1>4. B \in State /\ X \in State /\ Y \in State
    BY <1>1, <1>3, Typed DEF IInv, SideInv, Numbered
  <1>5. Distinct(B)
    BY <1>1, <1>3 DEF Computed
  <1>6. PICK u1 \in Update : Leads(B, u1, o, X)
    BY <1>2
  <1>7. PICK u2 \in Update : Leads(B, u2, s, Y)
    BY <1>1, <1>2
  <1>8. PICK u \in Update, p \in Sides : Leads(X, u, p, x) /\ Leads(Y, u, p, x)
    BY DEF Meets
  <1>9. PICK v \in Update, q \in Sides : Leads(X, v, q, y) /\ Leads(Y, v, q, y)
    BY DEF Meets
  <1> HIDE DEF B, X, Y
  <1>10. X # Y
    BY DEF X, Y
  <1>11. x = B
    BY <1>1, <1>4, <1>5, <1>6, <1>7, <1>8, <1>10, MeetAgain
  <1>12. y = B
    BY <1>1, <1>4, <1>5, <1>6, <1>7, <1>9, <1>10, MeetAgain
  <1> QED  BY <1>11, <1>12

\* The two sides come to differ only when one accepts an update of the other, who
\* has accepted one of its own, both from a state they share.
LEMMA NewSplit ==
    ASSUME SplitInv, NEW s \in Sides, SideStep(s), num'[s] # num[s], num'[s] <= num[Other(s)],
           states'[s][num'[s]] # states[Other(s)][num'[s]]
    PROVE  /\ num[Other(s)] = num'[s] /\ num'[s] = num[s] + 1
           /\ states[s][num[s]] = states[Other(s)][num[s]]
           /\ \E m \in Updates(Other(s)), x \in Updates(s) :
                /\ ReceiveUpdateAccept(s, m) /\ m.n = num'[s] /\ m.st = states'[s][num'[s]]
                /\ x.n = num'[s] /\ x.st = states[Other(s)][num'[s]] /\ x.k = accepted[Other(s)]
                /\ Leads(states[s][num[s]], m.upd, Other(s), m.st)
                /\ Leads(states[s][num[s]], x.upd, s, x.st)
  <1> DEFINE o == Other(s)
  <1>1. o \in Sides /\ Other(o) = s /\ IInv /\ TypeOK /\ AheadBy(o) /\ Computed(o) /\ Proposed(s)
        /\ Proposed(o) /\ Ahead(o)
    BY TwoSides, SplitParts DEF SideInv
  <1>2. num[s] \in Nat /\ num[o] \in Nat /\ num[s] \in Numbers /\ num[o] \in Numbers
    BY <1>1, Typed
  <1>3. /\ num'[s] = num[s] + 1 /\ num'[s] \in Numbers /\ states'[s][num'[s]] \in State
        /\ Common(num'[s], states'[s][num'[s]])
    BY EntersCommon
  <1>4. PICK m \in Updates(o) : /\ ReceiveUpdateAccept(s, m) /\ m.n = num'[s]
                                /\ m.st = states'[s][num'[s]]
    BY EntersCommon
  <1>5. num[o] > num[s]
    BY <1>2, <1>3
  <1>6. num[o] = num[s] + 1
    BY <1>1, <1>5 DEF Ahead
  <1>7. PICK x \in Updates(s) : /\ x.n = num[o] /\ x.st = states[o][num[o]] /\ x.k = accepted[o]
    BY <1>1, <1>5 DEF AheadBy
  <1>8. num[o] - 1 = num[s] /\ num[s] <= num[o] /\ num[s] <= num[s] /\ num[o] >= 1 /\ num[o] <= num[o]
    BY <1>2, <1>6
  <1>9. Leads(states[s][num[s]], x.upd, s, x.st) /\ Leads(states[o][num[s]], m.upd, o, m.st)
    BY <1>1, <1>3, <1>4, <1>6, <1>7, <1>8 DEF Proposed
  <1>10. Meets(states[s][num[s]], states[o][num[s]], states'[s][num'[s]])
    BY <1>3, <1>6, <1>8, CommonIs
  <1>11. Common(num[o], states[o][num[o]])
    BY <1>1, <1>2, <1>8 DEF Computed
  <1>12. Meets(states[s][num[s]], states[o][num[s]], states[o][num[o]])
    BY <1>8, <1>11, CommonIs
  <1>13. states[o][num[o]] \in State
    BY <1>1, <1>2, CurrentSound DEF Current
  <1>14. states[s][num[s]] = states[o][num[s]]
    <2> SUFFICES ASSUME states[s][num[s]] # states[o][num[s]] PROVE FALSE
      OBVIOUS
    <2> DEFINE new == states'[s][num'[s]]
               old == states[o][num[o]]
    <2>1. new \in State /\ old \in State /\ new # old
      BY <1>3, <1>6, <1>13
    <2>2. Meets(states[s][num[s]], states[o][num[s]], new) /\ Meets(states[s][num[s]], states[o][num[s]], old)
      BY <1>10, <1>12
    <2> HIDE DEF new, old
    <2>3. new = old
      BY <1>2, <1>8, <2>1, <2>2, NoSecondSplit
    <2> QED  BY <2>1, <2>3
  <1> QED  BY <1>3, <1>4, <1>6, <1>7, <1>9, <1>14

LEMMA CrossedStep ==
    ASSUME SplitInv, NEW s \in Sides, SideStep(s)
    PROVE  Crossed'
  <1> DEFINE o == Other(s)
  <1>1. o \in Sides /\ Other(o) = s /\ o # s /\ IInv /\ TypeOK /\ Step(s) /\ Crossed
    BY TwoSides, SplitParts, SideMoves DEF SplitInv
  <1>2. /\ num[s] \in Nat /\ num[o] \in Nat /\ num[s] \in Numbers /\ Numbers \subseteq Nat
        /\ num'[o] = num[o] /\ states'[o] = states[o]
    BY <1>1, Typed DEF Step, Same
  <1>3. \A q \in Sides : \A k \in Numbers : k <= num[q] => states'[q][k] = states[q][k]
    BY <1>1, Frozen
  <1> SUFFICES ASSUME NEW n \in Numbers, n <= num'[s], n <= num[o], states'[s][n] # states[o][n]
               PROVE  /\ n >= 1 /\ states'[s][n - 1] = states[o][n - 1]
                      /\ \E upd \in Update : Leads(states'[s][n - 1], upd, o, states'[s][n])
                      /\ \E upd \in Update : Leads(states[o][n - 1], upd, s, states[o][n])
    BY <1>1, <1>2 DEF Crossed, Sides, Other
  <1>4. CASE n <= num[s]
    <2>1. states'[s][n] = states[s][n]
      BY <1>1, <1>3, <1>4
    <2>2. /\ n >= 1 /\ states[s][n - 1] = states[o][n - 1]
          /\ \E upd \in Update : Leads(states[s][n - 1], upd, o, states[s][n])
          /\ \E upd \in Update : Leads(states[o][n - 1], upd, s, states[o][n])
      BY <1>1, <1>4, <2>1 DEF Crossed, Sides, Other
    <2>3. n - 1 \in Numbers /\ n - 1 <= num[s]
      BY <1>1, <1>4, <2>2, BothHave
    <2>4. states'[s][n - 1] = states[s][n - 1]
      BY <1>1, <1>3, <2>3
    <2> QED  BY <2>1, <2>2, <2>4
  <1>5. CASE ~(n <= num[s])
    <2>1. num'[s] # num[s]
      BY <1>2, <1>5
    <2>2. num'[s] = num[s] + 1
      BY <2>1, EntersCommon
    <2>3. n = num'[s] /\ n >= 1 /\ n - 1 = num[s] /\ num[s] <= num[s]
      BY <1>2, <1>5, <2>2
    <2>4. states'[s][num[s]] = states[s][num[s]]
      BY <1>1, <1>2, <1>3, <2>3
    <2>5. num'[s] <= num[o] /\ states'[s][num'[s]] # states[o][num'[s]]
      BY <2>3
    <2>6. /\ states[s][num[s]] = states[o][num[s]]
          /\ \E m \in Updates(o), x \in Updates(s) :
                /\ m.st = states'[s][num'[s]] /\ x.st = states[o][num'[s]]
                /\ Leads(states[s][num[s]], m.upd, o, m.st)
                /\ Leads(states[s][num[s]], x.upd, s, x.st)
      BY <2>1, <2>5, NewSplit
    <2>7. \A q \in Sides : \A m \in Updates(q) : m.upd \in Update
      BY <1>1, UpdateMessage
    <2> QED  BY <1>1, <2>3, <2>4, <2>6, <2>7
  <1> QED  BY <1>4, <1>5
-----------------------------------------------------------------------------
(* Where the updates of the side with the lower key go. *)

LEMMA LowHigh ==
    /\ Low \in Sides /\ High \in Sides /\ Low # High /\ Other(Low) = High /\ Other(High) = Low
    /\ Low = LowKey /\ High # LowKey /\ Sides = {Low, High}
  BY SideAssumption, TwoSides DEF Low, High

\* An open or a live side was so before.
LEMMA LiveBefore ==
    ASSUME IInv, NEW s \in Sides, SideStep(s), NEW q \in Sides
    PROVE  /\ status'[q] = "open" => status[q] = "open"
           /\ status'[q] \in Live => status[q] \in Live
  <1>0. TypeOK
    BY DEF IInv
  <1>1. CASE status' = status
    BY <1>1
  <1>2. CASE CloseChannel(s)
    BY <1>0, <1>2 DEF CloseChannel, TypeOK, Live
  <1>3. CASE ForceClose(s)
    BY <1>0, <1>3 DEF ForceClose, TypeOK, Live
  <1>4. CASE OnSpend(s)
    <2>1. status' = [status EXCEPT ![s] = Classified(s, spend)]
      BY <1>4 DEF OnSpend
    <2>2. Classified(s, spend) \notin Live /\ Classified(s, spend) # "open"
      BY DEF Classified, Live
    <2> QED  BY <1>0, <2>1, <2>2 DEF TypeOK
  <1>5. ASSUME NEW m \in net, ReceiveClose(s, m)
        PROVE  /\ status'[q] = "open" => status[q] = "open"
               /\ status'[q] \in Live => status[q] \in Live
    BY <1>0, <1>5 DEF ReceiveClose, TypeOK, Live
  <1>6. ASSUME NEW m \in net, ReceiveAck(s, m) \/ AdoptAlternative(s, m) PROVE status' = status
    BY <1>6 DEF ReceiveAck, AdoptAlternative, Advance
  <1>7. ASSUME NEW m \in net, \/ ReceiveUpdateReject(s, m) \/ ReceiveUpdateAccept(s, m)
                              \/ ReceiveRevoke(s, m) \/ ReceiveReject(s, m) \/ ReceiveUpdateBuffer(s, m)
        PROVE  status' = status
    BY <1>7 DEF ReceiveUpdateReject, ReceiveUpdateAccept, ReceiveRevoke, ReceiveReject, ReceiveUpdateBuffer
  <1>8. ASSUME NEW m \in net, ReceiveSync(s, m) PROVE status' = status
    BY <1>8 DEF ReceiveSync
  <1>9. ASSUME NEW upd \in Asked(s), Propose(s, upd) PROVE status' = status
    BY <1>9 DEF Propose
  <1>10. ASSUME NEW h \in Hashes, RememberPreimage(s, h) PROVE status' = status
    BY <1>10 DEF RememberPreimage
  <1>11. CASE TickExpire(s) \/ SendSync(s)
    BY <1>11 DEF TickExpire, SendSync
  <1> QED  BY <1>1, <1>2, <1>3, <1>4, <1>5, <1>6, <1>7, <1>8, <1>9, <1>10, <1>11 DEF SideStep

\* The update of s that is pending is the one with its number of proposal.
LEMMA PendingUpdate ==
    ASSUME SplitInv, NEW s \in Sides, NEW m \in Updates(s), pending[s] # None, pending[s].k = m.k
    PROVE  m.n = num[s] + 1 /\ m.st = states[s][num[s] + 1] /\ m.upd = pending[s].upd
  <1> DEFINE x == [t |-> "update", by |-> s, n |-> pending[s].n, upd |-> pending[s].upd,
                   st |-> states[s][pending[s].n], k |-> pending[s].k]
  <1>1. IInv /\ SideInv(s) /\ Proposed(s)
    BY SplitParts
  <1>2. x \in Updates(s)
    BY <1>1 DEF SideInv, Signed, Updates
  <1>3. x = m
    BY <1>1, <1>2 DEF Proposed
  <1>4. pending[s].n = num[s] + 1
    BY <1>1, PendingSound
  <1> QED  BY <1>3, <1>4

\* The state before an update of s.
LEMMA BaseSound ==
    ASSUME SplitInv, NEW s \in Sides, NEW m \in Updates(s)
    PROVE  /\ states[s][m.n - 1] \in State /\ Distinct(states[s][m.n - 1])
           /\ Leads(states[s][m.n - 1], m.upd, s, m.st) /\ m.upd \in Update
  <1>1. IInv /\ TypeOK /\ SideInv(s) /\ Proposed(s) /\ Computed(s)
    BY SplitParts
  <1>2. m.n - 1 \in Numbers /\ m.n - 1 <= num[s] /\ m.upd \in Update
    BY <1>1, UpdateMessage
  <1>3. states[s][m.n - 1] \in State
    BY <1>1, <1>2, Typed DEF SideInv, Numbered
  <1> QED  BY <1>1, <1>2, <1>3 DEF Proposed, Computed

\* What is set aside for a state was led to from the one before it.
LEMMA AltLeads ==
    ASSUME SplitInv, NEW s \in Sides, NEW a \in alts[s]
    PROVE  /\ Leads(states[s][a.n - 1], a.upd, s, a.st) /\ a.upd \in Update
           /\ a.n \in Numbers /\ a.n \in Nat /\ a.n - 1 \in Numbers /\ a.n - 1 <= num[s]
  <1>1. IInv /\ Proposed(s)
    BY SplitParts
  <1>2. PICK m \in Updates(s) : m.n = a.n /\ m.st = a.st /\ m.upd = a.upd
    BY <1>1 DEF Proposed
  <1> QED  BY <1>1, <1>2, BaseSound, UpdateMessage

\* An alternative to an expired fail of one's own HTLC is at its deadline.
LEMMA OwnFailAlt ==
    ASSUME SplitInv, NEW m \in Updates(Low), OwnFail(m), NEW a \in alts[Low], a.n = m.n, a.st = m.st
    PROVE  AtDeadline(Low, a)
  <1> DEFINE B == states[Low][m.n - 1]
  <1>1. PICK x \in B.htlcs : x.id = m.upd.id /\ x.from = Low /\ view[Low] >= x.expiry
    BY DEF OwnFail
  <1>2. B \in State /\ Distinct(B) /\ Leads(B, m.upd, Low, m.st) /\ m.upd \in Update
    BY LowHigh, BaseSound
  <1>3. Leads(B, a.upd, Low, m.st) /\ a.upd \in Update
    BY LowHigh, AltLeads
  <1>4. m.upd.t = "fail" /\ x \in states[Low][a.n - 1].htlcs
    BY <1>1 DEF OwnFail
  <1> HIDE DEF B
  <1>5. a.upd.t = "fail" /\ a.upd.id = m.upd.id
    BY <1>1, <1>2, <1>3, <1>4, LowHigh, LeadsAgain
  <1> QED  BY <1>1, <1>4, <1>5 DEF AtDeadline

\* What was at its deadline stays so.
LEMMA DeadlineStays ==
    ASSUME SplitInv, NEW a \in alts[Low], AtDeadline(Low, a), view'[Low] >= view[Low], view'[Low] \in Nat,
           states'[Low][a.n - 1] = states[Low][a.n - 1]
    PROVE  AtDeadline(Low, a)'
  <1>1. IInv /\ TypeOK /\ view[Low] \in Nat /\ Margin \in Nat /\ Lag \in Nat /\ SideInv(Low)
    BY SplitParts, LowHigh, NumberAssumption DEF TypeOK
  <1>2. a.upd \in Update /\ a.n - 1 \in Numbers /\ a.n - 1 <= num[Low]
    BY AltLeads, LowHigh
  <1>3. CASE a.upd.t = "add" /\ view[Low] + Margin + Lag >= a.upd.expiry
    <2>1. a.upd.expiry \in Nat
      BY <1>2, <1>3, UpdateFields
    <2>2. view'[Low] + Margin + Lag >= a.upd.expiry
      BY <1>1, <1>3, <2>1
    <2> QED  BY <1>3, <2>2 DEF AtDeadline, Low
  <1>4. ASSUME a.upd.t = "fail", NEW x \in states[Low][a.n - 1].htlcs,
               x.id = a.upd.id, x.from = Low, view[Low] >= x.expiry
        PROVE  AtDeadline(Low, a)'
    <2>1. states[Low][a.n - 1] \in State
      BY <1>1, <1>2, Typed, LowHigh DEF SideInv, Numbered
    <2>2. x.expiry \in Nat
      BY <2>1, StateFields
    <2>3. view'[Low] >= x.expiry
      BY <1>1, <1>4, <2>2
    <2> QED  BY <1>4, <2>3 DEF AtDeadline, Low
  <1> QED  BY <1>3, <1>4 DEF AtDeadline

LEMMA AltStays ==
    ASSUME SplitInv, NEW s \in Sides, SideStep(s), NEW a \in alts[Low], AtDeadline(Low, a)
    PROVE  \/ a \in alts'[Low] /\ AtDeadline(Low, a)'
           \/ num'[Low] = num[Low] + 1 /\ a.n = num'[Low] /\ a.st = states'[Low][a.n]
  <1>1. IInv /\ TypeOK /\ Step(s) /\ Acts(s) /\ view[Low] \in Nat
    BY SplitParts, SideMoves, SideActs, LowHigh DEF TypeOK
  <1>2. a.n - 1 \in Numbers /\ a.n - 1 <= num[Low]
    BY AltLeads, LowHigh
  <1>3. states'[Low][a.n - 1] = states[Low][a.n - 1]
    BY <1>1, <1>2, Frozen, LowHigh
  <1>4. AtDeadline(Low, a)'
    BY <1>1, <1>3, DeadlineStays DEF Acts
  <1>5. CASE s = High
    BY <1>1, <1>4, <1>5, LowHigh DEF Step, Same
  <1>6. CASE s = Low
    <2>1. CASE alts'[Low] = alts[Low]
      BY <1>4, <2>1
    <2>2. CASE Drops(Low)
      BY <1>1, <1>4, <2>2, AsideSound, LowHigh DEF Drops
    <2>3. ASSUME NEW n \in Numbers, NEW st \in State, Enters(Low, n, st)
          PROVE  \/ a \in alts'[Low] /\ AtDeadline(Low, a)'
                 \/ num'[Low] = num[Low] + 1 /\ a.n = num'[Low] /\ a.st = states'[Low][a.n]
      <3>1. a \in alts'[Low] \/ (a.n = n /\ a.st = st)
        BY <2>3 DEF Enters
      <3>2. n = num[Low] + 1 /\ num'[Low] = n /\ states'[Low][n] = st
        BY <2>3 DEF Enters
      <3> QED  BY <1>4, <3>1, <3>2
    <2> QED  BY <1>1, <1>6, <2>1, <2>2, <2>3 DEF Step, Moves, Still, Proposes
  <1> QED  BY <1>5, <1>6, LowHigh

LEMMA RejectStays ==
    ASSUME net \subseteq net', NEW q, NEW m, RejectedBy(q, m)
    PROVE  RejectedBy(q, m)'
  BY DEF RejectedBy

\* The side with the lower key gives up a pending update only at its deadline, when it
\* is rejected, to follow the other side, or to close.
LEMMA PendingGoes ==
    ASSUME SplitInv, SideStep(Low), NEW m \in Updates(Low), pending[Low] # None, pending[Low].k = m.k
    PROVE  Accounted(m)'
  <1>1. IInv /\ TypeOK /\ Step(Low) /\ Acts(Low) /\ Low \in Sides /\ Low = LowKey /\ Other(Low) = High
        /\ num[Low] \in Nat /\ High \in Sides
    BY SplitParts, SideMoves, SideActs, LowHigh, Typed
  <1>2. m.n = num[Low] + 1 /\ m.st = states[Low][num[Low] + 1] /\ m.upd = pending[Low].upd
        /\ m.n - 1 = num[Low]
    BY <1>1, PendingUpdate
  <1>3. CASE pending'[Low] = pending[Low]
    BY <1>3 DEF Accounted
  <1>4. CASE TickExpire(Low)
    <2>1. alts'[Low] = Aside(Low) /\ states'[Low][m.n - 1] = states[Low][m.n - 1] /\ view' = view
      <3>1. alts'[Low] = Aside(Low) /\ view' = view
        BY <1>1, <1>4 DEF TickExpire, DropPending, TypeOK
      <3>2. num[Low] \in Numbers /\ num[Low] <= num[Low]
        BY <1>1, Typed
      <3> QED  BY <1>1, <1>2, <3>1, <3>2, Frozen
    <2>2. PICK a \in Aside(Low) : a.n = m.n /\ a.st = m.st
      BY <1>1, <1>2, AsideSound
    <2>3. a.upd.t = "add" /\ a.upd.expiry = m.upd.expiry
      <3>1. CASE a = Kept(Low)
        BY <1>1, <1>2, <1>4, <3>1, PendingSound DEF TickExpire
      <3>2. CASE a \in alts[Low]
        <4> DEFINE B == states[Low][m.n - 1]
        <4>1. B \in State /\ Leads(B, m.upd, Low, m.st) /\ m.upd \in Update
          BY <1>1, BaseSound
        <4>2. Leads(B, a.upd, Low, m.st) /\ a.upd \in Update
          BY <1>1, <2>2, <3>2, AltLeads
        <4>3. m.upd.t = "add"
          BY <1>2, <1>4 DEF TickExpire
        <4> HIDE DEF B
        <4> QED  BY <1>1, <4>1, <4>2, <4>3, LeadsAgain
      <3> QED  BY <1>1, <3>1, <3>2, AsideSound
    <2>4. view[Low] >= m.upd.expiry - Margin /\ m.upd.expiry \in Nat /\ view[Low] \in Nat
      <3>1. m.upd.t = "add" /\ view[Low] >= m.upd.expiry - Margin
        BY <1>2, <1>4 DEF TickExpire
      <3>2. m.upd \in Update
        BY <1>1, UpdateMessage
      <3> QED  BY <1>1, <3>1, <3>2, UpdateFields DEF TypeOK
    <2>5. view[Low] + Margin + Lag >= m.upd.expiry
      BY <2>4, NumberAssumption
    <2>6. AtDeadline(Low, a)'
      BY <2>1, <2>3, <2>5 DEF AtDeadline, Low
    <2>7. DeadlineAlt(m.n, m.st)'
      BY <2>1, <2>2, <2>6 DEF DeadlineAlt
    <2> QED  BY <2>7 DEF Accounted
  <1>5. ASSUME NEW r \in net, ReceiveReject(Low, r) PROVE Accounted(m)'
    <2>1. r.t = "reject" /\ r.by # Low /\ r.n = m.n /\ r.k = m.k /\ net' = net
      BY <1>1, <1>2, <1>5, PendingSound DEF ReceiveReject
    <2>2. r.by = High
      BY <1>1, <2>1, MessageFields, OtherSide DEF TypeOK
    <2>3. RejectedBy(High, m)'
      BY <2>1, <2>2 DEF RejectedBy
    <2> QED  BY <2>3 DEF Accounted
  <1>6. CASE ForceClose(Low)
    <2>1. status'[Low] \notin Live /\ num' = num
      BY <1>1, <1>6 DEF ForceClose, TypeOK, Live
    <2>2. m.n > num'[Low]
      BY <1>1, <1>2, <2>1
    <2> QED  BY <2>1, <2>2 DEF Accounted
  <1>7. ASSUME NEW r \in net, ReceiveSync(Low, r) PROVE pending'[Low] = pending[Low]
    BY <1>1, <1>7 DEF ReceiveSync, GivesWay
  <1>8. ASSUME NEW x \in net, ReceiveUpdateAccept(Low, x) PROVE FALSE
    BY <1>1, <1>8 DEF ReceiveUpdateAccept
  <1>9. ASSUME NEW x \in net, ReceiveAck(Low, x) PROVE Accounted(m)'
    <2>1. x.n = num[Low] + 1 /\ num'[Low] = x.n /\ states'[Low][x.n] = x.st
      BY <1>1, <1>9, AckMoves DEF Enters
    <2>2. x.st = states[Low][x.n]
      BY <1>9 DEF ReceiveAck
    <2>3. m.n <= num'[Low] /\ states'[Low][m.n] = m.st
      BY <1>1, <1>2, <2>1, <2>2
    <2> QED  BY <2>3 DEF Accounted
  <1>10. ASSUME NEW x \in net, AdoptAlternative(Low, x) PROVE Accounted(m)'
    <2>1. x.n = num[Low] + 1 /\ num'[Low] = x.n
      BY <1>1, <1>10, AdoptMoves DEF Enters
    <2>2. x.st # states[Low][x.n] /\ x.t = "ack" /\ x.by # Low
      BY <1>10 DEF AdoptAlternative
    <2>3. x.by = High
      BY <1>1, <2>2, MessageFields, OtherSide DEF TypeOK
    <2>4. x.n <= num[High] /\ states[High][x.n] = x.st /\ x.n \in Numbers
      BY <1>1, <2>2, <2>3, MessageFields DEF IInv, SideInv, Said, TypeOK
    <2>5. num'[High] = num[High] /\ states'[High] = states[High]
      BY <1>1 DEF Step, Same
    <2>6. m.n <= num'[Low] /\ m.n <= num'[High] /\ states'[High][m.n] # m.st
      BY <1>1, <1>2, <2>1, <2>2, <2>4, <2>5
    <2> QED  BY <2>6 DEF Accounted
  <1>11. ASSUME NEW upd \in Asked(Low), Propose(Low, upd) PROVE FALSE
    BY <1>11 DEF Propose
  <1>12. ASSUME NEW h \in Hashes, RememberPreimage(Low, h) PROVE pending' = pending
    BY <1>12 DEF RememberPreimage
  <1>13. CASE SendSync(Low) \/ CloseChannel(Low) \/ OnSpend(Low)
    BY <1>3, <1>13 DEF SendSync, CloseChannel, OnSpend
  <1>14. ASSUME NEW x \in net, \/ ReceiveUpdateReject(Low, x) \/ ReceiveUpdateBuffer(Low, x)
                               \/ ReceiveRevoke(Low, x) \/ ReceiveClose(Low, x)
         PROVE  pending' = pending
    BY <1>14 DEF ReceiveUpdateReject, ReceiveUpdateBuffer, ReceiveRevoke, ReceiveClose
  <1> QED  BY <1>3, <1>4, <1>5, <1>6, <1>7, <1>8, <1>9, <1>10, <1>11, <1>12, <1>13, <1>14 DEF SideStep

LEMMA AccountedStep ==
    ASSUME SplitInv, NEW s \in Sides, SideStep(s), NEW m \in Updates(Low)
    PROVE  Accounted(m)'
  <1>1. IInv /\ TypeOK /\ Step(s) /\ Acts(s) /\ net \subseteq net' /\ num[Low] \in Nat /\ num[High] \in Nat
    BY SplitParts, SideMoves, SideActs, LowHigh, Typed DEF Step
  <1>2. m.n \in Numbers /\ m.n \in Nat
    BY <1>1, UpdateMessage, LowHigh
  <1>3. \A q \in Sides : m.n <= num[q] => m.n <= num'[q] /\ states'[q][m.n] = states[q][m.n]
    <2> SUFFICES ASSUME NEW q \in Sides, m.n <= num[q]
                 PROVE  m.n <= num'[q] /\ states'[q][m.n] = states[q][m.n]
      OBVIOUS
    <2>1. num[q] \in Nat /\ num'[q] \in Nat /\ num'[q] >= num[q]
      BY <1>1, Frozen
    <2>2. states'[q][m.n] = states[q][m.n]
      BY <1>1, <1>2, Frozen
    <2> QED  BY <1>2, <2>1, <2>2
  <1>4. CASE pending[Low] # None /\ pending[Low].k = m.k
    <2>1. CASE s = Low
      BY <1>4, <2>1, PendingGoes
    <2>2. CASE s = High
      <3>1. pending'[Low] = pending[Low]
        BY <1>1, <2>2, LowHigh DEF Step, Same
      <3> QED  BY <1>4, <3>1 DEF Accounted
    <2> QED  BY <2>1, <2>2, LowHigh
  <1>5. CASE m.n <= num[Low] /\ states[Low][m.n] = m.st
    BY <1>3, <1>5, LowHigh DEF Accounted
  <1>6. CASE RejectedBy(High, m)
    <2>1. RejectedBy(High, m)'
      BY <1>1, <1>6, RejectStays DEF High
    <2> QED  BY <2>1 DEF Accounted
  <1>7. CASE DeadlineAlt(m.n, m.st)
    <2>1. PICK a \in alts[Low] : a.n = m.n /\ a.st = m.st /\ AtDeadline(Low, a)
      BY <1>7 DEF DeadlineAlt
    <2>2. CASE a \in alts'[Low] /\ AtDeadline(Low, a)'
      BY <2>1, <2>2 DEF Accounted, DeadlineAlt
    <2>3. CASE num'[Low] = num[Low] + 1 /\ a.n = num'[Low] /\ a.st = states'[Low][a.n]
      <3>1. m.n <= num'[Low] /\ states'[Low][m.n] = m.st
        BY <1>2, <2>1, <2>3
      <3> QED  BY <3>1 DEF Accounted
    <2> QED  BY <2>1, <2>2, <2>3, AltStays
  <1>8. CASE m.n <= num[Low] /\ m.n <= num[High] /\ states[High][m.n] # m.st
    BY <1>3, <1>8, LowHigh DEF Accounted
  <1>9. CASE m.n > num[Low] /\ status[Low] \notin Live
    <2>1. status'[Low] \notin Live
      BY <1>1, <1>9, LiveBefore, LowHigh
    <2>2. num'[Low] = num[Low]
      BY <1>1, <1>9, Frozen, LowHigh DEF Live
    <2> QED  BY <1>9, <2>1, <2>2 DEF Accounted
  <1>10. Accounted(m)
    BY DEF SplitInv, Settled
  <1> QED  BY <1>4, <1>5, <1>6, <1>7, <1>8, <1>9, <1>10 DEF Accounted
-----------------------------------------------------------------------------
(* What is rejected is rejected for good. *)

LEMMA PendingHashOwn ==
    ASSUME SplitInv, NEW s \in Sides
    PROVE  PendingHash(s) \subseteq HashesBy[s]
  <1> SUFFICES ASSUME pending[s] # None, pending[s].upd.t = "add"
               PROVE  pending[s].upd.hash \in HashesBy[s]
    BY DEF PendingHash
  <1> DEFINE x == [t |-> "update", by |-> s, n |-> pending[s].n, upd |-> pending[s].upd,
                   st |-> states[s][pending[s].n], k |-> pending[s].k]
  <1>1. x \in Updates(s)
    BY SplitParts DEF SideInv, Signed, Updates
  <1>2. x.upd.t = "add" => x.upd.hash \in HashesBy[s]
    BY <1>1, SplitParts DEF Proposed
  <1> QED  BY <1>2

LEMMA OwnFailStays ==
    ASSUME SplitInv, NEW m \in Updates(Low), OwnFail(m), view'[Low] >= view[Low], view'[Low] \in Nat,
           states'[Low][m.n - 1] = states[Low][m.n - 1]
    PROVE  OwnFail(m)'
  <1> DEFINE B == states[Low][m.n - 1]
  <1>1. PICK x \in B.htlcs : x.id = m.upd.id /\ x.from = Low /\ view[Low] >= x.expiry
    BY DEF OwnFail
  <1>2. B \in State /\ view[Low] \in Nat
    BY LowHigh, BaseSound, SplitParts DEF TypeOK
  <1>3. x.expiry \in Nat
    BY <1>2, StateFields
  <1>4. view'[Low] >= x.expiry
    BY <1>1, <1>2, <1>3
  <1> QED  BY <1>1, <1>4 DEF OwnFail, Low

\* Time does not make a refused update acceptable, unless it fails an expired HTLC.
LEMMA RefusalStays ==
    ASSUME SplitInv, HashesBy["A"] \cap HashesBy["B"] = {}, NEW m \in Updates(Low), ~OwnFail(m), Refused(m),
           states[Low][m.n - 1] = states[High][num[High]],
           states'[High][num'[High]] = states[High][num[High]], seq'[High] = seq[High],
           view'[High] >= view[High], view'[High] \in Nat
    PROVE  Refused(m)'
  <1> DEFINE B == states[High][num[High]]
  <1>1. /\ Low \in Sides /\ High \in Sides /\ Proposed(Low) /\ view[High] \in Nat
        /\ m.upd \in Update /\ m.upd.t \in {"pay", "add", "settle", "fail"}
    BY LowHigh, SplitParts, BaseSound, UpdateFields DEF TypeOK
  <1>2. B \in State
    BY <1>1, BaseSound
  <1>3. \A h \in B.htlcs : h.expiry \in Nat
    BY <1>2, StateFields
  <1> SUFFICES ASSUME (m.st \in NextStates(High, states[High][num[High]], m.upd, Low))'
               PROVE  m.st \in NextStates(High, B, m.upd, Low)
    BY DEF Refused
  <1>4. m.st.bal[Low] >= 0 /\ m.st.bal["A"] >= Fee
    BY DEF NextStates, Low, High
  <1>5. CASE m.upd.t = "pay"
    BY <1>4, <1>5 DEF NextStates, Low, High
  <1>6. CASE m.upd.t = "add"
    <2>1. m.st = Offered(B, Low, m.upd) /\ MayAdd(High, B, m.upd)'
      BY <1>6 DEF NextStates, Low, High, MayAdd, NextHtlcId, PendingHash
    <2>2. /\ m.upd.id = NextHtlcId(High, B) /\ m.upd.expiry > view'[High] + Margin
          /\ m.upd.hash \notin HashesOf(B)
      BY <2>1 DEF MayAdd, NextHtlcId, High
    <2>3. m.upd.expiry > view[High] + Margin
      BY <1>1, <1>6, <2>2, UpdateFields, NumberAssumption
    <2>4. m.upd.hash \notin PendingHash(High)
      <3>1. m.upd.hash \in HashesBy[Low] /\ PendingHash(High) \subseteq HashesBy[High]
        BY <1>1, <1>6, PendingHashOwn DEF Proposed
      <3>2. HashesBy[Low] \cap HashesBy[High] = {}
        BY <1>1, LowHigh DEF Sides
      <3> QED  BY <3>1, <3>2
    <2>5. MayAdd(High, B, m.upd)
      BY <2>2, <2>3, <2>4 DEF MayAdd
    <2> QED  BY <1>4, <1>6, <2>1, <2>5 DEF NextStates
  <1>7. CASE m.upd.t = "settle"
    <2>1. PICK h \in B.htlcs : /\ m.st = Resolved(B, h, Low) /\ h.id = m.upd.id /\ h.from # Low
                               /\ h.hash = m.upd.hash /\ view'[High] < h.expiry
      BY <1>7 DEF NextStates, Low, High, MaySettle
    <2>2. MaySettle(High, h, m.upd, Low)
      BY <1>1, <1>3, <2>1 DEF MaySettle
    <2> QED  BY <1>4, <1>7, <2>1, <2>2 DEF NextStates
  <1>8. CASE m.upd.t = "fail"
    <2>1. PICK h \in B.htlcs : m.st = Resolved(B, h, h.from) /\ h.id = m.upd.id
      BY <1>8 DEF NextStates, Low, High, MayFail
    <2>2. h.from # Low
      BY <1>1, <1>8, <2>1 DEF OwnFail, Proposed
    <2>3. MayFail(High, h, m.upd, Low)
      BY <2>1, <2>2 DEF MayFail
    <2> QED  BY <1>4, <1>8, <2>1, <2>3 DEF NextStates
  <1> QED  BY <1>1, <1>5, <1>6, <1>7, <1>8

LEMMA RejectFinalStep ==
    ASSUME SplitInv, HashesBy["A"] \cap HashesBy["B"] = {}, NEW s \in Sides, SideStep(s),
           NEW m \in Updates(Low), RejectIsFinal(m)
    PROVE  RejectIsFinal(m)'
  <1>1. /\ IInv /\ TypeOK /\ Step(s) /\ Acts(s) /\ Low \in Sides /\ High \in Sides /\ view' = view
        /\ Other(High) = Low /\ Other(Low) = High /\ view[Low] \in Nat /\ view[High] \in Nat
        /\ Proposed(Low)
    BY SplitParts, SideMoves, SideActs, LowHigh DEF Acts, TypeOK
  <1>2. /\ num[Low] \in Nat /\ num'[Low] \in Nat /\ num'[Low] >= num[Low] /\ num'[Low] <= num[Low] + 1
        /\ num[High] \in Nat /\ num'[High] \in Nat /\ num'[High] >= num[High]
        /\ num'[High] <= num[High] + 1 /\ num[High] \in Numbers
    BY <1>1, Frozen
  <1>3. m.n \in Nat /\ m.n - 1 \in Numbers /\ m.n - 1 <= num[Low] /\ m.n <= num[Low] + 1 /\ m.n >= 1
    BY <1>1, UpdateMessage
  <1>4. states'[Low][m.n - 1] = states[Low][m.n - 1]
    BY <1>1, <1>3, Frozen
  <1>5. CASE OwnFail(m)
    <2>1. OwnFail(m)'
      BY <1>1, <1>2, <1>4, <1>5, OwnFailStays
    <2> QED  BY <2>1 DEF RejectIsFinal
  <1>6. CASE m.n <= num[High] /\ m.n <= num[Low]
    <2>1. m.n <= num'[High] /\ m.n <= num'[Low]
      BY <1>2, <1>3, <1>6
    <2> QED  BY <2>1 DEF RejectIsFinal
  <1>7. CASE num[High] = m.n /\ num[Low] < m.n /\ accepted[High] # m.k
    <2>1. num'[High] = num[High]
      <3> SUFFICES ASSUME num'[High] # num[High] PROVE FALSE
        OBVIOUS
      <3>1. s = High
        BY <1>1, LowHigh DEF Step, Same
      <3>2. num[High] <= num[Low]
        BY <1>1, <3>1, EntersCommon
      <3> QED  BY <1>2, <1>7, <3>2
    <2>2. accepted'[High] = accepted[High]
      <3>1. CASE s = Low
        BY <1>1, <3>1 DEF Acts
      <3>2. CASE s = High
        <4>1. ASSUME NEW x \in net, ReceiveUpdateAccept(High, x) PROVE FALSE
          <5>1. num'[High] = num[High] + 1
            BY <1>1, <4>1, AcceptMoves DEF Enters
          <5> QED  BY <1>2, <2>1, <5>1
        <4>2. ASSUME NEW x \in net, Enters(High, x.n, x.st) PROVE FALSE
          <5>1. num'[High] = num[High] + 1
            BY <4>2 DEF Enters
          <5> QED  BY <1>2, <2>1, <5>1
        <4> QED  BY <1>1, <3>2, <4>1, <4>2 DEF Acts, Enters2
      <3> QED  BY <3>1, <3>2, LowHigh
    <2>3. CASE num'[Low] < m.n
      BY <1>7, <2>1, <2>2, <2>3 DEF RejectIsFinal
    <2>4. CASE ~(num'[Low] < m.n)
      <3>1. m.n <= num'[High] /\ m.n <= num'[Low]
        BY <1>2, <1>3, <1>7, <2>1, <2>4
      <3> QED  BY <3>1 DEF RejectIsFinal
    <2> QED  BY <2>3, <2>4
  <1>8. CASE num[High] < m.n /\ status[High] # "open"
    <2>1. status'[High] # "open" /\ num'[High] = num[High]
      BY <1>1, <1>8, LiveBefore, Frozen
    <2> QED  BY <1>8, <2>1 DEF RejectIsFinal
  <1>9. CASE /\ m.n <= num[High] + 1 /\ m.n <= num[Low] + 1
             /\ states[Low][m.n - 1] # states[High][m.n - 1]
    <2>1. m.n - 1 <= num[High]
      BY <1>2, <1>3, <1>9
    <2>2. states'[High][m.n - 1] = states[High][m.n - 1]
      BY <1>1, <1>3, <2>1, Frozen
    <2>3. m.n <= num'[High] + 1 /\ m.n <= num'[Low] + 1
      BY <1>2, <1>3, <1>9
    <2> QED  BY <1>4, <1>9, <2>2, <2>3 DEF RejectIsFinal
  <1>10. CASE ~OwnFail(m) /\ num[High] + 1 = m.n /\ Refused(m) /\ states[Low][m.n - 1] = states[High][m.n - 1]
    <2>0. m.n - 1 = num[High] /\ num[High] <= num[High]
      BY <1>2, <1>3, <1>10
    <2>1. CASE num'[High] = num[High]
      <3>1. states'[High][num'[High]] = states[High][num[High]]
        BY <1>1, <1>2, <2>0, <2>1, Frozen
      <3>2. seq'[High] = seq[High]
        <4>1. CASE s = Low
          BY <1>1, <4>1 DEF Step, Same
        <4>2. CASE s = High
          <5>1. ASSUME NEW x \in net, ReceiveUpdateAccept(High, x) PROVE FALSE
            <6>1. num'[High] = num[High] + 1
              BY <1>1, <5>1, AcceptMoves DEF Enters
            <6> QED  BY <1>2, <2>1, <6>1
          <5>2. ASSUME NEW x \in net, Enters(High, x.n, x.st) PROVE FALSE
            <6>1. num'[High] = num[High] + 1
              BY <5>2 DEF Enters
            <6> QED  BY <1>2, <2>1, <6>1
          <5> QED  BY <1>1, <4>2, <5>1, <5>2 DEF Acts, Enters2
        <4> QED  BY <4>1, <4>2, LowHigh
      <3>3. view'[High] >= view[High] /\ view'[High] \in Nat
        BY <1>1
      <3>4. Refused(m)'
        BY <1>10, <2>0, <3>1, <3>2, <3>3, RefusalStays
      <3> QED  BY <1>10, <2>1, <3>4 DEF RejectIsFinal
    <2>2. CASE num'[High] # num[High]
      <3>1. s = High
        BY <1>1, <2>2, LowHigh DEF Step, Same
      <3>2. num'[High] = num[High] + 1 /\ num'[Low] = num[Low]
        BY <1>1, <2>2, <3>1, EntersCommon DEF Step, Same
      <3>3. CASE m.n <= num[Low]
        <4>1. m.n <= num'[High] /\ m.n <= num'[Low]
          BY <1>3, <1>10, <3>2, <3>3
        <4> QED  BY <4>1 DEF RejectIsFinal
      <3>4. CASE ~(m.n <= num[Low])
        <4>1. PICK x \in Updates(Low) : ReceiveUpdateAccept(High, x) /\ accepted'[High] = x.k
          BY <1>1, <1>10, <2>2, <3>1, <3>2, <3>4, EntersCommon
        <4>2. x.k # m.k
          <5>1. Verified(High, x) /\ x.by = Low
            BY <4>1 DEF ReceiveUpdateAccept, Updates
          <5>2. x # m
            BY <1>10, <5>1 DEF Refused, Verified, Current
          <5> QED  BY <1>1, <5>2 DEF Proposed
        <4>3. num'[High] = m.n /\ num'[Low] < m.n
          BY <1>2, <1>3, <1>10, <3>2, <3>4
        <4> QED  BY <4>1, <4>2, <4>3 DEF RejectIsFinal
      <3> QED  BY <3>3, <3>4
    <2> QED  BY <2>1, <2>2
  <1>11. num[High] + 1 = m.n => m.n <= num[High] + 1
    BY <1>2, <1>3
  <1> QED  BY <1>3, <1>5, <1>6, <1>7, <1>8, <1>9, <1>10, <1>11 DEF RejectIsFinal

LEMMA RejectsFinally ==
    ASSUME SplitInv, NEW m \in Updates(Low), ReceiveUpdateReject(High, m)
    PROVE  RejectIsFinal(m)
  <1>1. /\ IInv /\ TypeOK /\ Low \in Sides /\ High \in Sides /\ High # LowKey /\ Other(High) = Low
        /\ SideInv(High) /\ AheadBy(High) /\ num[Low] \in Nat /\ num[High] \in Nat /\ num[Low] \in Numbers
    BY SplitParts, LowHigh, Typed
  <1>2. m.n \in Nat /\ m.by = Low /\ m.n <= num[Low] + 1
    BY <1>1, UpdateMessage
  <1>3. CASE m.n <= num[High] /\ m.n <= num[Low]
    BY <1>3 DEF RejectIsFinal
  <1>4. CASE status[High] = "closing-asked" /\ num[High] < m.n
    BY <1>4 DEF RejectIsFinal
  <1>5. CASE status[High] = "closing-asked" /\ m.n <= num[High] /\ ~(m.n <= num[Low])
    <2>1. awaiting[High] = None /\ status[High] \in Live
      BY <1>1, <1>5 DEF AheadBy, Live
    <2>2. num[Low] < num[High]
      BY <1>1, <1>2, <1>5
    <2>3. num[Low] \in revoked[High]
      BY <1>1, <2>1, <2>2 DEF SideInv, Final
    <2>4. num[Low] < num[Low]
      BY <1>1, <2>3 DEF SideInv, Revealed
    <2> QED  BY <1>1, <2>4
  <1>6. CASE m.n = num[High] /\ m.k # accepted[High] /\ ~(m.n <= num[Low])
    BY <1>1, <1>2, <1>6 DEF RejectIsFinal
  <1>7. CASE Considered(High, m) /\ ~Verified(High, m)
    BY <1>2, <1>7 DEF RejectIsFinal, Considered, Verified, Refused, Current
  <1>8. \/ status[High] = "closing-asked"
        \/ m.n = num[High] /\ m.k # accepted[High]
        \/ Considered(High, m) /\ ~Verified(High, m)
    BY <1>1 DEF ReceiveUpdateReject
  <1>9. m.n = num[High] => m.n <= num[High]
    BY <1>1
  <1>10. num[High] < m.n \/ m.n <= num[High]
    BY <1>1, <1>2
  <1> QED  BY <1>3, <1>4, <1>5, <1>6, <1>7, <1>8, <1>9, <1>10
-----------------------------------------------------------------------------
(* A split. *)

\* An update of the side with the lower key that is neither pending nor agreed,
\* and that the other side may accept or has accepted, was set aside at a deadline.
LEMMA GoneAtDeadline ==
    ASSUME SplitInv, NEW m \in Updates(Low), pending[Low] = None \/ m.n # num[Low] + 1,
           ~(m.n <= num[Low] /\ states[Low][m.n] = m.st), ~(m.n <= num[Low] /\ m.n <= num[High]),
           ~(m.n > num[Low] /\ status[Low] \notin Live),
           RejectIsFinal(m) => OwnFail(m)
    PROVE  DeadlineAlt(m.n, m.st)
  <1>1. Accounted(m) /\ (RejectedBy(High, m) => RejectIsFinal(m)) /\ Low \in Sides /\ IInv
    BY LowHigh, SplitParts DEF SplitInv, Settled
  <1>2. pending[Low] # None => pending[Low].k # m.k /\ pending[Low].n # m.n
    BY <1>1, PendingUpdate, PendingSound
  <1>3. CASE OwnFail(m)
    <2>1. Holds(Low, m.n, m.st)
      BY <1>1, UpdateMessage
    <2>2. PICK a \in alts[Low] : a.n = m.n /\ a.st = m.st
      BY <1>2, <2>1 DEF Holds
    <2> QED  BY <1>3, <2>2, OwnFailAlt DEF DeadlineAlt
  <1> QED  BY <1>1, <1>2, <1>3 DEF Accounted

LEMMA SplitStep ==
    ASSUME SplitInv, NEW s \in Sides, SideStep(s), num'[s] # num[s], num'[s] <= num[Other(s)],
           states'[s][num'[s]] # states[Other(s)][num'[s]]
    PROVE  DeadlineAlt(num'[s], states'[High][num'[s]])
  <1> DEFINE o == Other(s)
  <1>1. /\ num[o] = num'[s] /\ num'[s] = num[s] + 1 /\ states[s][num[s]] = states[o][num[s]]
        /\ o \in Sides /\ Other(o) = s /\ IInv /\ num[s] \in Nat /\ num[o] \in Nat /\ Step(s)
    BY NewSplit, TwoSides, SplitParts, Typed, SideMoves
  <1>2. PICK m \in Updates(o), x \in Updates(s) :
                /\ ReceiveUpdateAccept(s, m) /\ m.n = num'[s] /\ m.st = states'[s][num'[s]]
                /\ x.n = num'[s] /\ x.st = states[o][num'[s]] /\ x.k = accepted[o]
    BY NewSplit
  <1>3. CASE s = Low
    <2>1. o = High /\ states'[High] = states[High]
      BY <1>1, <1>3, LowHigh DEF Step, Same
    <2>2. pending[Low] = None /\ status[Low] = "open" /\ status[Low] \in Live
      BY <1>2, <1>3, LowHigh DEF ReceiveUpdateAccept, Considered, Live
    <2>3. x.n = num[Low] + 1 /\ num[High] = x.n /\ x.n - 1 = num[Low] /\ ~(x.n <= num[Low])
      BY <1>1, <1>2, <1>3, <2>1
    <2>4. ~(num[High] < x.n) /\ num[High] + 1 # x.n
      BY <1>1, <2>1, <2>3
    <2>5. RejectIsFinal(x) => OwnFail(x)
      BY <1>1, <1>2, <1>3, <2>1, <2>3, <2>4 DEF RejectIsFinal
    <2>6. DeadlineAlt(x.n, x.st)
      BY <1>2, <1>3, <2>2, <2>3, <2>5, GoneAtDeadline
    <2> QED  BY <1>2, <2>1, <2>6
  <1>4. CASE s = High
    <2>1. o = Low
      BY <1>1, <1>4, LowHigh
    <2>2. status[High] = "open" /\ m.st \in NextStates(High, states[High][num[High]], m.upd, m.by) /\ m.by = Low
      BY <1>2, <1>4, <2>1 DEF ReceiveUpdateAccept, Considered, Verified, Current, Updates
    <2>3. m.n = num[Low] /\ m.n = num[High] + 1 /\ m.n - 1 = num[High] /\ ~(m.n <= num[High])
          /\ m.n # num[Low] + 1 /\ ~(m.n > num[Low]) /\ num[High] # m.n
      BY <1>1, <1>2, <1>4, <2>1
    <2>4. states[Low][m.n] # m.st
      BY <1>2, <1>4, <2>1
    <2>5. RejectIsFinal(m) => OwnFail(m)
      BY <1>1, <1>4, <2>1, <2>2, <2>3 DEF RejectIsFinal, Refused
    <2>6. DeadlineAlt(m.n, m.st)
      BY <2>1, <2>3, <2>4, <2>5, GoneAtDeadline
    <2> QED  BY <1>2, <1>4, <2>6
  <1> QED  BY <1>3, <1>4, LowHigh

LEMMA SettledStep ==
    ASSUME SplitInv, HashesBy["A"] \cap HashesBy["B"] = {}, NEW s \in Sides, SideStep(s)
    PROVE  Settled'
  <1> DEFINE o == Other(s)
  <1>1. /\ IInv /\ TypeOK /\ Step(s) /\ Acts(s) /\ Low \in Sides /\ High \in Sides /\ net \subseteq net'
        /\ Proposed(Low) /\ Proposed(Low)' /\ Settled /\ made[Low] \in Nat /\ o \in Sides /\ Other(o) = s
        /\ Other(Low) = High /\ High # Low
    BY SplitParts, SideMoves, SideActs, LowHigh, ProposedOwn, ProposedOther, TwoSides
       DEF Step, SplitInv, TypeOK
  <1>2. ASSUME NEW m \in Updates(Low)' PROVE Accounted(m)' /\ (RejectedBy(High, m)' => RejectIsFinal(m)')
    <2>1. CASE m \in Updates(Low)
      <3>1. Accounted(m)'
        BY <2>1, AccountedStep
      <3>2. ASSUME NEW r \in net', r.t = "reject", r.by = High, r.n = m.n, r.k = m.k
            PROVE  RejectIsFinal(m)
        <4>1. CASE r \in net
          BY <1>1, <2>1, <3>2, <4>1 DEF Settled, RejectedBy
        <4>2. ASSUME NEW x \in Updates(o), ReceiveUpdateReject(s, x),
                     r = [t |-> "reject", by |-> s, n |-> x.n, k |-> x.k]
              PROVE  RejectIsFinal(m)
          <5>1. s = High /\ o = Low /\ x.k = m.k
            BY <3>2, <4>2, LowHigh
          <5>2. x = m
            BY <1>1, <2>1, <4>2, <5>1 DEF Proposed
          <5> QED  BY <2>1, <4>2, <5>1, <5>2, RejectsFinally
        <4> QED  BY <1>1, <3>2, <4>1, <4>2, NewReject
      <3>3. RejectedBy(High, m)' => RejectIsFinal(m)
        BY <3>2 DEF RejectedBy, High
      <3>4. RejectIsFinal(m) => RejectIsFinal(m)'
        BY <2>1, RejectFinalStep
      <3> QED  BY <3>1, <3>3, <3>4
    <2>2. CASE m \notin Updates(Low)
      <3>1. Low = s
        BY <1>1, <1>2, <2>2, NewUpdate
      <3>2. PICK upd \in Asked(s) : /\ Propose(s, upd)
                                    /\ \E st \in NextStates(s, Current(s), upd, s) : m = Adds(s, upd, st)
        BY <1>1, <1>2, <2>2, NewUpdate
      <3>3. m.k = made[Low] + 1
        BY <3>1, <3>2 DEF Adds
      <3>4. pending'[Low].k = made[Low] + 1 /\ pending'[Low] # None
        <4>1. /\ pending'[Low] = [n |-> num[Low] + 1, upd |-> upd, k |-> made[Low] + 1]
              /\ upd \in Update /\ num[Low] + 1 \in Numbers
          BY <1>1, <3>1, <3>2, ProposeAdds
        <4>2. pending'[Low] \in [n : Numbers, upd : Update, k : Nat]
          BY <1>1, <4>1
        <4> QED  BY <4>1, <4>2, NoneAssumption
      <3>5. Accounted(m)'
        BY <3>3, <3>4 DEF Accounted, Low
      <3>6. ASSUME NEW r \in net', r.t = "reject", r.by = High, r.k = m.k PROVE FALSE
        <4>1. r \in net
          BY <1>1, <3>1, <3>6, NewReject
        <4>2. r.k <= made[Low]
          BY <1>1, <3>6, <4>1 DEF Proposed
        <4> QED  BY <1>1, <3>3, <3>6, <4>2
      <3> QED  BY <3>5, <3>6 DEF RejectedBy, High
    <2> QED  BY <2>1, <2>2
  <1>3. ASSUME NEW n \in Numbers, n <= num'[Low], n <= num'[High], states'[Low][n] # states'[High][n]
        PROVE  DeadlineAlt(n, states[High][n])'
    <2>1. \A q \in Sides : num[q] \in Nat /\ num'[q] \in Nat /\ num'[q] <= num[q] + 1 /\ num'[q] >= num[q]
                           /\ (n <= num[q] => states'[q][n] = states[q][n])
      BY <1>1, <1>3, Frozen
    <2>2. n \in Nat /\ num'[o] = num[o] /\ states'[o] = states[o]
      BY <1>1, <1>3 DEF Step, Same, Numbers
    <2>3. DeadlineAlt(n, states'[High][n])
      <3>1. CASE n <= num[Low] /\ n <= num[High]
        BY <1>1, <1>3, <2>1, <3>1 DEF Settled
      <3>2. CASE ~(n <= num[Low] /\ n <= num[High])
        <4>1. n <= num'[s] /\ n <= num[o] /\ ~(n <= num[s]) /\ states'[s][n] # states[o][n]
          BY <1>1, <1>3, <2>2, <3>2, LowHigh
        <4>2. num'[s] # num[s] /\ n = num'[s]
          BY <2>1, <2>2, <4>1
        <4> QED  BY <4>1, <4>2, SplitStep
      <3> QED  BY <3>1, <3>2
    <2>4. PICK a \in alts[Low] : a.n = n /\ a.st = states'[High][n] /\ AtDeadline(Low, a)
      BY <2>3 DEF DeadlineAlt
    <2>5. a \in alts'[Low] /\ AtDeadline(Low, a)'
      BY <1>3, <2>4, AltStays
    <2> QED  BY <2>4, <2>5 DEF DeadlineAlt, Low, High
  <1> QED  BY <1>2, <1>3 DEF Settled, Low, High
-----------------------------------------------------------------------------
(* The invariant. *)

LEMMA SplitInit == Init => SplitInv
  <1> SUFFICES ASSUME Init PROVE SplitInv
    OBVIOUS
  <1>1. IInv
    BY InitInv
  <1>2. /\ net = {} /\ 0 \in Numbers /\ Low \in Sides /\ High \in Sides
        /\ \A s \in Sides : /\ num[s] = 0 /\ states[s][0] = Opening /\ alts[s] = {}
                            /\ status[s] = "open" /\ Other(s) \in Sides
    BY NumberAssumption, TwoSides, LowHigh DEF Init, Numbers
  <1>3. \A k \in Numbers : k <= 0 => k = 0
    BY DEF Numbers
  <1>4. \A s \in Sides : Updates(s) = {}
    BY <1>2 DEF Updates
  <1>5. ASSUME NEW s \in Sides PROVE Proposed(s) /\ Computed(s) /\ AheadBy(s)
    <2>1. Proposed(s)
      BY <1>2, <1>4 DEF Proposed
    <2>2. Computed(s)
      BY <1>2, <1>3, OpeningSound DEF Computed, Distinct
    <2>3. AheadBy(s)
      BY <1>2 DEF AheadBy
    <2> QED  BY <2>1, <2>2, <2>3
  <1>6. Crossed /\ Settled
    BY <1>2, <1>3, <1>4 DEF Crossed, Settled, Sides
  <1> QED  BY <1>1, <1>5, <1>6 DEF SplitInv

\* Blocks that come, and a transaction that is confirmed, change no update's fate.
LEMMA SplitBlock ==
    ASSUME SplitInv, HashesBy["A"] \cap HashesBy["B"] = {}, IInv',
           UNCHANGED <<status, num, states, accepted, pending, awaiting, alts, seq, made, net>>,
           \A s \in Sides : view'[s] >= view[s] /\ view'[s] \in Nat
    PROVE  SplitInv'
  <1>0. Low \in Sides /\ High \in Sides /\ IInv
    BY LowHigh, SplitParts
  <1>1. ASSUME NEW s \in Sides PROVE Proposed(s)' /\ Computed(s)' /\ AheadBy(s)'
    <2>1. Proposed(s)'
      BY ProposedBlock
    <2>2. Computed(s)'
      BY SplitParts DEF Computed, Common
    <2>3. AheadBy(s)'
      BY SplitParts DEF AheadBy, Updates
    <2> QED  BY <2>1, <2>2, <2>3
  <1>2. Crossed'
    BY DEF SplitInv, Crossed
  <1>3. ASSUME NEW n, NEW st, DeadlineAlt(n, st) PROVE DeadlineAlt(n, st)'
    <2>1. PICK a \in alts[Low] : a.n = n /\ a.st = st /\ AtDeadline(Low, a)
      BY <1>3 DEF DeadlineAlt
    <2>2. AtDeadline(Low, a)'
      BY <1>0, <2>1, DeadlineStays
    <2> QED  BY <2>1, <2>2 DEF DeadlineAlt, Low
  <1>4. ASSUME NEW m \in Updates(Low) PROVE Accounted(m)' /\ (RejectedBy(High, m)' => RejectIsFinal(m)')
    <2>1. Accounted(m) /\ (RejectedBy(High, m) => RejectIsFinal(m))
      BY DEF SplitInv, Settled
    <2>2. DeadlineAlt(m.n, m.st) => DeadlineAlt(m.n, m.st)'
      BY <1>3
    <2>3. Accounted(m)'
      BY <2>1, <2>2 DEF Accounted, RejectedBy, Low, High
    <2>4. OwnFail(m) => OwnFail(m)'
      BY <1>0, OwnFailStays
    <2>5. m.n \in Nat /\ m.n <= num[Low] + 1 /\ num[High] \in Nat
      BY <1>0, UpdateMessage, Typed DEF IInv
    <2>6. num[High] + 1 = m.n => m.n <= num[High] + 1 /\ m.n - 1 = num[High]
      BY <2>5
    <2>7. ~OwnFail(m) /\ Refused(m) /\ states[Low][m.n - 1] = states[High][num[High]] => Refused(m)'
      BY <1>0, RefusalStays
    <2>8. RejectIsFinal(m) => RejectIsFinal(m)'
      BY <2>4, <2>5, <2>6, <2>7 DEF RejectIsFinal, Low, High
    <2> QED  BY <2>1, <2>3, <2>8 DEF RejectedBy, High
  <1>5. Settled'
    <2>1. Updates(Low)' = Updates(Low)
      BY DEF Updates, Low
    <2>2. ASSUME NEW n \in Numbers, n <= num[Low], n <= num[High], states[Low][n] # states[High][n]
          PROVE  DeadlineAlt(n, states[High][n])'
      <3>1. DeadlineAlt(n, states[High][n])
        BY <2>2 DEF SplitInv, Settled
      <3>2. PICK a \in alts[Low] : a.n = n /\ a.st = states[High][n] /\ AtDeadline(Low, a)
        BY <3>1 DEF DeadlineAlt
      <3>3. AtDeadline(Low, a)'
        BY <1>0, <3>2, DeadlineStays
      <3> QED  BY <3>2, <3>3 DEF DeadlineAlt, Low, High
    <2> QED  BY <1>4, <2>1, <2>2 DEF Settled, Low, High
  <1> QED  BY <1>1, <1>2, <1>5 DEF SplitInv

LEMMA SplitNext ==
    ASSUME SplitInv, HashesBy["A"] \cap HashesBy["B"] = {}, [Next]_vars
    PROVE  SplitInv'
  <1>1. IInv /\ IInv' /\ TypeOK
    BY NextInv DEF SplitInv, IInv
  <1>2. \A s \in Sides : view[s] \in Nat
    BY <1>1 DEF TypeOK
  <1>3. ASSUME NEW s \in Sides, SideStep(s) PROVE SplitInv'
    <2>1. Proposed(s)' /\ Computed(s)' /\ AheadBy(s)'
      BY <1>3, ProposedOwn, ComputedStep, AheadByOwn
    <2>2. Proposed(Other(s))' /\ Computed(Other(s))' /\ AheadBy(Other(s))'
      BY <1>3, ProposedOther, ComputedStep, AheadByOther, TwoSides
    <2>3. Crossed' /\ Settled'
      BY <1>3, CrossedStep, SettledStep
    <2>4. \A q \in Sides : q = s \/ q = Other(s)
      BY TwoSides
    <2>5. \A q \in Sides : (Proposed(q) /\ Computed(q) /\ AheadBy(q))'
      BY <1>3, <2>1, <2>2 DEF Sides, Other
    <2> QED  BY <1>1, <2>3, <2>5 DEF SplitInv
  <1>4. CASE NewBlock
    <2>1. PICK seen \in SUBSET Sides : view' = [s \in Sides |-> IF s \in seen THEN view[s] + 1 ELSE view[s]]
      BY <1>4 DEF NewBlock
    <2>2. \A s \in Sides : view'[s] >= view[s] /\ view'[s] \in Nat
      BY <1>2, <2>1
    <2> QED  BY <1>1, <1>4, <2>2, SplitBlock DEF NewBlock
  <1>5. ASSUME NEW tx \in sent, Confirm(tx) PROVE SplitInv'
    BY <1>1, <1>2, <1>5, SplitBlock DEF Confirm
  <1>6. CASE UNCHANGED vars
    BY <1>1, <1>2, <1>6, SplitBlock DEF vars
  <1> QED  BY <1>3, <1>4, <1>5, <1>6 DEF Next

\* Two different states of one number need an update that its proposer set aside at
\* a deadline (tick, or the fail of an expired HTLC) and the other side accepted all
\* the same, when the hosts offer HTLCs with different payment hashes.
THEOREM SplitsOnlyAtDeadline ==
    ASSUME HashesBy["A"] \cap HashesBy["B"] = {}
    PROVE  Spec => []SplitOnlyAtDeadline
  <1>1. Init => SplitInv
    BY SplitInit
  <1>2. SplitInv /\ [Next]_vars => SplitInv'
    BY SplitNext
  <1>3. SplitInv => SplitOnlyAtDeadline
    <2> SUFFICES ASSUME SplitInv, NEW n \in Numbers, n <= num["A"], n <= num["B"],
                        states["A"][n] # states["B"][n]
                 PROVE  \E s \in Sides : \E a \in alts[s] :
                            a.n = n /\ a.st = states[Other(s)][n] /\ AtDeadline(s, a)
      BY DEF SplitOnlyAtDeadline
    <2>1. n <= num[Low] /\ n <= num[High] /\ states[Low][n] # states[High][n] /\ Low \in Sides
          /\ Other(Low) = High
      BY LowHigh DEF Sides
    <2>2. DeadlineAlt(n, states[High][n])
      BY <2>1 DEF SplitInv, Settled
    <2> QED  BY <2>1, <2>2 DEF DeadlineAlt
  <1> QED  BY <1>1, <1>2, <1>3, PTL DEF Spec
=============================================================================
