-------------------------- MODULE HitchClose_proofs --------------------------
(***************************************************************************)
(* Proofs about a channel's close on the chain, for any channel, states,   *)
(* delays and bounds, through every reorganisation, death and failed read  *)
(* or save of the model.                                                   *)
(*                                                                         *)
(* A claim that the host has made is right for the output it takes         *)
(* (OwnClaim), which is a fact about scripts and holds for ever; the       *)
(* machine's status says which outputs of the close it has still to claim  *)
(* (Following a close, Settled or Punished).                               *)
(***************************************************************************)
EXTENDS HitchClose, TLAPS
-----------------------------------------------------------------------------
(* The inductive invariant. *)

Commitments == Candidates \cup {Mine}
Spends == Commitments \cup {Coop}

\* A claim of this host takes an output by a leaf that it can sign.
OwnClaim(t) ==
    /\ t = ClaimOn(t.on, t.v, t.path, Me) /\ t.on \in Commitments /\ t.v \in DOMAIN OutputsOf(t.on)
    /\ \/ t.path = "delayed" /\ t.v \in ToLocal(t.on) /\ t.on.owner = Me
       \/ t.path = "timeout" /\ t.v \in Htlcs(t.on) /\ OfferedByMe(t.on, t.v)
       \/ t.path = "success" /\ t.v \in Htlcs(t.on) /\ ~OfferedByMe(t.on, t.v)
       \/ t.path = "revocation" /\ t.v \in ToLocal(t.on) \cup Htlcs(t.on) /\ t.on.owner = Peer

\* What this host sends, and what anybody may have in a block.
OwnTx(t) == t \in {Mine, Coop} \/ OwnClaim(t)
AnyTx(t) == t \in Spends \/ (t.k = "claim" /\ t.on \in Commitments)

Before == {"open", "closing-asked", "closing", "force-closing"}
Published == {"closing", "force-closing"}

Claims(c, v) == \E r \in c.claims : r.tx.v = v
IsWorth(c, v) == Worth(OutputsOf(c)[v].value, sc.channel.fee)

\* The outputs of a close that are this host's to take.
Owed(c) == Htlcs(c) \cup IF c.owner = Me THEN ToLocal(c) ELSE {}

\* It has a claim, or was seen taken by the other side.
Covered(c, v) == Claims(c, v) \/ (v \in DOMAIN c.outs /\ c.outs[v] = "theirs")

\* Nothing is left for later.
Settled(c) == \A v \in Owed(c.spend.tx) : IsWorth(c.spend.tx, v) => Covered(c, v)
Punished(c) ==
    \A v \in Htlcs(c.spend.tx) \cup ToLocal(c.spend.tx) : IsWorth(c.spend.tx, v) => Claims(c, v)

\* Which statuses a spend leaves the machine in, and what they say of its claims.
SpendOK(c) ==
    \/ c.spend = NoSpend /\ c.claims = {} /\ c.status \in Before
    \/ c.spend.tx = Coop /\ c.status \in {"closed-coop", "closed"}
    \/ c.spend.tx \in Commitments /\ Revoked(c.spend.tx)
       /\ c.status \in {"punishing", "punished"} /\ Punished(c)
    \/ c.spend.tx \in Commitments /\ ~Revoked(c.spend.tx)
       /\ \/ c.status \in {"closed-mine", "closed-theirs", "closed-theirs-alt"}
          \/ c.status \in {"settling", "closed"} /\ Settled(c)

IsMachine(c) ==
    /\ c = [status |-> c.status, spend |-> c.spend, close |-> c.close, claims |-> c.claims,
            outs |-> c.outs, coop |-> c.coop, knows |-> c.knows]
    /\ c.spend = [tx |-> c.spend.tx, at |-> c.spend.at, previous |-> c.spend.previous]
    /\ c.close = [tx |-> c.close.tx, at |-> c.close.at]
    /\ c.outs = [v \in DOMAIN c.outs |-> c.outs[v]]
    /\ \A r \in c.claims : r = [tx |-> r.tx, at |-> r.at]

MachineOK(c) ==
    /\ IsMachine(c) /\ SpendOK(c)
    /\ c.close = NoClose \/ c.close.tx \in {Mine, Coop}
    /\ c.status \in Published \/ c.spend.previous \in Published => c.close # NoClose
    /\ c.spend.previous \in Before
    /\ \A r \in c.claims : OwnClaim(r.tx) /\ r.tx.on = c.spend.tx
-----------------------------------------------------------------------------
(* Outputs and claims. *)

LEMMA TwoSides ==
    ASSUME sc \in Scenarios
    PROVE  /\ Me \in Sides /\ Peer \in Sides /\ Me # Peer /\ OtherSide(Me) = Peer /\ OtherSide(Peer) = Me
           /\ Sides = {Me, Peer} /\ N \in Nat /\ sc.channel.delay \in Nat
  BY ScenarioAssumption DEF Me, Peer, OtherSide, Sides, N

LEMMA KeysDiffer == ChannelKey(Me) # ChannelKey(Peer)
  <1>1. <<"key", Me>> # <<"key", Peer>>
    BY DEF Me, Peer, OtherSide
  <1> QED  BY <1>1 DEF ChannelKey

\* A commitment is of a side, a number and an alternative.
LEMMA CommitmentFields ==
    ASSUME sc \in Scenarios, NEW c \in Commitments
    PROVE  /\ c = CommitmentOf(c.owner, c.n, c.alt) /\ c.owner \in Sides /\ c.n \in 0 .. N
           /\ c.k = "commitment" /\ c # Coop /\ c # None
           /\ c.owner = Me => c = Mine
           /\ Revoked(c) => c.owner = Peer
           /\ c \in Closes(sc) /\ IsState(StateOf(sc, c))
  <1>1. /\ Me \in Sides /\ Peer \in Sides /\ Me # Peer /\ N \in Nat /\ Len(sc.states) = N + 1
        /\ Len(sc.states) \in Nat
    BY TwoSides, ScenarioAssumption DEF N
  <1>2. \/ \E n \in 0 .. N : c = CommitmentOf(Peer, n, 0)
        \/ \E a \in DOMAIN sc.alternatives : c = CommitmentOf(Peer, N, a)
        \/ c = CommitmentOf(Me, N, 0)
    BY DEF Commitments, Candidates, Mine
  <1>3. PICK o \in Sides, n \in 0 .. N, a \in {0} \cup DOMAIN sc.alternatives :
            /\ c = CommitmentOf(o, n, a)
            /\ a # 0 => n = N
            /\ o = Me => a = 0 /\ n = N
    <2>0. N \in 0 .. N /\ 0 \in {0} \cup DOMAIN sc.alternatives
      BY <1>1
    <2>1. CASE \E n \in 0 .. N : c = CommitmentOf(Peer, n, 0)
      BY <1>1, <2>0, <2>1
    <2>2. CASE \E a \in DOMAIN sc.alternatives : c = CommitmentOf(Peer, N, a)
      BY <1>1, <2>0, <2>2
    <2>3. CASE c = CommitmentOf(Me, N, 0)
      BY <1>1, <2>0, <2>3
    <2> QED  BY <1>2, <2>1, <2>2, <2>3
  <1>4. /\ c.owner = o /\ c.n = n /\ c.alt = a /\ c.k = "commitment"
    BY <1>3 DEF CommitmentOf
  <1>5. c # Coop /\ c # None
    BY <1>4 DEF Coop, None
  <1>6. c.owner = Me => c = Mine
    BY <1>3, <1>4 DEF Mine
  <1>7. Revoked(c) => c.owner = Peer
    BY <1>1, <1>3, <1>4, TwoSides DEF Revoked
  <1>8. c \in Closes(sc)
    <2>1. N = Len(sc.states) - 1
      BY DEF N
    <2> QED  BY <1>3, <2>1 DEF Closes
  <1>9. IsState(StateOf(sc, c))
    <2>1. CASE a = 0
      <3>1. n + 1 \in 1 .. Len(sc.states)
        BY <1>1, <1>3
      <3> QED  BY <1>4, <2>1, <3>1, ScenarioAssumption DEF StateOf
    <2>2. CASE a # 0
      BY <1>3, <1>4, <2>2, ScenarioAssumption DEF StateOf
    <2> QED  BY <2>1, <2>2
  <1> QED  BY <1>3, <1>4, <1>5, <1>6, <1>7, <1>8, <1>9

Rev(c) == RevocationPub(Basepoint(OtherSide(c.owner)), PerState(c.owner, c.n))

\* The output of a commitment with a name.
Shape(c, v, o) ==
    \/ /\ v = <<"to_local", 0>> /\ o.kind = "to_local"
       /\ o.script = ToLocalScript(c.owner, Rev(c), sc.channel.delay)
    \/ o.kind = "to_remote" /\ o.script = ToRemoteScript(OtherSide(c.owner))
    \/ \E h \in StateOf(sc, c).htlcs :
        /\ v = <<"htlc", h.id>> /\ o.kind = "htlc" /\ o.id = h.id /\ o.from = h.from
        /\ o.script = HtlcScript(c.owner, Rev(c), sc.channel.delay, h.expiry, h.from = c.owner)
        /\ HtlcOf(c, v) = h

LEMMA ById ==
    ASSUME NEW st, NEW h \in st.htlcs
    PROVE  HtlcById(st, h.id) \in st.htlcs /\ HtlcById(st, h.id).id = h.id
  BY DEF HtlcById

LEMMA OutputFields ==
    ASSUME NEW kind, NEW value, NEW script, NEW id, NEW from
    PROVE  /\ Output(kind, value, script, id, from).kind = kind
           /\ Output(kind, value, script, id, from).script = script
           /\ Output(kind, value, script, id, from).id = id
           /\ Output(kind, value, script, id, from).from = from
  BY DEF Output

LEMMA OutputsAre ==
    ASSUME sc \in Scenarios, NEW c \in Commitments, NEW v \in DOMAIN OutputsOf(c)
    PROVE  Shape(c, v, OutputsOf(c)[v])
  <1> DEFINE st == StateOf(sc, c)
             ch == sc.channel
             C == Commitment(ch, c.n, c.owner, st)
             remote == OtherSide(c.owner)
             locked(h) == Output("htlc", h.amount,
                            HtlcScript(c.owner, Rev(c), ch.delay, h.expiry, h.from = c.owner), h.id, h.from)
             local == Output("to_local", PayoutAfterFee(st.bal[c.owner], c.owner, ch.fee),
                                             ToLocalScript(c.owner, Rev(c), ch.delay), 0, c.owner)
             far == Output("to_remote", PayoutAfterFee(st.bal[remote], remote, ch.fee),
                                              ToRemoteScript(remote), 0, remote)
             out(x) == CASE x[1] = "to_local" -> local [] x[1] = "to_remote" -> far
                         [] x[1] = "htlc" -> locked(HtlcById(st, x[2]))
             names == {<<"to_local", 0>>, <<"to_remote", 0>>} \cup {<<"htlc", h.id>> : h \in st.htlcs}
             all == [x \in names |-> out(x)]
  <1>1. c \in Closes(sc) /\ c # Coop
    BY CommitmentFields
  <1>2. OutputsOf(c) = C
    BY <1>1 DEF OutputsOf, Pays
  <1>3. C = IF CheckState(ch, st) THEN WithoutDust(all) ELSE <<>>
    BY DEF Commitment, Rev
  <1>4. C = WithoutDust(all)
    <2>1. DOMAIN <<>> = {}
      OBVIOUS
    <2> HIDE DEF C, all
    <2> QED  BY <1>2, <1>3, <2>1
  <1>5. v \in names /\ OutputsOf(c)[v] = out(v)
    <2>1. DOMAIN WithoutDust(all) \subseteq names
      BY DEF WithoutDust
    <2>2. v \in DOMAIN WithoutDust(all)
      BY <1>2, <1>4
    <2>3. WithoutDust(all)[v] = all[v]
      BY <2>2 DEF WithoutDust
    <2> HIDE DEF C, out
    <2> QED  BY <1>2, <1>4, <2>1, <2>2, <2>3
  <1>6. CASE v = <<"to_local", 0>>
    <2>1. OutputsOf(c)[v] = local
      BY <1>5, <1>6
    <2> QED  BY <1>6, <2>1, OutputFields DEF Shape
  <1>7. CASE v = <<"to_remote", 0>>
    <2>1. OutputsOf(c)[v] = far
      BY <1>5, <1>7
    <2> QED  BY <2>1, OutputFields DEF Shape
  <1>8. ASSUME NEW g \in st.htlcs, v = <<"htlc", g.id>>
        PROVE  Shape(c, v, OutputsOf(c)[v])
    <2> DEFINE h == HtlcById(st, g.id)
    <2>1. h \in st.htlcs /\ h.id = g.id
      BY ById
    <2>2. OutputsOf(c)[v] = locked(h)
      BY <1>5, <1>8
    <2>3. /\ locked(h).kind = "htlc" /\ locked(h).id = h.id /\ locked(h).from = h.from
          /\ locked(h).script = HtlcScript(c.owner, Rev(c), ch.delay, h.expiry, h.from = c.owner)
      BY OutputFields
    <2>4. HtlcOf(c, v) = h
      BY <2>1, <2>2, <2>3 DEF HtlcOf
    <2> HIDE DEF h, locked
    <2> QED  BY <1>8, <2>1, <2>2, <2>3, <2>4 DEF Shape
  <1> QED  BY <1>5, <1>6, <1>7, <1>8

\* Outputs that are told apart by their kinds.
LEMMA LocalIs ==
    ASSUME sc \in Scenarios, NEW c \in Commitments, NEW v \in ToLocal(c)
    PROVE  /\ v = <<"to_local", 0>> /\ OutputsOf(c)[v].kind = "to_local"
           /\ OutputsOf(c)[v].script = ToLocalScript(c.owner, Rev(c), sc.channel.delay)
  <1>1. v \in DOMAIN OutputsOf(c) /\ OutputsOf(c)[v].kind = "to_local"
    BY DEF ToLocal
  <1> QED  BY <1>1, OutputsAre DEF Shape

LEMMA HtlcIs ==
    ASSUME sc \in Scenarios, NEW c \in Commitments, NEW v \in Htlcs(c)
    PROVE  /\ OutputsOf(c)[v].kind = "htlc" /\ v = <<"htlc", OutputsOf(c)[v].id>>
           /\ HtlcOf(c, v) \in StateOf(sc, c).htlcs /\ HtlcOf(c, v).from = OutputsOf(c)[v].from
           /\ HtlcOf(c, v).from \in Sides /\ HtlcOf(c, v).expiry \in Nat
           /\ OutputsOf(c)[v].script = HtlcScript(c.owner, Rev(c), sc.channel.delay, HtlcOf(c, v).expiry,
                                                  HtlcOf(c, v).from = c.owner)
           /\ OfferedByMe(c, v) <=> HtlcOf(c, v).from = Me
  <1>1. v \in DOMAIN OutputsOf(c) /\ OutputsOf(c)[v].kind = "htlc"
    BY DEF Htlcs
  <1>2. IsState(StateOf(sc, c))
    BY CommitmentFields
  <1> QED  BY <1>1, <1>2, OutputsAre DEF Shape, IsState, OfferedByMe

\* The locks of a claim.
Locked(t, rel, lock) == TxOf(t).rel = rel /\ TxOf(t).lock = lock /\ rel \in Nat /\ lock \in Nat

LEMMA LeafFits ==
    ASSUME NEW tx, NEW out, NEW p \in DOMAIN out.script, tx.leaf = out.script[p],
           tx.sigs = tx.leaf.keys, tx.preimage = tx.leaf.preimage,
           tx.rel = tx.leaf.delay, tx.lock = tx.leaf.expiry, tx.rel \in Nat, tx.lock \in Nat
    PROVE  VerifyChannelInput(tx, out)
  <1>1. tx.leaf \in Leaves(out)
    BY DEF Leaves
  <1> QED  BY <1>1 DEF VerifyChannelInput, CheckLockTime, CheckSequence, CheckSignatures

LEMMA SweepIs ==
    ASSUME sc \in Scenarios, NEW t, OwnClaim(t), t.v \in ToLocal(t.on)
    PROVE  /\ VerifyChannelInput(TxOf(t), CoinOf(t)) /\ TxOf(t).preimage = FALSE
           /\ Locked(t, IF t.path = "delayed" THEN sc.channel.delay ELSE 0, 0)
  <1> DEFINE out == OutputsOf(t.on)[t.v]
             key == SigningKey(t)
  <1>1. t.k = "claim" /\ t.on \in Commitments /\ t.by = Me /\ t.on.owner \in Sides
    BY CommitmentFields DEF OwnClaim, ClaimOn
  <1>2. out.kind = "to_local" /\ out.script = ToLocalScript(t.on.owner, Rev(t.on), sc.channel.delay)
        /\ t.v = <<"to_local", 0>>
    BY <1>1, LocalIs
  <1>3. TxOf(t) = SweepToLocal(out, t.path, key, sc.channel.fee) /\ CoinOf(t) = out
    BY <1>1, <1>2 DEF TxOf, ClaimTx, ClaimOf, CoinOf
  <1>4. t.v \notin Htlcs(t.on)
    BY <1>2 DEF Htlcs
  <1>5. \/ t.path = "delayed" /\ t.on.owner = Me
        \/ t.path = "revocation" /\ t.on.owner = Peer
    BY <1>4 DEF OwnClaim
  <1>6. Me \in Sides /\ OtherSide(Peer) = Me /\ sc.channel.delay \in Nat
    BY TwoSides
  <1>7. key = IF t.path = "delayed" THEN ChannelKey(Me) ELSE Rev(t.on)
    BY <1>1, <1>5, <1>6 DEF SigningKey, Rev, RevocationKey, RevocationPub
  <1>8. /\ out.script["delayed"] = Leaf({ChannelKey(t.on.owner)}, FALSE, sc.channel.delay, 0)
        /\ out.script["revocation"] = Leaf({Rev(t.on)}, FALSE, 0, 0)
        /\ DOMAIN out.script = {"delayed", "revocation"}
    BY <1>2 DEF ToLocalScript
  <1>9. TxOf(t) = OneInputTx(out.script[t.path].delay, 0, out.script[t.path], key, FALSE,
                             ClaimValue(out.value, sc.channel.fee))
    BY <1>3 DEF SweepToLocal
  <1> HIDE DEF out, key
  <1> DEFINE value == ClaimValue(out.value, sc.channel.fee)
  <1>10. CASE t.path = "delayed"
    <2>1. out.script["delayed"].delay = sc.channel.delay
      BY <1>8 DEF Leaf
    <2>2. TxOf(t) = OneInputTx(sc.channel.delay, 0, out.script["delayed"], ChannelKey(Me), FALSE, value)
      BY <1>7, <1>9, <1>10, <2>1
    <2>3. out.script["delayed"] = Leaf({ChannelKey(Me)}, FALSE, sc.channel.delay, 0)
      BY <1>5, <1>8, <1>10
    <2>4. "delayed" \in DOMAIN out.script
      BY <1>8
    <2>5. /\ TxOf(t).leaf = out.script["delayed"] /\ TxOf(t).sigs = {ChannelKey(Me)}
          /\ TxOf(t).preimage = FALSE /\ TxOf(t).rel = sc.channel.delay /\ TxOf(t).lock = 0
      BY <2>2 DEF OneInputTx
    <2>6. /\ TxOf(t).leaf.keys = {ChannelKey(Me)} /\ TxOf(t).leaf.preimage = FALSE
          /\ TxOf(t).leaf.delay = sc.channel.delay /\ TxOf(t).leaf.expiry = 0
      BY <2>3, <2>5 DEF Leaf
    <2>7. /\ TxOf(t).sigs = TxOf(t).leaf.keys /\ TxOf(t).rel = TxOf(t).leaf.delay
          /\ TxOf(t).lock = TxOf(t).leaf.expiry /\ TxOf(t).rel \in Nat /\ TxOf(t).lock \in Nat
      BY <1>6, <2>5, <2>6
    <2>8. TxOf(t).preimage = TxOf(t).leaf.preimage
      BY <2>5, <2>6
    <2>9. VerifyChannelInput(TxOf(t), out)
      BY <2>4, <2>5, <2>7, <2>8, LeafFits
    <2> QED  BY <1>3, <1>6, <1>10, <2>5, <2>7, <2>9 DEF Locked
  <1>11. CASE t.path = "revocation"
    <2>1. out.script["revocation"].delay = 0
      BY <1>8 DEF Leaf
    <2>2. TxOf(t) = OneInputTx(0, 0, out.script["revocation"], Rev(t.on), FALSE, value)
      BY <1>7, <1>9, <1>11, <2>1
    <2>4. "revocation" \in DOMAIN out.script
      BY <1>8
    <2>5. /\ TxOf(t).leaf = out.script["revocation"] /\ TxOf(t).sigs = {Rev(t.on)}
          /\ TxOf(t).preimage = FALSE /\ TxOf(t).rel = 0 /\ TxOf(t).lock = 0
      BY <2>2 DEF OneInputTx
    <2>6. /\ TxOf(t).leaf.keys = {Rev(t.on)} /\ TxOf(t).leaf.preimage = FALSE
          /\ TxOf(t).leaf.delay = 0 /\ TxOf(t).leaf.expiry = 0
      BY <1>8, <2>5 DEF Leaf
    <2>7. /\ TxOf(t).sigs = TxOf(t).leaf.keys /\ TxOf(t).rel = TxOf(t).leaf.delay
          /\ TxOf(t).lock = TxOf(t).leaf.expiry /\ TxOf(t).rel \in Nat /\ TxOf(t).lock \in Nat
      BY <2>5, <2>6
    <2>8. TxOf(t).preimage = TxOf(t).leaf.preimage
      BY <2>5, <2>6
    <2>9. VerifyChannelInput(TxOf(t), out)
      BY <2>4, <2>5, <2>7, <2>8, LeafFits
    <2> QED  BY <1>3, <1>11, <2>5, <2>7, <2>9 DEF Locked
  <1> QED  BY <1>5, <1>10, <1>11

LEMMA HtlcClaimIs ==
    ASSUME sc \in Scenarios, NEW t, OwnClaim(t), t.v \in Htlcs(t.on)
    PROVE  /\ VerifyChannelInput(TxOf(t), CoinOf(t)) /\ TxOf(t).preimage = (t.path = "success")
           /\ Locked(t, IF t.path # "revocation" /\ t.on.owner = Me THEN sc.channel.delay ELSE 0,
                     IF t.path = "timeout" THEN HtlcOf(t.on, t.v).expiry ELSE 0)
  <1> DEFINE out == OutputsOf(t.on)[t.v]
             key == SigningKey(t)
             h == HtlcOf(t.on, t.v)
             o == t.on.owner
             d == sc.channel.delay
  <1>1. t.k = "claim" /\ t.on \in Commitments /\ t.by = Me /\ o \in Sides
    BY CommitmentFields DEF OwnClaim, ClaimOn
  <1>2. /\ out.kind = "htlc" /\ out.script = HtlcScript(o, Rev(t.on), d, h.expiry, h.from = o)
        /\ h.from \in Sides /\ h.expiry \in Nat /\ (OfferedByMe(t.on, t.v) <=> h.from = Me)
    BY <1>1, HtlcIs
  <1>3. TxOf(t) = ClaimHtlc(out, t.path, key, sc.channel.fee) /\ CoinOf(t) = out
    BY <1>1, <1>2 DEF TxOf, ClaimTx, ClaimOf, CoinOf
  <1>4. t.v \notin ToLocal(t.on)
    BY <1>2 DEF ToLocal
  <1>5. \/ t.path = "timeout" /\ h.from = Me
        \/ t.path = "success" /\ h.from # Me
        \/ t.path = "revocation" /\ o = Peer
    BY <1>2, <1>4 DEF OwnClaim
  <1>6. Me \in Sides /\ OtherSide(Peer) = Me /\ OtherSide(Me) = Peer /\ d \in Nat /\ Sides = {Me, Peer}
        /\ Me # Peer
    BY TwoSides
  <1>7. key = IF t.path = "revocation" THEN Rev(t.on) ELSE ChannelKey(Me)
    BY <1>1, <1>5, <1>6 DEF SigningKey, Rev, RevocationKey, RevocationPub
  <1>8. /\ out.script["success"] = IF h.from = o THEN Leaf({ChannelKey(OtherSide(o))}, TRUE, 0, 0)
                                   ELSE Leaf({ChannelKey(o)}, TRUE, d, 0)
        /\ out.script["timeout"] = IF h.from = o THEN Leaf({ChannelKey(o)}, FALSE, d, h.expiry)
                                   ELSE Leaf({ChannelKey(OtherSide(o))}, FALSE, 0, h.expiry)
        /\ out.script["revocation"] = Leaf({Rev(t.on)}, FALSE, 0, 0)
        /\ DOMAIN out.script = {"success", "timeout", "revocation"}
    BY <1>2 DEF HtlcScript
  <1>9. TxOf(t) = OneInputTx(IF t.path = "revocation" THEN 0 ELSE out.script[t.path].delay,
                             IF t.path = "timeout" THEN out.script[t.path].expiry ELSE 0,
                             out.script[t.path], key, t.path = "success",
                             ClaimValue(out.value, sc.channel.fee))
    BY <1>3 DEF ClaimHtlc
  <1> HIDE DEF out, key, h, o, d
  <1> DEFINE value == ClaimValue(out.value, sc.channel.fee)
             rel == IF o = Me THEN d ELSE 0
  <1>0. rel \in Nat
    BY <1>6
  <1>10. CASE t.path = "timeout"
    <2>1. out.script["timeout"] = Leaf({ChannelKey(Me)}, FALSE, rel, h.expiry)
      BY <1>1, <1>5, <1>6, <1>8, <1>10
    <2>2. out.script["timeout"].delay = rel /\ out.script["timeout"].expiry = h.expiry
      BY <2>1 DEF Leaf
    <2>3. TxOf(t) = OneInputTx(rel, h.expiry, out.script["timeout"], ChannelKey(Me), FALSE, value)
      BY <1>7, <1>9, <1>10, <2>2
    <2>4. "timeout" \in DOMAIN out.script
      BY <1>8
    <2> HIDE DEF value, rel
    <2>5. /\ TxOf(t).leaf = out.script["timeout"] /\ TxOf(t).sigs = {ChannelKey(Me)}
          /\ TxOf(t).preimage = FALSE /\ TxOf(t).rel = rel /\ TxOf(t).lock = h.expiry
      BY <2>3 DEF OneInputTx
    <2>6. /\ TxOf(t).leaf.keys = {ChannelKey(Me)} /\ TxOf(t).leaf.preimage = FALSE
          /\ TxOf(t).leaf.delay = rel /\ TxOf(t).leaf.expiry = h.expiry
      BY <2>1, <2>5 DEF Leaf
    <2>7. /\ TxOf(t).sigs = TxOf(t).leaf.keys /\ TxOf(t).rel = TxOf(t).leaf.delay
          /\ TxOf(t).lock = TxOf(t).leaf.expiry /\ TxOf(t).rel \in Nat /\ TxOf(t).lock \in Nat
      BY <1>0, <1>2, <2>5, <2>6
    <2>8. TxOf(t).preimage = TxOf(t).leaf.preimage
      BY <2>5, <2>6
    <2>9. VerifyChannelInput(TxOf(t), out)
      BY <2>4, <2>5, <2>7, <2>8, LeafFits
    <2>10. Locked(t, rel, h.expiry)
      BY <2>5, <2>7 DEF Locked
    <2> QED  BY <1>3, <1>10, <2>5, <2>9, <2>10 DEF rel, h, o, d
  <1>11. CASE t.path = "success"
    <2>1. out.script["success"] = Leaf({ChannelKey(Me)}, TRUE, rel, 0)
      BY <1>1, <1>2, <1>5, <1>6, <1>8, <1>11
    <2>2. out.script["success"].delay = rel
      BY <2>1 DEF Leaf
    <2>3. TxOf(t) = OneInputTx(rel, 0, out.script["success"], ChannelKey(Me), TRUE, value)
      BY <1>7, <1>9, <1>11, <2>2
    <2>4. "success" \in DOMAIN out.script
      BY <1>8
    <2> HIDE DEF value, rel
    <2>5. /\ TxOf(t).leaf = out.script["success"] /\ TxOf(t).sigs = {ChannelKey(Me)}
          /\ TxOf(t).preimage = TRUE /\ TxOf(t).rel = rel /\ TxOf(t).lock = 0
      BY <2>3 DEF OneInputTx
    <2>6. /\ TxOf(t).leaf.keys = {ChannelKey(Me)} /\ TxOf(t).leaf.preimage = TRUE
          /\ TxOf(t).leaf.delay = rel /\ TxOf(t).leaf.expiry = 0
      BY <2>1, <2>5 DEF Leaf
    <2>7. /\ TxOf(t).sigs = TxOf(t).leaf.keys /\ TxOf(t).rel = TxOf(t).leaf.delay
          /\ TxOf(t).lock = TxOf(t).leaf.expiry /\ TxOf(t).rel \in Nat /\ TxOf(t).lock \in Nat
      BY <1>0, <2>5, <2>6
    <2>8. TxOf(t).preimage = TxOf(t).leaf.preimage
      BY <2>5, <2>6
    <2>9. VerifyChannelInput(TxOf(t), out)
      BY <2>4, <2>5, <2>7, <2>8, LeafFits
    <2>10. Locked(t, rel, 0)
      BY <2>5, <2>7 DEF Locked
    <2> QED  BY <1>3, <1>11, <2>5, <2>9, <2>10 DEF rel, h, o, d
  <1>12. CASE t.path = "revocation"
    <2>1. TxOf(t) = OneInputTx(0, 0, out.script["revocation"], Rev(t.on), FALSE, value)
      BY <1>7, <1>9, <1>12
    <2>2. "revocation" \in DOMAIN out.script
      BY <1>8
    <2>5. /\ TxOf(t).leaf = out.script["revocation"] /\ TxOf(t).sigs = {Rev(t.on)}
          /\ TxOf(t).preimage = FALSE /\ TxOf(t).rel = 0 /\ TxOf(t).lock = 0
      BY <2>1 DEF OneInputTx
    <2>6. /\ TxOf(t).leaf.keys = {Rev(t.on)} /\ TxOf(t).leaf.preimage = FALSE
          /\ TxOf(t).leaf.delay = 0 /\ TxOf(t).leaf.expiry = 0
      BY <1>8, <2>5 DEF Leaf
    <2>7. /\ TxOf(t).sigs = TxOf(t).leaf.keys /\ TxOf(t).rel = TxOf(t).leaf.delay
          /\ TxOf(t).lock = TxOf(t).leaf.expiry /\ TxOf(t).rel \in Nat /\ TxOf(t).lock \in Nat
      BY <2>5, <2>6
    <2>8. TxOf(t).preimage = TxOf(t).leaf.preimage
      BY <2>5, <2>6
    <2>9. VerifyChannelInput(TxOf(t), out)
      BY <2>2, <2>5, <2>7, <2>8, LeafFits
    <2> QED  BY <1>3, <1>12, <2>5, <2>7, <2>9 DEF Locked
  <1> QED  BY <1>5, <1>10, <1>11, <1>12

IsChain(b) == \E S : b \in Seq(S)

LEMMA ChainIs ==
    ASSUME NEW b, IsChain(b)
    PROVE  Len(b) \in Nat /\ DOMAIN b = 1 .. Len(b)
  BY DEF IsChain

\* What is not premature may be in the next block, when its coin is in one.
LEMMA PostFits ==
    ASSUME sc \in Scenarios, NEW t, OwnTx(t), NEW b, IsChain(b), CoinExists(b, t),
           ~Premature(b, t, Height(b) + 1)
    PROVE  /\ VerifyChannelInput(TxOf(t), CoinOf(t))
           /\ MayBeIn(TxOf(t), Elem(CoinHeight(b, t), 0), Height(b) + 1)
  <1> DEFINE next == Height(b) + 1
             tx == TxOf(t)
  <1>0. Height(b) \in Nat /\ DOMAIN b = 1 .. Height(b)
    BY ChainIs DEF Height
  <1>1. CASE OwnClaim(t)
    <2>1. t.k = "claim" /\ t.on \in Commitments
      BY <1>1 DEF OwnClaim, ClaimOn
    <2>2. t.v \in ToLocal(t.on) \cup Htlcs(t.on)
      BY <1>1 DEF OwnClaim
    <2>3. VerifyChannelInput(tx, CoinOf(t)) /\ tx.rel \in Nat /\ tx.lock \in Nat
      BY <1>1, <2>2, SweepIs, HtlcClaimIs DEF Locked
    <2> DEFINE S == FindTx(b, t.on)
               h == CHOOSE x \in S : TRUE
    <2>4. S # {} /\ S \subseteq 1 .. Height(b)
      BY <1>0, <2>1 DEF CoinExists, FindTx
    <2>5. h \in 1 .. Height(b)
      BY <2>4
    <2>6. Elem(CoinHeight(b, t), 0) = h /\ Elem(CoinHeight(b, t), next) = h
      BY <2>1, <2>4 DEF Elem, CoinHeight
    <2>7. ~(EarliestHeight(tx, h) > next)
      BY <2>6 DEF Premature
    <2> HIDE DEF h, tx
    <2>8. MayBeIn(tx, h, next)
      BY <1>0, <2>3, <2>5, <2>7 DEF MayBeIn, EarliestHeight
    <2> QED  BY <2>3, <2>6, <2>8 DEF tx
  <1>2. CASE t \in {Mine, Coop}
    <2>1. t.k # "claim"
      BY <1>2 DEF Mine, CommitmentOf, Coop
    <2>2. tx = CloseTx /\ CoinOf(t) = Funding /\ CoinHeight(b, t) = {0}
      BY <2>1 DEF TxOf, CoinOf, CoinHeight
    <2>3. Elem({0}, 0) = 0
      BY DEF Elem
    <2>4. CloseTx.rel = 0 /\ CloseTx.lock = 0 /\ CloseTx.sigs = {ChannelKey(s) : s \in Sides}
          /\ CloseTx.preimage = FALSE /\ CloseTx.leaf = FundingScript["both"]
      BY DEF CloseTx
    <2>5. /\ FundingScript["both"] = Leaf({ChannelKey(s) : s \in Sides}, FALSE, 0, 0)
          /\ "both" \in DOMAIN Funding.script /\ Funding.script["both"] = FundingScript["both"]
      BY DEF FundingScript, Funding
    <2>6. /\ CloseTx.leaf.keys = {ChannelKey(s) : s \in Sides} /\ CloseTx.leaf.preimage = FALSE
          /\ CloseTx.leaf.delay = 0 /\ CloseTx.leaf.expiry = 0
      BY <2>4, <2>5 DEF Leaf
    <2>7. /\ CloseTx.sigs = CloseTx.leaf.keys /\ CloseTx.rel = CloseTx.leaf.delay
          /\ CloseTx.lock = CloseTx.leaf.expiry /\ CloseTx.rel \in Nat /\ CloseTx.lock \in Nat
      BY <2>4, <2>6
    <2>8. CloseTx.preimage = CloseTx.leaf.preimage
      BY <2>4, <2>6
    <2>9. VerifyChannelInput(CloseTx, Funding)
      BY <2>4, <2>5, <2>7, <2>8, LeafFits
    <2>10. MayBeIn(CloseTx, 0, next)
      BY <1>0, <2>4 DEF MayBeIn
    <2> QED  BY <2>2, <2>3, <2>9, <2>10
  <1> QED  BY <1>1, <1>2 DEF OwnTx
-----------------------------------------------------------------------------
(* The machine. *)

\* What looking at the outputs leaves of the machine.
Watches(c, d) ==
    /\ IsMachine(d)
    /\ d.spend = c.spend /\ d.close = c.close
    /\ \A r \in d.claims : \E q \in c.claims : r.tx = q.tx
    /\ \A q \in c.claims : \E r \in d.claims : r.tx = q.tx
    /\ \A v \in DOMAIN c.outs : v \in DOMAIN d.outs /\ (c.outs[v] # "open" => d.outs[v] = c.outs[v])
    /\ \/ d.status = c.status
       \/ c.status = "settling" /\ d.status = "closed"
       \/ c.status = "punishing" /\ d.status = "punished"
    /\ c.knows \subseteq d.knows
    /\ \A x \in d.knows : \/ x \in c.knows
                          \/ \E v \in Htlcs(c.spend.tx) : /\ OfferedByMe(c.spend.tx, v)
                                                          /\ x = HtlcOf(c.spend.tx, v).hash

LEMMA WatchOutputsDoes ==
    ASSUME NEW c, IsMachine(c), NEW b, NEW stale
    PROVE  /\ Watches(c, WatchOutputs(c, b, stale).m)
           /\ \A t \in WatchOutputs(c, b, stale).out : \E r \in c.claims : t = r.tx
  <1> DEFINE h == Height(b)
             asked == {v \in DOMAIN c.outs : c.outs[v] = "open"}
             seen == [v \in asked |-> Lookup(b, stale, c, v)]
             open == {v \in asked : seen[v] \in {"unknown", "unspent"}}
             again == {r \in c.claims : /\ r.tx.v \in open /\ seen[r.tx.v] = "unspent"
                                        /\ h - r.at > CLAIM_REBROADCAST}
             outs == [v \in DOMAIN c.outs |-> IF v \in asked \ open THEN seen[v] ELSE c.outs[v]]
             claims == {IF r \in again THEN [r EXCEPT !.at = h] ELSE r : r \in c.claims}
             learnt == {HtlcOf(c.spend.tx, v).hash :
                            v \in {w \in asked : seen[w] = "theirs" /\ PreimageIn(b, c, w)}}
             status == IF open # {} THEN c.status ELSE
                       CASE c.status = "settling" -> "closed" [] c.status = "punishing" -> "punished"
                         [] OTHER -> c.status
             W == WatchOutputs(c, b, stale)
             d == W.m
  <1>1. W = Result([c EXCEPT !.outs = outs, !.claims = claims, !.knows = c.knows \cup learnt,
                             !.status = status], {r.tx : r \in again})
    BY DEF WatchOutputs, IsMachine
  <1>2. d = [c EXCEPT !.outs = outs, !.claims = claims, !.knows = c.knows \cup learnt, !.status = status]
        /\ W.out = {r.tx : r \in again}
    <2> HIDE DEF W, outs, claims, learnt, status, again
    <2> QED  BY <1>1 DEF Result
  <1>3. /\ d.outs = outs /\ d.claims = claims /\ d.knows = c.knows \cup learnt /\ d.status = status
        /\ d.spend = c.spend /\ d.close = c.close
        /\ d = [status |-> d.status, spend |-> d.spend, close |-> d.close, claims |-> d.claims,
                outs |-> d.outs, coop |-> d.coop, knows |-> d.knows]
    <2> HIDE DEF W, outs, claims, learnt, status, again
    <2> QED  BY <1>2 DEF IsMachine
  <1> HIDE DEF W
  <1>4. ASSUME NEW r \in claims PROVE r = [tx |-> r.tx, at |-> r.at] /\ \E q \in c.claims : r.tx = q.tx
    <2>1. PICK q \in c.claims : r = IF q \in again THEN [q EXCEPT !.at = h] ELSE q
      BY <1>4
    <2>2. q = [tx |-> q.tx, at |-> q.at]
      BY DEF IsMachine
    <2> HIDE DEF again
    <2> QED  BY <2>1, <2>2
  <1>5. ASSUME NEW q \in c.claims PROVE \E r \in claims : r.tx = q.tx
    <2> DEFINE r == IF q \in again THEN [q EXCEPT !.at = h] ELSE q
    <2>1. r \in claims
      BY <1>5
    <2>2. q = [tx |-> q.tx, at |-> q.at]
      BY <1>5 DEF IsMachine
    <2>3. r.tx = q.tx
      BY <2>2
    <2> QED  BY <2>1, <2>3
  <1>6. ASSUME NEW v \in DOMAIN c.outs
        PROVE  v \in DOMAIN outs /\ (c.outs[v] # "open" => outs[v] = c.outs[v])
    BY <1>6
  <1>7. outs = [v \in DOMAIN outs |-> outs[v]]
    OBVIOUS
  <1>8. \/ status = c.status
        \/ c.status = "settling" /\ status = "closed"
        \/ c.status = "punishing" /\ status = "punished"
    <2> HIDE DEF open
    <2> QED  OBVIOUS
  <1>9. ASSUME NEW x \in learnt
        PROVE  \E v \in Htlcs(c.spend.tx) : /\ OfferedByMe(c.spend.tx, v)
                                            /\ x = HtlcOf(c.spend.tx, v).hash
    <2>1. PICK w \in asked : PreimageIn(b, c, w) /\ x = HtlcOf(c.spend.tx, w).hash
      BY <1>9
    <2> QED  BY <2>1 DEF PreimageIn
  <1>10. IsMachine(d)
    <2> HIDE DEF outs, claims, learnt, status, d
    <2> QED  BY <1>3, <1>4, <1>7 DEF IsMachine
  <1>11. \A t \in W.out : \E r \in c.claims : t = r.tx
    BY <1>2
  <1> HIDE DEF outs, claims, learnt, status, d
  <1>12. Watches(c, d)
    BY <1>3, <1>4, <1>5, <1>6, <1>8, <1>9, <1>10 DEF Watches
  <1> QED  BY <1>11, <1>12 DEF W, d

ClaimsAt(made, h) == {[tx |-> t, at |-> h] : t \in made}
Claimed(c, made, h, status) == [WithClaims(c, made, h) EXCEPT !.status = status]
Followed(c, vs) == [c EXCEPT !.outs = Follow(c.outs, vs)]

LEMMA WithClaimsDoes ==
    ASSUME NEW c, IsMachine(c), NEW made, NEW h, NEW status,
           NEW d, d = Claimed(c, made, h, status)
    PROVE  /\ IsMachine(d) /\ d.status = status /\ d.spend = c.spend /\ d.close = c.close
           /\ d.coop = c.coop /\ d.knows = c.knows
           /\ d.claims = c.claims \cup ClaimsAt(made, h)
           /\ DOMAIN c.outs \subseteq DOMAIN d.outs
           /\ \A v \in DOMAIN c.outs : d.outs[v] = c.outs[v]
  <1> DEFINE outs == Follow(c.outs, {t.v : t \in made})
             new == ClaimsAt(made, h)
             claims == c.claims \cup new
  <1>1. WithClaims(c, made, h) = [c EXCEPT !.claims = claims, !.outs = outs]
    BY DEF WithClaims, IsMachine, ClaimsAt
  <1>2. /\ outs = [v \in DOMAIN outs |-> outs[v]] /\ DOMAIN c.outs \subseteq DOMAIN outs
        /\ \A v \in DOMAIN c.outs : outs[v] = c.outs[v]
    BY DEF Follow
  <1>3. \A r \in claims : r = [tx |-> r.tx, at |-> r.at]
    BY DEF IsMachine, ClaimsAt
  <1> HIDE DEF outs, claims
  <1>4. /\ d.status = status /\ d.spend = c.spend /\ d.close = c.close /\ d.coop = c.coop
        /\ d.knows = c.knows /\ d.claims = claims /\ d.outs = outs
        /\ d = [status |-> status, spend |-> c.spend, close |-> c.close, claims |-> claims,
                outs |-> outs, coop |-> c.coop, knows |-> c.knows]
    BY <1>1 DEF IsMachine, Claimed
  <1>5. IsMachine(d)
    <2>1. /\ c.spend = [tx |-> c.spend.tx, at |-> c.spend.at, previous |-> c.spend.previous]
          /\ c.close = [tx |-> c.close.tx, at |-> c.close.at]
      BY DEF IsMachine
    <2>2. d = [status |-> d.status, spend |-> d.spend, close |-> d.close, claims |-> d.claims,
               outs |-> d.outs, coop |-> d.coop, knows |-> d.knows]
      BY <1>4
    <2>3. \A r \in d.claims : r = [tx |-> r.tx, at |-> r.at]
      BY <1>3, <1>4
    <2> QED  BY <1>2, <1>4, <2>1, <2>2, <2>3 DEF IsMachine
  <1> QED  BY <1>2, <1>4, <1>5 DEF claims

LEMMA FollowDoes ==
    ASSUME NEW c, IsMachine(c), NEW vs, NEW d, d = Followed(c, vs)
    PROVE  /\ IsMachine(d) /\ d.status = c.status /\ d.spend = c.spend /\ d.close = c.close
           /\ d.coop = c.coop /\ d.knows = c.knows /\ d.claims = c.claims
           /\ DOMAIN c.outs \subseteq DOMAIN d.outs
           /\ \A v \in DOMAIN c.outs : d.outs[v] = c.outs[v]
  <1> DEFINE outs == Follow(c.outs, vs)
  <1>2. /\ outs = [v \in DOMAIN outs |-> outs[v]] /\ DOMAIN c.outs \subseteq DOMAIN outs
        /\ \A v \in DOMAIN c.outs : outs[v] = c.outs[v]
    BY DEF Follow
  <1> HIDE DEF outs
  <1>4. /\ d.status = c.status /\ d.spend = c.spend /\ d.close = c.close /\ d.coop = c.coop
        /\ d.knows = c.knows /\ d.claims = c.claims /\ d.outs = outs
        /\ d = [status |-> c.status, spend |-> c.spend, close |-> c.close, claims |-> c.claims,
                outs |-> outs, coop |-> c.coop, knows |-> c.knows]
    BY DEF IsMachine, outs, Followed
  <1>5. IsMachine(d)
    BY <1>2, <1>4 DEF IsMachine
  <1> QED  BY <1>2, <1>4, <1>5

\* The claims of a machine are the host's, on the close it follows.
ClaimsOK(c) == \A r \in c.claims : OwnClaim(r.tx) /\ r.tx.on = c.spend.tx

\* A preimage that was learnt is of an HTLC this host offered.
Learns(c, d) ==
    \A x \in d.knows : \/ x \in c.knows
                       \/ \E v \in Htlcs(c.spend.tx) : /\ OfferedByMe(c.spend.tx, v)
                                                       /\ x = HtlcOf(c.spend.tx, v).hash

\* d is c after more claims or another look.
Grows(c, d) ==
    /\ IsMachine(d) /\ d.spend = c.spend /\ d.close = c.close /\ ClaimsOK(d)
    /\ \A v : Covered(c, v) => Covered(d, v)
    /\ \A v : Claims(c, v) => Claims(d, v)
    /\ Learns(c, d)

LEMMA WatchGrows ==
    ASSUME NEW c, IsMachine(c), ClaimsOK(c), NEW b, NEW stale
    PROVE  /\ Grows(c, WatchOutputs(c, b, stale).m)
           /\ \A t \in WatchOutputs(c, b, stale).out : OwnClaim(t)
           /\ \/ WatchOutputs(c, b, stale).m.status = c.status
              \/ c.status = "settling" /\ WatchOutputs(c, b, stale).m.status = "closed"
              \/ c.status = "punishing" /\ WatchOutputs(c, b, stale).m.status = "punished"
  <1> DEFINE W == WatchOutputs(c, b, stale)
             d == W.m
  <1>1. Watches(c, d) /\ \A t \in W.out : \E r \in c.claims : t = r.tx
    BY WatchOutputsDoes
  <1> HIDE DEF W, d
  <1>2. ClaimsOK(d)
    BY <1>1 DEF Watches, ClaimsOK
  <1>3. ASSUME NEW v, Claims(c, v) PROVE Claims(d, v)
    <2>1. PICK q \in c.claims : q.tx.v = v
      BY <1>3 DEF Claims
    <2>2. PICK r \in d.claims : r.tx = q.tx
      BY <1>1, <2>1 DEF Watches
    <2> QED  BY <2>1, <2>2 DEF Claims
  <1>4. ASSUME NEW v, v \in DOMAIN c.outs, c.outs[v] = "theirs"
        PROVE  v \in DOMAIN d.outs /\ d.outs[v] = "theirs"
    BY <1>1, <1>4 DEF Watches
  <1>5. \A v : Covered(c, v) => Covered(d, v)
    BY <1>3, <1>4 DEF Covered
  <1>6. Learns(c, d)
    BY <1>1 DEF Watches, Learns
  <1>7. IsMachine(d) /\ d.spend = c.spend /\ d.close = c.close
    BY <1>1 DEF Watches
  <1>8. Grows(c, d)
    BY <1>2, <1>3, <1>5, <1>6, <1>7 DEF Grows
  <1>9. \A t \in W.out : OwnClaim(t)
    BY <1>1 DEF ClaimsOK
  <1>10. \/ d.status = c.status
         \/ c.status = "settling" /\ d.status = "closed"
         \/ c.status = "punishing" /\ d.status = "punished"
    BY <1>1 DEF Watches
  <1> QED  BY <1>8, <1>9, <1>10 DEF W, d

LEMMA ClaimingGrows ==
    ASSUME NEW c, IsMachine(c), ClaimsOK(c), NEW b, NEW stale, NEW made, NEW status,
           \A t \in made : OwnClaim(t) /\ t.on = c.spend.tx
    PROVE  /\ Grows(c, Claiming(c, b, stale, made, status).m)
           /\ \A t \in Claiming(c, b, stale, made, status).out : OwnClaim(t)
           /\ \A t \in made : Claims(Claiming(c, b, stale, made, status).m, t.v)
           /\ \/ Claiming(c, b, stale, made, status).m.status = status
              \/ status = "settling" /\ Claiming(c, b, stale, made, status).m.status = "closed"
              \/ status = "punishing" /\ Claiming(c, b, stale, made, status).m.status = "punished"
  <1>0. PICK h, d : h = Height(b) /\ d = Claimed(c, made, h, status)
    OBVIOUS
  <1> DEFINE W == WatchOutputs(d, b, stale)
  <1>1. Claiming(c, b, stale, made, status).m = W.m
        /\ Claiming(c, b, stale, made, status).out = made \cup W.out
    BY <1>0 DEF Claiming, Claimed, Also, Result
  <1>2. /\ IsMachine(d) /\ d.status = status /\ d.spend = c.spend /\ d.close = c.close
        /\ d.knows = c.knows
        /\ d.claims = c.claims \cup ClaimsAt(made, h)
        /\ DOMAIN c.outs \subseteq DOMAIN d.outs
        /\ \A v \in DOMAIN c.outs : d.outs[v] = c.outs[v]
    BY <1>0, WithClaimsDoes
  <1>3. ASSUME NEW r \in d.claims PROVE OwnClaim(r.tx) /\ r.tx.on = d.spend.tx
    BY <1>2 DEF ClaimsOK, ClaimsAt
  <1>4. ClaimsOK(d)
    BY <1>3 DEF ClaimsOK
  <1>5. /\ Grows(d, W.m) /\ \A t \in W.out : OwnClaim(t)
        /\ \/ W.m.status = d.status
           \/ d.status = "settling" /\ W.m.status = "closed"
           \/ d.status = "punishing" /\ W.m.status = "punished"
    BY <1>2, <1>4, WatchGrows
  <1>6. \A t \in made : Claims(d, t.v)
    <2> TAKE t \in made
    <2>1. [tx |-> t, at |-> h] \in d.claims
      BY <1>2 DEF ClaimsAt
    <2> QED  BY <2>1 DEF Claims
  <1>7. \A v : Claims(c, v) => Claims(d, v)
    BY <1>2 DEF Claims
  <1>8. \A v : Covered(c, v) => Covered(d, v)
    BY <1>2, <1>7 DEF Covered
  <1> HIDE DEF W
  <1>9. Grows(c, W.m)
    BY <1>2, <1>5, <1>7, <1>8 DEF Grows, Learns
  <1>10. \A t \in made : Claims(W.m, t.v)
    BY <1>5, <1>6 DEF Grows
  <1> QED  BY <1>1, <1>2, <1>5, <1>9, <1>10

\* An output that this host cannot take yet.
Early(c, b) == c.spend.tx.owner = Me /\ Confirmations(b, c.spend.at) < sc.channel.delay
Later(c, b, v) ==
    \/ Early(c, b)
    \/ /\ v \in Htlcs(c.spend.tx)
       /\ IF OfferedByMe(c.spend.tx, v) THEN ~(Height(b) >= HtlcOf(c.spend.tx, v).expiry)
          ELSE HtlcOf(c.spend.tx, v).hash \notin c.knows

LEMMA ReadyIs ==
    ASSUME sc \in Scenarios, NEW c, c.spend.tx \in Commitments, NEW b
    PROVE  /\ \A t \in Ready(c, b).now : OwnClaim(t) /\ t.on = c.spend.tx /\ t.path # "revocation"
           /\ \A v \in Owed(c.spend.tx) :
                 \/ v \in DOMAIN c.outs /\ c.outs[v] = "theirs"
                 \/ v \in Ready(c, b).left
                 \/ \E t \in Ready(c, b).now : t.v = v
           /\ \A v \in Ready(c, b).left : Later(c, b, v)
  <1> DEFINE close == c.spend.tx
             local == IF close.owner = Me THEN ToLocal(close) ELSE {}
             untaken == {v \in Htlcs(close) : v \in DOMAIN c.outs => c.outs[v] # "theirs"}
             early == close.owner = Me /\ Confirmations(b, c.spend.at) < sc.channel.delay
             ripe(v) == IF OfferedByMe(close, v) THEN Height(b) >= HtlcOf(close, v).expiry
                        ELSE HtlcOf(close, v).hash \in c.knows
             ready == {v \in untaken : ripe(v)}
             path(v) == IF OfferedByMe(close, v) THEN "timeout" ELSE "success"
             now == IF early THEN {} ELSE {ClaimOn(close, v, "delayed", Me) : v \in local}
                                          \cup {ClaimOn(close, v, path(v), Me) : v \in ready}
             left == IF early THEN local \cup untaken ELSE untaken \ ready
  <1>1. Ready(c, b) = [now |-> now, left |-> left]
    BY DEF Ready, Sorted
  <1>2. Ready(c, b).now = now /\ Ready(c, b).left = left
    <2> HIDE DEF now, left
    <2> QED  BY <1>1
  <1>3. Htlcs(close) \subseteq DOMAIN OutputsOf(close) /\ ToLocal(close) \subseteq DOMAIN OutputsOf(close)
    BY DEF Htlcs, ToLocal
  <1> HIDE DEF close
  <1>4. ASSUME NEW v \in local
        PROVE  OwnClaim(ClaimOn(close, v, "delayed", Me))
    BY <1>3, <1>4 DEF OwnClaim, ClaimOn, close
  <1>5. ASSUME NEW v \in ready
        PROVE  OwnClaim(ClaimOn(close, v, path(v), Me))
    <2>1. v \in Htlcs(close)
      BY <1>5
    <2>2. CASE OfferedByMe(close, v)
      BY <1>3, <2>1, <2>2 DEF OwnClaim, ClaimOn, close
    <2>3. CASE ~OfferedByMe(close, v)
      BY <1>3, <2>1, <2>3 DEF OwnClaim, ClaimOn, close
    <2> QED  BY <2>2, <2>3
  <1>6. ASSUME NEW t \in now PROVE OwnClaim(t) /\ t.on = close /\ t.path # "revocation"
    <2>1. \/ \E v \in local : t = ClaimOn(close, v, "delayed", Me)
          \/ \E v \in ready : t = ClaimOn(close, v, path(v), Me)
      <3> HIDE DEF local, ready, path
      <3> QED  BY <1>6
    <2>2. ASSUME NEW v \in local, t = ClaimOn(close, v, "delayed", Me) PROVE OwnClaim(t) /\ t.on = close /\ t.path # "revocation"
      BY <1>4, <2>2 DEF ClaimOn
    <2>3. ASSUME NEW v \in ready, t = ClaimOn(close, v, path(v), Me) PROVE OwnClaim(t) /\ t.on = close /\ t.path # "revocation"
      <3>1. t.on = close /\ t.path = path(v)
        BY <2>3 DEF ClaimOn
      <3> QED  BY <1>5, <2>3, <3>1
    <2> QED  BY <2>1, <2>2, <2>3
  <1>7. ASSUME NEW v \in Owed(close), ~(v \in DOMAIN c.outs /\ c.outs[v] = "theirs")
        PROVE  v \in left \/ \E t \in now : t.v = v
    <2>1. v \in local \/ v \in untaken
      BY <1>7 DEF Owed
    <2>2. CASE early
      BY <2>1, <2>2
    <2>3. CASE ~early /\ v \in local
      <3>1. ClaimOn(close, v, "delayed", Me) \in now
        BY <2>3
      <3>2. ClaimOn(close, v, "delayed", Me).v = v
        BY DEF ClaimOn
      <3> QED  BY <3>1, <3>2
    <2>4. CASE ~early /\ v \in untaken /\ v \in ready
      <3>1. ClaimOn(close, v, path(v), Me) \in now
        BY <2>4
      <3>2. ClaimOn(close, v, path(v), Me).v = v
        BY DEF ClaimOn
      <3> QED  BY <3>1, <3>2
    <2>5. CASE ~early /\ v \in untaken /\ v \notin ready
      BY <2>5
    <2> QED  BY <2>1, <2>2, <2>3, <2>4, <2>5
  <1>8. ASSUME NEW v \in left PROVE Later(c, b, v)
    <2>1. CASE early
      BY <2>1 DEF Later, Early, close
    <2>2. CASE ~early
      <3>1. v \in Htlcs(close) /\ ~ripe(v)
        BY <1>8, <2>2
      <3> QED  BY <3>1 DEF Later, close
    <2> QED  BY <2>1, <2>2
  <1> HIDE DEF now, left
  <1> QED  BY <1>2, <1>6, <1>7, <1>8 DEF close

\* Two claims of one kind on one close take one output.
LEMMA SameKind ==
    ASSUME sc \in Scenarios, NEW t, NEW u, OwnClaim(t), OwnClaim(u), t.on = u.on,
           t.path # "revocation", Kind(t) = Kind(u)
    PROVE  t.v = u.v
  <1>1. t.path = u.path /\ OutputsOf(t.on)[t.v].id = OutputsOf(u.on)[u.v].id
    BY DEF Kind
  <1>2. t.on \in Commitments
    BY DEF OwnClaim
  <1>3. CASE t.path = "delayed"
    <2>1. t.v \in ToLocal(t.on) /\ u.v \in ToLocal(t.on)
      BY <1>1, <1>3 DEF OwnClaim
    <2> QED  BY <1>2, <2>1, LocalIs
  <1>4. CASE t.path \in {"timeout", "success"}
    <2>1. t.v \in Htlcs(t.on) /\ u.v \in Htlcs(t.on)
      BY <1>1, <1>4 DEF OwnClaim
    <2>2. t.v = <<"htlc", OutputsOf(t.on)[t.v].id>> /\ u.v = <<"htlc", OutputsOf(t.on)[u.v].id>>
      BY <1>2, <2>1, HtlcIs
    <2> QED  BY <1>1, <2>2
  <1> QED  BY <1>3, <1>4 DEF OwnClaim

\* Every output of the close that is this host's to take is covered, or is for later.
Prompt(c, b) ==
    \A v \in Owed(c.spend.tx) : IsWorth(c.spend.tx, v) => Covered(c, v) \/ Later(c, b, v)

LEMMA LaterGrows ==
    ASSUME sc \in Scenarios, NEW c, c.spend.tx \in Commitments, NEW d, d.spend = c.spend, Learns(c, d),
           NEW b, NEW v, Later(c, b, v)
    PROVE  Later(d, b, v)
  <1> DEFINE close == c.spend.tx
             g(w) == HtlcOf(close, w)
  <1>1. CASE Early(c, b)
    BY <1>1 DEF Early, Later
  <1>2. CASE v \in Htlcs(close) /\ OfferedByMe(close, v)
    BY <1>2 DEF Later, Early
  <1>3. CASE v \in Htlcs(close) /\ ~OfferedByMe(close, v) /\ g(v).hash \notin c.knows
    <2>1. ASSUME g(v).hash \in d.knows PROVE FALSE
      <3>1. PICK w \in Htlcs(close) : OfferedByMe(close, w) /\ g(v).hash = g(w).hash
        BY <1>3, <2>1 DEF Learns
      <3>2. /\ g(v) \in StateOf(sc, close).htlcs /\ (OfferedByMe(close, v) <=> g(v).from = Me)
            /\ g(w) \in StateOf(sc, close).htlcs /\ (OfferedByMe(close, w) <=> g(w).from = Me)
        BY <1>3, <3>1, HtlcIs
      <3>3. IsState(StateOf(sc, close))
        BY CommitmentFields
      <3>4. g(v) = g(w)
        <4> HIDE DEF g
        <4> QED  BY <3>1, <3>2, <3>3 DEF IsState
      <3> QED  BY <1>3, <3>1, <3>2, <3>4
    <2> QED  BY <1>3, <2>1 DEF Later
  <1> QED  BY <1>1, <1>2, <1>3 DEF Later

LEMMA ClaimReadyDoes ==
    ASSUME sc \in Scenarios, NEW c, IsMachine(c), ClaimsOK(c), c.spend.tx \in Commitments,
           c.status \in {"closed-mine", "closed-theirs", "closed-theirs-alt"}, NEW b, NEW stale,
           NEW r, r = ClaimReady(Followed(c, Htlcs(c.spend.tx)), b, stale, Ready(c, b))
    PROVE  /\ Grows(c, r.m) /\ Prompt(r.m, b) /\ \A t \in r.out : OwnClaim(t)
           /\ \/ r.m.status = c.status
              \/ r.m.status \in {"settling", "closed"} /\ Settled(r.m)
  <1> DEFINE R == Ready(c, b)
             close == c.spend.tx
  <1>0. PICK d : d = Followed(c, Htlcs(c.spend.tx))
    OBVIOUS
  <1>1. /\ IsMachine(d) /\ d.status = c.status /\ d.spend = c.spend /\ d.close = c.close
        /\ d.knows = c.knows /\ d.claims = c.claims /\ DOMAIN c.outs \subseteq DOMAIN d.outs
        /\ \A v \in DOMAIN c.outs : d.outs[v] = c.outs[v]
    BY <1>0, FollowDoes
  <1>2. PICK made, status : /\ made = RecordClaim(d, R.now, Height(b))
                            /\ status = IF R.left = {} THEN "settling" ELSE c.status
    OBVIOUS
  <1>3. r = Claiming(d, b, stale, made, status)
    BY <1>0, <1>1, <1>2 DEF ClaimReady
  <1>4. /\ \A t \in R.now : OwnClaim(t) /\ t.on = close /\ t.path # "revocation"
        /\ \A v \in Owed(close) : \/ v \in DOMAIN c.outs /\ c.outs[v] = "theirs"
                                  \/ v \in R.left
                                  \/ \E t \in R.now : t.v = v
        /\ \A v \in R.left : Later(c, b, v)
    BY ReadyIs
  <1> HIDE DEF R
  <1>5. ClaimsOK(d)
    BY <1>1 DEF ClaimsOK
  <1>6. \A t \in made : OwnClaim(t) /\ t.on = d.spend.tx
    BY <1>1, <1>2, <1>4 DEF RecordClaim
  <1>7. Grows(d, r.m) /\ \A t \in r.out : OwnClaim(t)
    BY <1>1, <1>3, <1>5, <1>6, ClaimingGrows
  <1>7a. \A t \in made : Claims(r.m, t.v)
    BY <1>1, <1>3, <1>5, <1>6, ClaimingGrows
  <1>8. \/ r.m.status = status
        \/ status = "settling" /\ r.m.status = "closed"
        \/ status = "punishing" /\ r.m.status = "punished"
    BY <1>1, <1>3, <1>5, <1>6, ClaimingGrows
  <1>9. Grows(c, r.m)
    <2>1. \A v : Claims(c, v) => Claims(d, v)
      BY <1>1 DEF Claims
    <2>2. \A v : Covered(c, v) => Covered(d, v)
      BY <1>1, <2>1 DEF Covered
    <2>3. Learns(c, r.m)
      BY <1>1, <1>7 DEF Grows, Learns
    <2> QED  BY <1>1, <1>7, <2>1, <2>2, <2>3 DEF Grows
  <1>10. ASSUME NEW t \in R.now, IsWorth(close, t.v) PROVE Claims(r.m, t.v)
    <2>1. CASE t \in made
      BY <1>7a, <2>1
    <2>2. CASE t \notin made
      <3>1. PICK q \in c.claims : Kind(q.tx) = Kind(t)
        BY <1>1, <1>2, <1>4, <1>10, <2>2 DEF RecordClaim, IsWorth
      <3>2. OwnClaim(q.tx) /\ q.tx.on = close
        BY <3>1 DEF ClaimsOK
      <3>3. q.tx.v = t.v
        BY <1>4, <3>1, <3>2, SameKind
      <3>4. Claims(c, t.v)
        BY <3>1, <3>3 DEF Claims
      <3> QED  BY <1>9, <3>4 DEF Grows
    <2> QED  BY <2>1, <2>2
  <1>11. ASSUME NEW v \in Owed(close), IsWorth(close, v) PROVE Covered(r.m, v) \/ v \in R.left
    <2>1. CASE v \in DOMAIN c.outs /\ c.outs[v] = "theirs"
      <3>1. Covered(c, v)
        BY <2>1 DEF Covered
      <3> QED  BY <1>9, <3>1 DEF Grows
    <2>2. ASSUME NEW t \in R.now, t.v = v PROVE Covered(r.m, v)
      BY <1>10, <1>11, <2>2 DEF Covered
    <2> QED  BY <1>4, <1>11, <2>1, <2>2
  <1>12. r.m.spend = c.spend /\ Learns(c, r.m)
    BY <1>9 DEF Grows
  <1>13. Prompt(r.m, b)
    <2>1. \A v \in R.left : Later(r.m, b, v)
      BY <1>4, <1>12, LaterGrows
    <2> QED  BY <1>11, <1>12, <2>1 DEF Prompt
  <1>14. CASE R.left = {}
    <2>1. Settled(r.m)
      BY <1>11, <1>12, <1>14 DEF Settled
    <2>2. r.m.status \in {"settling", "closed"}
      BY <1>2, <1>8, <1>14
    <2> QED  BY <1>7, <1>9, <1>13, <2>1, <2>2
  <1>15. CASE R.left # {}
    <2>1. \/ r.m.status = c.status
          \/ c.status = "settling" /\ r.m.status = "closed"
          \/ c.status = "punishing" /\ r.m.status = "punished"
      BY <1>2, <1>8, <1>15
    <2> QED  BY <1>7, <1>9, <1>13, <2>1
  <1> QED  BY <1>14, <1>15

\* A machine that follows a close, from the close it has seen to what it has done.
LEMMA GrowsOK ==
    ASSUME NEW c, NEW d, Grows(c, d), SpendOK(d), c.close = NoClose \/ c.close.tx \in {Mine, Coop},
           c.spend.previous \in Published => c.close # NoClose, c.spend.previous \in Before,
           d.status \notin Published
    PROVE  MachineOK(d)
  BY DEF Grows, ClaimsOK, MachineOK

\* What a machine holds whatever its status is.
BaseOK(c) ==
    /\ IsMachine(c) /\ ClaimsOK(c)
    /\ c.close = NoClose \/ c.close.tx \in {Mine, Coop}
    /\ c.spend.previous \in Published => c.close # NoClose
    /\ c.spend.previous \in Before

LEMMA SettledGrows ==
    ASSUME NEW c, NEW d, Grows(c, d)
    PROVE  (Settled(c) => Settled(d)) /\ (Punished(c) => Punished(d))
  BY DEF Grows, Settled, Punished

\* The statuses of a close that is being followed.
LEMMA AfterCloseDoes ==
    ASSUME sc \in Scenarios, NEW c, BaseOK(c), SpendOK(c), c.status \in Following, NEW b, NEW stale,
           NEW r, r = AfterClose(c, b, stale)
    PROVE  /\ MachineOK(r.m) /\ r.m.spend = c.spend /\ \A t \in r.out : OwnClaim(t)
           /\ c.spend.tx \in Commitments => \/ Prompt(r.m, b)
                                            \/ Revoked(c.spend.tx) /\ Punished(r.m)
  <1>0. IsMachine(c) /\ ClaimsOK(c)
    BY DEF BaseOK
  <1>00. c.status \notin Before /\ c.status \notin Published
    BY DEF Following, Before, Published
  <1>1. CASE c.status = "closed-coop"
    <2>1. PICK s : s = IF Confirmations(b, c.spend.at) >= CLOSE_DEPTH THEN "closed" ELSE c.status
      OBVIOUS
    <2>2. r = Result([c EXCEPT !.status = s], {})
      BY <1>1, <2>1 DEF AfterClose, BaseOK, IsMachine
    <2>3. /\ r.out = {} /\ r.m = [c EXCEPT !.status = s]
      BY <2>2 DEF Result
    <2>4. /\ r.m.status = s /\ r.m.spend = c.spend /\ r.m.close = c.close /\ r.m.claims = c.claims
          /\ IsMachine(r.m)
      BY <1>0, <2>3 DEF IsMachine
    <2>5. c.spend.tx = Coop
      BY <1>1, <1>00 DEF SpendOK
    <2>6. s \in {"closed-coop", "closed"}
      BY <1>1, <2>1
    <2>7. SpendOK(r.m)
      BY <2>4, <2>5, <2>6 DEF SpendOK
    <2>8. s \notin Published
      BY <2>6 DEF Published
    <2>9. MachineOK(r.m)
      BY <2>4, <2>7, <2>8 DEF MachineOK, BaseOK, ClaimsOK
    <2>10. Coop \notin Commitments
      BY CommitmentFields
    <2> QED  BY <2>3, <2>4, <2>5, <2>9, <2>10
  <1>2. CASE c.status \in {"punishing", "settling"}
    <2>1. r = WatchOutputs(c, b, stale)
      BY <1>2 DEF AfterClose
    <2>2. /\ Grows(c, r.m) /\ \A t \in r.out : OwnClaim(t)
      BY <1>0, <2>1, WatchGrows
    <2>3. \/ r.m.status = c.status
          \/ c.status = "settling" /\ r.m.status = "closed"
          \/ c.status = "punishing" /\ r.m.status = "punished"
      BY <1>0, <2>1, WatchGrows
    <2>4. r.m.spend = c.spend
      BY <2>2 DEF Grows
    <2>5. /\ c.spend.tx \in Commitments
          /\ \/ Revoked(c.spend.tx) /\ Punished(c) /\ c.status = "punishing"
             \/ ~Revoked(c.spend.tx) /\ Settled(c) /\ c.status = "settling"
      BY <1>2, <1>00 DEF SpendOK
    <2>6. (Settled(c) => Settled(r.m)) /\ (Punished(c) => Punished(r.m))
      BY <2>2, SettledGrows
    <2>7. SpendOK(r.m)
      BY <2>3, <2>4, <2>5, <2>6 DEF SpendOK
    <2>8. r.m.status \notin Published
      BY <1>2, <2>3 DEF Published
    <2>9. MachineOK(r.m)
      BY <2>2, <2>7, <2>8, GrowsOK DEF BaseOK
    <2>10. Settled(r.m) => Prompt(r.m, b)
      BY DEF Settled, Prompt
    <2> QED  BY <2>2, <2>4, <2>5, <2>6, <2>9, <2>10
  <1>3. CASE c.status \in {"closed-mine", "closed-theirs", "closed-theirs-alt"}
    <2>1. r = ClaimReady(Followed(c, Htlcs(c.spend.tx)), b, stale, Ready(c, b))
      BY <1>0, <1>3 DEF AfterClose, Followed, IsMachine
    <2>2. c.spend.tx \in Commitments /\ ~Revoked(c.spend.tx)
      BY <1>3, <1>00 DEF SpendOK
    <2>3. /\ Grows(c, r.m) /\ Prompt(r.m, b) /\ \A t \in r.out : OwnClaim(t)
      BY <1>0, <1>3, <2>1, <2>2, ClaimReadyDoes
    <2>4. \/ r.m.status = c.status
          \/ r.m.status \in {"settling", "closed"} /\ Settled(r.m)
      BY <1>0, <1>3, <2>1, <2>2, ClaimReadyDoes
    <2>5. r.m.spend = c.spend
      BY <2>3 DEF Grows
    <2>7. SpendOK(r.m)
      BY <1>3, <2>2, <2>4, <2>5 DEF SpendOK
    <2>8. r.m.status \notin Published
      BY <1>3, <2>4 DEF Published
    <2>9. MachineOK(r.m)
      BY <2>3, <2>7, <2>8, GrowsOK DEF BaseOK
    <2> QED  BY <2>3, <2>5, <2>9
  <1> QED  BY <1>1, <1>2, <1>3 DEF Following

LEMMA PunishDoes ==
    ASSUME sc \in Scenarios, NEW c, BaseOK(c), c.spend.tx \in Commitments, Revoked(c.spend.tx), c.claims = {},
           NEW h, NEW r, r = Punish(c, c.spend.tx, h)
    PROVE  MachineOK(r.m) /\ r.m.spend = c.spend /\ Punished(r.m) /\ \A t \in r.out : OwnClaim(t)
  <1> DEFINE close == c.spend.tx
             vs == ToLocal(close) \cup Htlcs(close)
  <1>0. PICK made : made = {t \in {ClaimOn(close, v, "revocation", Me) : v \in vs} :
                              Worth(OutputsOf(close)[t.v].value, sc.channel.fee)}
    OBVIOUS
  <1>1. [c EXCEPT !.claims = {}] = c
    BY DEF BaseOK, IsMachine
  <1>2. r = Result(Claimed(c, made, h, "punishing"), made)
    <2>1. {q \in c.claims : \A t \in made : Kind(q.tx) # Kind(t)} = {}
      OBVIOUS
    <2> QED  BY <1>0, <1>1, <2>1 DEF Punish, Claimed
  <1>3. r.out = made /\ r.m = Claimed(c, made, h, "punishing")
    BY <1>2 DEF Result
  <1>4. /\ IsMachine(r.m) /\ r.m.status = "punishing" /\ r.m.spend = c.spend /\ r.m.close = c.close
        /\ r.m.claims = c.claims \cup ClaimsAt(made, h)
    <2>1. IsMachine(c)
      BY DEF BaseOK
    <2>2. PICK d, s : d = r.m /\ s = "punishing" /\ d = Claimed(c, made, h, s)
      BY <1>3
    <2>3. /\ IsMachine(d) /\ d.status = s /\ d.spend = c.spend /\ d.close = c.close
          /\ d.claims = c.claims \cup ClaimsAt(made, h)
      BY ONLY <2>1, <2>2, WithClaimsDoes
    <2> QED  BY <2>2, <2>3
  <1>5. close.owner = Peer
    BY CommitmentFields
  <1>6. vs \subseteq DOMAIN OutputsOf(close)
    BY DEF ToLocal, Htlcs
  <1>7. ASSUME NEW t \in made PROVE OwnClaim(t) /\ t.on = close
    <2>1. PICK v \in vs : t = ClaimOn(close, v, "revocation", Me)
      BY <1>0, <1>7
    <2>2. v \in DOMAIN OutputsOf(close)
      BY <1>6, <2>1
    <2> HIDE DEF close
    <2> QED  BY <1>5, <2>1, <2>2 DEF OwnClaim, ClaimOn, close
  <1>8. ASSUME NEW q \in r.m.claims PROVE OwnClaim(q.tx) /\ q.tx.on = close
    BY <1>4, <1>7 DEF ClaimsAt
  <1>9. ASSUME NEW v \in vs, IsWorth(close, v) PROVE Claims(r.m, v)
    <2> DEFINE t == ClaimOn(close, v, "revocation", Me)
    <2>1. t.v = v
      BY DEF ClaimOn
    <2>2. t \in made
      BY <1>0, <1>9, <2>1 DEF IsWorth
    <2>3. [tx |-> t, at |-> h] \in r.m.claims
      BY <1>4, <2>2 DEF ClaimsAt
    <2> HIDE DEF t
    <2> QED  BY <2>1, <2>3 DEF Claims
  <1>10. Punished(r.m)
    BY <1>4, <1>9 DEF Punished
  <1>11. SpendOK(r.m)
    BY <1>4, <1>10 DEF SpendOK
  <1>12. MachineOK(r.m)
    <2>1. r.m.status \notin Published
      BY <1>4 DEF Published
    <2> QED  BY <1>4, <1>8, <1>11, <2>1 DEF MachineOK, BaseOK
  <1> QED  BY <1>3, <1>4, <1>7, <1>10, <1>12

LEMMA MineIs ==
    ASSUME sc \in Scenarios
    PROVE  Mine \in Commitments /\ ~Revoked(Mine) /\ Mine # Coop /\ Mine # None /\ Coop # None
  <1>1. Mine \in Commitments
    BY DEF Commitments
  <1>2. Mine.n = N /\ N \in Nat
    BY TwoSides DEF Mine, CommitmentOf
  <1>3. ~Revoked(Mine)
    BY <1>2 DEF Revoked
  <1>4. Mine # Coop /\ Mine # None /\ Coop # None
    BY <1>1, CommitmentFields DEF Coop, None
  <1> QED  BY <1>1, <1>3, <1>4

\* The machine has not seen a spend of the funding.
Idle(c) == MachineOK(c) /\ c.spend = NoSpend /\ c.claims = {} /\ c.status \in Before

LEMMA OnSpendDoes ==
    ASSUME sc \in Scenarios, NEW c, Idle(c), NEW t \in Spends, NEW h, NEW b, NEW stale,
           NEW r, r = OnSpend(c, t, h, b, stale)
    PROVE  /\ MachineOK(r.m) /\ r.m.spend.tx = t /\ r.m.spend.at = h /\ \A u \in r.out : OwnTx(u)
           /\ t \in Commitments => \/ Prompt(r.m, b)
                                   \/ Revoked(t) /\ Punished(r.m)
  <1> DEFINE spend == [tx |-> t, at |-> h, previous |-> c.status]
             seen == [c EXCEPT !.spend = spend, !.outs = <<>>]
  <1>1. /\ IsMachine(c)
        /\ c.close = NoClose \/ c.close.tx \in {Mine, Coop}
        /\ c.status \in Published => c.close # NoClose
        /\ c.claims = {} /\ c.status \in Before
    BY DEF Idle, MachineOK
  <1>2. /\ spend.tx = t /\ spend.at = h /\ spend.previous = c.status
        /\ spend = [tx |-> spend.tx, at |-> spend.at, previous |-> spend.previous]
    OBVIOUS
  <1>3. <<>> = [v \in DOMAIN <<>> |-> <<>>[v]]
    OBVIOUS
  <1> HIDE DEF spend
  <1>4. ASSUME NEW s, NEW d, d = [seen EXCEPT !.status = s]
        PROVE  BaseOK(d) /\ d.spend = spend /\ d.status = s /\ d.claims = {} /\ d.close = c.close
    <2>1. /\ d.spend = spend /\ d.status = s /\ d.claims = {} /\ d.close = c.close /\ d.outs = <<>>
          /\ d = [status |-> d.status, spend |-> d.spend, close |-> d.close, claims |-> d.claims,
                  outs |-> d.outs, coop |-> d.coop, knows |-> d.knows]
      BY <1>1, <1>4 DEF IsMachine
    <2>2. c.close = [tx |-> c.close.tx, at |-> c.close.at]
      BY <1>1 DEF IsMachine
    <2>3. IsMachine(d)
      BY <1>2, <1>3, <2>1, <2>2 DEF IsMachine
    <2> QED  BY <1>1, <1>2, <2>1, <2>3 DEF BaseOK, ClaimsOK
  <1>5. CASE t = Coop
    <2>1. PICK d : d = [seen EXCEPT !.status = "closed-coop"]
      OBVIOUS
    <2>2. r.m = d /\ r.out = {}
      BY <1>5, <2>1 DEF OnSpend, Result, spend
    <2>3. BaseOK(d) /\ d.spend = spend /\ d.status = "closed-coop" /\ d.claims = {}
      BY <1>4, <2>1
    <2>4. SpendOK(d)
      BY <1>2, <1>5, <2>3 DEF SpendOK
    <2>5. MachineOK(d)
      BY <2>3, <2>4 DEF BaseOK, MachineOK, ClaimsOK, Published
    <2>6. Coop \notin Commitments
      BY CommitmentFields
    <2> QED  BY <1>2, <1>5, <2>2, <2>3, <2>5, <2>6
  <1>6. CASE t # Coop /\ Revoked(t)
    <2>1. PICK d : d = seen
      OBVIOUS
    <2>2. d = [seen EXCEPT !.status = c.status]
      BY <1>1, <2>1 DEF IsMachine
    <2>3. BaseOK(d) /\ d.spend = spend /\ d.claims = {}
      BY <1>4, <2>2
    <2>4. r = Punish(d, d.spend.tx, Height(b)) /\ d.spend.tx = t
      BY <1>2, <1>6, <2>1, <2>3 DEF OnSpend, spend
    <2>5. t \in Commitments
      BY <1>6 DEF Spends
    <2>6. MachineOK(r.m) /\ r.m.spend = d.spend /\ Punished(r.m) /\ \A u \in r.out : OwnClaim(u)
      BY <1>6, <2>3, <2>4, <2>5, PunishDoes
    <2> QED  BY <1>2, <1>6, <2>3, <2>6 DEF OwnTx
  <1>7. CASE t # Coop /\ ~Revoked(t)
    <2>1. PICK s : s = CASE t = Mine -> "closed-mine"
                         [] t.alt # 0 -> "closed-theirs-alt"
                         [] OTHER -> "closed-theirs"
      OBVIOUS
    <2>1a. s \in {"closed-mine", "closed-theirs", "closed-theirs-alt"}
      BY <2>1
    <2>2. PICK d : d = [seen EXCEPT !.status = s]
      OBVIOUS
    <2>3. BaseOK(d) /\ d.spend = spend /\ d.status = s
      BY <1>4, <2>2
    <2>4. r = AfterClose(d, b, stale)
      BY <1>7, <2>1, <2>2 DEF OnSpend, spend
    <2>5. t \in Commitments
      BY <1>7 DEF Spends
    <2>6. SpendOK(d) /\ d.status \in Following
      BY <1>2, <1>7, <2>1a, <2>3, <2>5 DEF SpendOK, Following
    <2>7. /\ MachineOK(r.m) /\ r.m.spend = d.spend /\ \A u \in r.out : OwnClaim(u)
          /\ d.spend.tx \in Commitments => \/ Prompt(r.m, b)
                                           \/ Revoked(d.spend.tx) /\ Punished(r.m)
      BY <2>3, <2>4, <2>6, AfterCloseDoes
    <2> QED  BY <1>2, <2>3, <2>7 DEF OwnTx
  <1> QED  BY <1>5, <1>6, <1>7

LEMMA UnSpendDoes ==
    ASSUME sc \in Scenarios, NEW c, MachineOK(c), NEW r, r = UnSpend(c)
    PROVE  Idle(r.m) /\ \A u \in r.out : OwnTx(u)
  <1> DEFINE again == c.close # NoClose /\ c.spend.previous \in ClosedOut
  <1>1. PICK s : s = IF again /\ c.spend.previous = "closing-asked" THEN "closing" ELSE c.spend.previous
    OBVIOUS
  <1>2. PICK d : d = [c EXCEPT !.spend = NoSpend, !.claims = {}, !.outs = <<>>, !.status = s]
    OBVIOUS
  <1>3. r.m = d /\ r.out = IF again THEN {c.close.tx} ELSE {}
    BY <1>1, <1>2 DEF UnSpend, Result
  <1>4. /\ IsMachine(c)
        /\ c.close = NoClose \/ c.close.tx \in {Mine, Coop}
        /\ c.spend.previous \in Published => c.close # NoClose
        /\ c.spend.previous \in Before
    BY DEF MachineOK
  <1>5. /\ d.spend = NoSpend /\ d.claims = {} /\ d.outs = <<>> /\ d.status = s /\ d.close = c.close
        /\ d = [status |-> d.status, spend |-> d.spend, close |-> d.close, claims |-> d.claims,
                outs |-> d.outs, coop |-> d.coop, knows |-> d.knows]
    BY <1>2, <1>4 DEF IsMachine
  <1>6. <<>> = [v \in DOMAIN <<>> |-> <<>>[v]]
    OBVIOUS
  <1>7. /\ NoSpend = [tx |-> NoSpend.tx, at |-> NoSpend.at, previous |-> NoSpend.previous]
        /\ NoSpend.previous = "open"
    BY DEF NoSpend
  <1>8. c.close = [tx |-> c.close.tx, at |-> c.close.at]
    BY <1>4 DEF IsMachine
  <1>9. IsMachine(d)
    BY <1>5, <1>6, <1>7, <1>8 DEF IsMachine
  <1>10. s \in Before /\ (s \in Published => c.close # NoClose)
    BY <1>1, <1>4 DEF Before, Published
  <1>11. SpendOK(d)
    BY <1>5, <1>10 DEF SpendOK
  <1>12. NoSpend.previous \in Before /\ NoSpend.previous \notin Published
    BY <1>7 DEF Before, Published
  <1>13. MachineOK(d)
    BY <1>4, <1>5, <1>9, <1>10, <1>11, <1>12 DEF MachineOK
  <1>14. \A u \in r.out : OwnTx(u)
    BY <1>3, <1>4 DEF OwnTx
  <1> QED  BY <1>3, <1>5, <1>10, <1>13, <1>14 DEF Idle

\* The close a machine acts on is the one in the blocks b.
Follows(c, b) ==
    LET on == Spender(b, FundingCoin)
    IN  /\ c.spend.tx = Elem(on, None)
        /\ on # {} => c.spend.at = Elem(FindTx(b, c.spend.tx), 0)

\* What there is to claim is claimed, or is for later.
Done(c, b) ==
    c.spend.tx \in Commitments => Prompt(c, b) \/ (Revoked(c.spend.tx) /\ Punished(c))

LEMMA SpenderIs ==
    ASSUME sc \in Scenarios, NEW b, \A t \in TxsIn(b) : AnyTx(t), NEW t \in Spender(b, FundingCoin)
    PROVE  t \in Spends /\ FindTx(b, t) # {}
  <1>1. t \in TxsIn(b) /\ Coin(t) = FundingCoin /\ AnyTx(t)
    BY DEF Spender
  <1>2. t.k # "claim" \/ t.on \notin Commitments
    <2> SUFFICES ASSUME t.k = "claim" PROVE t.on \notin Commitments
      OBVIOUS
    <2>1. Coin(t).on = t.on
      BY DEF Coin
    <2>2. FundingCoin.on = None
      BY DEF FundingCoin
    <2> QED  BY <1>1, <2>1, <2>2, CommitmentFields
  <1>3. t \in Spends
    BY <1>1, <1>2 DEF AnyTx
  <1>4. FindTx(b, t) # {}
    BY <1>1 DEF TxsIn, FindTx
  <1> QED  BY <1>3, <1>4

LEMMA IdleIs ==
    ASSUME sc \in Scenarios, NEW c, MachineOK(c)
    PROVE  /\ c.spend = NoSpend => Idle(c)
           /\ c.status \in Before => Idle(c)
           /\ c.spend.tx = None => Idle(c)
  <1>1. NoSpend.tx = None
    BY DEF NoSpend
  <1>2. None \notin Commitments /\ None # Coop
    BY CommitmentFields, MineIs
  <1>3. SpendOK(c)
    BY DEF MachineOK
  <1> QED  BY <1>1, <1>2, <1>3 DEF SpendOK, Idle, Before

LEMMA WatchChannelDoes ==
    ASSUME sc \in Scenarios, NEW c, MachineOK(c), NEW b, \A t \in TxsIn(b) : AnyTx(t), NEW stale,
           NEW r, r = WatchChannel(c, b, stale)
    PROVE  MachineOK(r.m) /\ (\A u \in r.out : OwnTx(u)) /\ Follows(r.m, b) /\ Done(r.m, b)
  <1>0. PICK on, t, h, before :
            /\ on = Spender(b, FundingCoin) /\ t = Elem(on, None) /\ h = Elem(FindTx(b, t), 0)
            /\ before = IF c.spend = NoSpend THEN Result(c, {}) ELSE UnSpend(c)
    OBVIOUS
  <1>1. r = CASE on = {} -> before
              [] on # {} /\ Moved(c, t, h) ->
                   Also(before.out, OnSpend(before.m, t, h, b, stale))
              [] on # {} /\ ~Moved(c, t, h) /\ c.status \in Following -> AfterClose(c, b, stale)
              [] OTHER -> Result(c, {})
    BY <1>0 DEF WatchChannel
  <1>2. Idle(before.m) /\ \A u \in before.out : OwnTx(u)
    <2>1. CASE c.spend = NoSpend
      <3>1. before.m = c /\ before.out = {}
        BY <1>0, <2>1 DEF Result
      <3> QED  BY <2>1, <3>1, IdleIs
    <2>2. CASE c.spend # NoSpend
      <3>1. before = UnSpend(c)
        BY <1>0, <2>2
      <3> QED  BY <3>1, UnSpendDoes
    <2> QED  BY <2>1, <2>2
  <1>3. CASE on = {}
    <2>1. r = before
      BY <1>1, <1>3
    <2>2. t = None /\ before.m.spend.tx = None /\ None \notin Commitments
      BY <1>0, <1>2, <1>3, CommitmentFields DEF Elem, Idle, NoSpend
    <2>3. Follows(r.m, b) /\ Done(r.m, b)
      BY <1>0, <1>3, <2>1, <2>2 DEF Follows, Done
    <2> QED  BY <1>2, <2>1, <2>3 DEF Idle
  <1>4. ASSUME on # {} PROVE t \in Spends /\ t # None /\ FindTx(b, t) # {}
    <2>1. t \in on
      BY <1>0, <1>4 DEF Elem
    <2>2. t \in Spends /\ FindTx(b, t) # {}
      BY <1>0, <2>1, SpenderIs
    <2> QED  BY <2>2, CommitmentFields, MineIs DEF Spends
  <1>5. CASE on # {} /\ Moved(c, t, h)
    <2>1. PICK s : s = OnSpend(before.m, t, h, b, stale)
      OBVIOUS
    <2>2. r.m = s.m /\ r.out = before.out \cup s.out
      BY <1>1, <1>5, <2>1 DEF Also, Result
    <2>3. /\ MachineOK(s.m) /\ s.m.spend.tx = t /\ s.m.spend.at = h /\ \A u \in s.out : OwnTx(u)
          /\ t \in Commitments => \/ Prompt(s.m, b)
                                  \/ Revoked(t) /\ Punished(s.m)
      BY <1>2, <1>4, <1>5, <2>1, OnSpendDoes
    <2>4. Follows(s.m, b)
      BY <1>0, <2>3 DEF Follows
    <2>5. Done(s.m, b)
      BY <2>3 DEF Done
    <2> QED  BY <1>2, <2>2, <2>3, <2>4, <2>5
  <1>6. ASSUME on # {}, ~Moved(c, t, h) PROVE c.spend.tx = t /\ c.spend.at = h
    BY <1>6 DEF Moved
  <1>7. CASE on # {} /\ ~Moved(c, t, h) /\ c.status \in Following
    <2>1. r = AfterClose(c, b, stale)
      BY <1>1, <1>7
    <2>2. BaseOK(c) /\ SpendOK(c)
      BY DEF MachineOK, BaseOK, ClaimsOK
    <2>3. /\ MachineOK(r.m) /\ r.m.spend = c.spend /\ \A u \in r.out : OwnClaim(u)
          /\ c.spend.tx \in Commitments => \/ Prompt(r.m, b)
                                           \/ Revoked(c.spend.tx) /\ Punished(r.m)
      BY <1>7, <2>1, <2>2, AfterCloseDoes
    <2>4. Follows(r.m, b)
      BY <1>0, <1>6, <1>7, <2>3 DEF Follows
    <2>5. Done(r.m, b)
      BY <2>3 DEF Done
    <2> QED  BY <2>3, <2>4, <2>5 DEF OwnTx
  <1>8. CASE on # {} /\ ~Moved(c, t, h) /\ c.status \notin Following
    <2>1. r.m = c /\ r.out = {}
      BY <1>1, <1>8 DEF Result
    <2>2. Follows(c, b)
      BY <1>0, <1>6, <1>8 DEF Follows
    <2>3. c.spend # NoSpend /\ SpendOK(c)
      BY <1>4, <1>6, <1>8 DEF NoSpend, MachineOK
    <2>4. c.spend.tx \in Commitments => Settled(c) \/ (Revoked(c.spend.tx) /\ Punished(c))
      <3>1. Coop \notin Commitments
        BY CommitmentFields
      <3> QED  BY <1>8, <2>3, <3>1 DEF SpendOK, Following
    <2>5. Settled(c) => Prompt(c, b)
      BY DEF Settled, Prompt
    <2>6. Done(c, b)
      BY <2>4, <2>5 DEF Done
    <2> QED  BY <2>1, <2>2, <2>6
  <1> QED  BY <1>3, <1>5, <1>7, <1>8

\* Another status or published close, the rest as it was.
LEMMA SameFollows ==
    ASSUME NEW c, NEW d, d.spend = c.spend, d.claims = c.claims, d.outs = c.outs, d.knows = c.knows,
           NEW b, Follows(c, b), Done(c, b)
    PROVE  Follows(d, b) /\ Done(d, b)
  <1>1. Follows(d, b)
    BY DEF Follows
  <1>2. \A v : Claims(c, v) <=> Claims(d, v)
    BY DEF Claims
  <1>3. \A v : Covered(c, v) <=> Covered(d, v)
    BY <1>2 DEF Covered
  <1>4. \A v : Later(c, b, v) <=> Later(d, b, v)
    BY DEF Later, Early
  <1> QED  BY <1>1, <1>2, <1>3, <1>4 DEF Done, Prompt, Punished

LEMMA ForceClosedOK ==
    ASSUME sc \in Scenarios, NEW c, Idle(c), NEW h, NEW tx \in {Mine, Coop}, NEW s \in Published,
           NEW coop, NEW d,
           d = [status |-> s, spend |-> c.spend, close |-> [tx |-> tx, at |-> h], claims |-> c.claims,
                outs |-> c.outs, coop |-> coop, knows |-> c.knows]
    PROVE  MachineOK(d)
  <1>1. /\ d.status = s /\ d.spend = c.spend /\ d.claims = {} /\ d.outs = c.outs
        /\ d.close.tx = tx /\ d.close = [tx |-> d.close.tx, at |-> d.close.at]
        /\ d = [status |-> d.status, spend |-> d.spend, close |-> d.close, claims |-> d.claims,
                outs |-> d.outs, coop |-> d.coop, knows |-> d.knows]
    BY DEF Idle
  <1>2. /\ c.spend = [tx |-> c.spend.tx, at |-> c.spend.at, previous |-> c.spend.previous]
        /\ c.outs = [v \in DOMAIN c.outs |-> c.outs[v]]
    BY DEF Idle, MachineOK, IsMachine
  <1>3. IsMachine(d)
    BY <1>1, <1>2 DEF IsMachine
  <1>4. c.spend = NoSpend /\ c.spend.previous \in Before /\ d.close # NoClose /\ s \in Before
    BY <1>1, MineIs DEF Idle, MachineOK, NoClose, Published, Before
  <1>5. SpendOK(d)
    BY <1>1, <1>4 DEF SpendOK
  <1> QED  BY <1>1, <1>3, <1>4, <1>5 DEF MachineOK

LEMMA TickDoes ==
    ASSUME sc \in Scenarios, NEW c, MachineOK(c), NEW h, NEW r, r = Tick(c, h)
    PROVE  /\ MachineOK(r.m) /\ \A u \in r.out : OwnTx(u)
           /\ r.m.spend = c.spend /\ r.m.claims = c.claims /\ r.m.outs = c.outs /\ r.m.knows = c.knows
  <1> DEFINE A == /\ c.status \in {"force-closing", "closing"} /\ c.spend = NoSpend
                  /\ h - c.close.at > CLOSE_REBROADCAST
             B == c.status = "open" /\ Urgent(c, h)
  <1>0. IsMachine(c)
    BY DEF MachineOK
  <1>1. r = CASE A -> Result([c EXCEPT !.close.at = h], {c.close.tx})
              [] B -> Result(ForceClosed(c, h), {Mine})
              [] OTHER -> Result(c, {})
    BY DEF Tick
  <1>2. CASE A
    <2>1. ~B
      BY <1>2
    <2>2. r.m = [c EXCEPT !.close.at = h] /\ r.out = {c.close.tx}
      <3> HIDE DEF A, B
      <3> QED  BY <1>1, <1>2, <2>1 DEF Result
    <2>3. c.status \in Published /\ c.spend = NoSpend
      BY <1>2 DEF Published
    <2>4. c.close.tx \in {Mine, Coop} /\ Idle(c)
      BY <2>3, IdleIs DEF MachineOK
    <2>5. r.m = [status |-> c.status, spend |-> c.spend, close |-> [tx |-> c.close.tx, at |-> h],
                 claims |-> c.claims, outs |-> c.outs, coop |-> c.coop, knows |-> c.knows]
      BY <1>0, <2>2 DEF IsMachine
    <2>6. MachineOK(r.m)
      BY <2>3, <2>4, <2>5, ForceClosedOK
    <2> QED  BY <2>2, <2>4, <2>5, <2>6 DEF OwnTx
  <1>3. CASE ~A /\ B
    <2>1. r.m = ForceClosed(c, h) /\ r.out = {Mine}
      <3> HIDE DEF A, B
      <3> QED  BY <1>1, <1>3 DEF Result
    <2>2. Idle(c) /\ "force-closing" \in Published /\ Mine \in {Mine, Coop}
      BY <1>3, IdleIs DEF Before, Published
    <2>3. r.m = [status |-> "force-closing", spend |-> c.spend, close |-> [tx |-> Mine, at |-> h],
                 claims |-> c.claims, outs |-> c.outs, coop |-> c.coop, knows |-> c.knows]
      BY <1>0, <2>1 DEF IsMachine, ForceClosed
    <2>4. MachineOK(r.m)
      BY <2>2, <2>3, ForceClosedOK
    <2> QED  BY <2>1, <2>3, <2>4 DEF OwnTx
  <1>4. CASE ~A /\ ~B
    <2>1. r.m = c /\ r.out = {}
      <3> HIDE DEF A, B
      <3> QED  BY <1>1, <1>4 DEF Result
    <2> QED  BY <2>1
  <1> QED  BY <1>2, <1>3, <1>4
-----------------------------------------------------------------------------
(* The poll. *)

\* Right for the next block, once the coin is in one.
Fits(b, t) ==
    CoinExists(b, t) => /\ VerifyChannelInput(TxOf(t), CoinOf(t))
                        /\ MayBeIn(TxOf(t), Elem(CoinHeight(b, t), 0), Height(b) + 1)

RepairOK(r) == r = [tx |-> r.tx, at |-> r.at] /\ OwnTx(r.tx)

LEMMA OwnIsAny ==
    ASSUME NEW t, OwnTx(t)
    PROVE  AnyTx(t)
  <1>1. CASE OwnClaim(t)
    BY <1>1 DEF OwnClaim, ClaimOn, AnyTx
  <1>2. CASE t \in {Mine, Coop}
    BY <1>2 DEF AnyTx, Spends, Commitments
  <1> QED  BY <1>1, <1>2 DEF OwnTx

LEMMA OnAdvanceDoes ==
    ASSUME sc \in Scenarios, NEW c, MachineOK(c), NEW undone, \A t \in undone : AnyTx(t),
           NEW rs, \A r \in rs : RepairOK(r)
    PROVE  \A r \in OnAdvance(c, undone, rs) : RepairOK(r)
  <1>1. ASSUME NEW t, t \in {c.close.tx} \cup {r.tx : r \in c.claims}, t \in undone PROVE OwnTx(t)
    <2>1. CASE t = c.close.tx
      <3>1. AnyTx(t)
        BY <1>1
      <3>2. t # None
        <4>1. None.k # "claim"
          BY DEF None
        <4>2. None \notin Spends
          BY CommitmentFields, MineIs DEF Spends
        <4> QED  BY <3>1, <4>1, <4>2 DEF AnyTx
      <3>3. NoClose.tx = None
        BY DEF NoClose
      <3> QED  BY <2>1, <3>2, <3>3 DEF MachineOK, OwnTx
    <2>2. CASE \E r \in c.claims : t = r.tx
      BY <2>2 DEF MachineOK, OwnTx
    <2> QED  BY <1>1, <2>1, <2>2
  <1>2. ASSUME NEW r \in OnAdvance(c, undone, rs) PROVE RepairOK(r)
    <2> DEFINE mine == ({c.close.tx} \cup {q.tx : q \in c.claims}) \cap undone
    <2>1. OnAdvance(c, undone, rs) = {q \in rs : q.tx \notin mine} \cup {[tx |-> t, at |-> -1] : t \in mine}
      BY DEF OnAdvance
    <2>2. \A t \in mine : OwnTx(t)
      BY <1>1
    <2> HIDE DEF mine
    <2>3. r \in rs \/ \E t \in mine : r = [tx |-> t, at |-> -1]
      BY <1>2, <2>1
    <2>4. ASSUME NEW t \in mine, r = [tx |-> t, at |-> -1] PROVE RepairOK(r)
      BY <2>2, <2>4 DEF RepairOK
    <2> QED  BY <2>3, <2>4
  <1> QED  BY <1>2

LEMMA DeferredDoes ==
    ASSUME NEW b, NEW ts, \A t \in ts : OwnTx(t), NEW rs
    PROVE  \A r \in Deferred(b, ts, rs) : RepairOK(r)
  <1> TAKE r \in Deferred(b, ts, rs)
  <1>1. PICK t \in ts : r = [tx |-> t, at |-> -1]
    BY DEF Deferred
  <1> QED  BY <1>1 DEF RepairOK

LEMMA RunRepairsDoes ==
    ASSUME NEW b, NEW rs, \A r \in rs : RepairOK(r)
    PROVE  /\ \A r \in RunRepairs(b, rs) : RepairOK(r)
           /\ \A r \in DueRepairs(b, rs) : OwnTx(r.tx) /\ ~Premature(b, r.tx, Height(b) + 1)
  <1>1. ASSUME NEW r \in RunRepairs(b, rs) PROVE RepairOK(r)
    <2>1. PICK q \in rs : r = IF q \in DueRepairs(b, rs) THEN [q EXCEPT !.at = Height(b)] ELSE q
      BY <1>1 DEF RunRepairs
    <2>2. q = [tx |-> q.tx, at |-> q.at] /\ OwnTx(q.tx)
      BY DEF RepairOK
    <2>3. r.tx = q.tx /\ r = [tx |-> r.tx, at |-> r.at]
      BY <2>1, <2>2
    <2> QED  BY <2>2, <2>3 DEF RepairOK
  <1>2. ASSUME NEW r \in DueRepairs(b, rs) PROVE OwnTx(r.tx) /\ ~Premature(b, r.tx, Height(b) + 1)
    BY <1>2 DEF DueRepairs, RepairOK
  <1> QED  BY <1>1, <1>2

LEMMA FitsIf ==
    ASSUME sc \in Scenarios, NEW b, IsChain(b), NEW t, OwnTx(t), ~Premature(b, t, Height(b) + 1)
    PROVE  Fits(b, t)
  BY PostFits DEF Fits

\* A poll with the blocks b.
LEMMA PollDoes ==
    ASSUME sc \in Scenarios, MachineOK(m), \A t \in TxsIn(view) : AnyTx(t),
           \A r \in repairs : RepairOK(r),
           NEW STATE b, IsChain(b), \A t \in TxsIn(b) : AnyTx(t), NEW heldNow, NEW stale,
           Poll(b, heldNow, stale)
    PROVE  /\ view' = b /\ saved' = m' /\ pool' \subseteq pool \cup posted'
           /\ \A c \in {m'} : MachineOK(c) /\ Follows(c, b) /\ Done(c, b)
           /\ \A r \in repairs' : RepairOK(r)
           /\ \A t \in posted' : OwnTx(t) /\ Fits(b, t)
  <1> DEFINE effect(ticked, waiting) ==
            /\ view' = b /\ m' = ticked.m /\ saved' = ticked.m
            /\ repairs' = IF heldNow THEN RunRepairs(b, waiting) ELSE waiting
            /\ posted' = {t \in {u \in ticked.out : ~Premature(b, u, Height(b) + 1)}
                              \cup (IF heldNow THEN {r.tx : r \in DueRepairs(b, waiting)} ELSE {}) :
                            Postable(ticked.m, b, t, sent)}
            /\ pool' = pool \cup Accepted(posted')
  <1>1. PICK watched \in {WatchChannel(m, b, stale)},
             advanced \in {OnAdvance(m, Undone(view, b), repairs)} :
        \E ticked \in {Also(watched.out, Tick(watched.m, Height(b)))} :
        \E waiting \in {advanced \cup Deferred(b, ticked.out, advanced)} : effect(ticked, waiting)
    BY DEF Poll
  <1>2a. PICK ticked \in {Also(watched.out, Tick(watched.m, Height(b)))} :
         \E waiting \in {advanced \cup Deferred(b, ticked.out, advanced)} : effect(ticked, waiting)
    BY <1>1
  <1>2b. PICK waiting \in {advanced \cup Deferred(b, ticked.out, advanced)} : effect(ticked, waiting)
    BY <1>2a
  <1>2. /\ ticked = Also(watched.out, Tick(watched.m, Height(b)))
        /\ waiting = advanced \cup Deferred(b, ticked.out, advanced)
        /\ effect(ticked, waiting)
    BY <1>2a, <1>2b
  <1>3. /\ MachineOK(watched.m) /\ (\A u \in watched.out : OwnTx(u)) /\ Follows(watched.m, b)
        /\ Done(watched.m, b)
    BY <1>1, WatchChannelDoes
  <1>4. PICK r : r = Tick(watched.m, Height(b))
    OBVIOUS
  <1>5. /\ MachineOK(r.m) /\ \A u \in r.out : OwnTx(u)
    BY <1>3, <1>4, TickDoes
  <1>6. r.m.spend = watched.m.spend /\ r.m.claims = watched.m.claims /\ r.m.outs = watched.m.outs
        /\ r.m.knows = watched.m.knows
    BY <1>3, <1>4, TickDoes
  <1>7. Follows(r.m, b) /\ Done(r.m, b)
    BY <1>3, <1>6, SameFollows
  <1>8. ticked.m = r.m /\ ticked.out = watched.out \cup r.out
    BY <1>2, <1>4 DEF Also, Result
  <1>9. \A u \in ticked.out : OwnTx(u)
    BY <1>3, <1>5, <1>8
  <1>10. \A q \in advanced : RepairOK(q)
    <2>1. \A t \in Undone(view, b) : AnyTx(t)
      BY DEF Undone
    <2> QED  BY <1>1, <2>1, OnAdvanceDoes
  <1>11. \A q \in waiting : RepairOK(q)
    <2>1. \A q \in Deferred(b, ticked.out, advanced) : RepairOK(q)
      BY <1>9, DeferredDoes
    <2> QED  BY <1>2, <1>10, <2>1
  <1>12. /\ \A q \in RunRepairs(b, waiting) : RepairOK(q)
         /\ \A q \in DueRepairs(b, waiting) : OwnTx(q.tx) /\ ~Premature(b, q.tx, Height(b) + 1)
    BY <1>11, RunRepairsDoes
  <1>13. \A q \in repairs' : RepairOK(q)
    BY <1>2, <1>11, <1>12
  <1>14. ASSUME NEW t \in posted' PROVE OwnTx(t) /\ Fits(b, t)
    <2>1. \/ t \in ticked.out /\ ~Premature(b, t, Height(b) + 1)
          \/ \E q \in DueRepairs(b, waiting) : t = q.tx
      BY <1>2, <1>14
    <2>2. OwnTx(t) /\ ~Premature(b, t, Height(b) + 1)
      BY <1>9, <1>12, <2>1
    <2> QED  BY <2>2, FitsIf
  <1>15. pool' \subseteq pool \cup posted'
    BY <1>2 DEF Accepted
  <1> QED  BY <1>2, <1>5, <1>7, <1>8, <1>13, <1>14, <1>15
-----------------------------------------------------------------------------
(* The invariant is inductive. *)

ChainOK(b) == IsChain(b) /\ \A t \in TxsIn(b) : AnyTx(t)

\* Blocks hold what anybody may have in one, the host's machine, file and
\* repairs what it may; after a poll it follows its blocks, nothing that it
\* can claim is unclaimed, and what it sent fits.
IInv ==
    /\ sc \in Scenarios
    /\ polled => up
    /\ \A b \in {chain, view} : ChainOK(b)
    /\ \A c \in {m, saved} : MachineOK(c)
    /\ \A t \in pool : AnyTx(t)
    /\ \A r \in repairs : RepairOK(r)
    /\ polled => \A c \in {m} : \A b \in {view} : Follows(c, b) /\ Done(c, b)
    /\ polled => \A t \in posted : \A b \in {view} : Fits(b, t)

\* The same of the next state, which is of the same scenario.
Reached ==
    /\ sc' = sc
    /\ polled' => up'
    /\ \A b \in {chain', view'} : ChainOK(b)
    /\ \A c \in {m', saved'} : MachineOK(c)
    /\ \A t \in pool' : AnyTx(t)
    /\ \A r \in repairs' : RepairOK(r)
    /\ polled' => \A c \in {m'} : \A b \in {view'} : Follows(c, b) /\ Done(c, b)
    /\ polled' => \A t \in posted' : \A b \in {view'} : Fits(b, t)

LEMMA ClosesKept ==
    ASSUME sc' = sc
    PROVE  /\ Me' = Me /\ Peer' = Peer /\ N' = N /\ Mine' = Mine /\ Candidates' = Candidates
           /\ Commitments' = Commitments /\ Spends' = Spends
  <1>1. Me' = Me /\ Peer' = Peer /\ N' = N
    BY DEF Me, Peer, N
  <1>2. Mine' = Mine /\ Candidates' = Candidates
    BY <1>1 DEF Mine, Candidates
  <1>3. Commitments' = Commitments
    BY <1>2 DEF Commitments
  <1> QED  BY <1>1, <1>2, <1>3 DEF Spends

LEMMA OutputsKept ==
    ASSUME sc' = sc, NEW c
    PROVE  /\ OutputsOf(c)' = OutputsOf(c) /\ Htlcs(c)' = Htlcs(c) /\ ToLocal(c)' = ToLocal(c)
           /\ Owed(c)' = Owed(c) /\ (Revoked(c)' <=> Revoked(c))
  <1>0. Me' = Me /\ N' = N
    BY ClosesKept
  <1>1. OutputsOf(c)' = OutputsOf(c)
    BY DEF OutputsOf
  <1>2. Htlcs(c)' = Htlcs(c) /\ ToLocal(c)' = ToLocal(c)
    BY <1>1 DEF Htlcs, ToLocal
  <1>3. Owed(c)' = Owed(c)
    BY <1>0, <1>2 DEF Owed
  <1> QED  BY <1>0, <1>1, <1>2, <1>3 DEF Revoked

LEMMA OutputKept ==
    ASSUME sc' = sc, NEW c, NEW v
    PROVE  /\ OfferedByMe(c, v)' <=> OfferedByMe(c, v)
           /\ HtlcOf(c, v)' = HtlcOf(c, v)
           /\ IsWorth(c, v)' <=> IsWorth(c, v)
  <1>0. Me' = Me /\ OutputsOf(c)' = OutputsOf(c)
    BY ClosesKept, OutputsKept
  <1> QED  BY <1>0 DEF OfferedByMe, HtlcOf, IsWorth

LEMMA TxKept ==
    ASSUME sc' = sc, NEW t
    PROVE  /\ OwnClaim(t)' <=> OwnClaim(t)
           /\ OwnTx(t)' <=> OwnTx(t)
           /\ AnyTx(t)' <=> AnyTx(t)
  <1>1. OwnClaim(t)' <=> OwnClaim(t)
    <2> DEFINE c == t.on
               v == t.v
    <2>1. /\ Me' = Me /\ Peer' = Peer /\ Commitments' = Commitments
          /\ OutputsOf(t.on)' = OutputsOf(t.on) /\ Htlcs(t.on)' = Htlcs(t.on)
          /\ ToLocal(t.on)' = ToLocal(t.on) /\ (OfferedByMe(t.on, t.v)' <=> OfferedByMe(t.on, t.v))
      BY ClosesKept, OutputsKept, OutputKept
    <2> QED  BY <2>1 DEF OwnClaim
  <1> QED  BY <1>1, ClosesKept DEF OwnTx, AnyTx

LEMMA MachineKept ==
    ASSUME sc' = sc, NEW c
    PROVE  MachineOK(c)' <=> MachineOK(c)
  <1> DEFINE x == c.spend.tx
  <1>1. /\ Commitments' = Commitments /\ Mine' = Mine /\ Owed(x)' = Owed(x)
        /\ Htlcs(x)' = Htlcs(x) /\ ToLocal(x)' = ToLocal(x) /\ (Revoked(x)' <=> Revoked(x))
    BY ClosesKept, OutputsKept
  <1>2. \A v : IsWorth(x, v)' <=> IsWorth(x, v)
    BY OutputKept
  <1> HIDE DEF x
  <1>3. Settled(c)' <=> Settled(c)
    BY <1>1, <1>2 DEF Settled, Covered, Claims, x
  <1>4. Punished(c)' <=> Punished(c)
    BY <1>1, <1>2 DEF Punished, Claims, x
  <1>5. SpendOK(c)' <=> SpendOK(c)
    BY <1>1, <1>3, <1>4 DEF SpendOK, x
  <1>6. \A r \in c.claims : OwnClaim(r.tx)' <=> OwnClaim(r.tx)
    BY TxKept
  <1> QED  BY <1>1, <1>5, <1>6 DEF MachineOK, IsMachine

LEMMA DoneKept ==
    ASSUME sc' = sc, NEW c, NEW b
    PROVE  (Follows(c, b)' <=> Follows(c, b)) /\ (Done(c, b)' <=> Done(c, b))
  <1> DEFINE x == c.spend.tx
  <1>1. /\ Commitments' = Commitments /\ Me' = Me /\ Owed(x)' = Owed(x)
        /\ Htlcs(x)' = Htlcs(x) /\ ToLocal(x)' = ToLocal(x) /\ (Revoked(x)' <=> Revoked(x))
    BY ClosesKept, OutputsKept
  <1>2. \A v : /\ IsWorth(x, v)' <=> IsWorth(x, v)
               /\ OfferedByMe(x, v)' <=> OfferedByMe(x, v)
               /\ HtlcOf(x, v)' = HtlcOf(x, v)
    BY OutputKept
  <1> HIDE DEF x
  <1>3. \A v : Later(c, b, v)' <=> Later(c, b, v)
    BY <1>1, <1>2 DEF Later, Early, x
  <1>4. Punished(c)' <=> Punished(c)
    BY <1>1, <1>2 DEF Punished, Claims, x
  <1>5. Prompt(c, b)' <=> Prompt(c, b)
    BY <1>1, <1>2, <1>3 DEF Prompt, Covered, Claims, x
  <1>6. Follows(c, b)' <=> Follows(c, b)
    BY DEF Follows
  <1> QED  BY <1>1, <1>4, <1>5, <1>6 DEF Done, x

LEMMA FitsKept ==
    ASSUME sc' = sc, NEW b, NEW t
    PROVE  Fits(b, t)' <=> Fits(b, t)
  <1>1. OutputsOf(t.on)' = OutputsOf(t.on)
    BY OutputsKept
  <1>2. TxOf(t)' = TxOf(t)
    BY <1>1 DEF TxOf, ClaimTx, ClaimOf, SigningKey, CloseTx
  <1>3. CoinOf(t)' = CoinOf(t)
    BY <1>1 DEF CoinOf, Funding
  <1>4. CoinExists(b, t)' <=> CoinExists(b, t)
    BY <1>1 DEF CoinExists
  <1> QED  BY <1>2, <1>3, <1>4 DEF Fits

LEMMA ReachedIs ==
    ASSUME sc \in Scenarios, Reached
    PROVE  IInv'
  <1>0. sc' = sc /\ sc' \in Scenarios
    BY DEF Reached
  <1>1. (\A b \in {chain, view} : ChainOK(b))'
    <2>1. \A b : ChainOK(b) => ChainOK(b)'
      BY <1>0, TxKept DEF ChainOK
    <2> QED  BY <2>1 DEF Reached
  <1>2. (\A c \in {m, saved} : MachineOK(c))'
    BY <1>0, MachineKept DEF Reached
  <1>3. (\A t \in pool : AnyTx(t))'
    BY <1>0, TxKept DEF Reached
  <1>4. (\A r \in repairs : RepairOK(r))'
    <2>1. \A r : RepairOK(r) => RepairOK(r)'
      BY <1>0, TxKept DEF RepairOK
    <2> QED  BY <2>1 DEF Reached
  <1>5. (polled => \A c \in {m} : \A b \in {view} : Follows(c, b) /\ Done(c, b))'
    BY <1>0, DoneKept DEF Reached
  <1>6. (polled => \A t \in posted : \A b \in {view} : Fits(b, t))'
    BY <1>0, FitsKept DEF Reached
  <1>7. (polled => up)'
    BY DEF Reached
  <1> QED  BY <1>0, <1>1, <1>2, <1>3, <1>4, <1>5, <1>6, <1>7 DEF IInv

LEMMA EmptyChain == ChainOK(<<>>)
  <1>1. IsChain(<<>>)
    <2>1. <<>> \in Seq({})
      OBVIOUS
    <2> QED  BY <2>1 DEF IsChain
  <1>2. TxsIn(<<>>) = {}
    BY DEF TxsIn
  <1> QED  BY <1>1, <1>2 DEF ChainOK

LEMMA FreshOK ==
    ASSUME sc \in Scenarios, NEW k, NEW c, c = [Fresh EXCEPT !.knows = k]
    PROVE  MachineOK(c)
  <1>1. /\ c.status = "open" /\ c.spend = NoSpend /\ c.close = NoClose /\ c.claims = {} /\ c.outs = <<>>
        /\ c = [status |-> c.status, spend |-> c.spend, close |-> c.close, claims |-> c.claims,
                outs |-> c.outs, coop |-> c.coop, knows |-> c.knows]
    BY DEF Fresh
  <1>2. <<>> = [v \in DOMAIN <<>> |-> <<>>[v]]
    OBVIOUS
  <1>3. /\ NoSpend = [tx |-> NoSpend.tx, at |-> NoSpend.at, previous |-> NoSpend.previous]
        /\ NoClose = [tx |-> NoClose.tx, at |-> NoClose.at] /\ NoSpend.previous = "open"
    BY DEF NoSpend, NoClose
  <1>4. IsMachine(c)
    BY <1>1, <1>2, <1>3 DEF IsMachine
  <1>5. SpendOK(c)
    BY <1>1 DEF SpendOK, Before
  <1> QED  BY <1>1, <1>3, <1>4, <1>5 DEF MachineOK, Before, Published

LEMMA InitOK == Init => IInv
  <1> SUFFICES ASSUME Init PROVE IInv
    OBVIOUS
  <1>1. /\ sc \in Scenarios /\ chain = <<>> /\ view = <<>> /\ pool = {} /\ repairs = {} /\ polled = FALSE
        /\ m = [Fresh EXCEPT !.knows = sc.knows] /\ saved = m
    BY DEF Init
  <1>2. MachineOK(m)
    BY <1>1, FreshOK
  <1> QED  BY <1>1, <1>2, EmptyChain DEF IInv

\* What the invariant gives a step.
LEMMA IInvGives ==
    ASSUME IInv
    PROVE  /\ sc \in Scenarios /\ MachineOK(m) /\ MachineOK(saved)
           /\ ChainOK(chain) /\ ChainOK(view) /\ IsChain(chain) /\ IsChain(view)
           /\ \A t \in TxsIn(chain) : AnyTx(t)
           /\ \A t \in TxsIn(view) : AnyTx(t)
           /\ \A t \in pool : AnyTx(t)
           /\ \A r \in repairs : RepairOK(r)
           /\ polled => up
  BY DEF IInv, ChainOK

LEMMA StepReaches == ASSUME IInv, Step PROVE Reached
  <1>1. /\ up' = up /\ up /\ Poll(chain, TRUE, FALSE) /\ polled' = TRUE /\ sc' = sc /\ chain' = chain
    BY DEF Step
  <1>2. /\ view' = chain /\ saved' = m' /\ pool' \subseteq pool \cup posted'
        /\ \A c \in {m'} : MachineOK(c) /\ Follows(c, chain) /\ Done(c, chain)
        /\ \A r \in repairs' : RepairOK(r)
        /\ \A t \in posted' : OwnTx(t) /\ Fits(chain, t)
    BY <1>1, IInvGives, PollDoes
  <1>3. \A t \in pool' : AnyTx(t)
    BY <1>2, IInvGives, OwnIsAny
  <1> QED  BY <1>1, <1>2, <1>3, IInvGives DEF Reached

LEMMA StepUnreadReaches == ASSUME IInv, NEW stale, StepUnread(stale) PROVE Reached
  <1>1. Poll(view, held, stale) /\ polled' = FALSE /\ sc' = sc /\ chain' = chain
    BY DEF StepUnread
  <1>2. /\ view' = view /\ saved' = m' /\ pool' \subseteq pool \cup posted'
        /\ \A c \in {m'} : MachineOK(c) /\ Follows(c, view) /\ Done(c, view)
        /\ \A r \in repairs' : RepairOK(r)
        /\ \A t \in posted' : OwnTx(t) /\ Fits(view, t)
    <2>1. PICK heldNow : heldNow = held
      OBVIOUS
    <2>2. Poll(view, heldNow, stale)
      BY <1>1, <2>1 DEF Poll
    <2> QED  BY <2>2, IInvGives, PollDoes
  <1>3. \A t \in pool' : AnyTx(t)
    BY <1>2, IInvGives, OwnIsAny
  <1> QED  BY <1>1, <1>2, <1>3, IInvGives DEF Reached

LEMMA StepUnsavedReaches == ASSUME IInv, StepUnsaved PROVE Reached
  <1>1. PICK waiting : waiting = OnAdvance(m, Undone(view, chain), repairs)
    OBVIOUS
  <1>2. /\ polled' = FALSE /\ sc' = sc /\ chain' = chain /\ view' = chain /\ m' = m /\ saved' = saved
        /\ repairs' = RunRepairs(chain, waiting) /\ pool' \subseteq pool \cup {r.tx : r \in DueRepairs(chain, waiting)}
    BY <1>1 DEF StepUnsaved, Accepted
  <1>3. \A r \in waiting : RepairOK(r)
    <2>1. \A t \in Undone(view, chain) : AnyTx(t)
      BY IInvGives DEF Undone
    <2> QED  BY <1>1, <2>1, IInvGives, OnAdvanceDoes
  <1>4. /\ \A r \in RunRepairs(chain, waiting) : RepairOK(r)
        /\ \A r \in DueRepairs(chain, waiting) : OwnTx(r.tx)
    BY <1>3, RunRepairsDoes
  <1>5. \A t \in pool' : AnyTx(t)
    BY <1>2, <1>4, IInvGives, OwnIsAny
  <1> QED  BY <1>2, <1>4, <1>5, IInvGives DEF Reached

LEMMA DieReaches == ASSUME IInv, Die PROVE Reached
  <1>1. /\ polled' = FALSE /\ sc' = sc /\ chain' = chain /\ view' = <<>> /\ saved' = m' /\ pool' = pool
        /\ repairs' = {} /\ m' \in {saved, WatchChannel(m, chain, FALSE).m}
    BY DEF Die, Lost
  <1>2. \A c \in {m'} : MachineOK(c)
    <2>1. PICK r : r = WatchChannel(m, chain, FALSE)
      OBVIOUS
    <2>2. MachineOK(r.m)
      BY <2>1, IInvGives, WatchChannelDoes
    <2> QED  BY <1>1, <2>1, <2>2, IInvGives
  <1> QED  BY <1>1, <1>2, IInvGives, EmptyChain DEF Reached

LEMMA LoadReaches == ASSUME IInv, Load PROVE Reached
  <1>1. /\ polled' = polled /\ ~up /\ sc' = sc /\ chain' = chain /\ view' = view /\ m' = saved /\ saved' = saved
        /\ pool' = pool /\ repairs' = repairs
    BY DEF Load
  <1>2. ~polled
    BY <1>1, IInvGives
  <1> QED  BY <1>1, <1>2, IInvGives DEF Reached

\* A command of the user sends one of the host's closes, or nothing.
LEMMA AskReaches ==
    ASSUME IInv, NEW c, NEW out, Ask(c, out), MachineOK(c), \A t \in out : OwnTx(t)
    PROVE  Reached
  <1>1. /\ polled' = FALSE /\ sc' = sc /\ chain' = chain /\ view' = view /\ m' = c /\ saved' = c
        /\ repairs' = repairs /\ pool' \subseteq pool \cup out
    BY DEF Ask, Accepted
  <1>2. \A t \in pool' : AnyTx(t)
    BY <1>1, IInvGives, OwnIsAny
  <1> QED  BY <1>1, <1>2, IInvGives DEF Reached

LEMMA CommandsReach == ASSUME IInv, ForceClose \/ CloseChannel \/ ReceiveClose PROVE Reached
  <1>0. IsMachine(m) /\ (m.status \in Before => Idle(m)) /\ sc \in Scenarios
    BY IInvGives, IdleIs DEF MachineOK
  <1>1. ASSUME ForceClose PROVE Reached
    <2>1. PICK c, out : c = ForceClosed(m, Height(view)) /\ out = {Mine} /\ Ask(c, out)
      BY <1>1 DEF ForceClose, Ask
    <2>2. Idle(m)
      BY <1>0, <1>1 DEF ForceClose, Before
    <2>3. c = [status |-> "force-closing", spend |-> m.spend, close |-> [tx |-> Mine, at |-> Height(view)],
               claims |-> m.claims, outs |-> m.outs, coop |-> m.coop, knows |-> m.knows]
      BY <1>0, <2>1 DEF ForceClosed, IsMachine
    <2>4. MachineOK(c)
      <3>1. "force-closing" \in Published /\ Mine \in {Mine, Coop}
        BY DEF Published
      <3> QED  BY <1>0, <2>2, <2>3, <3>1, ForceClosedOK
    <2> QED  BY <2>1, <2>4, AskReaches DEF OwnTx
  <1>2. ASSUME CloseChannel PROVE Reached
    <2>1. PICK c, out : c = [m EXCEPT !.status = "closing-asked", !.coop = TRUE] /\ out = {} /\ Ask(c, out)
      BY <1>2 DEF CloseChannel, Ask
    <2>2. Idle(m) /\ MachineOK(m) /\ m.spend = NoSpend /\ m.claims = {}
      BY <1>0, <1>2 DEF CloseChannel, Before, Idle
    <2>3. /\ c.status = "closing-asked" /\ c.spend = m.spend /\ c.close = m.close /\ c.claims = m.claims
          /\ c.outs = m.outs
          /\ c = [status |-> c.status, spend |-> c.spend, close |-> c.close, claims |-> c.claims,
                  outs |-> c.outs, coop |-> c.coop, knows |-> c.knows]
      BY <1>0, <2>1 DEF IsMachine
    <2>4. IsMachine(c)
      BY <1>0, <2>3 DEF IsMachine
    <2>5. SpendOK(c)
      BY <2>2, <2>3 DEF SpendOK, Before
    <2>6. MachineOK(c)
      BY <2>2, <2>3, <2>4, <2>5 DEF MachineOK, Published
    <2> QED  BY <2>1, <2>6, AskReaches
  <1>3. ASSUME ReceiveClose PROVE Reached
    <2>1. PICK c, out : /\ c = [m EXCEPT !.status = "closing", !.coop = TRUE,
                                         !.close = [tx |-> Coop, at |-> Height(view)]]
                        /\ out = {Coop} /\ Ask(c, out)
      BY <1>3 DEF ReceiveClose, Ask
    <2>2. Idle(m)
      BY <1>0, <1>3 DEF ReceiveClose, Before
    <2>3. c = [status |-> "closing", spend |-> m.spend, close |-> [tx |-> Coop, at |-> Height(view)],
               claims |-> m.claims, outs |-> m.outs, coop |-> TRUE, knows |-> m.knows]
      BY <1>0, <2>1 DEF IsMachine
    <2>4. MachineOK(c)
      <3>1. "closing" \in Published /\ Coop \in {Mine, Coop}
        BY DEF Published
      <3> QED  BY <1>0, <2>2, <2>3, <3>1, ForceClosedOK
    <2> QED  BY <2>1, <2>4, AskReaches DEF OwnTx
  <1> QED  BY <1>1, <1>2, <1>3

LEMMA PeerTxsAny ==
    ASSUME NEW t \in PeerTxs
    PROVE  AnyTx(t)
  <1>1. \/ t \in Candidates \/ t = Coop
        \/ \E c \in Commitments : t \in PeerClaims(c)
    BY DEF PeerTxs, Commitments
  <1>2. ASSUME NEW c \in Commitments, t \in PeerClaims(c) PROVE AnyTx(t)
    <2>1. PICK v \in DOMAIN OutputsOf(c) : \E p \in PeerPaths(c, v) : t = ClaimOn(c, v, p, Peer)
      BY <1>2 DEF PeerClaims
    <2> QED  BY <2>1 DEF ClaimOn, AnyTx
  <1> QED  BY <1>1, <1>2 DEF AnyTx, Spends, Commitments

LEMMA AppendOK ==
    ASSUME NEW b, ChainOK(b), NEW ts, \A t \in ts : AnyTx(t), NEW d, d = Append(b, ts)
    PROVE  ChainOK(d)
  <1>1. PICK S : b \in Seq(S)
    BY DEF ChainOK, IsChain
  <1>2. b \in Seq(S \cup {ts}) /\ ts \in S \cup {ts}
    BY <1>1
  <1>3. d \in Seq(S \cup {ts}) /\ DOMAIN d = 1 .. Len(b) + 1 /\ DOMAIN b = 1 .. Len(b) /\ Len(b) \in Nat
        /\ \A i \in 1 .. Len(b) + 1 : d[i] = IF i <= Len(b) THEN b[i] ELSE ts
    BY <1>2
  <1>4. ASSUME NEW t \in TxsIn(d) PROVE AnyTx(t)
    <2>1. PICK i \in 1 .. Len(b) + 1 : t \in d[i]
      BY <1>3, <1>4 DEF TxsIn
    <2>2. CASE i <= Len(b)
      <3>1. i \in DOMAIN b /\ t \in b[i]
        BY <1>3, <2>1, <2>2
      <3> QED  BY <3>1 DEF ChainOK, TxsIn
    <2>3. CASE ~(i <= Len(b))
      BY <1>3, <2>1, <2>3
    <2> QED  BY <2>2, <2>3
  <1> QED  BY <1>3, <1>4 DEF ChainOK, IsChain

LEMMA SubSeqOK ==
    ASSUME NEW b, ChainOK(b), NEW n \in Nat, n <= Len(b), NEW d, d = SubSeq(b, 1, n)
    PROVE  ChainOK(d)
  <1>1. PICK S : b \in Seq(S)
    BY DEF ChainOK, IsChain
  <1>2. /\ d \in Seq(S) /\ DOMAIN d = 1 .. n /\ DOMAIN b = 1 .. Len(b) /\ Len(b) \in Nat
        /\ \A i \in 1 .. n : d[i] = b[i]
    BY <1>1
  <1>3. ASSUME NEW t \in TxsIn(d) PROVE AnyTx(t)
    <2>1. PICK i \in 1 .. n : t \in d[i]
      BY <1>2, <1>3 DEF TxsIn
    <2>2. i \in DOMAIN b /\ t \in b[i]
      BY <1>2, <2>1
    <2> QED  BY <2>2 DEF ChainOK, TxsIn
  <1> QED  BY <1>2, <1>3 DEF ChainOK, IsChain

\* A step of the producer: the host does nothing.
LEMMA ProducerReaches ==
    ASSUME IInv, NEW d, chain' = d, ChainOK(d), pool' \subseteq pool,
           UNCHANGED <<sc, view, m, saved, repairs, posted, polled, up>>
    PROVE  Reached
  <1>1. \A t \in pool' : AnyTx(t)
    BY IInvGives
  <1>2. /\ polled => \A c \in {m} : \A b \in {view} : Follows(c, b) /\ Done(c, b)
        /\ polled => \A t \in posted : \A b \in {view} : Fits(b, t)
    BY DEF IInv
  <1> QED  BY <1>1, <1>2, IInvGives DEF Reached

LEMMA ProducerStepsReach == ASSUME IInv, MineBlock \/ Reorg PROVE Reached
  <1>1. ASSUME MineBlock PROVE Reached
    <2>1. PICK ts \in SUBSET {t \in pool \cup PeerTxs : MayMine(t)} :
              chain' = Append(chain, ts) /\ pool' = {t \in pool \ ts : \A u \in ts : Coin(t) # Coin(u)}
      BY <1>1 DEF MineBlock
    <2>2. PICK d : d = Append(chain, ts)
      OBVIOUS
    <2>3. \A t \in ts : AnyTx(t)
      BY <2>1, IInvGives, PeerTxsAny
    <2>4. ChainOK(d)
      BY <2>2, <2>3, IInvGives, AppendOK
    <2>5. pool' \subseteq pool
      BY <2>1
    <2>6. UNCHANGED <<sc, view, m, saved, repairs, posted, polled, up>>
      BY <1>1 DEF MineBlock
    <2> QED  BY <2>1, <2>2, <2>4, <2>5, <2>6, ProducerReaches
  <1>2. ASSUME Reorg PROVE Reached
    <2>1. PICK k \in 1 .. MaxDepth : k <= Height(chain) /\ chain' = SubSeq(chain, 1, Height(chain) - k)
      BY <1>2 DEF Reorg
    <2>2. PICK n, d : n = Len(chain) - k /\ d = SubSeq(chain, 1, n)
      OBVIOUS
    <2>3. Len(chain) \in Nat
      BY IInvGives, ChainIs
    <2>4. n \in Nat /\ n <= Len(chain)
      BY <2>1, <2>2, <2>3 DEF Height
    <2>5. ChainOK(d)
      BY <2>2, <2>4, IInvGives, SubSeqOK
    <2>6. UNCHANGED <<sc, view, m, saved, repairs, posted, polled, up, pool>>
      BY <1>2 DEF Reorg
    <2> QED  BY <2>1, <2>2, <2>5, <2>6, ProducerReaches DEF Height
  <1> QED  BY <1>1, <1>2

LEMMA StutterReaches == ASSUME IInv, UNCHANGED vars PROVE Reached
  <1>1. PICK d : d = chain
    OBVIOUS
  <1>2. chain' = d /\ pool' \subseteq pool /\ UNCHANGED <<sc, view, m, saved, repairs, posted, polled, up>>
    BY <1>1 DEF vars
  <1> QED  BY <1>1, <1>2, IInvGives, ProducerReaches

LEMMA IInvInductive == ASSUME IInv, [Next]_vars PROVE IInv'
  <1>1. Reached
    BY StepReaches, StepUnreadReaches, StepUnsavedReaches, DieReaches, LoadReaches, CommandsReach,
       ProducerStepsReach, StutterReaches DEF Next
  <1>2. sc \in Scenarios
    BY IInvGives
  <1> QED  BY <1>1, <1>2, ReachedIs

LEMMA IInvAlways == Spec => []IInv
  BY InitOK, IInvInductive, PTL DEF Spec
-----------------------------------------------------------------------------
(* The results. *)

\* An input the chain takes is signed by the keys of the leaf it spends.
LEMMA SignedBy ==
    ASSUME NEW tx, NEW out, VerifyChannelInput(tx, out)
    PROVE  tx.sigs = tx.leaf.keys
  BY DEF VerifyChannelInput, CheckSignatures

\* A claim of an HTLC output spends the leaf it names and is signed by the key it is given.
LEMMA HtlcClaimSpends ==
    ASSUME NEW coin, NEW path, NEW signer, coin.kind = "htlc"
    PROVE  /\ ClaimOf(coin, path, signer).leaf = coin.script[path]
           /\ ClaimOf(coin, path, signer).sigs = {signer}
  <1>1. ClaimOf(coin, path, signer) = ClaimHtlc(coin, path, signer, sc.channel.fee)
    BY DEF ClaimOf
  <1>2. PICK rel, lock, preimage, value :
            /\ rel = IF path = "revocation" THEN 0 ELSE coin.script[path].delay
            /\ lock = IF path = "timeout" THEN coin.script[path].expiry ELSE 0
            /\ preimage = (path = "success") /\ value = ClaimValue(coin.value, sc.channel.fee)
    OBVIOUS
  <1>3. ClaimHtlc(coin, path, signer, sc.channel.fee)
          = OneInputTx(rel, lock, coin.script[path], signer, preimage, value)
    BY <1>2 DEF ClaimHtlc
  <1> QED  BY <1>1, <1>3 DEF OneInputTx

\* What the follower finds it can take is a claim of its own on the closing commitment.
LEMMA TakeableIsOwn ==
    ASSUME sc \in Scenarios, m.spend.tx \in Commitments, NEW t \in Takeable
    PROVE  /\ OwnClaim(t) /\ t.on = m.spend.tx /\ IsWorth(t.on, t.v) /\ TxOf(t) = ClaimTx(t)
           /\ t.path = "revocation" => Revoked(t.on)
           /\ ClaimTx(t).preimage => HtlcOf(t.on, t.v).hash \in m.knows
  <1> DEFINE close == m.spend.tx
             out == OutputsOf(t.on)[t.v]
             key == SigningKey(t)
             o == close.owner
             d == sc.channel.delay
  <1>0. close # None /\ close # Coop /\ o \in Sides /\ Sides = {Me, Peer} /\ ChannelKey(Me) # ChannelKey(Peer)
        /\ OtherSide(Me) = Peer /\ OtherSide(Peer) = Me /\ Me # Peer
    BY CommitmentFields, TwoSides, KeysDiffer
  <1>1a. PICK v \in DOMAIN OutputsOf(close) :
             \E p \in DOMAIN OutputsOf(close)[v].script \ {"key"} : t = ClaimOn(close, v, p, Me)
    BY <1>0 DEF Takeable
  <1>1. PICK p \in DOMAIN OutputsOf(close)[v].script \ {"key"} : t = ClaimOn(close, v, p, Me)
    BY <1>1a
  <1>2. /\ VerifyChannelInput(ClaimTx(t), CoinOf(t))
        /\ ClaimTx(t).preimage => HtlcOf(t.on, t.v).hash \in m.knows
        /\ t.path = "revocation" => t.on.owner = Peer /\ Revoked(t.on)
        /\ Worth(CoinOf(t).value, sc.channel.fee)
    BY <1>0 DEF Takeable
  <1>3. /\ t.on = close /\ t.v = v /\ t.path = p /\ t.by = Me /\ t.k = "claim"
        /\ t = ClaimOn(t.on, t.v, t.path, Me) /\ TxOf(t) = ClaimTx(t) /\ CoinOf(t) = out
    BY <1>1 DEF ClaimOn, TxOf, CoinOf
  <1>4. p # "revocation" => key = ChannelKey(Me)
    BY <1>3 DEF SigningKey
  <1>5. v \in ToLocal(close) \/ v \in Htlcs(close)
    <2>1. Shape(close, v, OutputsOf(close)[v])
      BY <1>1, OutputsAre
    <2>2. OutputsOf(close)[v].kind \in {"to_local", "to_remote", "htlc"}
      BY <2>1 DEF Shape
    <2>3. ASSUME OutputsOf(close)[v].kind = "to_remote" PROVE FALSE
      <3>1. OutputsOf(close)[v].script = ToRemoteScript(OtherSide(o))
        BY <2>1, <2>3 DEF Shape
      <3>2. DOMAIN OutputsOf(close)[v].script = {"key"}
        BY <3>1 DEF ToRemoteScript
      <3> QED  BY <1>1, <3>2
    <2> QED  BY <1>1, <2>2, <2>3 DEF ToLocal, Htlcs
  <1>6. ClaimTx(t) = ClaimOf(out, p, key)
    BY <1>3 DEF ClaimTx
  <1>7. ASSUME v \in ToLocal(close) PROVE OwnClaim(t)
    <2>1. /\ out.kind = "to_local" /\ out.script = ToLocalScript(o, Rev(close), d)
      BY <1>3, <1>7, LocalIs
    <2>2. ClaimTx(t).leaf = out.script[p] /\ ClaimTx(t).sigs = {key}
      BY <1>6, <2>1 DEF ClaimOf, SweepToLocal, OneInputTx
    <2>3. /\ out.script["delayed"].keys = {ChannelKey(o)} /\ DOMAIN out.script = {"delayed", "revocation"}
      BY <2>1 DEF ToLocalScript, Leaf
    <2>4. p \in {"delayed", "revocation"}
      BY <1>1, <1>3, <2>3
    <2>5. CASE p = "delayed"
      <3>1. key = ChannelKey(o)
        <4>1. VerifyChannelInput(ClaimTx(t), out)
          BY <1>2, <1>3
        <4> HIDE DEF key, out, o
        <4>2. ClaimTx(t).sigs = ClaimTx(t).leaf.keys
          BY ONLY <4>1, SignedBy
        <4>3. {key} = {ChannelKey(o)}
          BY ONLY <2>2, <2>3, <2>5, <4>2
        <4> QED  BY ONLY <4>3
      <3>2. o = Me
        BY <1>0, <1>4, <2>5, <3>1
      <3> QED  BY <1>1, <1>3, <1>7, <2>5, <3>2 DEF OwnClaim
    <2>6. CASE p = "revocation"
      BY <1>1, <1>2, <1>3, <1>7, <2>6 DEF OwnClaim
    <2> QED  BY <2>4, <2>5, <2>6
  <1>8. ASSUME v \in Htlcs(close) PROVE OwnClaim(t)
    <2> DEFINE h == HtlcOf(close, v)
    <2>1. /\ out.kind = "htlc" /\ out.script = HtlcScript(o, Rev(close), d, h.expiry, h.from = o)
          /\ h.from \in Sides /\ (OfferedByMe(close, v) <=> h.from = Me)
      BY <1>3, <1>8, HtlcIs
    <2>2. ClaimTx(t).leaf = out.script[p] /\ ClaimTx(t).sigs = {key}
      <3>1. out.kind = "htlc" /\ ClaimTx(t) = ClaimOf(out, p, key)
        BY <1>6, <2>1
      <3> HIDE DEF out, key
      <3>2. /\ ClaimOf(out, p, key).leaf = out.script[p]
            /\ ClaimOf(out, p, key).sigs = {key}
        BY ONLY <3>1, HtlcClaimSpends
      <3> QED  BY ONLY <3>1, <3>2, Zenon
    <2>3. /\ out.script["success"] = IF h.from = o THEN Leaf({ChannelKey(OtherSide(o))}, TRUE, 0, 0)
                                     ELSE Leaf({ChannelKey(o)}, TRUE, d, 0)
          /\ out.script["timeout"] = IF h.from = o THEN Leaf({ChannelKey(o)}, FALSE, d, h.expiry)
                                     ELSE Leaf({ChannelKey(OtherSide(o))}, FALSE, 0, h.expiry)
          /\ DOMAIN out.script = {"success", "timeout", "revocation"}
      BY <2>1 DEF HtlcScript
    <2> DEFINE far == IF h.from = o THEN OtherSide(o) ELSE o
               near == IF h.from = o THEN o ELSE OtherSide(o)
    <2>4. out.script["success"].keys = {ChannelKey(far)} /\ out.script["timeout"].keys = {ChannelKey(near)}
      <3> HIDE DEF out, h, o, d
      <3> QED  BY <2>3 DEF Leaf
    <2>5. p \in {"success", "timeout", "revocation"}
      BY <1>1, <1>3, <2>3
    <2>6. CASE p = "success"
      <3>1. key = ChannelKey(far)
        <4>1. out.script[p].keys = {ChannelKey(far)} /\ VerifyChannelInput(ClaimTx(t), out)
          BY <1>2, <1>3, <2>4, <2>6
        <4> HIDE DEF key, out, far
        <4>2. ClaimTx(t).sigs = ClaimTx(t).leaf.keys
          BY ONLY <4>1, SignedBy
        <4>3. {key} = {ChannelKey(far)}
          BY ONLY <2>2, <4>1, <4>2
        <4> QED  BY ONLY <4>3
      <3>2. far = Me
        <4>1. far \in {Me, Peer}
          BY <1>0
        <4> HIDE DEF far
        <4> QED  BY <1>0, <1>4, <2>6, <3>1, <4>1
      <3>3. h.from # Me
        BY <1>0, <3>2
      <3> QED  BY <1>1, <1>3, <1>8, <2>1, <2>6, <3>3 DEF OwnClaim
    <2>7. CASE p = "timeout"
      <3>1. key = ChannelKey(near)
        <4>1. out.script[p].keys = {ChannelKey(near)} /\ VerifyChannelInput(ClaimTx(t), out)
          BY <1>2, <1>3, <2>4, <2>7
        <4> HIDE DEF key, out, near
        <4>2. ClaimTx(t).sigs = ClaimTx(t).leaf.keys
          BY ONLY <4>1, SignedBy
        <4>3. {key} = {ChannelKey(near)}
          BY ONLY <2>2, <4>1, <4>2
        <4> QED  BY ONLY <4>3
      <3>2. near = Me
        <4>1. near \in {Me, Peer}
          BY <1>0
        <4> HIDE DEF near
        <4> QED  BY <1>0, <1>4, <2>7, <3>1, <4>1
      <3>3. h.from = Me
        BY <1>0, <2>1, <3>2
      <3> QED  BY <1>1, <1>3, <1>8, <2>1, <2>7, <3>3 DEF OwnClaim
    <2>8. CASE p = "revocation"
      BY <1>1, <1>2, <1>3, <1>8, <2>8 DEF OwnClaim
    <2> QED  BY <2>5, <2>6, <2>7, <2>8
  <1>9. IsWorth(t.on, t.v)
    BY <1>2, <1>3 DEF IsWorth
  <1> QED  BY <1>2, <1>3, <1>5, <1>7, <1>8, <1>9

\* A claim that is for later may not be in the next block, or needs a preimage that is not known.
LEMMA LaterIsEarly ==
    ASSUME sc \in Scenarios, NEW b, IsChain(b), NEW c, c.spend.at \in 1 .. Height(b), NEW t, OwnClaim(t),
           t.on = c.spend.tx, t.path # "revocation", Later(c, b, t.v),
           TxOf(t).preimage => HtlcOf(t.on, t.v).hash \in c.knows
    PROVE  ~MayBeIn(TxOf(t), c.spend.at, Height(b) + 1)
  <1>0. Height(b) \in Nat /\ sc.channel.delay \in Nat
    BY ChainIs, TwoSides DEF Height
  <1>1. t.on \in Commitments
    BY DEF OwnClaim
  <1>2. CASE Early(c, b)
    <2>1. c.spend.tx.owner = Me /\ Height(b) + 1 - c.spend.at < sc.channel.delay
      BY <1>0, <1>2 DEF Early, Confirmations
    <2>2. Me # Peer
      BY TwoSides
    <2>3. TxOf(t).rel = sc.channel.delay
      <3>1. CASE t.v \in ToLocal(t.on)
        <4>1. t.path = "delayed"
          <5>1. t.v \notin Htlcs(t.on)
            BY <3>1 DEF ToLocal, Htlcs
          <5> QED  BY <5>1 DEF OwnClaim
        <4> QED  BY <3>1, <4>1, SweepIs DEF Locked
      <3>2. CASE t.v \in Htlcs(t.on)
        BY <2>1, <3>2, HtlcClaimIs DEF Locked
      <3> QED  BY <3>1, <3>2 DEF OwnClaim
    <2> QED  BY <1>0, <2>1, <2>3 DEF MayBeIn
  <1>3. CASE t.v \in Htlcs(t.on) /\ OfferedByMe(t.on, t.v) /\ ~(Height(b) >= HtlcOf(t.on, t.v).expiry)
    <2>1. t.v \notin ToLocal(t.on)
      BY <1>3 DEF ToLocal, Htlcs
    <2>2. t.path = "timeout"
      BY <1>3, <2>1 DEF OwnClaim
    <2>3. TxOf(t).lock = HtlcOf(t.on, t.v).expiry
      BY <1>3, <2>2, HtlcClaimIs DEF Locked
    <2>4. HtlcOf(t.on, t.v).expiry \in Nat
      BY <1>1, <1>3, HtlcIs
    <2> QED  BY <1>0, <1>3, <2>3, <2>4 DEF MayBeIn
  <1>4. CASE t.v \in Htlcs(t.on) /\ ~OfferedByMe(t.on, t.v) /\ HtlcOf(t.on, t.v).hash \notin c.knows
    <2>1. t.v \notin ToLocal(t.on)
      BY <1>4 DEF ToLocal, Htlcs
    <2>2. t.path = "success"
      BY <1>4, <2>1 DEF OwnClaim
    <2>3. TxOf(t).preimage
      BY <1>4, <2>2, HtlcClaimIs
    <2> QED  BY <1>4, <2>3
  <1> QED  BY <1>2, <1>3, <1>4 DEF Later

LEMMA FollowsIs == IInv => FollowsTheChain
  <1> SUFFICES ASSUME IInv, polled PROVE FollowsTheChain
    BY DEF FollowsTheChain
  <1>1. Follows(m, view) /\ MachineOK(m)
    BY DEF IInv
  <1> DEFINE on == Spender(view, FundingCoin)
  <1>2. ASSUME on # {} PROVE m.spend.at \in FindTx(view, m.spend.tx)
    <2>1. m.spend.tx \in on
      BY <1>1, <1>2 DEF Follows, Elem
    <2>2. FindTx(view, m.spend.tx) # {}
      BY <2>1, IInvGives, SpenderIs
    <2> QED  BY <1>1, <1>2, <2>2 DEF Follows, Elem
  <1>3. m.spend.tx = Elem(on, None) /\ \A r \in m.claims : r.tx.on = m.spend.tx
    BY <1>1 DEF Follows, MachineOK
  <1> QED  BY <1>2, <1>3 DEF FollowsTheChain

LEMMA PostedIs == IInv => PostedIsValid
  BY DEF IInv, PostedIsValid, Fits

LEMMA ClaimsAre == IInv => ClaimsAreMade
  <1> SUFFICES ASSUME IInv, polled, NEW t \in Takeable
               PROVE  \/ ~MayBeIn(ClaimTx(t), m.spend.at, Height(view) + 1)
                      \/ \E r \in m.claims : r.tx.v = t.v
                      \/ t.v \in DOMAIN m.outs /\ m.outs[t.v] = "theirs"
    BY DEF ClaimsAreMade
  <1> DEFINE close == m.spend.tx
  <1>1. /\ sc \in Scenarios /\ IsChain(view) /\ SpendOK(m) /\ Done(m, view) /\ FollowsTheChain /\ Follows(m, view)
    BY FollowsIs DEF IInv, MachineOK, ChainOK
  <1>2. close \in Commitments
    <2>1. close # None /\ close # Coop
      BY DEF Takeable
    <2> QED  BY <1>1, <2>1 DEF SpendOK, NoSpend
  <1>3. /\ OwnClaim(t) /\ t.on = close /\ IsWorth(t.on, t.v) /\ TxOf(t) = ClaimTx(t)
        /\ t.path = "revocation" => Revoked(t.on)
        /\ ClaimTx(t).preimage => HtlcOf(t.on, t.v).hash \in m.knows
    BY <1>1, <1>2, TakeableIsOwn
  <1>4. CASE Revoked(close)
    <2>1. Punished(m)
      BY <1>1, <1>2, <1>4, CommitmentFields, MineIs DEF SpendOK, NoSpend
    <2>2. t.v \in Htlcs(close) \cup ToLocal(close)
      BY <1>3 DEF OwnClaim
    <2> QED  BY <1>3, <2>1, <2>2 DEF Punished, Claims
  <1>5. CASE ~Revoked(close)
    <2>1. t.path # "revocation"
      BY <1>3, <1>5
    <2>2. t.v \in Owed(close)
      BY <1>3, <2>1 DEF OwnClaim, Owed
    <2>3. Covered(m, t.v) \/ Later(m, view, t.v)
      BY <1>1, <1>2, <1>3, <1>5, <2>2 DEF Done, Prompt
    <2>4. CASE Covered(m, t.v)
      BY <2>4 DEF Covered, Claims
    <2>5. CASE Later(m, view, t.v)
      <3>1. m.spend.at \in 1 .. Height(view)
        <4>1. Spender(view, FundingCoin) # {}
          BY <1>1, <1>2, CommitmentFields DEF Follows, Elem
        <4>2. m.spend.at \in FindTx(view, close)
          BY <1>1, <4>1 DEF FollowsTheChain
        <4> QED  BY <1>1, <4>2, ChainIs DEF FindTx, Height
      <3> QED  BY <1>1, <1>3, <2>1, <2>5, <3>1, LaterIsEarly
    <2> QED  BY <2>3, <2>4, <2>5
  <1> QED  BY <1>4, <1>5

\* For every scenario and all bounds: after a poll the machine acts on the
\* spend of the funding that is in its blocks, at the height it has there,
\* and every claim it keeps is on it (watch_channel, on_spend, un_spend).
THEOREM AlwaysFollowsTheChain == Spec => []FollowsTheChain
  BY IInvAlways, FollowsIs, PTL

\* After a poll there is a claim on every output of the close that this host
\* can take in the next block, whichever commitment was published and however
\* the blocks were undone (after_close, claim_ready, punish, watch_outputs).
THEOREM ClaimsAlwaysMade == Spec => []ClaimsAreMade
  BY IInvAlways, ClaimsAre, PTL

\* What a poll sends is right for the next block of the host's chain: it is
\* signed for the leaf it shows, and its locks have run (premature).
THEOREM PostedAlwaysValid == Spec => []PostedIsValid
  BY IInvAlways, PostedIs, PTL
=============================================================================
