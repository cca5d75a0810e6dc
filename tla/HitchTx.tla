------------------------------ MODULE HitchTx ------------------------------
(***************************************************************************)
(* The transactions of a channel: what each pays, which leaves guard each  *)
(* output, how a claim through a leaf is made, and when a block may hold   *)
(* it.  sidestr-hitch/src/lib.rs builds them, sidestr-core/src/channel.rs  *)
(* judges them.                                                            *)
(*                                                                         *)
(* A key is the set of the secrets that a signature by it needs: a channel *)
(* key is one secret, a revocation key two, the basepoint of one peer and  *)
(* the per-state secret of the other.  A script is its leaves by name, and *)
(* a leaf says which keys sign, whether the preimage is shown, and its two *)
(* locks, where 0 is no lock.                                              *)
(***************************************************************************)
EXTENDS Integers, Sequences, FiniteSets, SequencesExt

CONSTANTS
    DUST,
    FeeBounds,      \* MIN_FEE .. MAX_FEE
    DelayBounds     \* MIN_DELAY .. MAX_DELAY

Sides == {"A", "B"}
OtherSide(s) == IF s = "A" THEN "B" ELSE "A"

ChannelKey(s) == {<<"key", s>>}
Basepoint(s) == <<"base", s>>
PerState(s, n) == <<"state", s, n>>

\* Both peers reach it: R + S_i from R and s_i, or from S_i and r.
RevocationPub(point, scalar) == {point, scalar}

\* Its secret needs both halves; the owner reveals its half to revoke.
RevocationKey(base, perState) == {base, perState}

(***************************************************************************)
(* Scripts.                                                                *)
(***************************************************************************)
Leaf(keys, preimage, delay, expiry) ==
    [keys |-> keys, preimage |-> preimage, delay |-> delay, expiry |-> expiry]

FundingScript == [both |-> Leaf({ChannelKey(s) : s \in Sides}, FALSE, 0, 0)]
ToRemoteScript(s) == [key |-> Leaf({ChannelKey(s)}, FALSE, 0, 0)]

ToLocalScript(owner, rev, delay) ==
    [delayed    |-> Leaf({ChannelKey(owner)}, FALSE, delay, 0),
     revocation |-> Leaf({rev}, FALSE, 0, 0)]

\* The owner's own way out waits for the delay, so that it can be punished.
HtlcScript(owner, rev, delay, expiry, offeredByOwner) ==
    LET remote == OtherSide(owner)
    IN  [success    |-> IF offeredByOwner THEN Leaf({ChannelKey(remote)}, TRUE, 0, 0)
                                          ELSE Leaf({ChannelKey(owner)}, TRUE, delay, 0),
         timeout    |-> IF offeredByOwner THEN Leaf({ChannelKey(owner)}, FALSE, delay, expiry)
                                          ELSE Leaf({ChannelKey(remote)}, FALSE, 0, expiry),
         revocation |-> Leaf({rev}, FALSE, 0, 0)]

(***************************************************************************)
(* Commitments and closes.  A state is the free balances and the HTLCs.    *)
(***************************************************************************)

HtlcTotal(htlcs) == FoldLeft(LAMBDA sum, h : sum + h.amount, 0, SetToSeq(htlcs))
CheckState(ch, st) == st.bal["A"] + st.bal["B"] + HtlcTotal(st.htlcs) = ch.value

\* The funder pays the fee, as far as its balance goes.
PayoutAfterFee(balance, s, fee) ==
    IF s # "A" THEN balance ELSE IF balance < fee THEN 0 ELSE balance - fee

Output(kind, value, script, id, from) ==
    [kind |-> kind, value |-> value, script |-> script, id |-> id, from |-> from]
NotDust(out) == out.value >= DUST

\* An output below DUST is left out.
WithoutDust(outs) == [v \in {x \in DOMAIN outs : NotDust(outs[x])} |-> outs[v]]

HtlcById(st, id) == CHOOSE h \in st.htlcs : h.id = id

\* to_local, to_remote, and an output for each HTLC: an output is named by what it is,
\* its place in the transaction is left out.
Commitment(ch, n, owner, st) ==
    LET remote == OtherSide(owner)
        rev == RevocationPub(Basepoint(remote), PerState(owner, n))
        locked(h) == Output("htlc", h.amount,
                            HtlcScript(owner, rev, ch.delay, h.expiry, h.from = owner), h.id, h.from)
        out(v) ==
            CASE v[1] = "to_local" -> Output("to_local", PayoutAfterFee(st.bal[owner], owner, ch.fee),
                                             ToLocalScript(owner, rev, ch.delay), 0, owner)
              [] v[1] = "to_remote" -> Output("to_remote", PayoutAfterFee(st.bal[remote], remote, ch.fee),
                                              ToRemoteScript(remote), 0, remote)
              [] v[1] = "htlc" -> locked(HtlcById(st, v[2]))
        names == {<<"to_local", 0>>, <<"to_remote", 0>>} \cup {<<"htlc", h.id>> : h \in st.htlcs}
    IN  IF CheckState(ch, st) THEN WithoutDust([v \in names |-> out(v)]) ELSE <<>>

CooperativeClose(ch, st) ==
    LET pay(s) == Output("to_remote", PayoutAfterFee(st.bal[s], s, ch.fee),
                         ToRemoteScript(s), 0, s)
    IN  IF st.htlcs = {} /\ CheckState(ch, st)
        THEN WithoutDust([v \in {<<s, 0>> : s \in Sides} |-> pay(v[1])]) ELSE <<>>

(***************************************************************************)
(* Claims.  A transaction with one input shows a leaf, the keys that       *)
(* signed and perhaps a preimage; rel is its relative lock (nSequence) and *)
(* lock its nLockTime.  An output not worth its fee is not claimed.        *)
(***************************************************************************)
ClaimValue(value, fee) == value - fee
Worth(value, fee) == ClaimValue(value, fee) >= DUST

OneInputTx(rel, lock, leaf, key, preimage, value) ==
    [rel |-> rel, lock |-> lock, leaf |-> leaf, sigs |-> {key}, preimage |-> preimage,
     value |-> value]

SweepToLocal(out, path, key, fee) ==
    OneInputTx(out.script[path].delay, 0, out.script[path], key, FALSE,
               ClaimValue(out.value, fee))

ClaimHtlc(out, path, key, fee) ==
    LET leaf == out.script[path]
    IN  OneInputTx(IF path = "revocation" THEN 0 ELSE leaf.delay,
                   IF path = "timeout" THEN leaf.expiry ELSE 0,
                   leaf, key, path = "success", ClaimValue(out.value, fee))

KeyPathSpend(out, key, fee) ==
    OneInputTx(0, 0, out.script["key"], key, FALSE, ClaimValue(out.value, fee))

(***************************************************************************)
(* The chain's judgement.                                                  *)
(***************************************************************************)
Leaves(out) == {out.script[p] : p \in DOMAIN out.script}
CheckSequence(tx, delay) == delay > 0 => tx.rel >= delay
CheckLockTime(tx, expiry) == expiry > 0 => tx.lock >= expiry
CheckSignatures(tx, keys) == tx.sigs = keys

VerifyChannelInput(tx, out) ==
    /\ tx.leaf \in Leaves(out)
    /\ tx.preimage = tx.leaf.preimage
    /\ CheckLockTime(tx, tx.leaf.expiry)
    /\ CheckSequence(tx, tx.leaf.delay)
    /\ CheckSignatures(tx, tx.leaf.keys)

\* Mutated: the delay counts from the block after the coin's.
MutEarliestHeight(tx, coin) ==
    LET rel == IF tx.rel > 0 THEN coin + tx.rel - 1 ELSE 0
        abs == IF tx.lock > 0 THEN tx.lock + 1 ELSE 0
    IN  IF rel > abs THEN rel ELSE abs

\* The first height whose block may hold tx, its coin being at height coin.
EarliestHeight(tx, coin) ==
    LET rel == IF tx.rel > 0 THEN coin + tx.rel ELSE 0
        abs == IF tx.lock > 0 THEN tx.lock + 1 ELSE 0
    IN  IF rel > abs THEN rel ELSE abs

\* The rule of a block: BIP 68 depth and finality.
MayBeIn(tx, coin, height) == height - coin >= tx.rel /\ height > tx.lock
============================================================================
