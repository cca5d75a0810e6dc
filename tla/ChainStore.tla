----------------------------- MODULE ChainStore -----------------------------
(***************************************************************************)
(* A chain on disk (sidestr-core/src/chain.rs over state.rs and            *)
(* blockfile.rs): the state in memory, blocks.dat with a record per block, *)
(* and blocks.json, the index a start replays.  A block is applied to the  *)
(* state first, then appended to blocks.dat, then blocks.json is written   *)
(* anew in place.  A write may fail and the process may die at any point   *)
(* of that; the process that lives on keeps the state it has.              *)
(*                                                                         *)
(* blocks.dat is a sequence of units: the height, the size and the bytes   *)
(* of a record, so that a record can be cut off.  A transaction that is    *)
(* refused, and a call that fails before anything changes, is no step.     *)
(***************************************************************************)
EXTENDS ChainRules

CONSTANTS
    BlockTxs,       \* the transaction lists of blocks that come from elsewhere
    BlockFees,      \* what their coinbases take
    ClaimLists,     \* the claims such a block may make, sequences of [op, v]
    ClaimRequests,  \* the claims a producer is asked for
    MaxHeight,      \* bound: no block above it is tried
    MaxFaults       \* bound: writes that fail or deaths of the process

ASSUME StoreAssumption ==
    /\ MaxHeight \in Nat /\ MaxFaults \in Nat
    /\ 1 .. MaxHeight + 1 \subseteq DOMAIN MedianTime
    /\ BlockTxs \subseteq Seq(TxIds) /\ BlockFees \subseteq Nat
    /\ \A claims \in ClaimLists \cup ClaimRequests :
          /\ DOMAIN claims = 1 .. Len(claims) /\ Len(claims) \in Nat
          /\ \A i \in DOMAIN claims : claims[i].v \in Nat

VARIABLES
    up,             \* the process runs
    state,          \* StateOf; while the process is down, what it last was
    index,          \* the index in memory
    dat,            \* blocks.dat
    json,           \* blocks.json: "none", "torn" or "ok" with its entries
    acked,          \* the blocks a call has reported as added
    faults          \* the faults so far

storeVars == <<up, state, index, dat, json, acked, faults>>

Record(b) ==
    <<[k |-> "height", h |-> b.h, b |-> <<>>], [k |-> "size", h |-> 1, b |-> <<>>],
      [k |-> "bytes", h |-> 0, b |-> <<b>>]>>

TypeOK ==
    /\ up \in BOOLEAN /\ faults \in 0 .. MaxFaults
    /\ json.st \in {"none", "torn", "ok"}
    /\ \A i \in DOMAIN index : index[i].height \in 0 .. MaxHeight
            /\ index[i].offset + Len(Record(Genesis)) <= Len(dat)
    /\ up => Len(state.chain) \in 1 .. MaxHeight + 1
    /\ state.spent = SpentBy(state.mempool)

StoreInit ==
    /\ up = FALSE /\ state = Empty /\ index = <<>>
    /\ dat = <<>> /\ json = [st |-> "none", blocks |-> <<>>]
    /\ acked = {} /\ faults = 0

(***************************************************************************)
(* The block file.                                                         *)
(***************************************************************************)
Entry(b) == [height |-> b.h, hash |-> Hash(b), offset |-> Len(dat)]

\* What read_block gives for an entry: <<block>>, or <<>> when it refuses.
ReadBlock(e) ==
    IF /\ e.offset + 3 <= Len(dat)
       /\ dat[e.offset + 1].k = "height" /\ dat[e.offset + 1].h = e.height
       /\ dat[e.offset + 2].k = "size" /\ dat[e.offset + 2].h = 1
    THEN dat[e.offset + 3].b ELSE <<>>

\* append_block with the index ix, then write_index: every way they can end.
\* ok: the call returned; alive: the process lives on.
Writes(b, ix) ==
    LET rec == Record(b)
        pushed == Append(ix, Entry(b))
    IN  {[dat |-> dat \o rec, index |-> pushed, json |-> [st |-> "ok", blocks |-> pushed],
          ok |-> TRUE, alive |-> TRUE]}
        \cup (IF faults = MaxFaults THEN {} ELSE
              {[dat |-> dat \o SubSeq(rec, 1, n), index |-> ix, json |-> json,
                ok |-> FALSE, alive |-> a] : n \in 0 .. 2, a \in BOOLEAN}
              \cup {[dat |-> dat \o rec, index |-> pushed, json |-> j,
                     ok |-> FALSE, alive |-> a] :
                    j \in {json, [st |-> "torn", blocks |-> <<>>]}, a \in BOOLEAN}
              \cup {[dat |-> dat \o rec, index |-> pushed, json |-> [st |-> "ok", blocks |-> pushed],
                     ok |-> FALSE, alive |-> FALSE]})

\* The block b is in the state s already; it is written down.
WriteDown(s, b) ==
    \E w \in Writes(b, index) :
        /\ dat' = w.dat /\ index' = w.index /\ json' = w.json /\ up' = w.alive
        /\ state' = s
        /\ acked' = IF w.ok THEN acked \cup {b} ELSE acked
        /\ faults' = IF w.ok THEN faults ELSE faults + 1

(***************************************************************************)
(* Starting: the state is the replay of what the index names.              *)
(***************************************************************************)
ReplayEntry(acc, e) ==
    LET got == ReadBlock(e)
    IN  IF acc = <<>> \/ got = <<>> THEN <<>>
        ELSE IF Follows(acc[1], e.height, got[1]) /\ Judge(acc[1], got[1])
                /\ Hash(got[1]) = e.hash
             THEN <<Applied(acc[1], got[1])>> ELSE <<>>

\* <<state>>, or <<>> when the start refuses the file.
Replay(ix) ==
    IF ix = <<>> \/ Head(ix).height # 0 THEN <<>>
    ELSE LET got == ReadBlock(Head(ix))
         IN  IF got = <<>> THEN <<>>
             ELSE IF GenesisOk(got[1]) /\ Hash(got[1]) = Head(ix).hash
                  THEN FoldLeft(ReplayEntry, <<Applied(Empty, got[1])>>, Tail(ix))
                  ELSE <<>>

OpenNew ==
    /\ ~up /\ json.st = "none"
    /\ \E w \in Writes(Genesis, <<>>) :
        /\ dat' = w.dat /\ json' = w.json /\ up' = w.ok
        /\ index' = IF w.ok THEN w.index ELSE <<>>
        /\ state' = Applied(Empty, Genesis)
        /\ acked' = IF w.ok THEN acked \cup {Genesis} ELSE acked
        /\ faults' = IF w.ok THEN faults ELSE faults + 1

OpenReplay ==
    /\ ~up /\ json.st = "ok" /\ Replay(json.blocks) # <<>>
    /\ up' = TRUE /\ state' = Replay(json.blocks)[1] /\ index' = json.blocks
    /\ UNCHANGED <<dat, json, acked, faults>>

Die ==
    /\ up /\ faults < MaxFaults
    /\ up' = FALSE /\ faults' = faults + 1
    /\ UNCHANGED <<state, index, dat, json, acked>>

(***************************************************************************)
(* Running.                                                                *)
(***************************************************************************)
Submit(t) ==
    /\ up /\ MayEnter(state, t)
    /\ state' = Submitted(state, t)
    /\ UNCHANGED <<up, index, dat, json, acked, faults>>

Discard(t) ==
    /\ up /\ Contains(state.mempool, t)
    /\ state' = Discarded(state, t)
    /\ UNCHANGED <<up, index, dat, json, acked, faults>>

AddBlock(b) ==
    /\ up /\ b.h <= MaxHeight
    /\ Follows(state, b.h, b) /\ Judge(state, b)
    /\ WriteDown(Applied(state, b), b)

\* clock: the header's time is one the header rules accept.
HeaderRejected(clock) == ~clock

ProduceAtOnce(claims, clock) ==
    /\ up /\ Height(state) < MaxHeight /\ Claimable(state, claims)
    /\ LET b == Sealed(NextBlock(state, state.mempool, claims))
       IN  clock /\ Judge(state, b) /\ WriteDown(Applied(state, b), b)

\* The block was refused: the mempool is walked, and what is left is tried.
\* A walk under a clock the header rules refuse finds every addition refused.
ProduceEvicting(claims, clock) ==
    LET all == Sealed(NextBlock(state, state.mempool, claims))
        s == IF clock THEN Walked(state, claims)
             ELSE FoldLeft(Evicted, state, state.mempool)
        b == Sealed(NextBlock(s, s.mempool, claims))
    IN  /\ up /\ Height(state) < MaxHeight /\ Claimable(state, claims)
        /\ ~(clock /\ Judge(state, all))
        /\ ~HeaderRejected(clock) /\ state.mempool # <<>>
        /\ s # state
        /\ IF clock /\ Judge(s, b) THEN WriteDown(Applied(s, b), b)
           ELSE /\ state' = s
                /\ UNCHANGED <<up, index, dat, json, acked, faults>>

Foreign ==
    {[h |-> Height(state) + d, prev |-> Hash(Last(state.chain)), txs |-> txs, fee |-> fee,
      claims |-> claims, pegs |-> <<>>, sealed |-> seal] :
        d \in {1, 2}, txs \in BlockTxs, fee \in BlockFees, claims \in ClaimLists,
        seal \in BOOLEAN}

StoreNext ==
    \/ OpenNew \/ OpenReplay \/ Die
    \/ \E t \in TxIds : Submit(t) \/ Discard(t)
    \/ up /\ \E b \in Foreign : AddBlock(b)
    \/ \E claims \in ClaimRequests, clock \in BOOLEAN :
            ProduceAtOnce(claims, clock) \/ ProduceEvicting(claims, clock)

StoreSpec == StoreInit /\ [][StoreNext]_storeVars

(***************************************************************************)
(* Properties.                                                             *)
(***************************************************************************)
\* What a start replays is never anything but a beginning of the chain the
\* process had, whatever writes failed before (open_with, read_block).  A start
\* that refuses its files replays nothing, and the beginning may be a short one.
ReplayIsPrefix ==
    LET r == IF json.st = "ok" THEN Replay(json.blocks) ELSE <<>>
    IN  r # <<>> => IsPrefix(r[1].chain, state.chain)

\* The coins and the burns never exceed what the genesis minted and what
\* claims brought in, each parent outpoint counted once (SPEC 6 and 7).
SupplyBacked ==
    LET ops == {r.op : r \in state.claims}
        paid == [op \in ops |-> Max({r.v : r \in {q \in state.claims : q.op = op}})]
    IN  state.chain # <<>> =>
            ValueOf(state.utxo) + ValueOf(state.pegouts) <= SumFunction(Pegs) + SumFunction(paid)

\* Admission and the block rules agree but for locks by time: the mempool makes
\* a valid next block as far as weight and signature operations allow, less what
\* only a further rule refuses and less what a lock still holds of a transaction
\* for which earliest_height gives no height, which submit lets in unjudged.
MempoolMakesBlock ==
    LET h == Height(state) + 1
        held(t) == \/ ~FinalAt(t, h)
                   \/ \E c \in state.utxo : c.op \in TxDef[t].ins /\ h < c.h + TxDef[t].wait
        early == {t \in TxIds : Unjudged(t) /\ held(t)}
        pool == Only(state.mempool, TxIds \ (RuleRefused \cup early))
        weight == SumFunction([i \in DOMAIN pool |-> TxDef[pool[i]].w])
        ops == SumFunction([i \in DOMAIN pool |-> TxDef[pool[i]].ops])
    IN  up /\ weight <= MaxWeight /\ 4 * ops <= MaxSigops
            => Judge(state, Sealed(NextBlock(state, pool, <<>>)))

=============================================================================
