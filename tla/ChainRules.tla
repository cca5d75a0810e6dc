----------------------------- MODULE ChainRules -----------------------------
(***************************************************************************)
(* The rules of a sidestr chain (sidestr-core/src/rules.rs, block.rs and   *)
(* the part of state.rs that touches neither a file nor a clock): what a   *)
(* block is, when it is valid on a state, and what applying it leaves.     *)
(*                                                                         *)
(* A transaction is its entry in TxDef: the outpoints it spends, its       *)
(* outputs, its weight and signature operations, and its locks: wait, the  *)
(* blocks its inputs must be old (0 for none), or span when that age is a  *)
(* time; lock, its nLockTime when it is a height, or until when it is a    *)
(* time.  Its signatures are good (submit and the block rules verify them  *)
(* with the same function) and its shape is legal.  Amounts stay far below *)
(* the 64 bits of the code.  A block's hash is everything it commits to    *)
(* but its time, which is in Headers: here the median of the times below a *)
(* height is a constant.                                                   *)
(***************************************************************************)
EXTENDS Integers, SequencesExt

CONSTANTS
    TxDef,          \* [id -> [ins, outs, w, ops, wait, span, lock, until]], ids are positive
    RuleRefused,    \* transactions a rule beyond the core (BlockRule) refuses
    Pegs,           \* the amounts the genesis mints, a sequence
    PegoutMin,      \* the least a burn may carry
    MinFeeRate,     \* the producer's fee floor
    MaxWeight,      \* max_block_weight, less what a block weighs without transactions
    MaxSigops,      \* max_block_sigops_cost, less what the coinbase counts
    MedianTime,     \* [height -> the median time past of the blocks below it]
    Maturity        \* coinbase_maturity

TxIds == DOMAIN TxDef

ASSUME RulesAssumption ==
    /\ TxIds \subseteq Nat \ {0} /\ RuleRefused \subseteq TxIds
    /\ PegoutMin \in Nat /\ MinFeeRate \in Nat /\ MaxWeight \in Nat /\ Maturity \in Nat
    /\ Pegs \in Seq(Nat)
    /\ \A t \in TxIds :
          /\ TxDef[t].outs \in Seq([v : Nat, kind : {"pay", "burn", "malformed", "data"}])
          /\ TxDef[t].ins # {} /\ TxDef[t].wait \in Nat /\ TxDef[t].lock \in Nat
          /\ TxDef[t].until \in Nat /\ TxDef[t].span \in BOOLEAN
          /\ TxDef[t].lock = 0 \/ TxDef[t].until = 0
          /\ TxDef[t].span => TxDef[t].wait = 0
    /\ \A h \in DOMAIN MedianTime : MedianTime[h] \in Nat

\* An output pays ("pay"), burns to the parent ("burn", "malformed" when no
\* script can be read from it) or carries data; only "pay" creates a coin.
Spendable(o) == o.kind = "pay"
SumOut(outs) == SumFunction([i \in DOMAIN outs |-> outs[i].v])

\* The coins an output list makes: txid is <<"tx", id>> or <<"cb", height>>.
CoinsOf(txid, outs, height) ==
    {[op |-> <<txid[1], txid[2], i>>, v |-> outs[i].v, h |-> height,
      cb |-> txid[1] = "cb"] : i \in {j \in DOMAIN outs : Spendable(outs[j])}}

\* Coins are kept by outpoint: one that comes takes the place of one that is there.
Insert(utxo, coins) == {c \in utxo : \A d \in coins : d.op # c.op} \cup coins
ValueOf(coins) == SumFunction([c \in coins |-> c.v])

(***************************************************************************)
(* Blocks.  fee is what the coinbase pays to the challenge, each claim is  *)
(* a payout followed by the marker of the parent outpoint it claims.       *)
(***************************************************************************)
Hash(b) == <<b.h, b.prev, b.txs, b.fee, b.claims, b.pegs>>

CoinbaseOuts(b) ==
    LET paid(n) == IF n = 0 THEN <<>> ELSE <<[v |-> n, kind |-> "pay"]>>
        payouts == [i \in DOMAIN b.claims |-> [v |-> b.claims[i].v, kind |-> "pay"]]
    IN  [i \in DOMAIN b.pegs |-> [v |-> b.pegs[i], kind |-> "pay"]] \o paid(b.fee) \o payouts

Genesis == [h |-> 0, prev |-> <<>>, txs |-> <<>>, fee |-> 0, claims |-> <<>>,
            pegs |-> Pegs, sealed |-> TRUE]

\* The block with the chain's signature in its coinbase.
Sealed(b) == [b EXCEPT !.sealed = TRUE]

(***************************************************************************)
(* A state: the chain from the genesis up, the coins, the records of       *)
(* claims and burns, the mempool with the outpoints it reserves, and what  *)
(* this process has rejected.                                              *)
(***************************************************************************)
Height(s) == Len(s.chain) - 1
CoinAt(coins, op) == {c \in coins : c.op = op}

\* The transactions of a block spent one after the other.
ResolveTx(s, h, acc, t) ==
    LET tx == TxDef[t]
        coins == UNION {CoinAt(Insert(s.utxo, acc.created), op) : op \in tx.ins \ acc.spent}
        value == ValueOf(coins)
        missing == {op \in tx.ins : op \in acc.spent \/ CoinAt(coins, op) = {}}
    IN  [spent |-> acc.spent \cup tx.ins,
         created |-> Insert(acc.created, CoinsOf(<<"tx", t>>, tx.outs, h)),
         fees |-> acc.fees + (IF missing = {} /\ value >= SumOut(tx.outs)
                              THEN value - SumOut(tx.outs) ELSE 0),
         missing |-> acc.missing \cup missing,
         deficit |-> acc.deficit \/ (missing = {} /\ value < SumOut(tx.outs)),
         premature |-> acc.premature \/ \E c \in coins : c.cb /\ h - c.h < Maturity,
         seqlock |-> acc.seqlock \/ \E c \in coins : tx.wait > 0 /\ h < c.h + tx.wait]

ResolveSpending(s, b) ==
    FoldLeft(LAMBDA acc, t : ResolveTx(s, b.h, acc, t),
             [spent |-> {}, created |-> CoinsOf(<<"cb", b.h>>, CoinbaseOuts(b), b.h), fees |-> 0,
              missing |-> {}, deficit |-> FALSE, premature |-> FALSE, seqlock |-> FALSE],
             b.txs)

StructureOk(b) ==
    /\ IsInjective(b.txs)
    /\ 4 * SumFunction([i \in DOMAIN b.txs |-> TxDef[b.txs[i]].ops]) <= MaxSigops
    /\ SumFunction([i \in DOMAIN b.txs |-> TxDef[b.txs[i]].w]) <= MaxWeight
    /\ b.sealed

\* nLockTime: a height below the block's, or a time below the median time past.
FinalAt(t, h) ==
    /\ TxDef[t].lock > 0 => TxDef[t].lock < h
    /\ TxDef[t].until > 0 => TxDef[t].until < MedianTime[h]
Final(b) == \A i \in DOMAIN b.txs : FinalAt(b.txs[i], b.h)

\* Mutated: the rule looks at the block's own claims only.
MutClaimsOk(s, b) ==
    \A i, j \in DOMAIN b.claims : i # j => b.claims[i].op # b.claims[j].op

ClaimsOk(s, b) ==
    /\ \A i, j \in DOMAIN b.claims : i # j => b.claims[i].op # b.claims[j].op
    /\ \A i \in DOMAIN b.claims : \A r \in s.claims : r.op = b.claims[i].op => r.h = b.h

Burnt(t, h) ==
    {[op |-> <<"tx", t, j>>, v |-> TxDef[t].outs[j].v, h |-> h] :
        j \in {m \in DOMAIN TxDef[t].outs : TxDef[t].outs[m].kind = "burn"}}
BurnsOf(b) == UNION {Burnt(b.txs[i], b.h) : i \in DOMAIN b.txs}

PegoutsOk(s, b) ==
    /\ \A i \in DOMAIN b.txs : \A j \in DOMAIN TxDef[b.txs[i]].outs :
            TxDef[b.txs[i]].outs[j].kind # "malformed"
    /\ \A p \in BurnsOf(b) : p.v >= PegoutMin /\ \A r \in s.pegouts : r.op = p.op => r.h = b.h

ContextOk(s, b) ==
    LET sp == ResolveSpending(s, b)
        paid == SumFunction([i \in DOMAIN b.claims |-> b.claims[i].v])
        subsidy == IF b.h = 0 THEN SumFunction(Pegs) ELSE 0
    IN  /\ Final(b) /\ ~sp.seqlock
        /\ sp.missing = {} /\ ~sp.premature /\ ~sp.deficit
        /\ \A i \in DOMAIN b.claims : b.claims[i].v > 0
        /\ SumOut(CoinbaseOuts(b)) <= subsidy + sp.fees + paid
        /\ PegoutsOk(s, b) /\ ClaimsOk(s, b)
        /\ \A i \in DOMAIN b.txs : b.txs[i] \notin RuleRefused

Judge(s, b) == StructureOk(b) /\ ContextOk(s, b)

\* Mutated: whatever comes next in the file is taken to be the next block.
MutFollows(s, h, b) == TRUE

\* The block extends the tip: its height and the block it names.
Follows(s, h, b) == h = Height(s) + 1 /\ b.prev = Hash(Last(s.chain))

ApplyTx(h, utxo, t) ==
    Insert({c \in utxo : c.op \notin TxDef[t].ins}, CoinsOf(<<"tx", t>>, TxDef[t].outs, h))

\* The transactions of a list that are among some, in order.
Only(list, some) == FoldLeft(LAMBDA kept, t : IF t \in some THEN Append(kept, t) ELSE kept, <<>>, list)

SpentBy(pool) == UNION {TxDef[pool[i]].ins : i \in DOMAIN pool}

Applied(s, b) ==
    LET utxo == FoldLeft(LAMBDA u, t : ApplyTx(b.h, u, t),
                         Insert(s.utxo, CoinsOf(<<"cb", b.h>>, CoinbaseOuts(b), b.h)), b.txs)
        pool == Only(s.mempool, {t \in TxIds : TxDef[t].ins \subseteq {c.op : c \in utxo}})
    IN  [s EXCEPT !.chain = Append(@, b),
                  !.utxo = utxo,
                  !.claims = @ \cup {[op |-> b.claims[i].op, v |-> b.claims[i].v, h |-> b.h] :
                                     i \in DOMAIN b.claims},
                  !.pegouts = @ \cup BurnsOf(b),
                  !.mempool = pool,
                  !.spent = SpentBy(pool)]

Empty == [chain |-> <<>>, utxo |-> {}, claims |-> {}, pegouts |-> {},
          mempool |-> <<>>, spent |-> {}, rejected |-> {}]

\* Block 0 is judged like any other, and is the document's own genesis.
GenesisOk(b) == Judge(Empty, b) /\ [b EXCEPT !.sealed = TRUE] = Genesis

\* Mutated: the locks are left for the block rules, as the reference does.
MutLocked(t, coin, next) == FALSE

(***************************************************************************)
(* The mempool and the next block.                                         *)
(***************************************************************************)
\* earliest_height gives no height for a lock by time, and submit asks no more.
Unjudged(t) == TxDef[t].span \/ TxDef[t].until > 0

Locked(t, coin, next) ==
    ~Unjudged(t) /\ (next < coin.h + TxDef[t].wait \/ next <= TxDef[t].lock)

MayEnter(s, t) ==
    LET tx == TxDef[t]
        coins == UNION {CoinAt(s.utxo, op) : op \in tx.ins}
        in == ValueOf(coins)
    IN  /\ ~Contains(s.mempool, t) /\ t \notin s.rejected
        /\ tx.ins \cap s.spent = {}
        /\ \A op \in tx.ins : \E c \in s.utxo : c.op = op
        /\ \A c \in coins : c.cb => Height(s) + 1 - c.h >= Maturity
        /\ SumOut(tx.outs) <= in
        /\ \A i \in DOMAIN tx.outs : tx.outs[i].kind # "malformed"
                /\ (tx.outs[i].kind = "burn" => tx.outs[i].v >= PegoutMin)
        /\ in - SumOut(tx.outs) >= tx.w * MinFeeRate
        /\ \A c \in coins : ~Locked(t, c, Height(s) + 1)

Submitted(s, t) == [s EXCEPT !.mempool = Append(@, t), !.spent = @ \cup TxDef[t].ins]

Discarded(s, t) ==
    LET pool == Only(s.mempool, TxIds \ {t})
    IN  [s EXCEPT !.mempool = pool, !.spent = SpentBy(pool)]

Evicted(s, t) == [Discarded(s, t) EXCEPT !.rejected = @ \cup {t}]

\* The fee of a transaction: nothing when an input is no coin, or when the
\* outputs exceed the inputs.
Fee(s, t) ==
    LET coins == UNION {CoinAt(s.utxo, op) : op \in TxDef[t].ins}
        in == ValueOf(coins)
    IN  IF (\A op \in TxDef[t].ins : CoinAt(coins, op) # {}) /\ in >= SumOut(TxDef[t].outs)
        THEN in - SumOut(TxDef[t].outs) ELSE 0

NextBlock(s, pool, claims) ==
    [h |-> Height(s) + 1, prev |-> Hash(Last(s.chain)), txs |-> pool,
     fee |-> SumFunction([i \in DOMAIN pool |-> Fee(s, pool[i])]),
     claims |-> claims, pegs |-> <<>>, sealed |-> FALSE]

\* A request for a claim that is recorded already is an error.
Claimable(s, claims) == \A i \in DOMAIN claims : \A r \in s.claims : r.op # claims[i].op

\* The transactions of the mempool, in order, that a valid block can hold.
Kept(s, claims) ==
    FoldLeft(LAMBDA kept, t :
                 IF Judge(s, Sealed(NextBlock(s, Append(kept, t), claims)))
                 THEN Append(kept, t) ELSE kept,
             <<>>, s.mempool)

\* The state after the walk that evicts the others.
Walked(s, claims) ==
    LET kept == Kept(s, claims)
    IN  FoldLeft(LAMBDA st, t : IF Contains(kept, t) THEN st ELSE Evicted(st, t), s, s.mempool)
=============================================================================
