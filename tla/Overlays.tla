------------------------------ MODULE Overlays ------------------------------
(***************************************************************************)
(* The overlay rules of a sidestr chain: issued assets, constant-product   *)
(* pools and binary markets (sidestr-core/src/records.rs, assets.rs,       *)
(* pool.rs, markets.rs and overlays.rs).  Each rule keeps a view of the    *)
(* applied blocks, judges a candidate block on a copy of it, keeps the     *)
(* copy under the block's hash, and takes it over when that block is       *)
(* applied.  The asset rule lets the two other rules answer for some of    *)
(* what it would call created from nothing.                                *)
(*                                                                         *)
(* A record is what its text says, already split into fields; a number of  *)
(* it is a number.  Plain satoshis are not followed: a transaction may     *)
(* bring in what it needs, and pays what it takes out to whom it likes.    *)
(***************************************************************************)
EXTENDS Integers, SequencesExt, FiniteSetsExt

CONSTANTS
    MaxAmount,      \* MAX_AMOUNT: the most a tally may assign
    From,           \* the height the markets rule applies from
    Configurations, \* sets of rules a document may name beside assets
    Amounts,        \* bound: what a tally assigns
    Sats,           \* bound: what a pool coin holds
    MarketSats,     \* bound: what a market coin holds
    Expiry, Grace,  \* the terms of a market
    MaxTx,          \* bound: transactions ever made
    MaxWaiting,     \* bound: transactions made and in no block
    LastPair,       \* bound: the last transaction made while another waits
    MaxHeight,      \* bound: blocks
    MaxEach         \* bound: assets issued, pools, markets

ASSUME OverlaysAssumption ==
    /\ MaxAmount \in Nat /\ From \in Nat /\ MaxTx \in Nat /\ MaxWaiting \in Nat
    /\ MaxHeight \in Nat /\ LastPair \in Nat /\ Grace \in Nat /\ Expiry \in Nat
    /\ Configurations \subseteq SUBSET {"pool", "markets"}
    /\ Amounts \subseteq 1 .. MaxAmount /\ Sats \cup MarketSats \subseteq Nat \ {0}

VARIABLES
    installed,      \* the rules this chain's document names beside assets
    height,         \* the height of the tip
    assets,         \* AssetView: what unspent outputs carry, what was issued
    pools,          \* PoolView: every pool, by its current coin
    markets,        \* MarketView
    pending,        \* the views candidate blocks would leave, per rule
    coins,          \* the outpoints of unspent outputs with value
    made, ids,      \* transactions in no block yet; how many were ever made
    loose           \* history: the pools whose shares a transaction that does
                    \* not spend the pool's coin has made

vars == <<installed, height, assets, pools, markets, pending, coins, made, ids, loose>>

Views == <<assets, pools, markets>>

(***************************************************************************)
(* Records.  A transaction's id is <<"tx", n>>; the NO asset of market m   *)
(* has an id of its own; Self names the transaction the record is in.      *)
(***************************************************************************)
Self == <<"self", 0>>
NoIdOf(m) == <<"no", m[2]>>

Issue(decimals) == [form |-> "issue", decimals |-> decimals]
Tally(asset, assigns) == [form |-> "tally", asset |-> asset, assigns |-> assigns]
Pool(pool, vout) == [form |-> "pool", pool |-> pool, vout |-> vout]
MarketOpen(vout, expiry, grace) ==
    [form |-> "market", act |-> "open", market |-> Self, vout |-> vout,
     expiry |-> expiry, grace |-> grace]
MarketMove(act, market, vout) ==
    [form |-> "market", act |-> act, market |-> market, vout |-> vout]
MarketResolve(market, outcome) ==
    [form |-> "market", act |-> "resolve", market |-> market, outcome |-> outcome]
Question(len) == [form |-> "question", len |-> len]

\* What each parser takes; anything else that starts like a record is bad.
ParseAmount(n) == n \in 1 .. MaxAmount
ParseIssue(r) == r.decimals \in 0 .. 8
ParseTally(r) ==
    /\ r.assigns # <<>>
    /\ \A i \in DOMAIN r.assigns : ParseAmount(r.assigns[i].n)
    /\ \A i, j \in DOMAIN r.assigns : r.assigns[i].vout = r.assigns[j].vout => i = j
ParseMarket(r) == r.act = "open" \/ r.market # Self
ParseQuestion(r) == r.len \in 1 .. 200

Parses(r) ==
    CASE r.form = "issue" -> ParseIssue(r)
      [] r.form = "tally" -> ParseTally(r)
      [] r.form = "pool" -> TRUE
      [] r.form = "market" -> ParseMarket(r)
      [] r.form = "question" -> ParseQuestion(r)

Classify(recs) ==
    LET of(form) == SelectSeq(recs, LAMBDA r : r.form = form /\ Parses(r))
    IN  [issues |-> of("issue"), tallies |-> of("tally"), pools |-> of("pool"),
         markets |-> of("market"), questions |-> of("question"),
         bad |-> \E i \in DOMAIN recs : ~Parses(recs[i])]

OpensPool(cls) == \E i \in DOMAIN cls.pools : cls.pools[i].pool = Self

(***************************************************************************)
(* Assets.  A view holds one entry [op, a, n] per output and asset.        *)
(***************************************************************************)
NoAssets == [carried |-> {}, issued |-> {}]

SumCarry(carry, a) == MapThenSumSet(LAMBDA c : c.n, {c \in carry : c.a = a})
CarriedBy(view, ins) == {c \in view.carried : c.op \in ins}
Out(tx, vout) == <<tx.id, vout>>

\* A tally may name an output that exists, is no OP_RETURN and has value.
Payable(tx, vout) == vout + 1 \in DOMAIN tx.outs /\ tx.outs[vout + 1].v >= 1

AssetOf(tx, t) == IF t.asset = Self THEN tx.id ELSE t.asset

Assigned(tx, cls) ==
    UNION {{[op |-> Out(tx, g.vout), a |-> AssetOf(tx, cls.tallies[i]), n |-> g.n] :
                g \in Range(cls.tallies[i].assigns)} : i \in DOMAIN cls.tallies}

(***************************************************************************)
(* MintPolicy: what the asset rule leaves to another rule.  It looks at    *)
(* the views as the applied blocks leave them.                             *)
(***************************************************************************)
PolicyAllows(a, tx, cls) ==
    \/ /\ "pool" \in installed
       /\ (a = tx.id /\ OpensPool(cls)) \/ \E p \in pools : p.id = a
    \/ /\ "markets" \in installed
       /\ \E i \in DOMAIN cls.markets : cls.markets[i].act = "split"
            /\ \E m \in markets : m.id = cls.markets[i].market /\ a \in {m.id, NoIdOf(m.id)}

\* Mutated: two tallies of one asset, each within what the inputs carry.
MutAssetCheck(view, tx, cls) ==
    LET in == CarriedBy(view, tx.ins)
    IN  /\ ~cls.bad /\ Len(cls.issues) <= 1
        /\ \A i \in DOMAIN cls.tallies :
             LET a == AssetOf(tx, cls.tallies[i])
             IN  (a = tx.id /\ cls.issues # <<>>) \/ PolicyAllows(a, tx, cls)
                 \/ FoldSeq(LAMBDA g, n : g.n + n, 0, cls.tallies[i].assigns) <= SumCarry(in, a)

\* check_inner: the transaction, with the records cls, keeps the rule.
AssetCheck(view, tx, cls) ==
    LET in == CarriedBy(view, tx.ins)
        out == Assigned(tx, cls)
    IN  /\ ~cls.bad /\ Len(cls.issues) <= 1
        /\ ~(cls.issues # <<>> /\ OpensPool(cls))
        /\ \A i \in DOMAIN cls.tallies :
             /\ cls.tallies[i].asset = Self => cls.issues # <<>> \/ OpensPool(cls)
             /\ \A j \in DOMAIN cls.tallies :
                    AssetOf(tx, cls.tallies[i]) = AssetOf(tx, cls.tallies[j]) => i = j
             /\ \A g \in Range(cls.tallies[i].assigns) : Payable(tx, g.vout)
        /\ \A a \in {c.a : c \in out} :
             \/ a = tx.id /\ cls.issues # <<>>
             \/ PolicyAllows(a, tx, cls)
             \/ SumCarry(out, a) <= SumCarry(in, a)

\* apply_transactions for one transaction: a broken one only spends.
AssetsAfter(view, tx, h, out, issues) ==
    [carried |-> {c \in view.carried : c.op \notin tx.ins} \cup out,
     issued |-> IF issues THEN view.issued \cup {[a |-> tx.id, supply |-> SumCarry(out, tx.id),
                                                   height |-> h, market |-> Self]}
                ELSE view.issued]
ApplyAssets(view, tx, h, cls) ==
    IF AssetCheck(view, tx, cls) THEN AssetsAfter(view, tx, h, Assigned(tx, cls), cls.issues # <<>>)
    ELSE AssetsAfter(view, tx, h, {}, FALSE)

\* What the two other rules see of a transaction.
Trace(view, tx) == [in |-> CarriedBy(view, tx.ins), out |-> Assigned(tx, Classify(tx.recs))]

\* The view and the traces a block leaves; ok is whether it keeps the rule.
AssetCandidate(view, b) ==
    FoldLeft(LAMBDA acc, tx :
               [ok |-> acc.ok /\ AssetCheck(acc.view, tx, Classify(tx.recs)),
                view |-> ApplyAssets(acc.view, tx, b.h, Classify(tx.recs)),
                traces |-> Append(acc.traces, Trace(acc.view, tx))],
             [ok |-> "assets" \notin b.cb, view |-> view, traces |-> <<>>], b.txs)

RegisterMarketAssets(view, opened, h) ==
    LET new == {m \in UNION {{<<m, m>>, <<NoIdOf(m), m>>} : m \in opened} :
                  \A i \in view.issued : i.a # m[1]}
    IN  [view EXCEPT !.issued = @ \cup {[a |-> m[1], supply |-> 0, height |-> h,
                                        market |-> m[2]] : m \in new}]

(***************************************************************************)
(* Pools: [id, asset, sats, assets, shares, op, opened].                   *)
(***************************************************************************)
\* A collateral coin: an OP_TRUE output with value; 0 when it is none.
TrueCoin(tx, vout) ==
    IF vout + 1 \in DOMAIN tx.outs /\ tx.outs[vout + 1].lock = "true"
    THEN tx.outs[vout + 1].v ELSE 0

\* Newton's iteration from above, as the code runs it.
Isqrt(n) ==
    LET step[x \in 0 .. n] ==
            LET y == (x + (n \div x)) \div 2 IN IF y < x THEN step[y] ELSE x
        half == (n + 1) \div 2
    IN  IF n < 2 THEN n ELSE IF half < n THEN step[half] ELSE n

Least(S) == CHOOSE x \in S : \A y \in S : x <= y
Above(x, y) == IF x > y THEN x - y ELSE 0

\* Mutated: what an add pays for is rounded by the larger of the two sides.
MutCheckTransition(p, x2, y2, s2) ==
    \/ /\ s2 = p.shares
       /\ (1000 * x2 - 3 * Above(x2, p.sats)) * (1000 * y2 - 3 * Above(y2, p.assets))
            >= 1000000 * p.sats * p.assets
    \/ /\ s2 > p.shares /\ x2 >= p.sats /\ y2 >= p.assets
       /\ s2 - p.shares <= ((x2 - p.sats) * p.shares) \div p.sats
    \/ /\ s2 < p.shares /\ x2 <= p.sats /\ y2 <= p.assets
       /\ p.sats - x2 <= (p.sats * (p.shares - s2)) \div p.shares
       /\ p.assets - y2 <= (p.assets * (p.shares - s2)) \div p.shares

\* A swap keeps the product after its fee, an add takes no more shares than
\* it pays for on either side, a remove takes no more than its part.
CheckTransition(p, x2, y2, s2) ==
    \/ /\ s2 = p.shares
       /\ (1000 * x2 - 3 * Above(x2, p.sats)) * (1000 * y2 - 3 * Above(y2, p.assets))
            >= 1000000 * p.sats * p.assets
    \/ /\ s2 > p.shares /\ x2 >= p.sats /\ y2 >= p.assets
       /\ s2 - p.shares <= Least({((x2 - p.sats) * p.shares) \div p.sats,
                                  ((y2 - p.assets) * p.shares) \div p.assets})
    \/ /\ s2 < p.shares /\ x2 <= p.sats /\ y2 <= p.assets
       /\ p.sats - x2 <= (p.sats * (p.shares - s2)) \div p.shares
       /\ p.assets - y2 <= (p.assets * (p.shares - s2)) \div p.shares

\* A rule's check fails.
Refused == {[id |-> <<"refused", 0>>]}
Refuses(view) == \E x \in view : x.id = <<"refused", 0>>
CarryAt(tr, op) == {c \in tr.out : c.op = op}

OpenPool(view, tx, tr, rec, h) ==
    LET sats == TrueCoin(tx, rec.vout)
        held == CarryAt(tr, Out(tx, rec.vout))
    IN  IF sats = 0 \/ Cardinality(held) # 1 THEN Refused
        ELSE LET c == CHOOSE k \in held : TRUE
                 shares == Isqrt(sats * c.n)
             IN  IF c.a = tx.id \/ SumCarry(tr.out, tx.id) # shares THEN Refused
                 ELSE view \cup {[id |-> tx.id, asset |-> c.a, sats |-> sats, assets |-> c.n,
                                  shares |-> shares, op |-> Out(tx, rec.vout), opened |-> h]}

ContinuePool(view, tx, tr, rec, p) ==
    LET sats == TrueCoin(tx, rec.vout)
        held == CarryAt(tr, Out(tx, rec.vout))
        units == SumCarry(held, p.asset)
        left == p.shares - SumCarry(tr.in, p.id)
        shares == left + SumCarry(tr.out, p.id)
    IN  IF /\ rec.pool = p.id /\ sats > 0
           /\ {c.a : c \in held} = {p.asset} /\ left >= 0
           /\ CheckTransition(p, sats, units, shares)
        THEN (view \ {p}) \cup {[p EXCEPT !.sats = sats, !.assets = units, !.shares = shares,
                                          !.op = Out(tx, rec.vout)]}
        ELSE Refused

\* PoolView::check and apply: the view a transaction leaves.
PoolMove(view, tx, tr, h, recs) ==
    LET spent == {p \in view : p.op \in tx.ins}
    IN  IF Cardinality(spent) > 1 \/ Len(recs) > 1 THEN Refused
        ELSE IF spent = {} /\ recs = <<>> THEN view
        ELSE IF recs # <<>> /\ recs[1].pool = Self
             THEN IF spent # {} THEN Refused ELSE OpenPool(view, tx, tr, recs[1], h)
        ELSE IF spent = {} \/ recs = <<>> THEN Refused
        ELSE ContinuePool(view, tx, tr, recs[1], CHOOSE p \in spent : TRUE)
PoolStep(view, tx, tr, h) == PoolMove(view, tx, tr, h, Classify(tx.recs).pools)

(***************************************************************************)
(* Markets: [id, op, sats, expiry, grace, status, winner, opened].         *)
(***************************************************************************)
\* The market coin is an OP_TRUE output with value and no asset.
MarketCoin(tx, tr, vout) ==
    IF CarryAt(tr, Out(tx, vout)) = {} THEN TrueCoin(tx, vout) ELSE 0

OpenMarket(view, tx, tr, cls, rec, h) ==
    LET sats == MarketCoin(tx, tr, rec.vout)
    IN  IF /\ sats > 0 /\ Len(cls.questions) = 1
           /\ rec.expiry > h /\ rec.grace >= 1
           /\ cls.issues = <<>> /\ ~OpensPool(cls)
        THEN view \cup {[id |-> tx.id, op |-> Out(tx, rec.vout), sats |-> sats,
                         expiry |-> rec.expiry, grace |-> rec.grace, status |-> "open",
                         winner |-> "none", opened |-> h]}
        ELSE Refused

\* The one OP_TRUE output keeps the collateral; its place is not named.
ResolveMarket(view, tx, tr, rec, m, h) ==
    LET vouts == {v \in 0 .. Len(tx.outs) - 1 : tx.outs[v + 1].lock = "true"}
        v == CHOOSE k \in vouts : TRUE
    IN  IF /\ m.status = "open" /\ h <= m.expiry + m.grace
           /\ tx.resolver /\ Cardinality(vouts) = 1
           /\ tx.outs[v + 1].v = m.sats /\ CarryAt(tr, Out(tx, v)) = {}
        THEN (view \ {m}) \cup {[m EXCEPT !.op = Out(tx, v), !.status = "resolved",
                                          !.winner = rec.outcome]}
        ELSE Refused

SplitOk(m, sats, yes, no) ==
    /\ sats > m.sats
    /\ yes.out - yes.in = sats - m.sats /\ no.out - no.in = sats - m.sats

MergeOk(m, sats, yes, no) ==
    /\ sats < m.sats
    /\ yes.out <= yes.in - (m.sats - sats) /\ no.out <= no.in - (m.sats - sats)

\* Mutated: the two sides are not asked to be destroyed, only carried in.
MutRedeemOk(m, sats, yes, no, h) ==
    LET won == IF m.winner = "yes" THEN yes ELSE no
    IN  /\ sats < m.sats
        /\ IF m.status = "resolved" THEN won.out <= won.in - (m.sats - sats)
           ELSE h > m.expiry + m.grace /\ yes.in + no.in >= 2 * (m.sats - sats)

RedeemOk(m, sats, yes, no, h) ==
    LET won == IF m.winner = "yes" THEN yes ELSE no
    IN  /\ sats < m.sats
        /\ IF m.status = "resolved" THEN won.out <= won.in - (m.sats - sats)
           ELSE /\ h > m.expiry + m.grace
                /\ yes.out <= yes.in /\ no.out <= no.in
                /\ (yes.in - yes.out) + (no.in - no.out) >= 2 * (m.sats - sats)

MoveMarket(view, tx, tr, rec, m, h) ==
    LET sats == MarketCoin(tx, tr, rec.vout)
        side(a) == [in |-> SumCarry(tr.in, a), out |-> SumCarry(tr.out, a)]
        yes == side(m.id)
        no == side(NoIdOf(m.id))
        status == IF rec.act = "redeem" /\ m.status # "resolved" THEN "refunding" ELSE m.status
    IN  IF sats > 0 /\ CASE rec.act = "split" -> SplitOk(m, sats, yes, no)
                         [] rec.act = "merge" -> MergeOk(m, sats, yes, no)
                         [] rec.act = "redeem" -> RedeemOk(m, sats, yes, no, h)
        THEN (view \ {m}) \cup {[m EXCEPT !.op = Out(tx, rec.vout), !.sats = sats,
                                          !.status = status]}
        ELSE Refused

\* MarketView::check and apply.
MarketTurn(view, tx, tr, h, cls) ==
    LET spent == {m \in view : m.op \in tx.ins}
        m == CHOOSE k \in spent : TRUE
        rec == cls.markets[1]
    IN  IF Cardinality(spent) > 1 \/ Len(cls.markets) > 1 THEN Refused
        ELSE IF spent = {} /\ cls.markets = <<>>
             THEN IF cls.questions = <<>> THEN view ELSE Refused
        ELSE IF cls.markets = <<>> THEN Refused
        ELSE IF rec.act = "open"
             THEN IF spent # {} THEN Refused ELSE OpenMarket(view, tx, tr, cls, rec, h)
        ELSE IF spent = {} THEN Refused
        ELSE IF rec.market # m.id \/ cls.questions # <<>> THEN Refused
        ELSE IF rec.act = "resolve" THEN ResolveMarket(view, tx, tr, rec, m, h)
        ELSE MoveMarket(view, tx, tr, rec, m, h)
MarketStep(view, tx, tr, h) == MarketTurn(view, tx, tr, h, Classify(tx.recs))

(***************************************************************************)
(* Judging a block: each rule on its own view, in the order assets, pool,  *)
(* markets.  A block is [h, txs, cb]: cb is the records in its coinbase.   *)
(***************************************************************************)
Ran(rule, view, b, traces, Step(_, _, _, _)) ==
    FoldLeft(LAMBDA v, i : IF Refuses(v) THEN v ELSE Step(v, b.txs[i], traces[i], b.h),
             IF rule \in b.cb THEN Refused ELSE view,
             [i \in DOMAIN b.txs |-> i])

PoolRan(view, b, traces) == Ran("pool", view, b, traces, PoolStep)
MarketsRan(view, b, traces) == Ran("markets", view, b, traces, MarketStep)

MarketsApply(b) == "markets" \in installed /\ b.h >= From

\* What the rules make of a block on the views v = <<assets, pools, markets>>.
Verdict(old, a, p, m) ==
    [ok |-> a.ok /\ ~Refuses(p) /\ ~Refuses(m), assets |-> a, pool |-> p, markets |-> m,
     opened |-> IF Refuses(m) THEN {} ELSE {k.id : k \in m} \ {k.id : k \in old}]
JudgedFrom(v, b, a) ==
    Verdict(v[3], a,
            IF "pool" \in installed THEN PoolRan(v[2], b, a.traces) ELSE v[2],
            IF MarketsApply(b) THEN MarketsRan(v[3], b, a.traces) ELSE v[3])
Judged(v, b) == JudgedFrom(v, b, AssetCandidate(v[1], b))

Keep(kept, b, entry) ==
    Append(SelectSeq(kept, LAMBDA e : e.b # b), entry)

\* Each rule that accepts the block keeps what it would leave; the pool and
\* the market rule need the asset rule's traces to say anything.
Checked(pend, b, j) ==
    [assets |-> IF j.assets.ok
                THEN Keep(pend.assets, b, [b |-> b, view |-> j.assets.view]) ELSE pend.assets,
     pool |-> IF j.assets.ok /\ "pool" \in installed /\ ~Refuses(j.pool)
              THEN Keep(pend.pool, b, [b |-> b, view |-> j.pool]) ELSE pend.pool,
     markets |-> IF j.assets.ok /\ MarketsApply(b) /\ ~Refuses(j.markets)
                 THEN Keep(pend.markets, b,
                           [b |-> b, view |-> j.markets, opened |-> j.opened])
                 ELSE pend.markets]

NoPending == [assets |-> <<>>, pool |-> <<>>, markets |-> <<>>]

Found(kept, b) == SelectSeq(kept, LAMBDA e : e.b = b)

\* BlockRule::applied of the three rules in order.
AppliedViews(pend, v, b) ==
    LET a == Found(pend.assets, b)
        p == Found(pend.pool, b)
        m == Found(pend.markets, b)
        view == IF a # <<>> THEN a[1].view
                ELSE FoldLeft(LAMBDA x, tx : ApplyAssets(x, tx, b.h, Classify(tx.recs)), v[1], b.txs)
    IN  <<IF m # <<>> THEN RegisterMarketAssets(view, m[1].opened, b.h) ELSE view,
          IF p # <<>> THEN p[1].view ELSE v[2],
          IF m # <<>> THEN m[1].view ELSE v[3]>>

(***************************************************************************)
(* OverlayRules::sequence: a producer orders its mempool, dropping what a  *)
(* rule refuses on the views the kept ones leave.                          *)
(***************************************************************************)
\* Mutated: only the temporary asset view follows the kept transactions.
MutKept(acc, tx, view, p, m) == [v |-> <<view, acc.v[2], acc.v[3]>>, kept |-> Append(acc.kept, tx)]
Kept(acc, tx, view, p, m) == [v |-> <<view, p, m>>, kept |-> Append(acc.kept, tx)]

KeepIfRight(h, acc, tx, cls, p, m) ==
    IF ~AssetCheck(acc.v[1], tx, cls) \/ Refuses(p) \/ Refuses(m) THEN acc
    ELSE Kept(acc, tx, ApplyAssets(acc.v[1], tx, h, cls), p, m)

SequenceStep(h, acc, tx) ==
    LET tr == Trace(acc.v[1], tx)
    IN  KeepIfRight(h, acc, tx, Classify(tx.recs),
            IF "pool" \in installed THEN PoolStep(acc.v[2], tx, tr, h) ELSE acc.v[2],
            IF "markets" \in installed /\ h >= From
            THEN MarketStep(acc.v[3], tx, tr, h) ELSE acc.v[3])

Sequence(v, txs, h) ==
    FoldLeft(LAMBDA acc, tx : SequenceStep(h, acc, tx), [v |-> v, kept |-> <<>>], txs).kept

(***************************************************************************)
(* The chain around the rules: transactions are made, and blocks of them   *)
(* are judged, produced and applied.                                       *)
(***************************************************************************)
Init ==
    /\ installed \in Configurations
    /\ height = 0
    /\ assets = NoAssets /\ pools = {} /\ markets = {}
    /\ pending = NoPending
    /\ coins = {} /\ made = {} /\ ids = 0 /\ loose = {}

OutsOf(tx) == {Out(tx, i - 1) : i \in {j \in DOMAIN tx.outs : tx.outs[j].lock # "return"}}

NewTx(ins, coin, recs, resolver) ==
    [id |-> <<"tx", ids + 1>>, ins |-> ins, recs |-> recs, resolver |-> resolver,
     outs |-> <<[lock |-> IF coin = 0 THEN "return" ELSE "true", v |-> coin],
                [lock |-> "key", v |-> 1]>>]

\* A tally of a to output 0 and to output 1; none when both are 0.
TallyOf(a, n0, n1) ==
    LET to == (IF n0 = 0 THEN <<>> ELSE <<[vout |-> 0, n |-> n0]>>)
              \o (IF n1 = 0 THEN <<>> ELSE <<[vout |-> 1, n |-> n1]>>)
    IN  IF to = <<>> THEN <<>> ELSE <<Tally(a, to)>>

Some == Amounts \cup {0}
Holding(a) == {c.op : c \in {k \in assets.carried : k.a = a}}
AtMostOne(S) == {{}} \cup {{x} : x \in S}

\* The transactions a wallet may build on the applied views.
Issues == {NewTx({}, 0, <<Issue(0)>> \o TallyOf(Self, 0, n), FALSE) : n \in Amounts}

Moves ==
    UNION {{NewTx({c.op}, 0, TallyOf(c.a, 0, n) \o TallyOf(c.a, 0, k), FALSE) :
                n \in Some, k \in {0, 1}} : c \in {k \in assets.carried : k.op[2] = 1}}

PoolOpens ==
    UNION {{NewTx({c.op}, x, <<Pool(Self, 0)>> \o TallyOf(c.a, c.n, 0) \o TallyOf(Self, 0, s), FALSE) :
                x \in Sats, s \in Amounts} : c \in {k \in assets.carried : k.op[2] = 1}}

PoolMoves ==
    UNION {{NewTx({p.op} \cup own, x, <<Pool(p.id, 0)>> \o TallyOf(p.asset, y, 0)
                    \o TallyOf(p.id, 0, s), FALSE) :
                own \in AtMostOne(Holding(p.asset) \cup Holding(p.id)), x \in Sats,
                y \in Amounts, s \in Some} : p \in pools}

MarketOpens ==
    {NewTx({}, 1, <<MarketOpen(0, Expiry, Grace), Question(9)>>, FALSE)}

MarketMoves ==
    UNION {{NewTx({m.op} \cup own, x, <<MarketMove(act, m.id, 0)>> \o TallyOf(m.id, 0, y)
                    \o TallyOf(NoIdOf(m.id), 0, n), FALSE) :
                <<act, x>> \in {"split"} \X {k \in MarketSats : k > m.sats}
                              \cup {"merge", "redeem"} \X {k \in MarketSats : k < m.sats},
                y \in Some, n \in Some,
                own \in AtMostOne(Holding(m.id) \cup Holding(NoIdOf(m.id)))} : m \in markets}

MarketAnswers ==
    UNION {{NewTx({m.op}, m.sats, <<MarketResolve(m.id, w)>>, r) :
                w \in {"yes", "no"}, r \in BOOLEAN} : m \in markets}

While(few, txs) == IF few THEN txs ELSE {}

Wallets ==
    While(Cardinality(assets.issued) < MaxEach /\ "markets" \notin installed, Issues) \cup Moves
    \cup While("pool" \in installed /\ Cardinality(pools) < MaxEach, PoolOpens) \cup PoolMoves
    \cup While("markets" \in installed /\ Cardinality(markets) < MaxEach, MarketOpens)
    \cup MarketMoves \cup MarketAnswers

Make ==
    /\ ids < MaxTx
    /\ made = {} \/ (Cardinality(made) < MaxWaiting /\ ids < LastPair)
    /\ \E tx \in Wallets :
         /\ tx.ins \subseteq coins
         /\ made' = made \cup {tx}
    /\ ids' = ids + 1
    /\ UNCHANGED <<installed, height, assets, pools, markets, pending, coins, loose>>

\* The core rules: every input is unspent when its turn comes.
Spendable(txs) ==
    FoldLeft(LAMBDA acc, tx : [ok |-> acc.ok /\ tx.ins \subseteq acc.coins,
                               coins |-> (acc.coins \ tx.ins) \cup OutsOf(tx)],
             [ok |-> TRUE, coins |-> coins], txs)

Orders == {<<>>} \cup {<<x>> : x \in made} \cup {<<x, y>> : x \in made, y \in made}
Candidates == {s \in Orders : IsInjective(s) /\ Spendable(s).ok}

Block(txs, cb) == [h |-> height + 1, txs |-> txs, cb |-> cb]

\* The node judges somebody's block and applies nothing.
Judge(b) ==
    /\ Cardinality({pending.assets[i].b : i \in DOMAIN pending.assets} \cup {b}) <= 1
    /\ pending' = Checked(pending, b, Judged(Views, b))
    /\ UNCHANGED <<installed, height, assets, pools, markets, coins, made, ids, loose>>

\* The pools of which a block makes shares and leaves the coin where it is:
\* the mint policy does not ask for it, and the pool rule does not look.
MadeLoose(b, traces) ==
    {p.id : p \in {q \in pools : \E i \in DOMAIN b.txs :
                     /\ SumCarry(traces[i].out, q.id) > SumCarry(traces[i].in, q.id)
                     /\ \A rec \in Range(Classify(b.txs[i].recs).pools) : rec.pool # q.id}}

\* StateOf::apply: the block is judged, and applied when every rule accepts.
Apply(b) ==
    /\ height < MaxHeight
    /\ \E judged \in {Judged(Views, b)} : \E after \in {AppliedViews(Checked(pending, b, judged), Views, b)} :
         /\ judged.ok /\ assets' = after[1] /\ pools' = after[2] /\ markets' = after[3]
         /\ loose' = loose \cup MadeLoose(b, judged.assets.traces)
    /\ pending' = NoPending
    /\ height' = b.h
    /\ coins' = Spendable(b.txs).coins
    /\ made' = {tx \in made : tx.ins \subseteq coins' /\ tx \notin Range(b.txs)}
    /\ UNCHANGED <<installed, ids>>

\* A coinbase with a record in it, in an otherwise empty block.
Records == {{"assets"}, {"pool"}, {"markets"}}

Next ==
    \/ Make
    \/ \E s \in Candidates : Judge(Block(s, {}))
    \/ \E cb \in Records : Judge(Block(<<>>, cb))
    \/ \E s \in Candidates : Apply(Block(s, {}))

Spec == Init /\ [][Next]_vars

(***************************************************************************)
(* Properties.                                                             *)
(***************************************************************************)
Outstanding(a) == SumCarry(assets.carried, a)

\* No sequence of transfers, whatever two tallies or two blocks they use,
\* leaves more of an issued asset in circulation than its issue created
\* (assets.rs: issuance is the one creation).
IssuedIsConserved ==
    \A i \in assets.issued : i.market = Self => Outstanding(i.a) <= i.supply

\* A market can always pay: an open one has a satoshi for every YES and every
\* NO, a resolved one for every unit of the winner, a refunding one half a
\* satoshi for every unit of either (markets.rs).
MarketsAreSolvent ==
    \A m \in markets :
        LET yes == Outstanding(m.id)
            no == Outstanding(NoIdOf(m.id))
        IN  CASE m.status = "open" -> yes <= m.sats /\ no <= m.sats
              [] m.status = "resolved" -> (IF m.winner = "yes" THEN yes ELSE no) <= m.sats
              [] m.status = "refunding" -> yes + no <= 2 * m.sats

\* What a pool holds for a share it counts never shrinks: over any block its
\* product per counted share squared does not fall, and it opens with the
\* square root of its product in shares (pool.rs).  That is what a holder's
\* share stands for only while every share there is is counted, and a pool
\* counts them all as long as nobody makes some of them without its coin,
\* which the mint policy lets anybody do (overlays.rs:42-49).
PoolsKeepValue ==
    [][\A p \in pools' :
         /\ \A q \in pools : q.id = p.id =>
                p.sats * p.assets * q.shares * q.shares >= q.sats * q.assets * p.shares * p.shares
         /\ p.opened = height' =>
                /\ p.shares * p.shares <= p.sats * p.assets
                /\ p.sats * p.assets < (p.shares + 1) * (p.shares + 1)
         /\ p.id \notin loose' => Outstanding(p.id)' <= p.shares]_vars

\* The transactions a producer keeps make a block its own rules accept
\* (overlays.rs sequence, against the three checks of the block).
SequenceMakesBlock ==
    \A s \in Orders : Judged(Views, Block(Sequence(Views, s, height + 1), {})).ok

=============================================================================
