------------------------------- MODULE Faucet -------------------------------
(***************************************************************************)
(* The agent's faucet (sidestr-agent/src/faucet.rs) beside a producer, the *)
(* relays and a user's commands (sidestr-agent/src/main.rs).               *)
(*                                                                         *)
(* A request is [id, chain, to], to being a text.  The faucet judges one   *)
(* at a time: it reads the block file, builds a grant, posts it to the     *)
(* producer, publishes it on the relays, and saves what it remembers.  It  *)
(* may stop after any of these; the file it reads may be behind, and       *)
(* never goes back.  An asset's id is a tuple, and so is a transaction's.  *)
(***************************************************************************)
EXTENDS Agent, PaymentRequest

CONSTANTS
    Requests,       \* bound: the requests a faucet that is started so may hear
    Commands,       \* the commands a user may give
    FaucetKey, UserKey, OtherKey,
    GrantSats, GrantUnits,  \* one grant: sats, and units of an asset if one is named
    GrantAssets,    \* what the faucet may be started with: no asset, or one
    PerAddress,     \* the window of a destination script
    PerHour,        \* grants an hour
    Hour, Hold,     \* an hour, and the half of it that coins are held back
    GenesisCoins,
    MaxTime, MaxHeight, MaxLives, MaxFaults, MaxCommands, MaxWork   \* bounds

ASSUME FaucetAssumption == {PerAddress, PerHour, Hour, Hold} \subseteq Nat

\* The coins of the genesis block are no other transaction's.
ASSUME GenesisAssumption == \A c \in GenesisCoins : c.op[1] = <<"genesis">>

VARIABLES
    views,          \* the coins of the chain at each height, the genesis first
    mined,          \* the transactions in blocks
    pool,           \* the producer's mempool
    relay,          \* transaction events on their way to the producer; one it has already
                    \* taken is left out, for it is a duplicate or is refused when it comes
    faucet,         \* the process: [phase, grant, posted, file, held, paid, recent, seen, life,
                    \* asset]; a phase "down" is a process that has panicked
    saved,          \* the state file: [paid, recent]
    clock, commands, faults,
    built           \* ghost: every transaction built, with what was asked for; of a grant, its
                    \* place n, the life of the process, the time, and what became of it:
                    \* "out", "counted" by the faucet, "kept" in its file, "dropped"

faucetVars == <<views, mined, pool, relay, faucet, saved, clock, commands, faults, built>>

Tip == Len(views) - 1
View(h) == [tip |-> h, coins |-> views[h + 1]]
Me == ScriptFor(FaucetKey)
NoGrant == [to |-> Me, at |-> 0, tx |-> [ins |-> {}, outs |-> <<>>, wit |-> "none"]]
Paid(mem, to) == {p \in mem.paid : p[1] = to}
Since(now, t) == Max({0, now - t})

\* A fault of the network or the machine, or none.
Fault(happens) == faults' = faults + (IF happens THEN 1 ELSE 0) /\ faults' <= MaxFaults

(***************************************************************************)
(* The producer: submit, and a block of everything it holds that the       *)
(* assets rule lets through.                                               *)
(***************************************************************************)
Conflict(tx, txs) == \E t \in txs : t.ins \cap tx.ins # {}

Submits(tx) ==
    LET coins == Spent(views[Tip + 1], tx)
    IN  \/ tx \in pool
        \/ /\ ~Conflict(tx, pool)
           /\ Ops(coins) = tx.ins /\ tx.ins # {}
           /\ \A c \in coins : IsMature(c, Tip)
           /\ \A i \in DOMAIN tx.outs :
                 IsReturn(tx.outs[i].script) /\ tx.outs[i].script[2][1] = "pegout"
                     => tx.outs[i].value >= PegoutMin
           /\ Balance(coins) >= Total(tx.outs) + MinFee(Cardinality(tx.ins), tx.outs)
           /\ Verifies(coins, tx)

NewCoins(coins, tx, height) ==
    {[op |-> <<Txid(tx), i>>, script |-> tx.outs[i].script, value |-> tx.outs[i].value,
      height |-> height, coinbase |-> FALSE, carry |-> CarriedOut(Spent(coins, tx), tx, i)] :
        i \in {j \in DOMAIN tx.outs : ~IsReturn(tx.outs[j].script)}}

Mine ==
    LET old == views[Tip + 1]
        txs == {t \in pool : CheckAssets(Spent(old, t), t)}
    IN  /\ pool # {} /\ Tip < MaxHeight
        /\ views' = Append(views, {c \in old : \A t \in txs : c.op \notin t.ins}
                                      \cup UNION {NewCoins(old, t, Tip + 1) : t \in txs})
        /\ mined' = mined \cup txs /\ pool' = {}
        /\ UNCHANGED <<relay, faucet, saved, clock, commands, faults, built>>

\* A transaction event reaches the producer, once.
TakeFromRelay ==
    \E tx \in relay :
        /\ relay' = relay \ {tx}
        /\ pool' = IF Submits(tx) THEN pool \cup {tx} ELSE pool
        /\ UNCHANGED <<views, mined, faucet, saved, clock, commands, faults, built>>

\* Bound: the transactions of a behaviour, a command taking the room of two grants.
Work == Cardinality(built) + commands

(***************************************************************************)
(* The faucet.                                                             *)
(***************************************************************************)
ParseFaucetRequest(r) == IF r.chain = Doc.id THEN {r} ELSE {}

\* Coins a grant spent, until the file shows them gone or the hold is over.
MutHeldBack(held, coins, now) == {}     \* Mutated: nothing is held back.
HeldBack(held, coins, now) == {x \in held : x[1] \in Ops(coins) /\ Since(now, x[2]) < Hold}

Recent(recent, now) ==
    LET old == Max({i \in 0 .. Len(recent) : \A j \in 1 .. i : Since(now, recent[j]) >= Hour})
    IN  SubSeq(recent, old + 1, Len(recent))

\* The grant itself, from the coins that are free.
FaucetSigner == [key |-> FaucetKey, elsewhere |-> FALSE]
SatsTo(to) == IF GrantSats > 0 THEN <<Output(to, GrantSats)>> ELSE <<>>

\* From these carriers, which have so many units.
GrantFrom(asset, picked, have, free, tip, to) ==
    LET back == IF have > GrantUnits THEN <<Output(Me, Carrier)>> ELSE <<>>
        txs == BuildOutputs(PlainCoins(free), picked, tip, <<Output(to, Carrier)>> \o back \o SatsTo(to),
                            <<<<"tally", asset, Assigns(GrantUnits, have)>>>>, {}, FaucetSigner)
    IN  {tx \in txs : CheckAssets(Spent(free, tx), tx)}

BuildGrant(asset, free, tip, to) ==
    IF asset = {} THEN BuildOutputs(PlainCoins(free), {}, tip, SatsTo(to), <<>>, {}, FaucetSigner)
    ELSE UNION {GrantFrom(The(asset), p, BalanceOf(p, The(asset)), free, tip, to) :
                   p \in PickCarriers(SortCoins(free, asset).carriers, The(asset), GrantUnits)}

\* A request that is new to this process.
Hears(r) ==
    /\ faucet.phase = "idle"
    /\ \A s \in faucet.seen : s[1] # r.id
SeenWith(r) == {s \in faucet.seen : Since(clock, s[2]) < Hour} \cup {<<r.id, clock>>}

Destinations(r) ==
    {to \in UNION {ResolveTo(q.to) : q \in ParseFaucetRequest(r)} : ~IsReturn(to) /\ to # Me}

InWindow(mem, to) == \E p \in Paid(mem, to) : Since(clock, p[2]) < PerAddress

\* Another chain's request, or one the faucet does not pay.
Ignore(r) ==
    /\ Hears(r) /\ Destinations(r) = {}
    /\ faucet' = [faucet EXCEPT !.seen = SeenWith(r)]
    /\ UNCHANGED <<views, mined, pool, relay, saved, clock, commands, faults, built>>

\* Paid within the window, or the hour is full: skipped, and the state is saved all the same.
Skip(r) ==
    /\ Hears(r)
    /\ \E to \in Destinations(r) :
         LET recent == IF InWindow(faucet, to) THEN faucet.recent ELSE Recent(faucet.recent, clock)
         IN  /\ InWindow(faucet, to) \/ Len(recent) >= PerHour
             /\ faucet' = [faucet EXCEPT !.seen = SeenWith(r), !.recent = recent, !.phase = "save"]
    /\ UNCHANGED <<views, mined, pool, relay, saved, clock, commands, faults, built>>

\* A fresh replay of the file to height h: the coins held back, and the others.
Held(h) == HeldBack(faucet.held, ViewCoins(View(h), FaucetKey), clock)
Free(h) == {c \in ViewCoins(View(h), FaucetKey) : \A x \in Held(h) : x[1] # c.op}
Looked(r, h) ==
    [faucet EXCEPT !.seen = SeenWith(r), !.recent = Recent(faucet.recent, clock), !.held = Held(h), !.file = h]

GrantAsk(to) ==
    [by |-> FaucetKey, to |-> to, sats |-> GrantSats + (IF faucet.asset = {} THEN 0 ELSE Carrier),
     asset |-> faucet.asset, units |-> GrantUnits, life |-> faucet.life, at |-> clock,
     n |-> Cardinality(built), state |-> "out"]

\* A grant from the file as it is; without one the request is dropped.
Grant(r) ==
    /\ Hears(r) /\ Work < MaxWork
    /\ \E to \in Destinations(r), h \in faucet.file .. Tip :
          /\ ~InWindow(faucet, to) /\ Len(Recent(faucet.recent, clock)) < PerHour
          /\ \/ BuildGrant(faucet.asset, Free(h), h, to) = {} /\ faucet' = Looked(r, h) /\ built' = built
             \/ \E tx \in BuildGrant(faucet.asset, Free(h), h, to) :
                   /\ faucet' = [Looked(r, h) EXCEPT !.phase = "post", !.grant = [to |-> to, at |-> clock, tx |-> tx]]
                   /\ built' = built \cup {[ask |-> GrantAsk(to), tx |-> tx, spent |-> Spent(views[h + 1], tx)]}
    /\ UNCHANGED <<views, mined, pool, relay, saved, clock, commands, faults>>

\* The three ends of a POST: it is answered, it is lost on its way, its answer is lost.
PostGrant ==
    /\ faucet.phase = "post"
    /\ \E end \in {"answered", "request lost", "answer lost"} :
          /\ Fault(end # "answered")
          /\ pool' = IF end # "request lost" /\ Submits(faucet.grant.tx) THEN pool \cup {faucet.grant.tx} ELSE pool
          /\ faucet' = [faucet EXCEPT !.phase = "publish", !.posted = end = "answered" /\ Submits(faucet.grant.tx)]
    /\ UNCHANGED <<views, mined, relay, saved, clock, commands, built>>

\* Where a transaction has got to.
IsOut(tx) == tx \in pool \cup mined \cup relay

MutRemember(mem, g) ==      \* Mutated: the coins are held back, the payment is not remembered.
    [mem EXCEPT !.held = @ \cup {<<op, g.at>> : op \in g.tx.ins}, !.recent = Append(@, g.at)]
Remember(mem, g) ==
    [mem EXCEPT !.held = {x \in @ : x[1] \notin g.tx.ins} \cup {<<op, g.at>> : op \in g.tx.ins},
                !.paid = (@ \ Paid(mem, g.to)) \cup {<<g.to, g.at>>},
                !.recent = Append(@, g.at)]

\* The ghost's grants of this process in one state come to another.
Move(b, from, to) ==
    IF b.ask.state = from /\ b.ask.life = faucet.life THEN [b EXCEPT !.ask.state = to] ELSE b
Moved(from, to) == {Move(b, from, to) : b \in built}

\* The line about a grant quotes eight bytes of its script: it panics when there are not as many.
AfterPaying(g) == IF g.to[1] = "byte" THEN "down" ELSE "save"

\* Some relay takes it and says so, takes it unheard, or none does.
PublishGrant ==
    /\ faucet.phase = "publish"
    /\ \E end \in {"ok", "unheard", "refused"} :
          LET g == faucet.grant
              taken == faucet.posted \/ end = "ok"
          IN  /\ Fault(end # "ok")
              /\ relay' = IF end = "refused" \/ g.tx \in pool \cup mined THEN relay ELSE relay \cup {g.tx}
              /\ faucet' = [IF taken THEN Remember(faucet, g) ELSE faucet
                               EXCEPT !.phase = IF taken THEN AfterPaying(g) ELSE "idle", !.posted = FALSE, !.grant = NoGrant]
              /\ built' = Moved("out", IF taken THEN "counted" ELSE "dropped")
    /\ UNCHANGED <<views, mined, pool, saved, clock, commands>>

\* save: a file beside the state file, renamed over it; a failure is logged.
Save ==
    /\ faucet.phase = "save"
    /\ \E ok \in BOOLEAN :
          /\ Fault(~ok)
          /\ saved' = IF ok THEN [paid |-> faucet.paid, recent |-> faucet.recent] ELSE saved
          /\ built' = IF ok THEN Moved("counted", "kept") ELSE built
    /\ faucet' = [faucet EXCEPT !.phase = "idle"]
    /\ UNCHANGED <<views, mined, pool, relay, clock, commands>>

Started(mem, life, file, asset) ==
    [phase |-> "idle", grant |-> NoGrant, posted |-> FALSE, file |-> file, held |-> {}, seen |-> {},
     paid |-> mem.paid, recent |-> mem.recent, life |-> life, asset |-> asset]

\* The process stops and is started again.
Crash ==
    /\ faucet.life < MaxLives
    /\ faucet' = Started(saved, faucet.life + 1, faucet.file, faucet.asset)
    /\ UNCHANGED <<views, mined, pool, relay, saved, clock, commands, faults, built>>

Tick ==
    /\ clock < MaxTime
    /\ clock' = clock + 1
    /\ UNCHANGED <<views, mined, pool, relay, faucet, saved, commands, faults, built>>

(***************************************************************************)
(* A user's command: what is built, and where it goes.  With --post the    *)
(* producer must take it before it is published.  A transaction signed     *)
(* elsewhere may come back as anything.                                    *)
(***************************************************************************)
Signer(c) == [key |-> UserKey, elsewhere |-> c.elsewhere]

Prepared(c, view) ==
    CASE c.what \in {"send", "burn"} -> Prepare(Signer(c), view, c.what, c.to, c.amount, c.fee)
      [] c.what = "evm" -> PrepareEvmDeposit(Signer(c), view, c.to, c.amount, c.fee)
      [] c.what = "transfer" -> PrepareTransfer(Signer(c), view, c.asset, c.to, c.amount, c.memos, c.fee)
      [] c.what = "issue" -> PrepareIssue(Signer(c), view, c.asset, c.amount, c.fee)

\* What an outside signer gives back: signed, changed and signed, or signed by another key.
Returned(tx) ==
    {[tx EXCEPT !.wit = UserKey], [tx EXCEPT !.wit = OtherKey],
     [tx EXCEPT !.wit = UserKey, !.outs[1].script = Me]}

Signed(c, tx, coins) ==
    IF ~c.elsewhere THEN {tx}
    ELSE UNION {AcceptSigned(tx, back, Spent(coins, tx)) : back \in Returned(UnsignedHex(tx))}

\* What the command asks for, read from its own words.
Payee(c) ==
    CASE c.what = "issue" -> ScriptFor(UserKey)
      [] c.what = "evm" -> Reserve
      [] c.what = "burn" -> <<"return", <<"pegout", c.to[2]>>>>
      [] OTHER -> IF c.to[1] = "npub" THEN ScriptFor(c.to[2]) ELSE c.to[2]

Asked(c) ==
    [by |-> UserKey, to |-> Payee(c), units |-> c.amount, life |-> 0, at |-> 0, n |-> 0,
     asset |-> IF c.what = "transfer" THEN {c.asset} ELSE {},
     sats |-> IF c.what = "transfer" THEN Max({Carrier, DustThreshold(Payee(c))}) ELSE c.amount,
     state |-> "command"]

Command(c) ==
    /\ commands < MaxCommands /\ Work + 2 <= MaxWork
    /\ commands' = commands + 1
    /\ \E h \in 0 .. Tip :
         LET coins == View(h).coins IN
         \E tx \in UNION {Signed(c, t, coins) : t \in Prepared(c, View(h))} :
            /\ built' = built \cup {[ask |-> Asked(c), tx |-> tx, spent |-> Spent(coins, tx)]}
            /\ pool' = IF c.post /\ Submits(tx) THEN pool \cup {tx} ELSE pool
            /\ relay' = IF c.post THEN relay ELSE relay \cup {tx}
    /\ UNCHANGED <<views, mined, faucet, saved, clock, faults>>

FaucetInit ==
    /\ views = <<GenesisCoins>> /\ mined = {} /\ pool = {} /\ relay = {}
    /\ saved = [paid |-> {}, recent |-> <<>>]
    /\ \E asset \in GrantAssets : faucet = Started(saved, 1, 0, asset)
    /\ clock = 0 /\ commands = 0 /\ faults = 0 /\ built = {}

FaucetNext ==
    \/ \E r \in Requests[faucet.asset] : Ignore(r) \/ Skip(r) \/ Grant(r)
    \/ PostGrant \/ PublishGrant \/ Save \/ Crash \/ Tick
    \/ Mine \/ TakeFromRelay
    \/ \E c \in Commands : Command(c)

FaucetSpec == FaucetInit /\ [][FaucetNext]_faucetVars

(***************************************************************************)
(* Properties.                                                             *)
(***************************************************************************)
PaidTo(tx, script) == FoldSeq(LAMBDA o, n : n + (IF o.script = script THEN o.value ELSE 0), 0, tx.outs)
UnitsTo(b, who(_), asset) ==
    MapThenSumSet(LAMBDA i : MapThenSumSet(LAMBDA x : IF x[1] = asset THEN x[2] ELSE 0,
                                           CarriedOut(b.spent, b.tx, i)),
                  {i \in DOMAIN b.tx.outs : who(b.tx.outs[i].script)})

\* Whatever is built from coins of any sort, by the faucet or a command of spend.rs, compose.rs,
\* asset.rs, burn.rs, deposit.rs or external.rs: it spends and is signed by its owner alone, pays
\* exactly what was asked and the rest back, is worth relaying, and leaves no asset behind.  What
\* a command makes never pays or burns to a script that is 64 hex characters, which may be a
\* secret; a grant may, for the faucet resolves what a request says as it stands (faucet.rs:156),
\* but only one of satoshis alone: a carrier is too small for any script but a key's.
MayBeSecret(script) ==
    \/ script[1] = "raw"
    \/ IsReturn(script) /\ script[2][1] = "pegout" /\ script[2][2][1] = "raw"

SpendsAreSound ==
    \A b \in built :
        LET me == ScriptFor(b.ask.by)
            total == Total(b.tx.outs)
        IN  /\ Ops(b.spent) = b.tx.ins /\ b.tx.ins # {} /\ b.tx.wit = b.ask.by
            /\ \A c \in b.spent : c.script = me
            /\ Balance(b.spent) >= total + MinFee(Cardinality(b.tx.ins), b.tx.outs)
            /\ \A i \in DOMAIN b.tx.outs :
                  /\ b.tx.outs[i].value >= DustThreshold(b.tx.outs[i].script)
                  /\ MayBeSecret(b.tx.outs[i].script) => b.ask.by = FaucetKey /\ b.ask.asset = {}
            /\ b.ask.to # me => /\ PaidTo(b.tx, b.ask.to) = b.ask.sats
                                /\ total = b.ask.sats + PaidTo(b.tx, me)
            /\ \A c \in b.spent : \A x \in c.carry :
                  CarriedIn(b.spent, x[1]) = UnitsTo(b, LAMBDA s : TRUE, x[1])
            /\ \A a \in b.ask.asset : b.ask.to # me => UnitsTo(b, LAMBDA s : s = b.ask.to, a) = b.ask.units

Grants == {b \in built : b.ask.state # "command"}

\* A grant the faucet could not know of when it made another: nothing it asked told it the grant
\* was taken, or it stopped before the grant was saved, as it does of itself after paying a script
\* of under eight bytes.
Forgotten(early, late) ==
    \/ early.ask.state = "dropped"
    \/ early.ask.life < late.ask.life /\ early.ask.state # "kept"

\* faucet.rs 8-10: one grant per destination script per window and at most per_hour an hour, over
\* restarts too, for every grant that is out and that the faucet could know of.
GrantsRespectLimits ==
    LET out == {b \in Grants : b.ask.state \in {"counted", "kept"} \/ IsOut(b.tx)}
        known(late) == {b \in out : b.ask.n < late.ask.n /\ ~Forgotten(b, late)}
    IN  \A late \in out :
           /\ \A b \in known(late) : b.ask.to = late.ask.to => late.ask.at - b.ask.at >= PerAddress
           /\ Cardinality({b \in known(late) : late.ask.at - b.ask.at < Hour}) < PerHour

\* faucet.rs 4-8: the coins of a grant are held back, so a grant that was taken is not undone by
\* a later one of the same process, but when the hold ends first.
GrantsNeverConflict ==
    \A a, b \in Grants :
        /\ a.ask.n < b.ask.n /\ a.ask.life = b.ask.life
        /\ a.tx.ins \cap b.tx.ins # {}
        => a.ask.state = "dropped" \/ b.ask.at - a.ask.at >= Hold

\* The requests, trees and secrets that are tried.
TriedSats == {1, 5, 10, 95, 99, 100, 101, 110, 120, 1000, 1001, MaxSats - 1, MaxSats}
TriedRequests ==
    LET texts == {<<>>, <<"letter">>, <<"space", "plus">>, <<"percent", "clef">>}
                     \cup {[i \in 1 .. n |-> IF i = n THEN "clef" ELSE "letter"] : n \in MaxWords - 1 .. MaxWords}
        amounts == UNION {WithAmount(New("address"), n) : n \in TriedSats} \cup {New("address")}
    IN  UNION {UNION {WithMessage(r, t) : r \in UNION {WithLabel(a, l) : l \in texts}} : a \in amounts, t \in texts}
TriedLeaves == {[i \in 1 .. n |-> <<"script", i>>] : n \in 1 .. 6}

\* What one side writes the other reads back: a payment request (bip21.rs), whose words may be as
\* long as a reader keeps and no longer, a peg-in whose first taproot output pays the peg and whose
\* marker names the script (pegin.rs), and the tweak form (pegtweak.rs), whose every leaf proves the
\* root, whose spending secret has the output's key, and which no other script can be claimed from.
\* None of it depends on the state, so it is looked at before anything is built.
ReadsBackAsWritten ==
    built = {} /\ clock = 0 =>
    /\ \A r \in TriedRequests : Parse(ToUri(r)) = {r}
    /\ \A leaves \in TriedLeaves : \A i \in DOMAIN leaves :
          Proves(leaves[i], TapTree(leaves).paths[i], TapTree(leaves).root)
    /\ \A d, t \in Scalars : ~Refused(TweakedPoint(XOnly(PointOf(d)), t)) =>
          SignsFor(PegSpendSecret(d, t), OutputKey(XOnly(PointOf(d)), t))
    /\ \A d \in Scalars : \A p \in PeginTweakPlan(Carrier, OtherKey, Npub(UserKey), {d}) :
          \A key \in {UserKey, OtherKey, FaucetKey} :
             PegMatches([p.reveal EXCEPT !.script = ScriptFor(key)], p.out.script) <=> key = UserKey
    /\ \A p \in PeginPlan(Carrier, OtherKey, Npub(UserKey), <<>>) :
          p[1].script = Doc.challenge /\ p[2].script[2] = <<"peg", Doc.id, ScriptFor(UserKey)>>
=============================================================================
