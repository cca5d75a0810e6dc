---------------------------- MODULE HitchClose -----------------------------
(***************************************************************************)
(* A channel's close on the chain, from the side of one host: the follower *)
(* of sidestr-agent/src/hitch/follow.rs, the poll of host.rs, and the      *)
(* machine's on_spend, un_spend, after_close and watch_outputs in          *)
(* sidestr-hitch/src/protocol/chain.rs.                                    *)
(*                                                                         *)
(* chain is what the producer has: chain[h] is the set of channel          *)
(* transactions in block h, the funding lying below block 1.  view is the  *)
(* follower's copy, empty (held is FALSE) from a start to the first read.  *)
(* The producer may drop blocks from the top, and the host may die: its    *)
(* machine m is in its file, its repairs and its view are not.             *)
(*                                                                         *)
(* The channel has agreed on the states 0 .. N; the other side may publish *)
(* its commitment of any of them, of a set-aside alternative of state N,   *)
(* or take any output a leaf lets it take.                                 *)
(***************************************************************************)
EXTENDS HitchTx

CONSTANTS
    Scenarios,      \* [me, channel, states, alternatives, knows]
    CLOSE_DEPTH, CLAIM_MARGIN, CLOSE_REBROADCAST, CLAIM_REBROADCAST,
    REPAIR_GAP,     \* blocks between two tries of a repair
    MaxHeight,      \* bound: blocks
    MaxPerBlock,    \* bound: channel transactions in a block
    MaxReorgs,      \* bound: reorganisations
    MaxDepth,       \* bound: blocks one drops
    MaxFaults,      \* bound: deaths, failed reads and failed saves
    MaxLag          \* bound: blocks made between two polls

\* The HTLCs of a state have payment hashes of their own (next_state refuses a second).
IsState(st) ==
    \A x \in st.htlcs : /\ x.from \in Sides /\ x.expiry \in Nat
                        /\ \A y \in st.htlcs : x.hash = y.hash => x = y

ASSUME ScenarioAssumption ==
    \A s \in Scenarios :
        /\ s.me \in Sides /\ s.channel.delay \in Nat /\ Len(s.states) \in Nat \ {0}
        /\ \A i \in 1 .. Len(s.states) : IsState(s.states[i])
        /\ \A i \in DOMAIN s.alternatives : IsState(s.alternatives[i])

None == [k |-> "none"]
Coop == [k |-> "coop"]
CommitmentOf(owner, n, alt) == [k |-> "commitment", owner |-> owner, n |-> n, alt |-> alt]
ClaimOn(close, v, path, by) == [k |-> "claim", on |-> close, v |-> v, path |-> path, by |-> by]

VARIABLES
    sc,             \* the scenario
    chain, pool,    \* the producer's blocks, and what it was sent and holds
    held, view,     \* the follower
    m, saved,       \* the machine and its file
    repairs,        \* transactions the repair loop sends: [tx, at], at -1 before a try
    sent,           \* transactions whose stored bytes went out in this life
    posted,         \* what the host sent last
    polled,         \* whether its last act was a poll that read and saved
    up, reorgs, faults

vars == <<sc, chain, pool, held, view, m, saved, repairs, sent, posted, polled, up, reorgs,
          faults>>

Me == sc.me
Peer == OtherSide(sc.me)
N == Len(sc.states) - 1
StateAt(n) == sc.states[n + 1]
Funding == [value |-> sc.channel.value, script |-> FundingScript]

\* A signed alternative is a state of number N that lost a race.
StateOf(s, c) == IF c.alt = 0 THEN s.states[c.n + 1] ELSE s.alternatives[c.alt]

\* The closes of a scenario, and what each pays.
Closes(s) ==
    LET n == Len(s.states) - 1
    IN  {Coop} \cup {CommitmentOf(o, i, 0) : o \in Sides, i \in 0 .. n}
        \cup {CommitmentOf(o, n, a) : o \in Sides, a \in DOMAIN s.alternatives}
Pays == [s \in Scenarios |-> [c \in Closes(s) |->
    IF c = Coop THEN CooperativeClose(s.channel, s.states[Len(s.states)])
    ELSE Commitment(s.channel, c.n, c.owner, StateOf(s, c))]]
OutputsOf(c) == Pays[sc][c]

\* The other side's commitments it holds a signature for.
Candidates == {CommitmentOf(Peer, n, 0) : n \in 0 .. N}
    \cup {CommitmentOf(Peer, N, a) : a \in DOMAIN sc.alternatives}
Mine == CommitmentOf(Me, N, 0)
Revoked(c) == c.n < N

HtlcOf(c, v) == HtlcById(StateOf(sc, c), OutputsOf(c)[v].id)
Htlcs(c) == {v \in DOMAIN OutputsOf(c) : OutputsOf(c)[v].kind = "htlc"}
ToLocal(c) == {v \in DOMAIN OutputsOf(c) : OutputsOf(c)[v].kind = "to_local"}
OfferedByMe(c, v) == OutputsOf(c)[v].from = Me

\* What a claim is of: two claims on different closes may be of one kind.
Kind(t) == <<t.path, OutputsOf(t.on)[t.v].id>>

SigningKey(t) ==
    IF t.path = "revocation" THEN RevocationKey(Basepoint(t.by), PerState(t.on.owner, t.on.n))
    ELSE ChannelKey(t.by)
ClaimOf(out, path, key) ==
    CASE out.kind = "to_local" -> SweepToLocal(out, path, key, sc.channel.fee)
      [] out.kind = "htlc" -> ClaimHtlc(out, path, key, sc.channel.fee)
      [] OTHER -> KeyPathSpend(out, key, sc.channel.fee)
ClaimTx(t) == ClaimOf(OutputsOf(t.on)[t.v], t.path, SigningKey(t))
CloseTx == [rel |-> 0, lock |-> 0, leaf |-> FundingScript["both"],
            sigs |-> {ChannelKey(s) : s \in Sides}, preimage |-> FALSE]
TxOf(t) == IF t.k = "claim" THEN ClaimTx(t) ELSE CloseTx
FundingCoin == [on |-> None, v |-> <<"funding", 0>>]
Coin(t) == IF t.k = "claim" THEN [on |-> t.on, v |-> t.v] ELSE FundingCoin

(***************************************************************************)
(* The follower.                                                           *)
(***************************************************************************)
Height(b) == Len(b)
TxsIn(b) == UNION {b[h] : h \in DOMAIN b}
FindTx(b, t) == {h \in DOMAIN b : t \in b[h]}
\* The block of the coin t spends; the funding is below block 1.
CoinHeight(b, t) == IF t.k = "claim" THEN FindTx(b, t.on) ELSE {0}
Spender(b, coin) == {t \in TxsIn(b) : Coin(t) = coin}
Confirmations(b, h) == IF h > Height(b) + 1 THEN 0 ELSE Height(b) + 1 - h

Undone(before, after) == TxsIn(before) \ TxsIn(after)

Elem(S, default) == IF S = {} THEN default ELSE CHOOSE x \in S : TRUE

(***************************************************************************)
(* Sending.                                                                *)
(***************************************************************************)

\* A coin in no block counts from the next one.
Premature(b, t, next) == EarliestHeight(TxOf(t), Elem(CoinHeight(b, t), next)) > next

\* A channel's own transactions are signed afresh.
FreshBytes(c, b, t) ==
    t.k = "claim" => (\E r \in c.claims : r.tx = t) /\ FindTx(b, t.on) # {}
Postable(c, b, t, out) == FreshBytes(c, b, t) \/ t \notin out

(***************************************************************************)
(* The machine.                                                            *)
(***************************************************************************)
Following == {"closed-mine", "closed-theirs", "closed-theirs-alt", "punishing", "settling",
              "closed-coop"}
ClosedOut == {"force-closing", "closing", "closing-asked"}

NoSpend == [tx |-> None, at |-> 0, previous |-> "open"]
NoClose == [tx |-> None, at |-> 0]
Fresh == [status |-> "open", spend |-> NoSpend, close |-> NoClose, claims |-> {},
          outs |-> <<>>, coop |-> FALSE, knows |-> {}]

\* The other outputs are as they were; a followed output starts open.
Follow(outs, vs) == [v \in DOMAIN outs \cup vs |-> IF v \in DOMAIN outs THEN outs[v] ELSE "open"]

Result(c, outs) == [m |-> c, out |-> outs]
Also(outs, r) == Result(r.m, outs \cup r.out)

\* A claim that is not worth making is not made, one of a kind made already is kept.
RecordClaim(c, ts, h) ==
    {t \in ts : /\ Worth(OutputsOf(t.on)[t.v].value, sc.channel.fee)
                /\ \A r \in c.claims : Kind(r.tx) # Kind(t)}
WithClaims(c, made, h) ==
    [c EXCEPT !.claims = @ \cup {[tx |-> t, at |-> h] : t \in made},
              !.outs = Follow(@, {t.v : t \in made})]

Lookup(b, stale, c, v) ==
    IF stale THEN "unknown"
    ELSE LET by == Spender(b, [on |-> c.spend.tx, v |-> v])
         IN  CASE by = {} -> "unspent"
               [] \E r \in c.claims : r.tx \in by -> "confirmed"
               [] OTHER -> "theirs"

\* The other side's success shows the preimage of an HTLC this peer offered.
PreimageIn(b, c, v) ==
    /\ v \in Htlcs(c.spend.tx) /\ OfferedByMe(c.spend.tx, v)
    /\ c.status # "punishing"
    /\ \E t \in Spender(b, [on |-> c.spend.tx, v |-> v]) : TxOf(t).preimage

WatchOutputs(c, b, stale) ==
    LET h == Height(b)
        asked == {v \in DOMAIN c.outs : c.outs[v] = "open"}
        seen == [v \in asked |-> Lookup(b, stale, c, v)]
        open == {v \in asked : seen[v] \in {"unknown", "unspent"}}
        again == {r \in c.claims : /\ r.tx.v \in open /\ seen[r.tx.v] = "unspent"
                                   /\ h - r.at > CLAIM_REBROADCAST}
    IN  Result([c EXCEPT
          !.outs = [v \in DOMAIN @ |-> IF v \in asked \ open THEN seen[v] ELSE @[v]],
          !.claims = {IF r \in again THEN [r EXCEPT !.at = h] ELSE r : r \in @},
          !.knows = @ \cup {HtlcOf(c.spend.tx, v).hash :
                               v \in {w \in asked : seen[w] = "theirs" /\ PreimageIn(b, c, w)}},
          !.status = IF open # {} THEN @ ELSE
                     CASE @ = "settling" -> "closed" [] @ = "punishing" -> "punished"
                       [] OTHER -> @],
          {r.tx : r \in again})

\* Claimable now, or left for later: of the to_local output and the HTLCs nobody took.
Sorted(c, b, local, untaken) ==
    LET close == c.spend.tx
        early == close.owner = Me /\ Confirmations(b, c.spend.at) < sc.channel.delay
        ready == {v \in untaken : IF OfferedByMe(close, v) THEN Height(b) >= HtlcOf(close, v).expiry
                                  ELSE HtlcOf(close, v).hash \in c.knows}
        path(v) == IF OfferedByMe(close, v) THEN "timeout" ELSE "success"
    IN  [now |-> IF early THEN {} ELSE {ClaimOn(close, v, "delayed", Me) : v \in local}
                                       \cup {ClaimOn(close, v, path(v), Me) : v \in ready},
         left |-> IF early THEN local \cup untaken ELSE untaken \ ready]

\* On this peer's commitment or on theirs.
Ready(c, b) ==
    Sorted(c, b, IF c.spend.tx.owner = Me THEN ToLocal(c.spend.tx) ELSE {},
           {v \in Htlcs(c.spend.tx) : v \in DOMAIN c.outs => c.outs[v] # "theirs"})

\* made is claimed, and everything followed is looked at.
Claiming(c, b, stale, made, status) ==
    Also(made, WatchOutputs([WithClaims(c, made, Height(b)) EXCEPT !.status = status], b, stale))

\* Mutated: an HTLC not yet claimable is not waited for.
MutClaimReady(c, b, stale, ready) ==
    Claiming(c, b, stale, RecordClaim(c, ready.now, Height(b)), "settling")

\* The status stays until nothing is left for later.
ClaimReady(c, b, stale, ready) ==
    Claiming(c, b, stale, RecordClaim(c, ready.now, Height(b)),
             IF ready.left = {} THEN "settling" ELSE c.status)

AfterClose(c, b, stale) ==
    CASE c.status = "closed-coop" ->
           Result([c EXCEPT !.status = IF Confirmations(b, c.spend.at) >= CLOSE_DEPTH
                                       THEN "closed" ELSE @], {})
      [] c.status \in {"punishing", "settling"} -> WatchOutputs(c, b, stale)
      [] c.status \in {"closed-mine", "closed-theirs", "closed-theirs-alt"} ->
           ClaimReady([c EXCEPT !.outs = Follow(@, Htlcs(c.spend.tx))], b, stale, Ready(c, b))
      [] OTHER -> Result(c, {})

\* Every output the revoked owner could still take.
Punish(c, close, h) ==
    LET made == {t \in {ClaimOn(close, v, "revocation", Me) :
                          v \in ToLocal(close) \cup Htlcs(close)} :
                   Worth(OutputsOf(close)[t.v].value, sc.channel.fee)}
        kept == {r \in c.claims : \A t \in made : Kind(r.tx) # Kind(t)}
    IN  Result([WithClaims([c EXCEPT !.claims = kept], made, h) EXCEPT !.status = "punishing"],
               made)

\* t is in block h of b and spends the funding; mine and an alternative are of state N.
OnSpend(c, t, h, b, stale) ==
    LET seen == [c EXCEPT !.spend = [tx |-> t, at |-> h, previous |-> c.status], !.outs = <<>>]
    IN  CASE t = Coop -> Result([seen EXCEPT !.status = "closed-coop"], {})
          [] t # Coop /\ Revoked(t) -> Punish(seen, t, Height(b))
          [] OTHER -> AfterClose([seen EXCEPT !.status = CASE t = Mine -> "closed-mine"
                                                           [] t.alt # 0 -> "closed-theirs-alt"
                                                           [] OTHER -> "closed-theirs"], b, stale)

\* Back to the status before the spend; a published close goes out again.
UnSpend(c) ==
    LET again == c.close # NoClose /\ c.spend.previous \in ClosedOut
    IN  Result([c EXCEPT !.spend = NoSpend, !.claims = {}, !.outs = <<>>,
                         !.status = IF again /\ c.spend.previous = "closing-asked"
                                    THEN "closing" ELSE c.spend.previous],
               IF again THEN {c.close.tx} ELSE {})

(***************************************************************************)
(* The poll.                                                               *)
(***************************************************************************)
\* Mutated: a spend that moved to another height is not noticed.
MutMoved(c, t, h) == c.spend.tx # t
Moved(c, t, h) == c.spend.tx # t \/ c.spend.at # h

\* A spend that is gone or has moved is undone before the one that is there is taken up.
WatchChannel(c, b, stale) ==
    LET on == Spender(b, FundingCoin)
        t == Elem(on, None)
        h == Elem(FindTx(b, t), 0)
        before == IF c.spend = NoSpend THEN Result(c, {}) ELSE UnSpend(c)
    IN  CASE on = {} -> before
          [] on # {} /\ Moved(c, t, h) ->
               Also(before.out, OnSpend(before.m, t, h, b, stale))
          [] on # {} /\ ~Moved(c, t, h) /\ c.status \in Following -> AfterClose(c, b, stale)
          [] OTHER -> Result(c, {})

\* An HTLC this peer can claim must be on the chain before its expiry.
Urgent(c, h) ==
    \E x \in StateAt(N).htlcs :
        x.from # Me /\ x.hash \in c.knows /\ h >= x.expiry - (sc.channel.delay + CLAIM_MARGIN)
ForceClosed(c, h) == [c EXCEPT !.status = "force-closing", !.close = [tx |-> Mine, at |-> h]]

Tick(c, h) ==
    CASE /\ c.status \in {"force-closing", "closing"} /\ c.spend = NoSpend
         /\ h - c.close.at > CLOSE_REBROADCAST ->
           Result([c EXCEPT !.close.at = h], {c.close.tx})
      [] c.status = "open" /\ Urgent(c, h) -> Result(ForceClosed(c, h), {Mine})
      [] OTHER -> Result(c, {})

\* The host's own transactions that a reorganisation undid.
OnAdvance(c, undone, rs) ==
    LET mine == ({c.close.tx} \cup {r.tx : r \in c.claims}) \cap undone
    IN  {r \in rs : r.tx \notin mine} \cup {[tx |-> t, at |-> -1] : t \in mine}

\* What may go now, of ts; the rest waits for the repair loop.
Deferred(b, ts, rs) ==
    {[tx |-> t, at |-> -1] : t \in {u \in ts : /\ Premature(b, u, Height(b) + 1)
                                               /\ \A r \in rs : r.tx # u}}
DueRepairs(b, rs) ==
    {r \in rs : /\ FindTx(b, r.tx) = {}
                /\ r.at # -1 => Height(b) - r.at >= REPAIR_GAP
                /\ ~Premature(b, r.tx, Height(b) + 1)}
RunRepairs(b, rs) ==
    LET due == DueRepairs(b, rs)
    IN  {IF r \in due THEN [r EXCEPT !.at = Height(b)] ELSE r :
           r \in {x \in rs : FindTx(b, x.tx) = {}}}

Accepted(ts) == {t \in ts : Spender(chain, Coin(t)) = {}}

\* One poll, from the read of the chain to the repairs.
Poll(b, heldNow, stale) ==
    \E watched \in {WatchChannel(m, b, stale)}, advanced \in {OnAdvance(m, Undone(view, b), repairs)} :
    \E ticked \in {Also(watched.out, Tick(watched.m, Height(b)))} :
    \E waiting \in {advanced \cup Deferred(b, ticked.out, advanced)} :
    LET due == IF heldNow THEN {r.tx : r \in DueRepairs(b, waiting)} ELSE {}
        go == {t \in ticked.out : ~Premature(b, t, Height(b) + 1)} \cup due
    IN  /\ held' = heldNow /\ view' = b /\ m' = ticked.m /\ saved' = ticked.m
        /\ repairs' = IF heldNow THEN RunRepairs(b, waiting) ELSE waiting
        /\ posted' = {t \in go : Postable(ticked.m, b, t, sent)}
        /\ sent' = sent \cup {t \in posted' : ~FreshBytes(ticked.m, b, t)}
        /\ pool' = pool \cup Accepted(posted')

Init ==
    /\ sc \in Scenarios /\ chain = <<>> /\ pool = {} /\ held = FALSE /\ view = <<>>
    /\ m = [Fresh EXCEPT !.knows = sc.knows] /\ saved = m
    /\ repairs = {} /\ sent = {} /\ posted = {} /\ polled = FALSE /\ up = TRUE /\ reorgs = 0 /\ faults = 0

\* Read and save succeed.
Step ==
    /\ up /\ Poll(chain, TRUE, FALSE) /\ polled' = TRUE
    /\ UNCHANGED <<sc, chain, up, reorgs, faults>>

FaultOnce == faults < MaxFaults /\ faults' = faults + 1

\* No source answers: the poll goes on with the blocks it has.
StepUnread(stale) ==
    /\ up /\ FaultOnce /\ Poll(view, held, stale) /\ polled' = FALSE
    /\ UNCHANGED <<sc, chain, up, reorgs>>

\* The saves fail: the machine is as it was saved and sends nothing; the repairs run.
StepUnsaved ==
    LET waiting == OnAdvance(m, Undone(view, chain), repairs)
        due == {t \in {r.tx : r \in DueRepairs(chain, waiting)} : Postable(m, chain, t, sent)}
    IN  /\ up /\ FaultOnce
        /\ held' = TRUE /\ view' = chain /\ repairs' = RunRepairs(chain, waiting)
        /\ sent' = sent \cup {t \in due : ~FreshBytes(m, chain, t)}
        /\ posted' = due /\ polled' = FALSE /\ pool' = pool \cup Accepted(due)
        /\ UNCHANGED <<sc, chain, m, saved, up, reorgs>>

Lost == /\ up' = FALSE /\ held' = FALSE /\ view' = <<>> /\ repairs' = {} /\ sent' = {}
        /\ posted' = {} /\ polled' = FALSE

\* The process dies, idle or between a save and the broadcasts that follow it.
Die ==
    /\ up /\ FaultOnce /\ Lost
    /\ m' \in {saved, WatchChannel(m, chain, FALSE).m} /\ saved' = m'
    /\ UNCHANGED <<sc, chain, pool, reorgs>>

Load ==
    /\ ~up /\ up' = TRUE /\ m' = saved
    /\ UNCHANGED <<sc, chain, pool, held, view, saved, repairs, sent, posted, polled, reorgs,
                   faults>>

\* A command of the user, or the other side's half of a close.
Ask(c, out) ==
    /\ up /\ m' = c /\ saved' = c /\ posted' = out /\ polled' = FALSE
    /\ pool' = pool \cup Accepted(out)
    /\ UNCHANGED <<sc, chain, held, view, repairs, sent, up, reorgs, faults>>

ForceClose ==
    /\ m.status \in {"open", "closing-asked", "closing"}
    /\ Ask(ForceClosed(m, Height(view)), {Mine})

CloseChannel ==
    /\ m.status = "open" /\ StateAt(N).htlcs = {}
    /\ Ask([m EXCEPT !.status = "closing-asked", !.coop = TRUE], {})

ReceiveClose ==
    /\ m.status \in {"open", "closing-asked"} /\ StateAt(N).htlcs = {}
    /\ Ask([m EXCEPT !.status = "closing", !.coop = TRUE,
                     !.close = [tx |-> Coop, at |-> Height(view)]], {Coop})

(***************************************************************************)
(* The producer and the other side.                                        *)
(***************************************************************************)
\* What the other side can sign: its own secrets, and those revealed to it.
PeerPaths(c, v) ==
    {p \in DOMAIN OutputsOf(c)[v].script :
       /\ OutputsOf(c)[v].script[p].keys = {ChannelKey(Peer)}
       /\ OutputsOf(c)[v].kind # "to_remote"}
PeerClaims(c) == UNION {{ClaimOn(c, v, p, Peer) : p \in PeerPaths(c, v)} : v \in DOMAIN OutputsOf(c)}
PeerTxs ==
    Candidates \cup (IF m.coop THEN {Coop} ELSE {})
    \cup UNION {PeerClaims(c) : c \in TxsIn(chain) \cap (Candidates \cup {Mine})}

CoinExists(b, t) == t.k # "claim" \/ (FindTx(b, t.on) # {} /\ t.v \in DOMAIN OutputsOf(t.on))
CoinOf(t) == IF t.k = "claim" THEN OutputsOf(t.on)[t.v] ELSE Funding
MayMine(t) ==
    /\ CoinExists(chain, t) /\ Spender(chain, Coin(t)) = {}
    /\ VerifyChannelInput(TxOf(t), CoinOf(t))
    /\ MayBeIn(TxOf(t), Elem(CoinHeight(chain, t), 0), Height(chain) + 1)

\* A block holds any of what may be in it, no coin spent twice.
MineBlock ==
    /\ Height(chain) < MaxHeight /\ (held => Height(chain) - Height(view) < MaxLag)
    /\ \E ts \in SUBSET {t \in pool \cup PeerTxs : MayMine(t)} :
         /\ Cardinality(ts) <= MaxPerBlock /\ \A t, u \in ts : Coin(t) = Coin(u) => t = u
         /\ chain' = Append(chain, ts)
         /\ pool' = {t \in pool \ ts : \A u \in ts : Coin(t) # Coin(u)}
    /\ UNCHANGED <<sc, held, view, m, saved, repairs, sent, posted, polled, up, reorgs, faults>>

\* Blocks are dropped from the top, and what they held is lost.
Reorg ==
    /\ reorgs < MaxReorgs /\ reorgs' = reorgs + 1
    /\ \E d \in 1 .. MaxDepth :
         LET kept == SubSeq(chain, 1, Height(chain) - d)
         IN  /\ d <= Height(chain) /\ chain' = kept
    /\ UNCHANGED <<sc, pool, held, view, m, saved, repairs, sent, posted, polled, up, faults>>

Next ==
    \/ Step \/ (\E stale \in BOOLEAN : StepUnread(stale)) \/ StepUnsaved
    \/ Die \/ Load \/ ForceClose \/ CloseChannel \/ ReceiveClose \/ MineBlock \/ Reorg

Spec == Init /\ [][Next]_vars

(***************************************************************************)
(* Properties.                                                             *)
(***************************************************************************)
\* The close the machine acts on is the one in the follower's blocks, at its
\* height, and its claims are on that close: a reorganisation that moves a
\* spend restarts every delay (watch_channel, un_spend).
FollowsTheChain ==
    polled => LET on == Spender(view, FundingCoin)
              IN  /\ m.spend.tx = Elem(on, None)
                  /\ on # {} => m.spend.at \in FindTx(view, m.spend.tx)
                  /\ \A r \in m.claims : r.tx.on = m.spend.tx

\* The ways this host has to take an output of the close, with what it knows:
\* by the scripts, whatever the machine does.
Takeable ==
    IF m.spend.tx \in {None, Coop} THEN {}
    ELSE {t \in UNION {{ClaimOn(m.spend.tx, v, p, Me) : p \in DOMAIN OutputsOf(m.spend.tx)[v].script
                                                            \ {"key"}} :
                       v \in DOMAIN OutputsOf(m.spend.tx)} :
            /\ VerifyChannelInput(ClaimTx(t), CoinOf(t))
            /\ ClaimTx(t).preimage => HtlcOf(t.on, t.v).hash \in m.knows
            /\ t.path = "revocation" => t.on.owner = Peer /\ Revoked(t.on)
            /\ Worth(CoinOf(t).value, sc.channel.fee)}

\* Whatever of a close this host can take in the next block it has a claim on,
\* from the first poll at which it can: no delay, expiry or preimage is missed
\* by a block, whichever commitment was published (after_close, punish).
\* An output once seen taken by the other side is not looked at again.
ClaimsAreMade ==
    polled => \A t \in Takeable :
        \/ Spender(view, Coin(t)) # {}
        \/ ~MayBeIn(ClaimTx(t), m.spend.at, Height(view) + 1)
        \/ \E r \in m.claims : r.tx.v = t.v
        \/ t.v \in DOMAIN m.outs /\ m.outs[t.v] = "theirs"

\* Nothing is sent that the next block could not hold: every signature, lock
\* and preimage is right for the blocks the host has seen (premature).
PostedIsValid ==
    polled => \A t \in posted : CoinExists(view, t) =>
        /\ VerifyChannelInput(TxOf(t), CoinOf(t))
        /\ MayBeIn(TxOf(t), Elem(CoinHeight(view, t), 0), Height(view) + 1)

============================================================================
