------------------------------ MODULE RelayNet ------------------------------
(***************************************************************************)
(* Relays between a producer's node and an agent: the relay pool each      *)
(* process keeps (one session per relay, which subscribes, publishes,      *)
(* loses its connection, connects again and ends when idle), the relay     *)
(* itself, the node's main loop as far as it touches relays (announcing    *)
(* its tip, taking transactions), and an agent that resolves the chain,    *)
(* reads a mirror and publishes a transaction.                             *)
(*                                                                         *)
(* Commands to a running session are applied when they are sent; one sent  *)
(* to a session that has decided to end is lost with it.                   *)
(***************************************************************************)
EXTENDS NostrEvents

CONSTANTS
    Relays,
    Alias, NodeKey, AgentKey, Doc,  \* the chain, its signer's key and its document
    Mirror, Rival,      \* the chain's mirror and one of somebody else's
    RivalServes,        \* what the rival mirror answers
    Earlier,            \* somebody else's transaction, on every relay from the start
    Foreign,            \* events somebody else may publish
    Asks,               \* what the agent may resolve: [alias, hash], each optional
    ChanCap,            \* the node's event channel
    SeenCap,            \* ids the node's follower remembers
    MaxTip, MaxFaults   \* bounds: the chain's height; failures and foreign events

ASSUME RelayNetAssumption ==
    /\ ChanCap \in Nat \ {0} /\ SeenCap \in Nat \ {0} /\ MaxTip \in Nat /\ MaxFaults \in Nat
    /\ Doc.id = Alias /\ CheckSigner(Doc, NodeKey)
    /\ \A e \in Foreign \cup {Earlier} : IsEvent(e)
    /\ Verify(Earlier)
    /\ \A ask \in Asks : \A i, j \in ask.hash : i = j

Procs == {"node", "agent"}
Outcomes == {"Ok", "Rejected", "Timeout", "Closed"}

VARIABLES
    store,      \* [Relays -> the events the relay keeps, in order of arrival]
    link,       \* [Procs -> [Relays -> a session and its connection]]
    wait,       \* [Procs -> [Relays -> the outcome of the publish under way: {} until known]]
    got,        \* [Relays -> the agent's fetch under way: [open, found]]
    feed,       \* [Relays -> the node's followed events not yet in its channel]
    chan,       \* the node's event channel
    node,       \* [tip, announced, phase, retry, seen, pool]
    agent,      \* [phase, ask, tips, event, resolved, contradicted]
    clock, faults

vars == <<store, link, wait, got, feed, chan, node, agent, clock, faults>>

ChainEvent == SignChainEvent(NodeKey, Doc, 0)
ChainHash == ChainEvent.id
HeaderOf(h) == <<"stock", Alias, h>>
HeadersHex(tip) == [i \in 1 .. Min({TipHeaders, tip + 1}) |->
                        HeaderOf(tip + i - Min({TipHeaders, tip + 1}))]
Payment == SignTransactionEvent(AgentKey, Alias, "payment", 1)

NoLink == [life |-> "none", sock |-> FALSE, subs |-> {}, pubs |-> {}, asked |-> {}, sent |-> {},
           down |-> <<>>]

(***************************************************************************)
(* The pool.  A session holds its subscriptions and the events it is       *)
(* publishing; asked and sent are those of them the relay has been told    *)
(* of on this connection.  Session: the one at hand unless its task has    *)
(* gone.                                                                   *)
(***************************************************************************)
Session(l) == IF l.life = "none" THEN [NoLink EXCEPT !.life = "run"] ELSE l

\* apply_command, command by command.  A session that is ending takes none.
Subscribe(l, s) ==
    IF Session(l).life # "run" THEN l ELSE [Session(l) EXCEPT !.subs = @ \cup {s}]

Unsubscribe(l, s) ==
    IF l.life # "run" THEN l ELSE [l EXCEPT !.subs = @ \ {s}, !.asked = @ \ {s}]

Publish(l, e) ==
    IF Session(l).life # "run" THEN l ELSE [Session(l) EXCEPT !.pubs = @ \cup {e}]

Idle(l) == l.subs = {} /\ l.pubs = {}

\* connected: every subscription is to be asked for again, and every event sent again.
MutConnected(l) ==      \* Mutated: the subscriptions are taken to stand.
    [l EXCEPT !.sock = TRUE, !.asked = l.subs, !.sent = {}, !.down = <<>>]

Connected(l) == [l EXCEPT !.sock = TRUE, !.asked = {}, !.sent = {}, !.down = <<>>]

\* close_publishes, and the connection is gone.
Lost(l) == [l EXCEPT !.sock = FALSE, !.pubs = {}, !.asked = {}, !.sent = {}, !.down = <<>>]

Answered(p, r, events, outcome) ==
    wait' = IF events = {} THEN wait ELSE [wait EXCEPT ![p][r] = {outcome}]

(***************************************************************************)
(* Session steps.                                                          *)
(***************************************************************************)
Connect(p, r) ==
    LET l == link[p][r] IN
    /\ l.life = "run" /\ ~l.sock /\ ~Idle(l)
    /\ link' = [link EXCEPT ![p][r] = Connected(l)]
    /\ UNCHANGED <<store, wait, got, feed, chan, node, agent, clock, faults>>

\* Connecting fails, or the connection does: what was being published is Closed.
Disconnect(p, r) ==
    LET l == link[p][r] IN
    /\ l.life = "run" /\ (l.sock \/ ~Idle(l)) /\ faults < MaxFaults
    /\ link' = [link EXCEPT ![p][r] = Lost(l)]
    /\ Answered(p, r, l.pubs, "Closed")
    /\ faults' = faults + 1
    /\ UNCHANGED <<store, got, feed, chan, node, agent, clock>>

\* Two seconds with nothing to do: the task leaves its loop.
IdleEnds(p, r) ==
    /\ link[p][r].life = "run" /\ Idle(link[p][r]) /\ faults < MaxFaults
    /\ link' = [link EXCEPT ![p][r].life = "ending"]
    /\ faults' = faults + 1
    /\ UNCHANGED <<store, wait, got, feed, chan, node, agent, clock>>

SessionGone(p, r) ==
    /\ link[p][r].life = "ending"
    /\ link' = [link EXCEPT ![p][r] = NoLink]
    /\ UNCHANGED <<store, wait, got, feed, chan, node, agent, clock, faults>>

\* relay_message.
SessionReads(p, r) ==
    LET l == link[p][r]
        m == Head(l.down)
        rest == [l EXCEPT !.down = Tail(@)]
        after == [rest EXCEPT !.subs = @ \ {m.sub}]
        mine == m.verb # "OK" /\ m.sub \in l.subs
    IN
    /\ l.life = "run" /\ l.down # <<>>
    /\ link' = [link EXCEPT ![p][r] =
                    CASE m.verb = "OK" -> [rest EXCEPT !.pubs = {e \in @ : e.id # m.id}]
                      [] m.verb = "EOSE" /\ mine /\ m.sub.oneShot -> Unsubscribe(rest, m.sub)
                      [] m.verb = "CLOSED" /\ mine -> after
                      [] OTHER -> rest]
    /\ Answered(p, r, {e \in l.pubs : m.verb = "OK" /\ e.id = m.id}, FromOk(m.accepted))
    /\ got' = IF ~mine \/ p = "node" THEN got
              ELSE [got EXCEPT ![r] =
                        [open |-> @.open /\ m.verb = "EVENT",
                         found |-> @.found \cup {e \in {m.event} : m.verb = "EVENT" /\ @.open}]]
    /\ feed' = IF mine /\ p = "node" /\ m.verb = "EVENT"
               THEN [feed EXCEPT ![r] = Append(@, m.event)] ELSE feed
    /\ UNCHANGED <<store, chan, node, agent, clock, faults>>

(***************************************************************************)
(* The relay.                                                              *)
(***************************************************************************)
Item(s, e) == [verb |-> "EVENT", sub |-> s, event |-> e, id |-> e.id, accepted |-> FALSE]
Eose(s) == [verb |-> "EOSE", sub |-> s, event |-> <<>>, id |-> <<>>, accepted |-> FALSE]
Closed(s) == [verb |-> "CLOSED", sub |-> s, event |-> <<>>, id |-> <<>>, accepted |-> FALSE]
OkMsg(e, accepted) == [verb |-> "OK", sub |-> <<>>, event |-> <<>>, id |-> e.id, accepted |-> accepted]

\* What a relay answers a REQ with: the newest first, up to the limit.
Served(f, kept) ==
    LET newer(i, j) == kept[i].at > kept[j].at \/ (kept[i].at = kept[j].at /\ i < j)
        fit == {i \in DOMAIN kept : Matches(f, kept[i])}
        first == {i \in fit : f.limit = 0 \/ Cardinality({j \in fit : newer(j, i)}) < f.limit}
    IN  [n \in 1 .. Cardinality(first) |->
            kept[CHOOSE i \in first : Cardinality({j \in first : newer(j, i)}) = n - 1]]

Fresh(r, e) == Verify(e) /\ \A i \in DOMAIN store[r] : store[r][i].id # e.id

\* A new event goes to every connection with a subscription for it.
Passed(l, e) ==
    LET to == SetToSeq({s \in l.asked : Matches(s.filter, e)})
    IN  [l EXCEPT !.down = @ \o [i \in DOMAIN to |-> Item(to[i], e)]]
Broadcast(r, e, links) == [q \in Procs |-> [links[q] EXCEPT ![r] = Passed(links[q][r], e)]]

\* serve, REQ: what is kept, the end of it, and from then on what is new.
RelayReq(p, r, s) ==
    LET l == link[p][r]
        kept == Served(s.filter, store[r])
    IN
    /\ l.life = "run" /\ l.sock /\ s \in l.subs \ l.asked
    /\ link' = [link EXCEPT ![p][r] =
                    [l EXCEPT !.asked = @ \cup {s},
                              !.down = @ \o [i \in DOMAIN kept |-> Item(s, kept[i])] \o <<Eose(s)>>]]
    /\ UNCHANGED <<store, wait, got, feed, chan, node, agent, clock, faults>>

\* serve, EVENT: kept if it verifies and is new, and answered either way.  A relay may
\* have a policy of its own, and refuse.
RelayEvent(p, r, e, refuse) ==
    LET l == link[p][r]
        ok == Verify(e) /\ ~refuse
        told == [link EXCEPT ![p][r] = [l EXCEPT !.sent = @ \cup {e}, !.down = Append(@, OkMsg(e, ok))]]
    IN
    /\ l.life = "run" /\ l.sock /\ e \in l.pubs \ l.sent
    /\ refuse => faults < MaxFaults
    /\ faults' = IF refuse THEN faults + 1 ELSE faults
    /\ store' = IF ok /\ Fresh(r, e) THEN [store EXCEPT ![r] = Append(@, e)] ELSE store
    /\ link' = IF ok /\ Fresh(r, e) THEN Broadcast(r, e, told) ELSE told
    /\ UNCHANGED <<wait, got, feed, chan, node, agent, clock>>

\* A relay ends a subscription of its own accord.  A follow it ends is over: the task
\* that forwards its events leaves, and nothing asks again.
RelayCloses(p, r, s) ==
    LET l == link[p][r] IN
    /\ s \in l.asked /\ faults < MaxFaults
    /\ link' = [link EXCEPT ![p][r] = [l EXCEPT !.asked = @ \ {s}, !.down = Append(@, Closed(s))]]
    /\ faults' = faults + 1
    /\ UNCHANGED <<store, wait, got, feed, chan, node, agent, clock>>

\* Somebody else publishes on a relay.
Elsewhere(r, e) ==
    /\ Fresh(r, e) /\ faults < MaxFaults
    /\ store' = [store EXCEPT ![r] = Append(@, e)]
    /\ link' = Broadcast(r, e, link)
    /\ faults' = faults + 1
    /\ UNCHANGED <<wait, got, feed, chan, node, agent, clock>>

(***************************************************************************)
(* publish_all: every relay is asked at once, and each has its own time.   *)
(***************************************************************************)
PublishAll(p, e) ==
    /\ link' = [link EXCEPT ![p] = [r \in Relays |-> Publish(@[r], e)]]
    /\ wait' = [wait EXCEPT ![p] = [r \in Relays |->
                    IF Session(link[p][r]).life = "run" THEN {} ELSE {"Closed"}]]

OkCount(p) == Cardinality({r \in Relays : wait[p][r] = {"Ok"}})
AllAnswered(p) == \A r \in Relays : wait[p][r] # {}

\* The caller gives up on a relay, and the session forgets the event.
PublishTimeout(p, r) ==
    /\ wait[p][r] = {} /\ link[p][r].pubs # {} /\ faults < MaxFaults
    /\ wait' = [wait EXCEPT ![p][r] = {"Timeout"}]
    /\ link' = [link EXCEPT ![p][r] = [@ EXCEPT !.pubs = {}, !.sent = {}]]
    /\ faults' = faults + 1
    /\ UNCHANGED <<store, got, feed, chan, node, agent, clock>>

(***************************************************************************)
(* The node.                                                               *)
(***************************************************************************)
FollowSub(now) == [name |-> "follow", oneShot |-> FALSE, filter |-> FollowFilter("tx", 600, now)]

\* A followed event goes from the subscription to the channel while there is room.
Feed(r) ==
    /\ feed[r] # <<>> /\ Len(chan) < ChanCap
    /\ chan' = Append(chan, Head(feed[r]))
    /\ feed' = [feed EXCEPT ![r] = Tail(@)]
    /\ UNCHANGED <<store, link, wait, got, node, agent, clock, faults>>

NewBlock ==
    /\ node.phase = "loop" /\ node.tip < MaxTip
    /\ node' = [node EXCEPT !.tip = @ + 1]
    /\ UNCHANGED <<store, link, wait, got, feed, chan, agent, clock, faults>>

\* The event arm of the loop, for a transaction.  The memory pool takes one it holds
\* for a repetition (the rules it has for the others are those of ChainStore).
Submit(pool, tx) == IF Contains(pool, tx) THEN pool ELSE Append(pool, tx)

HandleEvent ==
    LET e == Head(chan)
        t == Accept(node.seen, e, "tx", Alias, SeenCap)
        txs == IF t.taken THEN ParseTransaction(e, {Alias}) ELSE {}
    IN
    /\ node.phase = "loop" /\ chan # <<>>
    /\ chan' = Tail(chan)
    /\ node' = [node EXCEPT !.seen = t.order,
                            !.pool = IF txs = {} THEN @ ELSE Submit(@, CHOOSE tx \in txs : TRUE)]
    /\ UNCHANGED <<store, link, wait, got, feed, agent, clock, faults>>

\* The announce arm: the loop waits for the relays' answers.
Announce ==
    /\ node.phase = "loop" /\ node.announced # node.tip /\ node.retry
    /\ \E t \in TipTemplate(Alias, node.tip, HeadersHex(node.tip), <<Mirror>>) :
          PublishAll("node", SignTipWithPeg(NodeKey, WithChainHash(t, ChainHash), {Doc.challenge}, clock))
    /\ node' = [node EXCEPT !.phase = "announcing"]
    /\ UNCHANGED <<store, got, feed, chan, agent, clock, faults>>

MutAnnounced ==         \* Mutated: it counts as announced whatever the relays said.
    /\ node.phase = "announcing" /\ AllAnswered("node")
    /\ node' = [node EXCEPT !.phase = "loop", !.announced = node.tip]
    /\ UNCHANGED <<store, link, wait, got, feed, chan, agent, clock, faults>>

Announced ==
    /\ node.phase = "announcing" /\ AllAnswered("node")
    /\ node' = IF OkCount("node") > 0
               THEN [node EXCEPT !.phase = "loop", !.announced = node.tip]
               ELSE [node EXCEPT !.phase = "loop", !.retry = FALSE]
    /\ UNCHANGED <<store, link, wait, got, feed, chan, agent, clock, faults>>

\* A minute after an announcement nobody took.
RetryDue ==
    /\ ~node.retry
    /\ node' = [node EXCEPT !.retry = TRUE]
    /\ clock' = clock + 1
    /\ UNCHANGED <<store, link, wait, got, feed, chan, agent, faults>>

(***************************************************************************)
(* The agent.  resolve_chain_on: the tips for the alias, then the event    *)
(* for the hash, then the tips for the event's alias if none was given.    *)
(***************************************************************************)
FetchSub(what, f) == [name |-> what, oneShot |-> TRUE, filter |-> f]

FetchAll(what, f) ==
    /\ link' = [link EXCEPT !["agent"] = [r \in Relays |-> Subscribe(@[r], FetchSub(what, f))]]
    /\ got' = [r \in Relays |-> [open |-> Session(link["agent"][r]).life = "run", found |-> {}]]

Fetched == UNION {got[r].found : r \in Relays}
FetchDone == \A r \in Relays : ~got[r].open

\* fetch_one gives up on a relay with what it has; the guard takes the subscription away.
FetchTimeout(r) ==
    /\ got[r].open /\ faults < MaxFaults
    /\ got' = [got EXCEPT ![r].open = FALSE]
    /\ link' = [link EXCEPT !["agent"][r] =
                    IF @.subs = {} THEN @ ELSE Unsubscribe(@, CHOOSE s \in @.subs : TRUE)]
    /\ faults' = faults + 1
    /\ UNCHANGED <<store, wait, feed, chan, node, agent, clock>>

AliasOf(events) == {p.alias : p \in UNION {ParseChainEvent(e) : e \in events}}

\* The hash asked for, else the one the newest tip names.
TheId(ask, tips) ==
    IF ask.hash # {} THEN ask.hash
    ELSE UNION {t.hash : t \in UNION {Newest(tips, a, {}) : a \in ask.alias}}

\* Ask the relays for the event, if there is an id to ask for.
AskEvent(ask, tips) ==
    IF TheId(ask, tips) = {}
    THEN /\ agent' = [agent EXCEPT !.phase = "resolve", !.ask = ask, !.tips = tips]
         /\ UNCHANGED <<link, got>>
    ELSE /\ agent' = [agent EXCEPT !.phase = "event", !.ask = ask, !.tips = tips]
         /\ \E i \in TheId(ask, tips) : FetchAll("event", EventFilter(i))

Ask(ask) ==
    /\ agent.phase = "idle"
    /\ IF ask.alias = {} THEN AskEvent(ask, {})
       ELSE /\ agent' = [agent EXCEPT !.phase = "tips", !.ask = ask]
            /\ \E a \in ask.alias : FetchAll("tips", TipFilter(a))
    /\ UNCHANGED <<store, wait, feed, chan, node, clock, faults>>

GotTips ==
    /\ agent.phase = "tips" /\ FetchDone
    /\ AskEvent(agent.ask, Fetched)
    /\ UNCHANGED <<store, wait, feed, chan, node, clock, faults>>

GotEvent ==
    LET events == {e \in Fetched : e.id \in TheId(agent.ask, agent.tips)} IN
    /\ agent.phase = "event" /\ FetchDone
    /\ IF agent.ask.alias = {} /\ AliasOf(events) # {}
       THEN /\ agent' = [agent EXCEPT !.event = events, !.phase = "late tips"]
            /\ \E a \in AliasOf(events) : FetchAll("late tips", TipFilter(a))
       ELSE /\ agent' = [agent EXCEPT !.event = events, !.phase = "resolve"]
            /\ UNCHANGED <<link, got>>
    /\ UNCHANGED <<store, wait, feed, chan, node, clock, faults>>

GotLateTips ==
    /\ agent.phase = "late tips" /\ FetchDone
    /\ agent' = [agent EXCEPT !.tips = Fetched, !.phase = "resolve"]
    /\ UNCHANGED <<store, link, wait, got, feed, chan, node, clock, faults>>

Serves == [m \in {Mirror, Rival} |->
              IF m = Mirror THEN [doc |-> {Doc}, event |-> {ChainEvent}] ELSE RivalServes]

\* The chain is resolved, its mirror (a copy of the chain up to some height) is judged by
\* the tip, and the agent pays.
ResolveAndPay(height) ==
    LET x == ResolveChain(agent.ask.alias, agent.ask.hash, agent.tips, agent.event, Serves)
    IN
    /\ agent.phase = "resolve" /\ height <= node.tip
    /\ agent' = [agent EXCEPT !.phase = "pay", !.tips = {}, !.event = {}, !.resolved = x,
            !.contradicted =
                JudgeMirror(UNION {y.tip : y \in x}, height, {HeaderOf(height)}) = "Contradicts"]
    /\ PublishAll("agent", Payment)
    /\ got' = [r \in Relays |-> [open |-> FALSE, found |-> {}]]
    /\ UNCHANGED <<store, feed, chan, node, clock, faults>>

Paid ==
    /\ agent.phase = "pay" /\ AllAnswered("agent")
    /\ agent' = [agent EXCEPT !.phase = IF OkCount("agent") > 0 THEN "paid" ELSE "done"]
    /\ UNCHANGED <<store, link, wait, got, feed, chan, node, clock, faults>>

-----------------------------------------------------------------------------
Init ==
    /\ store = [r \in Relays |-> <<ChainEvent, Earlier>>]
    /\ clock = 1
    /\ link = [p \in Procs |-> [r \in Relays |->
                    IF p = "node" THEN Subscribe(NoLink, FollowSub(clock))
                    ELSE NoLink]]
    /\ wait = [p \in Procs |-> [r \in Relays |-> {}]]
    /\ got = [r \in Relays |-> [open |-> FALSE, found |-> {}]]
    /\ feed = [r \in Relays |-> <<>>] /\ chan = <<>>
    /\ node = [tip |-> 0, announced |-> -1, phase |-> "loop", retry |-> TRUE, seen |-> <<>>,
               pool |-> <<>>]
    /\ agent = [phase |-> "idle", ask |-> <<>>, tips |-> {}, event |-> {}, resolved |-> {},
                contradicted |-> FALSE]
    /\ faults = 0

NodeStep == NewBlock \/ HandleEvent \/ Announce \/ Announced \/ RetryDue
AgentStep == \/ \E ask \in Asks : Ask(ask)
             \/ \E h \in 0 .. MaxTip : ResolveAndPay(h)
             \/ GotTips \/ GotEvent \/ GotLateTips \/ Paid
PoolStep(p, r) == Connect(p, r) \/ SessionReads(p, r) \/ SessionGone(p, r)
RelayStep(p, r) == \/ \E s \in link[p][r].subs : RelayReq(p, r, s)
                   \/ \E e \in link[p][r].pubs : RelayEvent(p, r, e, FALSE)
Fault == \/ \E p \in Procs, r \in Relays :
               \/ Disconnect(p, r) \/ PublishTimeout(p, r) \/ IdleEnds(p, r)
               \/ \E e \in link[p][r].pubs : RelayEvent(p, r, e, TRUE)
               \/ \E s \in link[p][r].subs : RelayCloses(p, r, s)
         \/ \E r \in Relays : FetchTimeout(r) \/ \E e \in Foreign : Elsewhere(r, e)

Work == \/ \E p \in Procs, r \in Relays : PoolStep(p, r) \/ RelayStep(p, r)
        \/ \E r \in Relays : Feed(r)
        \/ NodeStep \/ AgentStep

Next == Work \/ Fault

\* The processes and the relays keep working: tasks are scheduled, a session tries again
\* to connect, a relay that is not failing answers.  Failures, and the end of a session
\* left idle, need not happen, and are bounded.
Fairness == WF_vars(Work)

Spec == Init /\ [][Next]_vars /\ Fairness

-----------------------------------------------------------------------------
TypeOK ==
    /\ node.tip \in 0 .. MaxTip /\ node.announced \in -1 .. node.tip
    /\ Len(chan) <= ChanCap /\ faults \in 0 .. MaxFaults
    /\ \A p \in Procs, r \in Relays : wait[p][r] \subseteq Outcomes

Holds(r, e) == \E i \in DOMAIN store[r] : store[r][i] = e
OnARelay(height) ==
    \E r \in Relays : \E i \in DOMAIN store[r] :
        \E t \in ParseTip(store[r][i]) : t.tip = height /\ t.pubkey = NodeKey

\* A payment the agent was told a relay took is on a relay, and so is every tip the node
\* believes announced: an answer is never one to another publish, to a connection that
\* was lost, or to an event the relay refused.  The relays here keep every tip: that
\* some replace a chain's tip by its next (kinds.rs:13) is not followed.
OkIsStored ==
    /\ agent.phase = "paid" => \E r \in Relays : Holds(r, Payment)
    /\ node.announced >= 0 => OnARelay(node.announced)

\* Whatever is on the relays and whatever they fail to give, a chain asked for by its
\* hash resolves to that chain and to a tip of its own signers that names no other, and
\* a chain asked for by alias to one whose signer announced it.
ResolvedIsOwn ==
    \A x \in agent.resolved :
        /\ agent.ask.hash # {} => x.hash = agent.ask.hash
        /\ \A t \in x.tip : /\ t.pubkey \in x.doc.signer \cup SignersOf(x.doc)
                            /\ t.hash \in {{}, x.hash}

\* In the end a transaction on a relay the node follows is in the producer's memory
\* pool, once, and the chain's last tip is on a relay: through lost connections, answers
\* and deliveries, deliveries repeated after the follower has forgotten them, a session
\* that ends as it is called, and a loop that takes no event while it waits for the
\* answers to an announcement.  Of a payment that only relays hold which have closed the
\* node's follow it says nothing: the pool does not ask again (relay_message, follow).
Follows(r) == \E s \in link["node"][r].subs : s.name = "follow"
Once(pool, tx) == Cardinality({i \in DOMAIN pool : pool[i] = tx}) = 1
RelaysDeliver ==
    <>[](/\ \A e \in {Payment, Earlier} :
               (\E r \in Relays : Holds(r, e) /\ Follows(r)) => Once(node.pool, e.content)
         /\ \A i, j \in DOMAIN node.pool : node.pool[i] = node.pool[j] => i = j
         /\ OnARelay(MaxTip))
=============================================================================
