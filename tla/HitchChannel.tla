---------------------------- MODULE HitchChannel ----------------------------
(***************************************************************************)
(* The two-party payment channel of sidestr-hitch                          *)
(* (src/protocol/machine.rs, and the classification of a spend in          *)
(* src/protocol/chain.rs): A, the funder, and B move from state to state   *)
(* of a channel in three messages.  The proposer signs the other's next    *)
(* commitment (update); the other signs back and gives up its secret of    *)
(* the previous state (ack); the proposer does the same (revoke).          *)
(*                                                                         *)
(* A signature is what it signs: the state number and the state, and, for  *)
(* an update, the proposal it belongs to (two signatures of one state      *)
(* differ).  A secret is its state number; points, their proofs and the    *)
(* shape of messages are left out, both sides being honest.  The relays    *)
(* lose, delay, reorder and repeat messages: a message stays in net for    *)
(* ever and may be taken at any time, again, or never.  So to send a       *)
(* message again is to leave net as it is, and an update that is buffered  *)
(* and handed back is one that is taken from net later.                    *)
(*                                                                         *)
(* The host saves the machine after every call and before it sends what    *)
(* the call returned: a crash loses messages and the rest of a handler of  *)
(* several calls, and needs no action.                                     *)
(***************************************************************************)
EXTENDS Integers, FiniteSets, FiniteSetsExt

CONSTANTS
    LowKey,         \* the side with the lower key
    Hashes,         \* payment hashes
    HashesBy,       \* HashesBy[s]: the hashes side s offers HTLCs with
    Expiries,       \* the expiry heights an HTLC may have
    Margin,         \* the channel's delay and EXPIRY_MARGIN, in blocks
    Fee,            \* the commitment fee the funder keeps
    Funds,          \* Funds[s]: the balance of side s at state 0
    Lag,            \* how far apart the heights the two sides see may be
    None,
    MaxN,           \* bound: no state above this one is proposed
    MaxProposals,   \* bound: the updates the two sides may propose
    MaxSyncs,       \* bound: the different syncs, and answers to them, that are sent
    MaxHeight       \* bound: the parent chain stops here

Sides == {"A", "B"}
Other(s) == IF s = "A" THEN "B" ELSE "A"

ASSUME SideAssumption ==
    /\ LowKey \in Sides /\ HashesBy \in [Sides -> SUBSET Hashes]
    /\ Funds \in [Sides -> Nat] /\ Funds["A"] >= Fee
ASSUME NumberAssumption ==
    /\ Margin \in Nat /\ Fee \in Nat /\ Lag \in Nat /\ Expiries \subseteq Nat
    /\ MaxN \in Nat /\ MaxProposals \in Nat /\ MaxSyncs \in Nat /\ MaxHeight \in Nat

\* A state of the channel: free balances and HTLCs of one unit each.
Htlc == [id : Nat, from : Sides, hash : Hashes, expiry : Nat]
State == [bal : [Sides -> Nat], htlcs : SUBSET Htlc]
Numbers == 0 .. MaxN

Update ==
    [t : {"pay"}] \cup [t : {"add"}, id : Nat, hash : Hashes, expiry : Nat]
    \cup [t : {"settle"}, id : Nat, hash : Hashes] \cup [t : {"fail"}, id : Nat]

\* A transaction that spends the funding.
Tx == [t : {"commit"}, by : Sides, n : Numbers, st : State] \cup [t : {"coop"}, st : State]

Message ==
    [t : {"update"}, by : Sides, n : Numbers, upd : Update, st : State, k : Nat]
    \cup [t : {"ack"}, by : Sides, n : Numbers, st : State]
    \cup [t : {"revoke"}, by : Sides, n : Numbers]
    \cup [t : {"reject"}, by : Sides, n : Numbers, k : Nat]
    \cup [t : {"sync", "synced"}, by : Sides, n : Numbers, pending : Numbers \cup {None},
          missing : SUBSET Numbers, reveals : SUBSET Numbers]
    \cup [t : {"close"}, by : Sides, n : Numbers, st : State]

ASSUME NoneAssumption ==
    None \notin Numbers \cup State \cup Tx \cup [n : Numbers, upd : Update, k : Nat]
                 \cup [n : Numbers, over : BOOLEAN]

Statuses == {"open", "closing-asked", "closing", "force-closing", "closed-coop", "closed-mine",
             "closed-theirs", "closed-theirs-alt", "punishing", "spent-unknown"}
Live == {"open", "closing-asked"}

VARIABLES
    status,     \* status[s]
    num,        \* num[s]: the number of the agreed state
    states,     \* states[s][n]: the state s holds for number n, or None
    accepted,   \* accepted[s]: the proposal whose signature made the agreed state, 0 for an ack
    pending,    \* pending[s]: the update s has proposed, or None
    awaiting,   \* awaiting[s]: the state that s has accepted and the other has not made final, or None
    buffered,   \* buffered[s]: the number of the update kept until then, and whether it was left
                \* there when the state became final (over, a history variable), or None
    revoked,    \* revoked[s]: the numbers whose secret the other side has given to s
    alts,       \* alts[s]: the signed states s has set aside
    knows,      \* knows[s]: the hashes whose preimage s knows
    seq,        \* seq[s]: htlc_seq
    coop,       \* coop[s]: the state of the cooperative close s has signed, or None
    close,      \* close[s]: the close s has published, or None
    made,       \* made[s]: how many updates s has proposed
    view,       \* view[s]: the height s sees
    net,        \* the messages ever sent
    sent,       \* the transactions ever broadcast
    spend       \* the transaction that spends the funding, or None

vars == <<status, num, states, accepted, pending, awaiting, buffered, revoked, alts, knows, seq,
          coop, close, made, view, net, sent, spend>>

TypeOK ==
    /\ status \in [Sides -> Statuses]
    /\ num \in [Sides -> Numbers]
    /\ states \in [Sides -> [Numbers -> State \cup {None}]]
    /\ accepted \in [Sides -> Nat]
    /\ pending \in [Sides -> [n : Numbers, upd : Update, k : Nat] \cup {None}]
    /\ awaiting \in [Sides -> Numbers \cup {None}]
    /\ buffered \in [Sides -> [n : Numbers, over : BOOLEAN] \cup {None}]
    /\ revoked \in [Sides -> SUBSET Numbers]
    /\ alts \in [Sides -> SUBSET [n : Numbers, st : State, upd : Update]]
    /\ knows \in [Sides -> SUBSET Hashes]
    /\ seq \in [Sides -> Nat]
    /\ coop \in [Sides -> State \cup {None}]
    /\ close \in [Sides -> Tx \cup {None}]
    /\ made \in [Sides -> Nat]
    /\ view \in [Sides -> Nat]
    /\ net \subseteq Message
    /\ sent \subseteq Tx
    /\ spend \in Tx \cup {None}

Opening == [bal |-> Funds, htlcs |-> {}]

\* Both sides have their first commitment, and the funding is in the chain.
Init ==
    /\ status = [s \in Sides |-> "open"]
    /\ num = [s \in Sides |-> 0]
    /\ states = [s \in Sides |-> [n \in Numbers |-> IF n = 0 THEN Opening ELSE None]]
    /\ accepted = [s \in Sides |-> 0]
    /\ pending = [s \in Sides |-> None]
    /\ awaiting = [s \in Sides |-> None]
    /\ buffered = [s \in Sides |-> None]
    /\ revoked = [s \in Sides |-> {}]
    /\ alts = [s \in Sides |-> {}]
    /\ knows = [s \in Sides |-> {}]
    /\ seq = [s \in Sides |-> 1]
    /\ coop = [s \in Sides |-> None]
    /\ close = [s \in Sides |-> None]
    /\ made = [s \in Sides |-> 0]
    /\ view = [s \in Sides |-> 0]
    /\ net = {}
    /\ sent = {}
    /\ spend = None
-----------------------------------------------------------------------------
(* What a side can tell from its machine. *)

Current(s) == states[s][num[s]]
HashesOf(st) == {h.hash : h \in st.htlcs}

\* The states before the agreed one that the other side has not revoked.
Missing(s) == (0 .. num[s] - 1) \ revoked[s]

\* Mutated: the secret of the agreed state may go too.
MutMayReveal(s, i) ==
    /\ i <= num[s]
    /\ close[s] # None /\ close[s].t = "commit" => i < close[s].n

\* Never the secret of a commitment this side has published.
MayReveal(s, i) ==
    /\ i < num[s]
    /\ close[s] # None /\ close[s].t = "commit" => i < close[s].n

NextHtlcId(s, st) == Max({h.id + 1 : h \in st.htlcs} \cup {seq[s]})

PendingHash(s) ==
    IF pending[s] # None /\ pending[s].upd.t = "add" THEN {pending[s].upd.hash} ELSE {}

\* Mutated: what was set aside is forgotten.
MutBound(s, h) == h \in HashesOf(Current(s)) \cup PendingHash(s)

\* Where a payment hash still has force: the agreed state, my pending add, or a
\* state I set aside that the other side has not revoked.
Bound(s, h) ==
    \/ h \in HashesOf(Current(s)) \cup PendingHash(s)
    \/ \E a \in alts[s] : a.n \notin revoked[s] /\ h \in HashesOf(a.st)

\* What Router::tick asks of a channel before it fails a forwarded payment back
\* upstream as lost.
Released(s, h) ==
    /\ ~Bound(s, h)
    /\ pending[s] = None /\ awaiting[s] = None
    /\ h \notin knows[s]

(***************************************************************************)
(* next_state, as side s computes it for an update of p on st: the one     *)
(* state it leads to, or none when it is refused.                          *)
(***************************************************************************)
Paid(st, from, to) ==
    [bal |-> [st.bal EXCEPT ![from] = @ - 1, ![to] = @ + 1], htlcs |-> st.htlcs]
Offered(st, p, upd) ==
    [bal |-> [st.bal EXCEPT ![p] = @ - 1],
     htlcs |-> st.htlcs \cup {[id |-> upd.id, from |-> p, hash |-> upd.hash, expiry |-> upd.expiry]}]
Resolved(st, h, to) ==
    [bal |-> [st.bal EXCEPT ![to] = @ + 1], htlcs |-> st.htlcs \ {h}]

MayAdd(s, st, upd) ==
    /\ upd.id = NextHtlcId(s, st)
    /\ upd.expiry > view[s] + Margin
    /\ upd.hash \notin HashesOf(st) \cup PendingHash(s)
MaySettle(s, h, upd, p) == h.id = upd.id /\ h.from # p /\ h.hash = upd.hash /\ view[s] < h.expiry
MayFail(s, h, upd, p) ==
    h.id = upd.id /\ (h.from = p => view[s] >= h.expiry /\ h.hash \notin knows[s])

NextStates(s, st, upd, p) ==
    {x \in CASE upd.t = "pay" -> {Paid(st, p, Other(p))}
             [] upd.t = "add" -> {Offered(st, p, upd) : u \in {v \in {upd} : MayAdd(s, st, v)}}
             [] upd.t = "settle" -> {Resolved(st, h, p) : h \in {g \in st.htlcs : MaySettle(s, g, upd, p)}}
             [] upd.t = "fail" -> {Resolved(st, h, h.from) : h \in {g \in st.htlcs : MayFail(s, g, upd, p)}} :
        x.bal[p] >= 0 /\ x.bal["A"] >= Fee}

-----------------------------------------------------------------------------
(* Steps that several handlers share. *)

\* The pending update of s set aside: the state signed for it is remembered.
Aside(s) ==
    IF pending[s] = None \/ \E a \in alts[s] : a.n = pending[s].n /\ a.st = states[s][a.n]
    THEN alts[s]
    ELSE alts[s] \cup {[n |-> pending[s].n, st |-> states[s][pending[s].n], upd |-> pending[s].upd]}
\* Mutated: the update is dropped, and its signature forgotten.
MutDropPending(s) ==
    /\ states' = IF pending[s] = None THEN states
                 ELSE [states EXCEPT ![s] = [@ EXCEPT ![pending[s].n] = None]]
    /\ pending' = [pending EXCEPT ![s] = None]
    /\ UNCHANGED alts
DropPending(s) ==
    /\ alts' = [alts EXCEPT ![s] = Aside(s)]
    /\ states' = IF pending[s] = None THEN states
                 ELSE [states EXCEPT ![s] = [@ EXCEPT ![pending[s].n] = None]]
    /\ pending' = [pending EXCEPT ![s] = None]

\* What both sides note of an update that has become the agreed state.
Learn(s, upd) ==
    /\ seq' = [seq EXCEPT ![s] = IF upd.t = "add" THEN Max({@, upd.id + 1}) ELSE @]
    /\ knows' = [knows EXCEPT ![s] = @ \cup IF upd.t = "settle" THEN {upd.hash} ELSE {}]

\* Secrets of the other side; the one awaited makes the agreed state final.
TakeReveals(s, is) ==
    /\ revoked' = [revoked EXCEPT ![s] = @ \cup is]
    /\ awaiting' = [awaiting EXCEPT ![s] = IF @ # None /\ @ - 1 \in revoked[s] \cup is THEN None ELSE @]

\* Nobody takes the update that was kept until the awaited state is final.
LeftOver(s) ==
    buffered' = [buffered EXCEPT ![s] =
        IF @ # None /\ awaiting'[s] = None THEN [@ EXCEPT !.over = TRUE] ELSE @]

Send(m) == net' = net \cup {m}

-----------------------------------------------------------------------------
(* Updates from this side. *)

\* The updates a host may ask for.
Asked(s) ==
    {[t |-> "pay"]}
    \cup {[t |-> "add", id |-> NextHtlcId(s, Current(s)), hash |-> h, expiry |-> e] :
            h \in {g \in HashesBy[s] : ~Bound(s, g)}, e \in Expiries}
    \cup {[t |-> "settle", id |-> h.id, hash |-> h.hash] :
            h \in {g \in Current(s).htlcs : g.hash \in knows[s]}}
    \cup {[t |-> "fail", id |-> h.id] : h \in Current(s).htlcs}

Propose(s, upd) ==
    /\ made["A"] + made["B"] < MaxProposals /\ num[s] < MaxN
    /\ status[s] = "open"
    /\ pending[s] = None
    /\ awaiting[s] = None
    /\ Missing(s) = {}
    /\ \E st \in NextStates(s, Current(s), upd, s) :
        /\ states' = [states EXCEPT ![s] = [@ EXCEPT ![num[s] + 1] = st]]
        /\ Send([t |-> "update", by |-> s, n |-> num[s] + 1, upd |-> upd, st |-> st, k |-> made[s] + 1])
    /\ pending' = [pending EXCEPT ![s] = [n |-> num[s] + 1, upd |-> upd, k |-> made[s] + 1]]
    /\ made' = [made EXCEPT ![s] = @ + 1]
    /\ UNCHANGED <<status, num, accepted, awaiting, buffered, revoked, alts, knows, seq, coop,
                   close, view, sent, spend>>

\* The host hands over the preimage of an HTLC offered to s, in settle_htlc
\* whatever becomes of its proposal.
RememberPreimage(s, h) ==
    /\ \E x \in Current(s).htlcs : x.from # s /\ x.hash = h
    /\ knows' = [knows EXCEPT ![s] = @ \cup {h}]
    /\ UNCHANGED <<status, num, states, accepted, pending, awaiting, buffered, revoked, alts, seq,
                   coop, close, made, view, net, sent, spend>>

\* tick: a pending add that would expire before it could be added.
TickExpire(s) ==
    /\ status[s] \in Live
    /\ pending[s] # None /\ pending[s].upd.t = "add"
    /\ view[s] >= pending[s].upd.expiry - Margin
    /\ DropPending(s)
    /\ UNCHANGED <<status, num, accepted, awaiting, buffered, revoked, knows, seq, coop, close,
                   made, view, net, sent, spend>>

-----------------------------------------------------------------------------
(* Messages from the other side. *)

\* An update that is looked at in full (an earlier or later number is an error).
Considered(s, m) ==
    /\ status[s] = "open"
    /\ m.n = num[s] + 1
    /\ awaiting[s] = None
    /\ Missing(s) = {}

\* The update is valid on my state and its signature fits what I compute.
Verified(s, m) == m.st \in NextStates(s, Current(s), m.upd, m.by)

ReceiveUpdateReject(s, m) ==
    /\ m.t = "update" /\ m.by # s
    /\ \/ status[s] = "closing-asked"
       \/ status[s] = "open" /\ m.n = num[s] /\ m.k # accepted[s]
       \/ Considered(s, m) /\ ~Verified(s, m)
       \/ Considered(s, m) /\ Verified(s, m) /\ pending[s] # None /\ s = LowKey
    /\ Send([t |-> "reject", by |-> s, n |-> m.n, k |-> m.k])
    /\ UNCHANGED <<status, num, states, accepted, pending, awaiting, buffered, revoked, alts,
                   knows, seq, coop, close, made, view, sent, spend>>

\* The next update comes before the awaited state is final: it is kept.
ReceiveUpdateBuffer(s, m) ==
    /\ m.t = "update" /\ m.by # s
    /\ status[s] = "open" /\ m.n = num[s] + 1 /\ awaiting[s] # None
    /\ buffered' = [buffered EXCEPT ![s] = [n |-> m.n, over |-> FALSE]]
    /\ UNCHANGED <<status, num, states, accepted, pending, awaiting, revoked, alts, knows, seq, coop,
                   close, made, view, net, sent, spend>>

\* Mutated: the other side's update always stands.
MutReceiveUpdateAccept(s, m) ==
    /\ m.t = "update" /\ m.by # s
    /\ Considered(s, m) /\ Verified(s, m)
    /\ alts' = [alts EXCEPT ![s] = Aside(s)]
    /\ pending' = [pending EXCEPT ![s] = None]
    /\ states' = [states EXCEPT ![s] = [@ EXCEPT ![m.n] = m.st]]
    /\ Learn(s, m.upd)
    /\ accepted' = [accepted EXCEPT ![s] = m.k]
    /\ num' = [num EXCEPT ![s] = m.n]
    /\ awaiting' = [awaiting EXCEPT ![s] = m.n]
    /\ Send([t |-> "ack", by |-> s, n |-> m.n, st |-> m.st])
    /\ UNCHANGED <<status, buffered, revoked, coop, close, made, view, sent, spend>>

ReceiveUpdateAccept(s, m) ==
    /\ m.t = "update" /\ m.by # s
    /\ Considered(s, m) /\ Verified(s, m)
    /\ pending[s] = None \/ s # LowKey
    /\ alts' = [alts EXCEPT ![s] = Aside(s)]
    /\ pending' = [pending EXCEPT ![s] = None]
    /\ states' = [states EXCEPT ![s] = [@ EXCEPT ![m.n] = m.st]]
    /\ Learn(s, m.upd)
    /\ accepted' = [accepted EXCEPT ![s] = m.k]
    /\ num' = [num EXCEPT ![s] = m.n]
    /\ awaiting' = [awaiting EXCEPT ![s] = m.n]
    /\ Send([t |-> "ack", by |-> s, n |-> m.n, st |-> m.st])
    /\ UNCHANGED <<status, buffered, revoked, coop, close, made, view, sent, spend>>

\* The agreed state becomes state m.n, by update upd that the other side has
\* acknowledged; s answers with its own secret.
Advance(s, m, upd) ==
    /\ Learn(s, upd)
    /\ accepted' = [accepted EXCEPT ![s] = 0]
    /\ num' = [num EXCEPT ![s] = m.n]
    /\ revoked' = [revoked EXCEPT ![s] = @ \cup {m.n - 1}]
    /\ Send([t |-> "revoke", by |-> s, n |-> m.n])
    /\ UNCHANGED <<status, awaiting, buffered, coop, close, made, view, sent, spend>>

ReceiveAck(s, m) ==
    /\ m.t = "ack" /\ m.by # s
    /\ status[s] \in Live
    /\ pending[s] # None /\ pending[s].n = m.n /\ m.st = states[s][m.n]
    /\ Advance(s, m, pending[s].upd)
    /\ pending' = [pending EXCEPT ![s] = None]
    /\ UNCHANGED <<states, alts>>

\* The acknowledgement is of a state s has set aside: what it signed binds it,
\* and a newer pending update is set aside instead.
AdoptAlternative(s, m) ==
    /\ m.t = "ack" /\ m.by # s
    /\ status[s] = "open"
    /\ m.n = num[s] + 1
    /\ pending[s] # None => m.st # states[s][m.n]
    /\ \E a \in alts[s] :
        /\ a.n = m.n /\ a.st = m.st
        /\ Advance(s, m, a.upd)
        /\ alts' = [alts EXCEPT ![s] = Aside(s) \ {a}]
    /\ pending' = [pending EXCEPT ![s] = None]
    /\ states' = [states EXCEPT ![s] = [@ EXCEPT ![m.n] = m.st]]

\* Mutated: the update kept for later is not handed back.
MutReceiveRevoke(s, m) ==
    /\ m.t = "revoke" /\ m.by # s
    /\ status[s] \in Live \/ awaiting[s] # None
    /\ m.n <= num[s]
    /\ m.n - 1 \notin revoked[s]
    /\ TakeReveals(s, {m.n - 1})
    /\ UNCHANGED <<status, num, states, accepted, pending, buffered, alts, knows, seq, coop, close,
                   made, view, net, sent, spend>>

\* The host then hands back the update kept for later, in a call of its own: a
\* crash in between leaves it there.
ReceiveRevoke(s, m) ==
    /\ m.t = "revoke" /\ m.by # s
    /\ status[s] \in Live \/ awaiting[s] # None
    /\ m.n <= num[s]
    /\ IF m.n - 1 \in revoked[s] THEN UNCHANGED <<revoked, awaiting>> ELSE TakeReveals(s, {m.n - 1})
    /\ \/ buffered' = [buffered EXCEPT ![s] = IF awaiting'[s] = None THEN None ELSE @]
       \/ LeftOver(s)
    /\ UNCHANGED <<status, num, states, accepted, pending, alts, knows, seq, coop, close, made, view,
                   net, sent, spend>>

\* Only a reject that names the pending update counts.  (The resync that follows
\* it is SendSync.)
ReceiveReject(s, m) ==
    /\ m.t = "reject" /\ m.by # s
    /\ pending[s] # None /\ m.n = pending[s].n /\ m.k = pending[s].k
    /\ DropPending(s)
    /\ UNCHANGED <<status, num, accepted, awaiting, buffered, revoked, knows, seq, coop, close,
                   made, view, net, sent, spend>>

-----------------------------------------------------------------------------
(* Recovery. *)

SyncMessage(s, tag, missing, asked) ==
    [t |-> tag, by |-> s, n |-> num[s],
     pending |-> IF pending[s] = None THEN None ELSE pending[s].n,
     missing |-> missing,
     reveals |-> {i \in asked \cup {num[s] - 1} : i >= 0 /\ MayReveal(s, i)}]

\* A resync, at a tick, after an error or a reject.
SendSync(s) ==
    /\ Cardinality({m \in net : m.t = "sync"}) < MaxSyncs
    /\ Send(SyncMessage(s, "sync", Missing(s), {}))
    /\ UNCHANGED <<status, num, states, accepted, pending, awaiting, buffered, revoked, alts,
                   knows, seq, coop, close, made, view, sent, spend>>

\* Both sides have proposed the next state, and mine gives way: all that reconcile
\* changes, apart from what it sends again.
GivesWay(s, m) ==
    /\ status[s] \in Live
    /\ m.n = num[s]
    /\ pending[s] # None /\ m.pending = pending[s].n
    /\ s # LowKey

\* The other side is one state behind and lost my acknowledgement.
AckAgain(s, m) ==
    IF /\ status[s] \in Live
       /\ m.n + 1 = num[s]
       /\ m.pending \in {None, num[s]}
       /\ MayReveal(s, num[s] - 1)
    THEN {[t |-> "ack", by |-> s, n |-> num[s], st |-> Current(s)]} ELSE {}

ReceiveSync(s, m) ==
    LET taken == {i \in m.reveals : i <= num[s] + 1}
        answer == IF m.t = "sync" THEN {SyncMessage(s, "synced", Missing(s) \ taken, m.missing)}
                  ELSE {}
    IN
    /\ m.t \in {"sync", "synced"} /\ m.by # s
    /\ m.t = "sync" => Cardinality({x \in net : x.t = "synced"}) < MaxSyncs
    /\ TakeReveals(s, taken) /\ LeftOver(s)
    /\ net' = net \cup answer \cup AckAgain(s, m)
    /\ \/ GivesWay(s, m) /\ DropPending(s)
       \/ ~GivesWay(s, m) /\ UNCHANGED <<alts, states, pending>>
    /\ UNCHANGED <<status, num, accepted, knows, seq, coop, close, made, view, sent, spend>>

-----------------------------------------------------------------------------
(* Closing. *)

CloseChannel(s) ==
    /\ status[s] = "open"
    /\ pending[s] = None /\ awaiting[s] = None
    /\ Current(s).htlcs = {}
    /\ status' = [status EXCEPT ![s] = "closing-asked"]
    /\ coop' = [coop EXCEPT ![s] = Current(s)]
    /\ Send([t |-> "close", by |-> s, n |-> num[s], st |-> Current(s)])
    /\ UNCHANGED <<num, states, accepted, pending, awaiting, buffered, revoked, alts, knows, seq,
                   close, made, view, sent, spend>>

Publish(s, tx) ==
    /\ close' = [close EXCEPT ![s] = tx]
    /\ sent' = sent \cup {tx}

ReceiveClose(s, m) ==
    /\ m.t = "close" /\ m.by # s
    /\ status[s] \in Live
    /\ m.n = num[s]
    /\ pending[s] = None /\ awaiting[s] = None
    /\ m.st = Current(s)
    /\ status' = [status EXCEPT ![s] = "closing"]
    /\ coop' = [coop EXCEPT ![s] = m.st]
    /\ Publish(s, [t |-> "coop", st |-> m.st])
    /\ UNCHANGED <<num, states, accepted, pending, awaiting, buffered, revoked, alts, knows, seq,
                   made, view, net, spend>>

\* By the user, by the router, or by a tick that must take an HTLC to the chain.
ForceClose(s) ==
    /\ status[s] \in Live \cup {"closing"}
    /\ DropPending(s)
    /\ status' = [status EXCEPT ![s] = "force-closing"]
    /\ awaiting' = [awaiting EXCEPT ![s] = None] /\ buffered' = [buffered EXCEPT ![s] = None]
    /\ Publish(s, [t |-> "commit", by |-> s, n |-> num[s], st |-> Current(s)])
    /\ UNCHANGED <<num, accepted, revoked, knows, seq, coop, made, view, net, spend>>

-----------------------------------------------------------------------------
(* The chain. *)

\* A side sees a block, at most Lag blocks before or after the other.  (Only a
\* live side looks at the height.)
NewBlock ==
    /\ \E s \in Sides : status[s] \in Live
    /\ \E seen \in SUBSET Sides \ {{}} :
        view' = [s \in Sides |-> IF s \in seen THEN view[s] + 1 ELSE view[s]]
    /\ \A s \in Sides : view'[s] <= MaxHeight /\ view'[s] <= view'[Other(s)] + Lag
    /\ UNCHANGED <<status, num, states, accepted, pending, awaiting, buffered, revoked, alts,
                   knows, seq, coop, close, made, net, sent, spend>>

Confirm(tx) ==
    /\ spend = None
    /\ spend' = tx
    /\ UNCHANGED <<status, num, states, accepted, pending, awaiting, buffered, revoked, alts,
                   knows, seq, coop, close, made, view, net, sent>>

\* The commitments of the other side that s has signed, as on_spend looks for
\* them: the agreed states, the pending one, and what was set aside.
Agreed(s) == {[n |-> i, st |-> states[s][i]] : i \in 0 .. num[s]}
PendingState(s) ==
    IF pending[s] = None THEN {} ELSE {[n |-> pending[s].n, st |-> states[s][pending[s].n]]}
SetAside(s) == {[n |-> a.n, st |-> a.st] : a \in {b \in alts[s] : b.n <= num[s] + 1}}

Classified(s, tx) ==
    IF tx = [t |-> "coop", st |-> coop[s]] THEN "closed-coop"
    ELSE IF tx = close[s] THEN "closed-mine"
    ELSE IF tx.t = "commit" /\ tx.by # s /\ [n |-> tx.n, st |-> tx.st] \in Agreed(s) \cup PendingState(s) \cup SetAside(s)
    THEN IF tx.n \in revoked[s] THEN "punishing"
         ELSE IF [n |-> tx.n, st |-> tx.st] \in Agreed(s) \cup PendingState(s) THEN "closed-theirs"
         ELSE "closed-theirs-alt"
    ELSE "spent-unknown"

OnSpend(s) ==
    /\ spend # None
    /\ status[s] \in Live \cup {"closing", "force-closing"}
    /\ status' = [status EXCEPT ![s] = Classified(s, spend)]
    /\ UNCHANGED <<num, states, accepted, pending, awaiting, buffered, revoked, alts, knows, seq,
                   coop, close, made, view, net, sent, spend>>

SideStep(s) ==
    \/ \E upd \in Asked(s) : Propose(s, upd)
    \/ \E h \in Hashes : RememberPreimage(s, h)
    \/ TickExpire(s)
    \/ SendSync(s)
    \/ CloseChannel(s)
    \/ ForceClose(s)
    \/ OnSpend(s)
    \/ \E m \in net :
        \/ ReceiveUpdateReject(s, m)
        \/ ReceiveUpdateBuffer(s, m)
        \/ ReceiveUpdateAccept(s, m)
        \/ ReceiveAck(s, m)
        \/ AdoptAlternative(s, m)
        \/ ReceiveRevoke(s, m)
        \/ ReceiveReject(s, m)
        \/ ReceiveSync(s, m)
        \/ ReceiveClose(s, m)

Next ==
    \/ NewBlock
    \/ \E tx \in sent : Confirm(tx)
    \/ \E s \in Sides : SideStep(s)

Spec == Init /\ [][Next]_vars

-----------------------------------------------------------------------------
(* Safety. *)

\* The commitments of the other side that s has signed so far.
SignedBy(s) ==
    {[n |-> 0, st |-> Opening]}
    \cup {[n |-> m.n, st |-> m.st] : m \in {x \in net : x.by = s /\ x.t \in {"update", "ack"}}}

\* A close is never a surprise, and never punished: whatever was signed, set
\* aside, rejected or adopted before, on_spend recognises every commitment that
\* the other side can publish, and a side that follows the protocol publishes
\* only one whose secret it has not given up and never will.
CloseIsFair ==
    \A s \in Sides : status[s] \notin {"spent-unknown", "punishing"}

\* Nobody falls out of reach: a side that is behind is one state behind, and it
\* still holds the state that the other has accepted, pending or set aside, so
\* that the acknowledgement fits when receive_ack or adopt_alternative looks at
\* it.  A side that has asked to close may not: adopt_alternative wants an open
\* channel (machine.rs:1579).
CanCatchUp ==
    \A s \in Sides : num[s] < num[Other(s)] =>
        /\ num[Other(s)] = num[s] + 1
        /\ [n |-> num[s] + 1, st |-> Current(Other(s))] \in PendingState(s) \cup SetAside(s)

\* An update whose validity the height decides: an add at its margin (as far as
\* the other side can tell), or the fail of an expired HTLC by its offerer.
AtDeadline(s, a) ==
    \/ a.upd.t = "add" /\ view[s] + Margin + Lag >= a.upd.expiry
    \/ a.upd.t = "fail" /\ \E x \in states[s][a.n - 1].htlcs :
            x.id = a.upd.id /\ x.from = s /\ view[s] >= x.expiry

\* Two different states of one number need an update that its proposer set aside
\* at a deadline and the other side accepted all the same.  Updates that cross,
\* are refused, repeated, come late or are acknowledged late do not split the
\* channel, as long as the two sides offer HTLCs of different hashes (with one
\* hash two adds can cross and each be accepted).
SplitOnlyAtDeadline ==
    \A n \in Numbers : n <= num["A"] /\ n <= num["B"] =>
        \/ states["A"][n] = states["B"][n]
        \/ \E s \in Sides : \E a \in alts[s] :
            a.n = n /\ a.st = states[Other(s)][n] /\ AtDeadline(s, a)

\* A state that s has signed for the other side, who has not revoked it, holds an
\* HTLC with hash h: the other side can still take it to the chain.
StillSigned(s, h) ==
    \E c \in SignedBy(s) : c.n \notin revoked[s] /\ h \in HashesOf(c.st)

\* A payment is only failed back upstream when it can no longer be claimed here,
\* whatever was set aside, rejected, adopted or acknowledged late: while the
\* channel is live, Router::tick gives up no hash that a signed state holds.
LiveReleaseIsSafe ==
    \A s \in Sides, h \in Hashes : status[s] \in Live /\ Released(s, h) => ~StillSigned(s, h)

-----------------------------------------------------------------------------
(* What the host saves, and what it asks of a machine it reads back. *)

Snapshot(s) ==
    [n |-> num[s], states |-> states[s], pending |-> pending[s], awaiting |-> awaiting[s],
     buffered |-> IF buffered[s] = None THEN None ELSE buffered[s].n,
     alternatives |-> alts[s], seq |-> seq[s]]

\* A commitment can be built: the funder's balance covers the fee.
Buildable(st) == st \in State /\ st.bal["A"] >= Fee

\* A state is agreed with the other side's signature of it, and its HTLCs are
\* behind the sequence.
AgreedIsSound(s, m, k) ==
    /\ m.states[k] # None => Buildable(m.states[k]) /\ [n |-> k, st |-> m.states[k]] \in SignedBy(Other(s))
    /\ m.states[k] # None => \A x \in m.states[k].htlcs : x.id < m.seq
PendingIsSound(s, m) ==
    m.pending # None =>
        /\ m.pending.n = m.n + 1 /\ m.states[m.n + 1] # None /\ Buildable(m.states[m.n + 1])
        /\ [t |-> "update", by |-> s, n |-> m.pending.n, upd |-> m.pending.upd,
            st |-> m.states[m.n + 1], k |-> m.pending.k] \in net

AwaitingIsSound(m) == m.awaiting # None => m.awaiting = m.n /\ m.awaiting >= 1
BufferedIsSound(m) == m.buffered # None => m.buffered = m.n + 1

\* validate: restore refuses any other machine as corrupt.  (What it says of keys
\* and of the bytes of transactions is left out.)
Validate(s, m) ==
    /\ m.seq # 0
    /\ m.states[m.n] # None
    /\ \A k \in Numbers : k > m.n /\ m.states[k] # None => m.pending # None /\ m.pending.n = k
    /\ \A k \in 0 .. m.n : AgreedIsSound(s, m, k)
    /\ \A a \in m.alternatives : Buildable(a.st)
    /\ PendingIsSound(s, m)
    /\ AwaitingIsSound(m)
    /\ BufferedIsSound(m)

\* A crash at any point of the protocol leaves a machine that can be restored,
\* whatever updates crossed, were set aside, adopted or acknowledged late, with
\* one exception: an update was buffered, a sync made the awaited state final (or
\* the host died before it handed the update back, in on_revoke), and the channel
\* has agreed on a state of its number since.  Only this one check then refuses.
SnapshotRestores ==
    \A s \in Sides :
        \/ Validate(s, Snapshot(s))
        \/ /\ buffered[s] # None /\ buffered[s].over /\ buffered[s].n <= num[s]
           /\ Validate(s, [Snapshot(s) EXCEPT !.buffered = None])
=============================================================================
