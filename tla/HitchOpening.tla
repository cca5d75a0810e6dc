---------------------------- MODULE HitchOpening ----------------------------
(***************************************************************************)
(* The opening handshake of a channel between two hosts (sidestr-hitch/src/ *)
(* protocol/opening.rs, run by sidestr-agent/src/hitch/host.rs over the    *)
(* files of store.rs): open, accept, commit, ready, and then the funding   *)
(* transaction.  Host F funds and host B receives.                         *)
(*                                                                         *)
(* What a host knows of the channel is a record: its handshake op with the *)
(* receiver's key generation g it is about, and its channel ch with the    *)
(* generation cg.  mem is what the running host holds and disk what its    *)
(* two files hold.  A file is written to a temporary file, synced, renamed *)
(* and its directory synced: a write that fails has happened or not.  The  *)
(* process may die between any two of a handler's steps.                   *)
(*                                                                         *)
(* The relays lose, repeat and reorder: a message stays in net, may be     *)
(* taken any number of times, and may be lost.  Receiver keys are fresh    *)
(* for every open it takes up, so a signature is the generation it is for. *)
(***************************************************************************)
EXTENDS Integers

CONSTANTS
    Offers,         \* the proposals a user may ask for: [value, push, fee, delay]
    MinOpen,        \* MIN_OPEN
    Dust,           \* DUST
    MaxAmount,      \* AcceptConfig.max_amount
    MinDelay,       \* AcceptConfig.min_delay
    MaxFails,       \* bound: writes that fail
    MaxDeaths,      \* bound: deaths of a host
    MaxLosses       \* bound: messages and fundings that are lost

ASSUME OpeningAssumption == MaxFails \in Nat /\ MaxDeaths \in Nat /\ MaxLosses \in Nat

Hosts == {"F", "B"}
Peer(h) == IF h = "F" THEN "B" ELSE "F"
Generations == 0 .. MaxFails + 1

\* In memory; in a file the handshake has only a role, and a funder's the accept it took.
View == [op : {"none", "proposed", "accepted", "receiver"}, g : Generations,
         ch : {"none", "funding", "open"}, cg : Generations]
File == [op : {"none", "funder", "receiver"}, g : Generations,
         ch : {"none", "funding", "open"}, cg : Generations]
Blank == [op |-> "none", g |-> 0, ch |-> "none", cg |-> 0]

Message ==
    [t : {"open"}, to : {"B"}] \cup [t : {"ready"}, to : {"F"}]
    \cup [t : {"accept"}, to : {"F"}, g : Generations]
    \cup [t : {"commit"}, to : {"B"}, g : Generations]
    \cup [t : {"sync", "synced"}, to : Hosts, status : {"funding", "open"}]

VARIABLES
    offer,          \* the proposal, chosen by the user of F
    up, mem, disk,  \* per host
    keys,           \* the receiver's key generations so far
    net,
    funding,        \* the funding transaction: unsent, sent, lost, mined, deep
    fails, deaths, losses   \* the faults so far

vars == <<offer, up, mem, disk, keys, net, funding, fails, deaths, losses>>

TypeOK ==
    /\ offer \in Offers /\ up \in [Hosts -> BOOLEAN]
    /\ mem \in [Hosts -> View] /\ disk \in [Hosts -> File]
    /\ keys \in Generations /\ net \subseteq Message
    /\ funding \in {"unsent", "sent", "lost", "mined", "deep"}
    /\ fails \in 0 .. MaxFails /\ deaths \in 0 .. MaxDeaths /\ losses \in 0 .. MaxLosses

Init ==
    /\ offer \in Offers /\ up = [h \in Hosts |-> TRUE]
    /\ mem = [h \in Hosts |-> Blank] /\ disk = [h \in Hosts |-> Blank]
    /\ keys = 0 /\ net = {} /\ funding = "unsent" /\ fails = 0 /\ deaths = 0
    /\ losses = 0

Open == [t |-> "open", to |-> "B"]
Accept(g) == [t |-> "accept", to |-> "F", g |-> g]
Commit(g) == [t |-> "commit", to |-> "B", g |-> g]
Ready == [t |-> "ready", to |-> "F"]
Sync(t, h) == [t |-> t, to |-> Peer(h), status |-> mem[h].ch]

(***************************************************************************)
(* Policy.                                                                 *)
(***************************************************************************)
ValidPush(o) == o.push + o.fee + Dust <= o.value
Proposable(o) == o.value >= MinOpen /\ ValidPush(o)
Acceptable(o) == o.value <= MaxAmount /\ o.delay >= MinDelay /\ ValidPush(o)

(***************************************************************************)
(* Files.                                                                  *)
(***************************************************************************)
LoseOnce == losses < MaxLosses /\ losses' = losses + 1
FailOnce == fails < MaxFails /\ fails' = fails + 1 /\ UNCHANGED deaths
DieOnce(h) ==
    /\ deaths < MaxDeaths /\ deaths' = deaths + 1 /\ UNCHANGED fails
    /\ up' = [up EXCEPT ![h] = FALSE] /\ mem' = [mem EXCEPT ![h] = Blank]

\* Host h writes one file, making disk[h] the view d, and goes on to hold m and to send
\* out; it holds bad when the write fails.
Write(h, d, m, bad, out) ==
    \/ /\ disk' = [disk EXCEPT ![h] = d] /\ mem' = [mem EXCEPT ![h] = m] /\ net' = net \cup out
       /\ UNCHANGED <<up, fails, deaths>>
    \/ /\ FailOnce /\ mem' = [mem EXCEPT ![h] = bad]
       /\ \E got \in {disk[h], d} : disk' = [disk EXCEPT ![h] = got]
       /\ UNCHANGED <<up, net>>
    \/ DieOnce(h) /\ disk' = [disk EXCEPT ![h] = d] /\ UNCHANGED net

WithChannel(v, g) == [v EXCEPT !.ch = "funding", !.cg = g]
WithoutOpening(v) == [v EXCEPT !.op = "none", !.g = 0]
Publish == funding' = IF funding = "unsent" THEN "sent" ELSE funding

\* Mutated: the funder broadcasts before it saves.
MutAdopt(h, out) ==
    LET d == WithChannel(disk[h], mem[h].g)
    IN  /\ Write(h, WithoutOpening(d), WithoutOpening(WithChannel(mem[h], mem[h].g)), mem[h], out)
        /\ IF h = "F" THEN Publish ELSE UNCHANGED funding

\* The channel exists for h: its file is written, then the handshake's is removed, then
\* the funder broadcasts.  A removal that fails ends the handler in an error, which
\* on_message answers with a sync.
Adopt(h, out) ==
    LET d == WithChannel(disk[h], mem[h].g)
        m == WithoutOpening(WithChannel(mem[h], mem[h].g))
    IN  \/ /\ disk' = [disk EXCEPT ![h] = WithoutOpening(d)] /\ mem' = [mem EXCEPT ![h] = m]
           /\ net' = net \cup out
           /\ IF h = "F" THEN Publish ELSE UNCHANGED funding
           /\ UNCHANGED <<up, fails, deaths>>
        \/ /\ FailOnce /\ \E got \in {disk[h], d} : disk' = [disk EXCEPT ![h] = got]
           /\ UNCHANGED <<up, mem, net, funding>>
        \/ /\ FailOnce /\ \E got \in {d, WithoutOpening(d)} : disk' = [disk EXCEPT ![h] = got]
           /\ mem' = [mem EXCEPT ![h] = m]
           /\ net' = net \cup {[t |-> "sync", to |-> Peer(h), status |-> "funding"]}
           /\ UNCHANGED <<up, funding>>
        \/ /\ DieOnce(h) /\ \E got \in {d, WithoutOpening(d)} : disk' = [disk EXCEPT ![h] = got]
           /\ UNCHANGED <<net, funding>>

(***************************************************************************)
(* The user of F opens a channel.                                          *)
(***************************************************************************)
Propose ==
    /\ up["F"] /\ mem["F"] = Blank /\ disk["F"] = Blank /\ Proposable(offer)
    /\ Write("F", [Blank EXCEPT !.op = "funder"], [Blank EXCEPT !.op = "proposed"], Blank, {Open})
    /\ UNCHANGED <<offer, keys, funding, losses>>

(***************************************************************************)
(* What a host does with a message (on_message).  A message it has no use  *)
(* for changes nothing and is no step.                                     *)
(***************************************************************************)
\* Mutated: the receiver answers before its handshake is saved.
MutOnOpen ==
    /\ mem["B"].op # "receiver" /\ Acceptable(offer) /\ keys < MaxFails + 1
    /\ keys' = keys + 1
    /\ LET v == [disk["B"] EXCEPT !.op = "receiver", !.g = keys + 1]
       IN  \/ Write("B", v, v, mem["B"], {Accept(keys + 1)})
           \/ /\ FailOnce /\ net' = net \cup {Accept(keys + 1)} /\ UNCHANGED <<disk, mem, up>>
    /\ UNCHANGED funding

OnOpen ==
    /\ mem["B"].ch = "none"
    /\ \/ /\ mem["B"].op = "receiver" /\ net' = net \cup {Accept(mem["B"].g)}
          /\ UNCHANGED <<up, mem, disk, keys, fails, deaths>>
       \/ /\ mem["B"].op = "none" /\ Acceptable(offer)
          /\ keys' = keys + 1
          /\ LET new == [op |-> "receiver", g |-> keys + 1, ch |-> "none", cg |-> 0]
             IN  Write("B", [new EXCEPT !.ch = disk["B"].ch, !.cg = disk["B"].cg], new,
                       mem["B"], {Accept(keys + 1)})
    /\ UNCHANGED funding

\* The handshake is Accepted in memory before it is saved, and stays so when it is not.
OnAccept(g) ==
    /\ \/ /\ mem["F"].op = "accepted" /\ net' = net \cup {Commit(mem["F"].g)}
          /\ UNCHANGED <<up, mem, disk, fails, deaths>>
       \/ /\ mem["F"].op = "proposed"
          /\ LET m == [mem["F"] EXCEPT !.op = "accepted", !.g = g]
                 d == [disk["F"] EXCEPT !.g = g]
             IN  Write("F", d, m, m, {Commit(g)})
    /\ UNCHANGED <<keys, funding>>

\* Mutated: a commit for a channel that exists is not answered.
MutOnCommit(g) ==
    /\ mem["B"].ch = "none" /\ mem["B"].op = "receiver" /\ mem["B"].g = g
    /\ Adopt("B", {Ready}) /\ UNCHANGED keys

OnCommit(g) ==
    /\ \/ /\ mem["B"].ch # "none" /\ net' = net \cup {Ready}
          /\ UNCHANGED <<up, mem, disk, funding, fails, deaths>>
       \/ /\ mem["B"].ch = "none" /\ mem["B"].op = "receiver" /\ mem["B"].g = g
          /\ Adopt("B", {Ready})
    /\ UNCHANGED keys

OnReady ==
    /\ mem["F"].ch = "none" /\ mem["F"].op = "accepted"
    /\ Adopt("F", {}) /\ UNCHANGED keys

\* A channel answers and carries the handshake forward (receive_sync, reconcile); a
\* handshake says again what it waits on.
OnSync(h, m) ==
    /\ \/ /\ mem[h].ch # "none"
          /\ net' = net \cup (IF m.t = "sync" THEN {Sync("synced", h)} ELSE {})
                        \cup (IF h = "B" /\ mem[h].ch = "funding" THEN {Ready} ELSE {})
          /\ UNCHANGED <<up, mem, disk, funding, fails, deaths>>
       \/ /\ mem[h].ch = "none" /\ mem[h].op = "proposed" /\ net' = net \cup {Open}
          /\ UNCHANGED <<up, mem, disk, funding, fails, deaths>>
       \/ /\ mem[h].ch = "none" /\ mem[h].op = "receiver" /\ net' = net \cup {Accept(mem[h].g)}
          /\ UNCHANGED <<up, mem, disk, funding, fails, deaths>>
       \/ mem[h].ch = "none" /\ mem[h].op = "accepted" /\ Adopt(h, {})
    /\ UNCHANGED keys

Take(m) ==
    /\ m \in net /\ up[m.to] /\ UNCHANGED <<offer, losses>>
    /\ \/ m.t = "open" /\ OnOpen
       \/ m.t = "accept" /\ OnAccept(m.g)
       \/ m.t = "commit" /\ OnCommit(m.g)
       \/ m.t = "ready" /\ OnReady
       \/ m.t \in {"sync", "synced"} /\ OnSync(m.to, m)

Lose(m) ==
    /\ m \in net /\ net' = net \ {m} /\ LoseOnce
    /\ UNCHANGED <<offer, up, mem, disk, keys, funding, fails, deaths>>

(***************************************************************************)
(* The poll: handshakes resend, fundings are sent again and confirmed.     *)
(***************************************************************************)
TickOpenings(h) ==
    /\ up[h] /\ mem[h].op # "none"
    /\ net' = net \cup {CASE mem[h].op = "proposed" -> Open
                          [] mem[h].op = "accepted" -> Commit(mem[h].g)
                          [] mem[h].op = "receiver" -> Accept(mem[h].g)}
    /\ UNCHANGED <<offer, up, mem, disk, keys, funding, fails, deaths, losses>>

ResendFunding ==
    /\ up["F"] /\ mem["F"].ch = "funding" /\ funding \in {"unsent", "lost"}
    /\ funding' = "sent"
    /\ UNCHANGED <<offer, up, mem, disk, keys, net, fails, deaths, losses>>

\* watch_channel: the funding is MIN_CONF deep.
ConfirmFunding(h) ==
    /\ up[h] /\ mem[h].ch = "funding" /\ funding = "deep"
    /\ LET m == [mem[h] EXCEPT !.ch = "open"]
       IN  Write(h, [disk[h] EXCEPT !.ch = "open", !.cg = mem[h].cg], m, mem[h], {})
    /\ UNCHANGED <<offer, keys, funding, losses>>

(***************************************************************************)
(* The producer and the processes.                                         *)
(***************************************************************************)
LoseFunding ==
    /\ funding = "sent" /\ funding' = "lost" /\ LoseOnce
    /\ UNCHANGED <<offer, up, mem, disk, keys, net, fails, deaths>>

Mine ==
    /\ funding \in {"sent", "mined"}
    /\ funding' = IF funding = "sent" THEN "mined" ELSE "deep"
    /\ UNCHANGED <<offer, up, mem, disk, keys, net, fails, deaths, losses>>

Die(h) == up[h] /\ DieOnce(h) /\ UNCHANGED <<offer, disk, keys, net, funding, losses>>

\* The kernel's steps are taken again: propose, and accept when the file has one.
RebuildOpening(v) ==
    IF v.op # "funder" THEN v
    ELSE [v EXCEPT !.op = IF v.g = 0 THEN "proposed" ELSE "accepted"]

\* Host::load: the channels, and the handshakes rebuilt from their files.
Load(h) ==
    /\ ~up[h] /\ up' = [up EXCEPT ![h] = TRUE] /\ mem' = [mem EXCEPT ![h] = RebuildOpening(disk[h])]
    /\ UNCHANGED <<offer, disk, keys, net, funding, fails, deaths, losses>>

Next ==
    \/ Propose \/ ResendFunding \/ LoseFunding \/ Mine
    \/ \E m \in net : Take(m) \/ Lose(m)
    \/ \E h \in Hosts : TickOpenings(h) \/ ConfirmFunding(h) \/ Die(h) \/ Load(h)

(***************************************************************************)
(* A host that is down is started again, a running one polls, and what is  *)
(* sent is taken or mined unless it is lost, which happens finitely often: *)
(* the relays and the producer answer in the end.  Nothing makes a user    *)
(* open a channel.                                                         *)
(***************************************************************************)
Fairness ==
    /\ \A m \in Message : WF_vars(Take(m))
    /\ \A h \in Hosts : WF_vars(Load(h)) /\ WF_vars(TickOpenings(h)) /\ WF_vars(ConfirmFunding(h))
    /\ WF_vars(ResendFunding) /\ WF_vars(Mine)

Spec == Init /\ [][Next]_vars /\ Fairness

-----------------------------------------------------------------------------
\* The coins go into the shared output only when both hosts hold, on disk, a channel made
\* of the same keys: each can publish a commitment the other has signed, whatever dies.
FundingIsRecoverable ==
    funding # "unsent" =>
        /\ disk["F"].ch # "none" /\ disk["B"].ch # "none"
        /\ disk["F"].cg = disk["B"].cg

\* What the receiver has answered, it holds on disk: the keys of its accept, the channel of
\* its ready.  A restart never meets an answer it does not know (save, then send).
AnswersAreSaved ==
    /\ \A g \in Generations : Accept(g) \in net =>
        g \in {disk["B"].g, disk["B"].cg}
    /\ Ready \in net => disk["B"].ch # "none"

\* The receiver has a channel from a commit that the funder, restarted, knows nothing of:
\* no message of either carries this handshake on.
Stranded == mem["F"].op = "proposed" /\ mem["B"].ch # "none"

\* An opening the receiver accepts ends with the channel open on both sides, through lost
\* messages, deaths and failed writes, unless it is stranded.
OpeningCompletes ==
    (mem["F"].op = "proposed" /\ Acceptable(offer)) ~>
        (Stranded \/ \A h \in Hosts : disk[h].ch = "open")
=============================================================================
