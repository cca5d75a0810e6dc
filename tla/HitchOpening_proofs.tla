------------------------ MODULE HitchOpening_proofs ------------------------
(***************************************************************************)
(* Proofs about the opening of a channel, for every policy and every       *)
(* number of failed writes, deaths and lost messages.                      *)
(***************************************************************************)
EXTENDS HitchOpening, TLAPS

\* The receiver is bound to generation g: its files hold the keys or the
\* channel made of them, and the running host has not forgotten either.
BoundTo(g) ==
    /\ g # 0
    /\ \/ disk["B"].op = "receiver" /\ disk["B"].g = g
       \/ disk["B"].ch # "none" /\ disk["B"].cg = g
    /\ up["B"] => mem["B"].op = "receiver" \/ mem["B"].ch # "none"

\* What each role may be in, and what a host that is down holds.
Roles ==
    /\ mem["F"].op \in {"none", "proposed", "accepted"} /\ disk["F"].op \in {"none", "funder"}
    /\ mem["B"].op \in {"none", "receiver"} /\ disk["B"].op \in {"none", "receiver"}
    /\ \A h \in Hosts : ~up[h] => mem[h] = Blank

\* The receiver's memory follows its files, and its files speak of one generation.
ReceiverSaved ==
    /\ mem["B"].op = "receiver" => disk["B"].op = "receiver" /\ disk["B"].g = mem["B"].g
    /\ mem["B"].ch # "none" => disk["B"].ch # "none" /\ disk["B"].cg = mem["B"].cg
    /\ up["B"] /\ disk["B"].ch # "none" => mem["B"].op = "receiver" \/ mem["B"].ch # "none"
    /\ disk["B"].op = "receiver" => disk["B"].g # 0
    /\ disk["B"].ch # "none" => disk["B"].cg # 0
    /\ disk["B"].op = "receiver" /\ disk["B"].ch # "none" => disk["B"].g = disk["B"].cg

\* What the funder has taken up, the receiver is bound to; its channel is the receiver's.
FunderSaved ==
    /\ mem["F"].op = "accepted" => BoundTo(mem["F"].g)
    /\ disk["F"].g # 0 => BoundTo(disk["F"].g)
    /\ mem["F"].ch # "none" => disk["F"].ch # "none" /\ disk["F"].cg = mem["F"].cg
    /\ disk["F"].ch # "none" => disk["B"].ch # "none" /\ disk["F"].cg = disk["B"].cg

\* What a message in the net says about the receiver.
NetSaved ==
    /\ \A g \in Generations : Accept(g) \in net \/ Commit(g) \in net => BoundTo(g)
    /\ Ready \in net => disk["B"].ch # "none"
    /\ \A m \in net : m.t \in {"sync", "synced"} /\ m.to = "F" => disk["B"].ch # "none"

\* A further generation costs a failed write.
KeysCounted ==
    /\ keys <= fails + 1
    /\ up["B"] /\ mem["B"].op = "none" /\ mem["B"].ch = "none" => keys <= fails
    /\ ~up["B"] /\ disk["B"].op = "none" /\ disk["B"].ch = "none" => keys <= fails

FundingSaved == funding # "unsent" => disk["F"].ch # "none"

IInv ==
    /\ TypeOK /\ Roles /\ ReceiverSaved /\ FunderSaved /\ NetSaved /\ KeysCounted
    /\ FundingSaved

-----------------------------------------------------------------------------
(* Types, for the steps that the handlers share. *)

LEMMA GenerationType == 0 \in Generations /\ Generations \subseteq Nat
  BY OpeningAssumption DEF Generations

LEMMA BlankType == Blank \in View /\ Blank \in File
  BY GenerationType DEF Blank, View, File

\* A write keeps every type when what it writes, holds and sends has its own.
LEMMA WriteType ==
  ASSUME TypeOK, NEW h \in Hosts, NEW d \in File, NEW m \in View, NEW bad \in View,
         NEW out \in SUBSET Message, Write(h, d, m, bad, out)
  PROVE  /\ up' \in [Hosts -> BOOLEAN] /\ mem' \in [Hosts -> View] /\ disk' \in [Hosts -> File]
         /\ net' \subseteq Message /\ fails' \in 0 .. MaxFails /\ deaths' \in 0 .. MaxDeaths
<1> USE OpeningAssumption, BlankType DEF TypeOK
<1>1. up' \in [Hosts -> BOOLEAN]
  BY DEF Write, FailOnce, DieOnce
<1>2. mem' \in [Hosts -> View]
  BY DEF Write, FailOnce, DieOnce
<1>3. disk' \in [Hosts -> File]
  BY DEF Write, FailOnce, DieOnce
<1>4. net' \subseteq Message /\ fails' \in 0 .. MaxFails /\ deaths' \in 0 .. MaxDeaths
  BY DEF Write, FailOnce, DieOnce
<1> QED
  BY <1>1, <1>2, <1>3, <1>4

\* So does the adoption of a channel.
LEMMA AdoptType ==
  ASSUME TypeOK, NEW h \in Hosts, NEW out \in SUBSET Message, Adopt(h, out)
  PROVE  /\ up' \in [Hosts -> BOOLEAN] /\ mem' \in [Hosts -> View] /\ disk' \in [Hosts -> File]
         /\ net' \subseteq Message /\ fails' \in 0 .. MaxFails /\ deaths' \in 0 .. MaxDeaths
         /\ funding' \in {"unsent", "sent", "lost", "mined", "deep"}
<1> USE OpeningAssumption, BlankType
<1> DEFINE d == WithChannel(disk[h], mem[h].g)
           n == WithoutOpening(WithChannel(mem[h], mem[h].g))
<1>1. mem[h] \in View /\ disk[h] \in File /\ mem[h].g \in Generations
  BY DEF TypeOK, View
<1>2. d \in File /\ WithoutOpening(d) \in File /\ n \in View
  BY <1>1, GenerationType DEF WithChannel, WithoutOpening, View, File
<1>3. [t |-> "sync", to |-> Peer(h), status |-> "funding"] \in Message
  BY DEF Message, Peer, Hosts
<1>4. up' \in [Hosts -> BOOLEAN] /\ mem' \in [Hosts -> View]
  <2> HIDE DEF n
  <2> QED
    BY <1>1, <1>2 DEF Adopt, FailOnce, DieOnce, TypeOK, n
<1>5. disk' \in [Hosts -> File]
  BY <1>1, <1>2 DEF Adopt, FailOnce, DieOnce, TypeOK
<1>6. net' \subseteq Message /\ fails' \in 0 .. MaxFails /\ deaths' \in 0 .. MaxDeaths
  BY <1>3 DEF Adopt, FailOnce, DieOnce, TypeOK
<1>7. funding' \in {"unsent", "sent", "lost", "mined", "deep"}
  BY DEF Adopt, Publish, TypeOK
<1> QED
  BY <1>4, <1>5, <1>6, <1>7

\* The three outcomes of a write: it is done, it fails, or the host dies after it.
LEMMA WriteEffect ==
  ASSUME TypeOK, NEW h \in Hosts, NEW d, NEW m, NEW bad, NEW out, Write(h, d, m, bad, out)
  PROVE  /\ mem'[Peer(h)] = mem[Peer(h)] /\ disk'[Peer(h)] = disk[Peer(h)]
         /\ up'[Peer(h)] = up[Peer(h)]
         /\ \/ /\ disk'[h] = d /\ mem'[h] = m /\ up'[h] = up[h] /\ net' = net \cup out
               /\ fails' = fails
            \/ /\ disk'[h] \in {disk[h], d} /\ mem'[h] = bad /\ up'[h] = up[h] /\ net' = net
               /\ fails' = fails + 1
            \/ /\ disk'[h] = d /\ mem'[h] = Blank /\ ~up'[h] /\ net' = net /\ fails' = fails
  BY DEF Write, FailOnce, DieOnce, TypeOK, Hosts, Peer

\* The outcomes of an adoption, one field at a time.
LEMMA AdoptEffect ==
  ASSUME TypeOK, NEW h \in Hosts, NEW out, Adopt(h, out)
  PROVE  /\ mem'[Peer(h)] = mem[Peer(h)] /\ disk'[Peer(h)] = disk[Peer(h)]
         /\ up'[Peer(h)] = up[Peer(h)]
         /\ \/ disk'[h] = disk[h]
            \/ /\ disk'[h].ch = "funding" /\ disk'[h].cg = mem[h].g
               /\ \/ disk'[h].op = disk[h].op /\ disk'[h].g = disk[h].g
                  \/ disk'[h].op = "none" /\ disk'[h].g = 0
         /\ fails' >= fails
         /\ \/ /\ disk'[h].op = disk[h].op /\ disk'[h].g = disk[h].g
               /\ mem'[h] = mem[h] /\ up'[h] = up[h] /\ net' = net /\ funding' = funding
            \/ /\ disk'[h].ch = "funding" /\ up'[h] = up[h]
               /\ mem'[h].op = "none" /\ mem'[h].g = 0
               /\ mem'[h].ch = "funding" /\ mem'[h].cg = mem[h].g
               /\ net' \in {net \cup out,
                            net \cup {[t |-> "sync", to |-> Peer(h), status |-> "funding"]}}
               /\ (funding' = funding \/ (h = "F" /\ Publish))
            \/ /\ disk'[h].ch = "funding"
               /\ mem'[h] = Blank /\ ~up'[h] /\ net' = net /\ funding' = funding
<1> USE DEF TypeOK
<1> DEFINE d == WithChannel(disk[h], mem[h].g)
           n == WithoutOpening(WithChannel(mem[h], mem[h].g))
<1>1. mem[h] \in View /\ disk[h] \in File
  OBVIOUS
<1>2. /\ d.ch = "funding" /\ d.cg = mem[h].g /\ d.op = disk[h].op /\ d.g = disk[h].g
      /\ WithoutOpening(d).ch = "funding" /\ WithoutOpening(d).cg = mem[h].g
      /\ WithoutOpening(d).op = "none" /\ WithoutOpening(d).g = 0
      /\ n.op = "none" /\ n.g = 0 /\ n.ch = "funding" /\ n.cg = mem[h].g
  BY <1>1 DEF WithChannel, WithoutOpening, View, File
<1>3. Peer(h) \in Hosts /\ Peer(h) # h /\ fails \in Nat
  BY OpeningAssumption DEF Peer, Hosts
<1>4. \/ /\ disk' = [disk EXCEPT ![h] = WithoutOpening(d)] /\ mem' = [mem EXCEPT ![h] = n]
         /\ net' = net \cup out /\ IF h = "F" THEN Publish ELSE UNCHANGED funding
         /\ UNCHANGED <<up, fails, deaths>>
      \/ /\ FailOnce /\ \E got \in {disk[h], d} : disk' = [disk EXCEPT ![h] = got]
         /\ UNCHANGED <<up, mem, net, funding>>
      \/ /\ FailOnce /\ \E got \in {d, WithoutOpening(d)} : disk' = [disk EXCEPT ![h] = got]
         /\ mem' = [mem EXCEPT ![h] = n]
         /\ net' = net \cup {[t |-> "sync", to |-> Peer(h), status |-> "funding"]}
         /\ UNCHANGED <<up, funding>>
      \/ /\ DieOnce(h) /\ \E got \in {d, WithoutOpening(d)} : disk' = [disk EXCEPT ![h] = got]
         /\ UNCHANGED <<net, funding>>
  BY Zenon DEF Adopt
<1> HIDE DEF d, n
<1>5. CASE /\ disk' = [disk EXCEPT ![h] = WithoutOpening(d)] /\ mem' = [mem EXCEPT ![h] = n]
           /\ net' = net \cup out /\ IF h = "F" THEN Publish ELSE UNCHANGED funding
           /\ UNCHANGED <<up, fails, deaths>>
  BY <1>2, <1>3, <1>5 DEF Hosts
<1>6. CASE /\ FailOnce /\ \E got \in {disk[h], d} : disk' = [disk EXCEPT ![h] = got]
           /\ UNCHANGED <<up, mem, net, funding>>
  BY <1>2, <1>3, <1>6 DEF FailOnce
<1>7. CASE /\ FailOnce /\ \E got \in {d, WithoutOpening(d)} : disk' = [disk EXCEPT ![h] = got]
           /\ mem' = [mem EXCEPT ![h] = n]
           /\ net' = net \cup {[t |-> "sync", to |-> Peer(h), status |-> "funding"]}
           /\ UNCHANGED <<up, funding>>
  BY <1>2, <1>3, <1>7 DEF FailOnce
<1>8. CASE /\ DieOnce(h) /\ \E got \in {d, WithoutOpening(d)} : disk' = [disk EXCEPT ![h] = got]
           /\ UNCHANGED <<net, funding>>
  <2>1. PICK got \in {d, WithoutOpening(d)} : disk' = [disk EXCEPT ![h] = got]
    BY <1>8
  <2>2. disk'[h] = got /\ disk'[Peer(h)] = disk[Peer(h)]
    BY <2>1, <1>3
  <2>3. /\ mem'[h] = Blank /\ ~up'[h] /\ mem'[Peer(h)] = mem[Peer(h)]
        /\ up'[Peer(h)] = up[Peer(h)] /\ fails' = fails
    BY <1>8, <1>3 DEF DieOnce
  <2>4. net' = net /\ funding' = funding
    BY <1>8
  <2>5. \/ disk'[h].op = disk[h].op /\ disk'[h].g = disk[h].g
        \/ disk'[h].op = "none" /\ disk'[h].g = 0
    BY <1>2, <2>1, <2>2
  <2>6. disk'[h].ch = "funding" /\ disk'[h].cg = mem[h].g /\ fails' >= fails
    BY <1>2, <1>3, <2>1, <2>2, <2>3
  <2> HIDE DEF TypeOK
  <2> QED
    BY <2>2, <2>3, <2>4, <2>5, <2>6
<1> QED
  BY <1>4, <1>5, <1>6, <1>7, <1>8

-----------------------------------------------------------------------------
(* The first states, and one lemma per action. *)

LEMMA InitIInv == Init => IInv
<1> SUFFICES ASSUME Init PROVE IInv
  OBVIOUS
<1>1. TypeOK
  BY OpeningAssumption, GenerationType, BlankType DEF Init, TypeOK
<1>2. Roles /\ ReceiverSaved /\ FunderSaved
  BY DEF Init, Roles, ReceiverSaved, FunderSaved, Blank, Hosts
<1>3. NetSaved /\ KeysCounted /\ FundingSaved
  BY DEF Init, NetSaved, KeysCounted, FundingSaved
<1> QED
  BY <1>1, <1>2, <1>3 DEF IInv

LEMMA ProposeIInv ==
  ASSUME IInv, Propose
  PROVE  IInv'
<1> USE OpeningAssumption, GenerationType DEF IInv
<1> DEFINE d == [Blank EXCEPT !.op = "funder"]
           n == [Blank EXCEPT !.op = "proposed"]
<1>d. d \in File /\ n \in View /\ {Open} \subseteq Message
  BY DEF Blank, File, View, Message, Open
<1>w. Write("F", d, n, Blank, {Open}) /\ UNCHANGED <<offer, keys, funding, losses>>
  BY DEF Propose
<1>f. /\ d.op = "funder" /\ d.g = 0 /\ d.ch = "none" /\ d.cg = 0
      /\ n.op = "proposed" /\ n.g = 0 /\ n.ch = "none" /\ n.cg = 0
      /\ disk["F"] = Blank /\ mem["F"] = Blank /\ up["F"]
  BY DEF Blank, Propose
<1> HIDE DEF d, n
<1>1. TypeOK'
  BY <1>d, <1>w, BlankType, WriteType DEF TypeOK, Hosts
<1>n. keys \in Nat /\ fails \in Nat
  BY DEF TypeOK, Generations
<1>e. /\ mem'["B"] = mem["B"] /\ disk'["B"] = disk["B"] /\ up'["B"] = up["B"]
      /\ \/ disk'["F"] = d /\ mem'["F"] = n /\ up'["F"] /\ net' = net \cup {Open} /\ fails' = fails
         \/ /\ disk'["F"] \in {disk["F"], d} /\ mem'["F"] = Blank /\ up'["F"] /\ net' = net
            /\ fails' = fails + 1
         \/ disk'["F"] = d /\ mem'["F"] = Blank /\ ~up'["F"] /\ net' = net /\ fails' = fails
  BY <1>w, <1>f, WriteEffect DEF Hosts, Peer
<1>2. Roles'
  BY <1>1, <1>w, <1>f, <1>e DEF Roles, Blank, Hosts
<1>3. ReceiverSaved'
  BY <1>1, <1>w, <1>f, <1>e DEF Roles, ReceiverSaved, Blank, Hosts
<1>4. FunderSaved'
  BY <1>w, <1>f, <1>e DEF Roles, ReceiverSaved, FunderSaved, BoundTo, Blank, Hosts
<1>5. NetSaved'
  BY <1>1, <1>w, <1>f, <1>e DEF Roles, ReceiverSaved, FunderSaved, NetSaved, BoundTo, Blank,
      Hosts, TypeOK, Open, Accept, Commit, Ready
<1>6. KeysCounted'
  BY <1>1, <1>w, <1>f, <1>e, <1>n DEF Roles, ReceiverSaved, KeysCounted, Blank, Hosts
<1>7. FundingSaved'
  BY <1>1, <1>w, <1>f, <1>e DEF FundingSaved, Blank
<1> QED
  BY <1>1, <1>2, <1>3, <1>4, <1>5, <1>6, <1>7

\* Sending what the receiver's files bear out changes nothing else.
LEMMA SendIInv ==
  ASSUME IInv, NEW out \in SUBSET Message, net' = net \cup out,
         UNCHANGED <<offer, up, mem, disk, keys, funding, fails, deaths, losses>>,
         \A m \in out : m.t \in {"accept", "commit"} => BoundTo(m.g),
         \A m \in out : (m.t = "ready" \/ (m.t \in {"sync", "synced"} /\ m.to = "F"))
                            => disk["B"].ch # "none"
  PROVE  IInv'
<1> USE OpeningAssumption, GenerationType DEF IInv
<1>1. TypeOK'
  BY DEF TypeOK
<1>n. keys \in Nat /\ fails \in Nat
  BY DEF TypeOK, Generations
<1>2. Roles'
  BY <1>1 DEF Roles
<1>3. ReceiverSaved'
  BY <1>1 DEF Roles, ReceiverSaved
<1>4. FunderSaved'
  BY <1>1 DEF Roles, ReceiverSaved, FunderSaved, BoundTo
<1>5. NetSaved'
  BY <1>1 DEF Roles, ReceiverSaved, FunderSaved, NetSaved, BoundTo, Accept, Commit, Ready,
      TypeOK
<1>6. KeysCounted'
  BY <1>1, <1>n DEF Roles, ReceiverSaved, KeysCounted
<1>7. FundingSaved'
  BY <1>1 DEF FundingSaved
<1> QED
  BY <1>1, <1>2, <1>3, <1>4, <1>5, <1>6, <1>7

\* What the receiver holds as its handshake, it is bound to.
LEMMA ReceiverBound ==
  ASSUME IInv, mem["B"].op = "receiver"
  PROVE  BoundTo(mem["B"].g)
<1> QED
  BY DEF IInv, Roles, ReceiverSaved, BoundTo

\* An open the receiver takes up: nothing was bound to the keys of an earlier try.
LEMMA OnOpenFreshIInv ==
  ASSUME IInv, up["B"], mem["B"].op = "none", mem["B"].ch = "none", keys' = keys + 1,
         NEW d \in File, d.op = "receiver", d.g = keys + 1, d.ch = disk["B"].ch,
         d.cg = disk["B"].cg,
         NEW n \in View, n.op = "receiver", n.g = keys + 1, n.ch = "none", n.cg = 0,
         Write("B", d, n, mem["B"], {Accept(keys + 1)}), UNCHANGED <<offer, losses, funding>>
  PROVE  IInv'
<1> USE OpeningAssumption, GenerationType DEF IInv
<1>n. keys \in Nat /\ fails \in Nat /\ keys <= fails
  BY DEF TypeOK, Generations, KeysCounted
<1>f. keys + 1 \in Generations /\ keys + 1 # 0 /\ disk["B"].ch = "none"
  BY <1>n DEF TypeOK, Generations, ReceiverSaved
<1>d. {Accept(keys + 1)} \subseteq Message /\ mem["B"] \in View
  BY <1>f DEF Message, Accept, TypeOK, Hosts
<1>1. TypeOK'
  BY <1>d, <1>f, WriteType DEF TypeOK, Hosts
<1>e. /\ mem'["F"] = mem["F"] /\ disk'["F"] = disk["F"] /\ up'["F"] = up["F"]
      /\ \/ disk'["B"] = d /\ mem'["B"] = n /\ up'["B"] /\ net' = net \cup {Accept(keys + 1)}
            /\ fails' = fails
         \/ /\ disk'["B"] \in {disk["B"], d} /\ mem'["B"] = mem["B"] /\ up'["B"] /\ net' = net
            /\ fails' = fails + 1
         \/ disk'["B"] = d /\ mem'["B"] = Blank /\ ~up'["B"] /\ net' = net /\ fails' = fails
  BY WriteEffect DEF Hosts, Peer
<1>u. \A g : ~BoundTo(g)
  BY DEF BoundTo
<1>2. Roles'
  BY <1>1, <1>f, <1>e, <1>u DEF Roles, Blank, Hosts
<1>3. ReceiverSaved'
  BY <1>1, <1>f, <1>e, <1>u DEF Roles, ReceiverSaved, Blank, Hosts
<1>4. FunderSaved'
  BY <1>f, <1>e, <1>u DEF Roles, ReceiverSaved, FunderSaved, BoundTo, Blank, Hosts
<1>5. NetSaved'
  BY <1>1, <1>f, <1>e, <1>u DEF Roles, ReceiverSaved, FunderSaved, NetSaved, BoundTo, Blank,
      Hosts, TypeOK, Accept, Commit, Ready
<1>6. KeysCounted'
  BY <1>1, <1>f, <1>e, <1>u, <1>n DEF Roles, ReceiverSaved, KeysCounted, Blank, Hosts
<1>7. FundingSaved'
  BY <1>1, <1>f, <1>e, <1>u DEF FundingSaved, Blank
<1> QED
  BY <1>1, <1>2, <1>3, <1>4, <1>5, <1>6, <1>7

LEMMA OnAcceptFreshIInv ==
  ASSUME IInv, up["F"], NEW g \in Generations, Accept(g) \in net, mem["F"].op = "proposed",
         NEW d \in File, d.op = disk["F"].op, d.g = g, d.ch = disk["F"].ch, d.cg = disk["F"].cg,
         NEW n \in View, n.op = "accepted", n.g = g, n.ch = mem["F"].ch, n.cg = mem["F"].cg,
         Write("F", d, n, n, {Commit(g)}), UNCHANGED <<offer, losses, keys, funding>>
  PROVE  IInv'
<1> USE OpeningAssumption, GenerationType DEF IInv
<1>n. keys \in Nat /\ fails \in Nat
  BY DEF TypeOK, Generations
<1>d. {Commit(g)} \subseteq Message
  BY DEF Message, Commit
<1>f. BoundTo(g)
  BY DEF NetSaved
<1>1. TypeOK'
  BY <1>d, WriteType DEF TypeOK, Hosts
<1>e. /\ mem'["B"] = mem["B"] /\ disk'["B"] = disk["B"] /\ up'["B"] = up["B"]
      /\ \/ disk'["F"] = d /\ mem'["F"] = n /\ up'["F"] /\ net' = net \cup {Commit(g)}
            /\ fails' = fails
         \/ /\ disk'["F"] \in {disk["F"], d} /\ mem'["F"] = n /\ up'["F"] /\ net' = net
            /\ fails' = fails + 1
         \/ disk'["F"] = d /\ mem'["F"] = Blank /\ ~up'["F"] /\ net' = net /\ fails' = fails
  BY WriteEffect DEF Hosts, Peer
<1>2. Roles'
  BY <1>1, <1>f, <1>e DEF Roles, Blank, Hosts
<1>3. ReceiverSaved'
  BY <1>1, <1>f, <1>e DEF Roles, ReceiverSaved, Blank, Hosts
<1>4. FunderSaved'
  BY <1>f, <1>e DEF Roles, ReceiverSaved, FunderSaved, BoundTo, Blank, Hosts
<1>5. NetSaved'
  BY <1>1, <1>f, <1>e DEF Roles, ReceiverSaved, FunderSaved, NetSaved, BoundTo, Blank, Hosts,
      TypeOK, Accept, Commit, Ready
<1>6. KeysCounted'
  BY <1>1, <1>f, <1>e, <1>n DEF Roles, ReceiverSaved, KeysCounted, Blank, Hosts
<1>7. FundingSaved'
  BY <1>1, <1>f, <1>e DEF FundingSaved, Blank
<1> QED
  BY <1>1, <1>2, <1>3, <1>4, <1>5, <1>6, <1>7

\* The receiver's channel, from a commit.
LEMMA AdoptReceiverIInv ==
  ASSUME IInv, up["B"], mem["B"].ch = "none", mem["B"].op = "receiver", Adopt("B", {Ready}),
         UNCHANGED <<offer, keys, losses>>
  PROVE  IInv'
<1> USE OpeningAssumption, GenerationType DEF IInv
<1>n. keys \in Nat /\ fails \in Nat
  BY DEF TypeOK, Generations
<1>d. {Ready} \in SUBSET Message
  BY DEF Message, Ready
<1>1. TypeOK'
  BY <1>d, AdoptType DEF TypeOK, Hosts
<1>m. fails' \in Nat /\ keys' = keys
  BY <1>1 DEF TypeOK
<1>e. /\ mem'["F"] = mem["F"] /\ disk'["F"] = disk["F"] /\ up'["F"] = up["F"]
      /\ \/ disk'["B"] = disk["B"]
         \/ /\ disk'["B"].ch = "funding" /\ disk'["B"].cg = mem["B"].g
            /\ \/ disk'["B"].op = disk["B"].op /\ disk'["B"].g = disk["B"].g
               \/ disk'["B"].op = "none" /\ disk'["B"].g = 0
      /\ fails' >= fails /\ funding' = funding
      /\ \/ /\ disk'["B"].op = disk["B"].op /\ disk'["B"].g = disk["B"].g
            /\ mem'["B"] = mem["B"] /\ up'["B"] /\ net' = net
         \/ /\ disk'["B"].ch = "funding" /\ up'["B"]
            /\ mem'["B"].op = "none" /\ mem'["B"].g = 0
            /\ mem'["B"].ch = "funding" /\ mem'["B"].cg = mem["B"].g
            /\ net' \in {net \cup {Ready},
                         net \cup {[t |-> "sync", to |-> "F", status |-> "funding"]}}
         \/ disk'["B"].ch = "funding" /\ mem'["B"] = Blank /\ ~up'["B"] /\ net' = net
  BY AdoptEffect DEF Hosts, Peer
<1>q. /\ fails' >= fails /\ (~up'["B"] => disk'["B"].ch # "none")
      /\ (up'["B"] => mem'["B"].op # "none" \/ mem'["B"].ch # "none")
  BY <1>e
<1>2. Roles'
  BY <1>1, <1>e DEF Roles, Blank, Hosts
<1>3. ReceiverSaved'
  BY <1>1, <1>e DEF Roles, ReceiverSaved, Blank, Hosts
<1>4. FunderSaved'
  BY <1>e DEF Roles, ReceiverSaved, FunderSaved, BoundTo, Blank, Hosts
<1>5. NetSaved'
  BY <1>1, <1>e DEF Roles, ReceiverSaved, FunderSaved, NetSaved, BoundTo, Blank, Hosts, TypeOK,
      Accept, Commit, Ready
<1>6. KeysCounted'
  BY <1>n, <1>m, <1>q DEF KeysCounted
<1>7. FundingSaved'
  BY <1>1, <1>e DEF FundingSaved, Blank
<1> QED
  BY <1>1, <1>2, <1>3, <1>4, <1>5, <1>6, <1>7

\* The funder's channel: every way here shows that the receiver has one.
LEMMA AdoptFunderIInv ==
  ASSUME IInv, up["F"], mem["F"].ch = "none", mem["F"].op = "accepted", disk["B"].ch # "none",
         Adopt("F", {}), UNCHANGED <<offer, keys, losses>>
  PROVE  IInv'
<1> USE OpeningAssumption, GenerationType DEF IInv
<1>n. keys \in Nat /\ fails \in Nat
  BY DEF TypeOK, Generations
<1>d. {} \in SUBSET Message
  BY DEF Message, Ready
<1>1. TypeOK'
  BY <1>d, AdoptType DEF TypeOK, Hosts
<1>m. fails' \in Nat /\ keys' = keys
  BY <1>1 DEF TypeOK
<1>e. /\ mem'["B"] = mem["B"] /\ disk'["B"] = disk["B"] /\ up'["B"] = up["B"]
      /\ \/ disk'["F"] = disk["F"]
         \/ /\ disk'["F"].ch = "funding" /\ disk'["F"].cg = mem["F"].g
            /\ \/ disk'["F"].op = disk["F"].op /\ disk'["F"].g = disk["F"].g
               \/ disk'["F"].op = "none" /\ disk'["F"].g = 0
      /\ fails' >= fails
      /\ \/ /\ disk'["F"].op = disk["F"].op /\ disk'["F"].g = disk["F"].g
            /\ mem'["F"] = mem["F"] /\ up'["F"] /\ net' = net /\ funding' = funding
         \/ /\ disk'["F"].ch = "funding" /\ up'["F"]
            /\ mem'["F"].op = "none" /\ mem'["F"].g = 0
            /\ mem'["F"].ch = "funding" /\ mem'["F"].cg = mem["F"].g
            /\ net' \in {net, net \cup {[t |-> "sync", to |-> "B", status |-> "funding"]}}
         \/ /\ disk'["F"].ch = "funding" /\ mem'["F"] = Blank /\ ~up'["F"] /\ net' = net
            /\ funding' = funding
  BY AdoptEffect DEF Hosts, Peer
<1>q. fails' >= fails /\ mem'["B"] = mem["B"] /\ disk'["B"] = disk["B"] /\ up'["B"] = up["B"]
  BY <1>e
<1>b. disk["B"].cg = mem["F"].g
  BY DEF FunderSaved, BoundTo, ReceiverSaved
<1>2. Roles'
  BY <1>1, <1>e, <1>b DEF Roles, Blank, Hosts
<1>3. ReceiverSaved'
  BY <1>1, <1>e, <1>b DEF Roles, ReceiverSaved, Blank, Hosts
<1>4. FunderSaved'
  BY <1>e, <1>b DEF Roles, ReceiverSaved, FunderSaved, BoundTo, Blank, Hosts
<1>5. NetSaved'
  BY <1>1, <1>e, <1>b DEF Roles, ReceiverSaved, FunderSaved, NetSaved, BoundTo, Blank, Hosts,
      TypeOK, Accept, Commit, Ready
<1>6. KeysCounted'
  BY <1>n, <1>m, <1>q DEF KeysCounted
<1>7. FundingSaved'
  BY <1>1, <1>e, <1>b DEF FundingSaved, Blank
<1> QED
  BY <1>1, <1>2, <1>3, <1>4, <1>5, <1>6, <1>7

\* A message is one of the eight forms, and what its type says it carries.
LEMMA MessageForms ==
  ASSUME NEW m \in Message
  PROVE  /\ m.t \in {"open", "ready", "accept", "commit", "sync", "synced"}
         /\ m.t = "open" => m = Open
         /\ m.t = "ready" => m = Ready
         /\ m.t = "accept" => m.g \in Generations /\ m = Accept(m.g)
         /\ m.t = "commit" => m.g \in Generations /\ m = Commit(m.g)
         /\ m.t \in {"sync", "synced"} => m.to \in Hosts
<1>1. CASE m \in [t : {"open"}, to : {"B"}]
  BY <1>1 DEF Open
<1>2. CASE m \in [t : {"ready"}, to : {"F"}]
  BY <1>2 DEF Ready
<1>3. CASE m \in [t : {"accept"}, to : {"F"}, g : Generations]
  BY <1>3 DEF Accept
<1>4. CASE m \in [t : {"commit"}, to : {"B"}, g : Generations]
  BY <1>4 DEF Commit
<1>5. CASE m \in [t : {"sync", "synced"}, to : Hosts, status : {"funding", "open"}]
  BY <1>5
<1> QED
  BY <1>1, <1>2, <1>3, <1>4, <1>5 DEF Message

LEMMA OnOpenIInv ==
  ASSUME IInv, up["B"], OnOpen, UNCHANGED <<offer, losses>>
  PROVE  IInv'
<1>1. CASE /\ mem["B"].op = "receiver" /\ net' = net \cup {Accept(mem["B"].g)}
           /\ UNCHANGED <<up, mem, disk, keys, fails, deaths, funding>>
  <2> DEFINE out == {Accept(mem["B"].g)}
  <2>1. /\ out \in SUBSET Message
        /\ \A m \in out : m.t = "accept" /\ m.g = mem["B"].g
    BY DEF IInv, TypeOK, View, Hosts, Accept, Message
  <2>2. BoundTo(mem["B"].g)
    BY <1>1, ReceiverBound
  <2>3. /\ net' = net \cup out
        /\ UNCHANGED <<offer, up, mem, disk, keys, funding, fails, deaths, losses>>
    BY <1>1
  <2> HIDE DEF out
  <2> QED
    BY <2>1, <2>2, <2>3, SendIInv
<1>2. CASE /\ mem["B"].op = "none" /\ mem["B"].ch = "none" /\ keys' = keys + 1 /\ UNCHANGED funding
           /\ LET new == [op |-> "receiver", g |-> keys + 1, ch |-> "none", cg |-> 0]
              IN  Write("B", [new EXCEPT !.ch = disk["B"].ch, !.cg = disk["B"].cg], new,
                        mem["B"], {Accept(keys + 1)})
  <2> DEFINE n == [op |-> "receiver", g |-> keys + 1, ch |-> "none", cg |-> 0]
             d == [n EXCEPT !.ch = disk["B"].ch, !.cg = disk["B"].cg]
  <2>1. keys + 1 \in Generations /\ disk["B"] \in File
    BY <1>2, OpeningAssumption DEF IInv, KeysCounted, TypeOK, Generations, Hosts
  <2>2. /\ d \in File /\ d.op = "receiver" /\ d.g = keys + 1 /\ d.ch = disk["B"].ch
        /\ d.cg = disk["B"].cg
    BY <2>1 DEF File
  <2>3. n \in View /\ n.op = "receiver" /\ n.g = keys + 1 /\ n.ch = "none" /\ n.cg = 0
    BY <2>1, GenerationType DEF View
  <2>4. Write("B", d, n, mem["B"], {Accept(keys + 1)})
    BY <1>2
  <2> HIDE DEF d, n
  <2> QED
    BY <1>2, <2>2, <2>3, <2>4, OnOpenFreshIInv
<1> QED
  BY <1>1, <1>2 DEF OnOpen

LEMMA OnAcceptIInv ==
  ASSUME IInv, up["F"], NEW g \in Generations, Accept(g) \in net, OnAccept(g),
         UNCHANGED <<offer, losses>>
  PROVE  IInv'
<1>1. CASE /\ mem["F"].op = "accepted" /\ net' = net \cup {Commit(mem["F"].g)}
           /\ UNCHANGED <<up, mem, disk, keys, fails, deaths, funding>>
  <2> DEFINE out == {Commit(mem["F"].g)}
  <2>1. /\ out \in SUBSET Message
        /\ \A m \in out : m.t = "commit" /\ m.g = mem["F"].g
    BY DEF IInv, TypeOK, View, Hosts, Commit, Message
  <2>2. BoundTo(mem["F"].g)
    BY <1>1 DEF IInv, FunderSaved
  <2>3. /\ net' = net \cup out
        /\ UNCHANGED <<offer, up, mem, disk, keys, funding, fails, deaths, losses>>
    BY <1>1
  <2> HIDE DEF out
  <2> QED
    BY <2>1, <2>2, <2>3, SendIInv
<1>2. CASE /\ mem["F"].op = "proposed" /\ UNCHANGED <<keys, funding>>
           /\ LET m == [mem["F"] EXCEPT !.op = "accepted", !.g = g]
                  d == [disk["F"] EXCEPT !.g = g]
              IN  Write("F", d, m, m, {Commit(g)})
  <2> DEFINE n == [mem["F"] EXCEPT !.op = "accepted", !.g = g]
             d == [disk["F"] EXCEPT !.g = g]
  <2>1. mem["F"] \in View /\ disk["F"] \in File
    BY DEF IInv, TypeOK, Hosts
  <2>2. /\ d \in File /\ d.op = disk["F"].op /\ d.g = g /\ d.ch = disk["F"].ch
        /\ d.cg = disk["F"].cg
    BY <2>1 DEF File
  <2>3. /\ n \in View /\ n.op = "accepted" /\ n.g = g /\ n.ch = mem["F"].ch
        /\ n.cg = mem["F"].cg
    BY <2>1 DEF View
  <2>4. Write("F", d, n, n, {Commit(g)})
    BY <1>2
  <2> HIDE DEF d, n
  <2> QED
    BY <1>2, <2>2, <2>3, <2>4, OnAcceptFreshIInv
<1> QED
  BY <1>1, <1>2 DEF OnAccept

LEMMA OnCommitIInv ==
  ASSUME IInv, up["B"], NEW g, OnCommit(g), UNCHANGED <<offer, losses>>
  PROVE  IInv'
<1>1. CASE /\ mem["B"].ch # "none" /\ net' = net \cup {Ready}
           /\ UNCHANGED <<up, mem, disk, keys, funding, fails, deaths>>
  <2> DEFINE out == {Ready}
  <2>1. out \in SUBSET Message /\ \A m \in out : m.t = "ready"
    BY DEF Ready, Message
  <2>2. disk["B"].ch # "none"
    BY <1>1 DEF IInv, ReceiverSaved
  <2>3. /\ net' = net \cup out
        /\ UNCHANGED <<offer, up, mem, disk, keys, funding, fails, deaths, losses>>
    BY <1>1
  <2> HIDE DEF out
  <2> QED
    BY <2>1, <2>2, <2>3, SendIInv
<1>2. CASE /\ mem["B"].ch = "none" /\ mem["B"].op = "receiver" /\ Adopt("B", {Ready})
           /\ UNCHANGED keys
  BY <1>2, AdoptReceiverIInv
<1> QED
  BY <1>1, <1>2 DEF OnCommit

LEMMA OnReadyIInv ==
  ASSUME IInv, up["F"], Ready \in net, OnReady, UNCHANGED <<offer, losses>>
  PROVE  IInv'
<1>1. disk["B"].ch # "none"
  BY DEF IInv, NetSaved
<1> QED
  BY <1>1, AdoptFunderIInv DEF OnReady

LEMMA OnSyncIInv ==
  ASSUME IInv, NEW m \in net, m.to \in Hosts, up[m.to], m.t \in {"sync", "synced"},
         OnSync(m.to, m), UNCHANGED <<offer, losses>>
  PROVE  IInv'
<1> DEFINE h == m.to
<1>1. CASE /\ mem[h].ch # "none"
           /\ net' = net \cup (IF m.t = "sync" THEN {Sync("synced", h)} ELSE {})
                         \cup (IF h = "B" /\ mem[h].ch = "funding" THEN {Ready} ELSE {})
           /\ UNCHANGED <<up, mem, disk, keys, funding, fails, deaths>>
  <2> DEFINE out == (IF m.t = "sync" THEN {Sync("synced", h)} ELSE {})
                      \cup (IF h = "B" /\ mem[h].ch = "funding" THEN {Ready} ELSE {})
  <2>1. Sync("synced", h) \in Message /\ Ready \in Message
    BY <1>1 DEF IInv, TypeOK, View, Sync, Peer, Ready, Message, Hosts
  <2>2. disk["B"].ch # "none"
    BY <1>1 DEF IInv, ReceiverSaved, FunderSaved, Hosts
  <2>3. out \in SUBSET Message /\ \A x \in out : x.t \in {"ready", "synced"}
    BY <2>1 DEF Sync, Ready
  <2>4. /\ net' = net \cup out
        /\ UNCHANGED <<offer, up, mem, disk, keys, funding, fails, deaths, losses>>
    BY <1>1
  <2> HIDE DEF out
  <2> QED
    BY <2>2, <2>3, <2>4, SendIInv
<1>2. CASE /\ net' = net \cup {Open}
           /\ UNCHANGED <<up, mem, disk, keys, funding, fails, deaths>>
  <2> DEFINE out == {Open}
  <2>1. out \in SUBSET Message /\ \A x \in out : x.t = "open"
    BY DEF Open, Message
  <2>2. /\ net' = net \cup out
        /\ UNCHANGED <<offer, up, mem, disk, keys, funding, fails, deaths, losses>>
    BY <1>2
  <2> HIDE DEF out
  <2> QED
    BY <2>1, <2>2, SendIInv
<1>3. CASE /\ mem[h].op = "receiver" /\ net' = net \cup {Accept(mem[h].g)}
           /\ UNCHANGED <<up, mem, disk, keys, funding, fails, deaths>>
  <2> DEFINE out == {Accept(mem["B"].g)}
  <2>1. h = "B"
    BY <1>3 DEF Hosts, IInv, Roles
  <2>2. /\ out \in SUBSET Message
        /\ \A x \in out : x.t = "accept" /\ x.g = mem["B"].g
    BY DEF IInv, TypeOK, View, Hosts, Accept, Message
  <2>3. BoundTo(mem["B"].g)
    BY <1>3, <2>1, ReceiverBound
  <2>4. /\ net' = net \cup out
        /\ UNCHANGED <<offer, up, mem, disk, keys, funding, fails, deaths, losses>>
    BY <1>3, <2>1
  <2> HIDE DEF out
  <2> QED
    BY <2>2, <2>3, <2>4, SendIInv
<1>4. CASE mem[h].ch = "none" /\ mem[h].op = "accepted" /\ Adopt(h, {}) /\ UNCHANGED keys
  <2>1. h = "F"
    BY <1>4 DEF Hosts, IInv, Roles
  <2>2. disk["B"].ch # "none"
    BY <2>1 DEF IInv, NetSaved
  <2> QED
    BY <1>4, <2>1, <2>2, AdoptFunderIInv
<1> QED
  BY <1>1, <1>2, <1>3, <1>4 DEF OnSync

LEMMA TakeIInv ==
  ASSUME IInv, NEW m \in net, Take(m)
  PROVE  IInv'
<1>1. m \in Message /\ up[m.to] /\ UNCHANGED <<offer, losses>>
  BY DEF IInv, TypeOK, Take
<1>2. CASE m.t = "open" /\ OnOpen
  BY <1>1, <1>2, MessageForms, OnOpenIInv DEF Open
<1>3. CASE m.t = "accept" /\ OnAccept(m.g)
  BY <1>1, <1>3, MessageForms, OnAcceptIInv DEF Accept
<1>4. CASE m.t = "commit" /\ OnCommit(m.g)
  BY <1>1, <1>4, MessageForms, OnCommitIInv DEF Commit
<1>5. CASE m.t = "ready" /\ OnReady
  BY <1>1, <1>5, MessageForms, OnReadyIInv DEF Ready
<1>6. CASE m.t \in {"sync", "synced"} /\ OnSync(m.to, m)
  BY <1>1, <1>6, MessageForms, OnSyncIInv
<1> QED
  BY <1>2, <1>3, <1>4, <1>5, <1>6 DEF Take

LEMMA TickIInv ==
  ASSUME IInv, NEW h \in Hosts, TickOpenings(h)
  PROVE  IInv'
<1>1. mem[h] \in View /\ mem[h].op # "none"
  BY DEF IInv, TypeOK, TickOpenings
<1> DEFINE out == {CASE mem[h].op = "proposed" -> Open
                     [] mem[h].op = "accepted" -> Commit(mem[h].g)
                     [] mem[h].op = "receiver" -> Accept(mem[h].g)}
<1>2. /\ net' = net \cup out
      /\ UNCHANGED <<offer, up, mem, disk, keys, funding, fails, deaths, losses>>
  BY DEF TickOpenings
<1>3. CASE mem[h].op = "proposed"
  <2>1. out = {Open} /\ out \in SUBSET Message /\ \A m \in out : m.t = "open"
    BY <1>3 DEF Open, Message
  <2> HIDE DEF out
  <2> QED
    BY <1>2, <2>1, SendIInv
<1>4. CASE mem[h].op = "accepted"
  <2>1. out = {Commit(mem[h].g)}
    BY <1>4
  <2>2. out \in SUBSET Message /\ \A m \in out : m.t = "commit" /\ m.g = mem[h].g
    BY <1>1, <2>1 DEF Commit, Message, View
  <2>3. BoundTo(mem[h].g)
    BY <1>4 DEF Hosts, IInv, Roles, FunderSaved
  <2> HIDE DEF out
  <2> QED
    BY <1>2, <2>2, <2>3, SendIInv
<1>5. CASE mem[h].op = "receiver"
  <2>1. out = {Accept(mem[h].g)}
    BY <1>5
  <2>2. out \in SUBSET Message /\ \A m \in out : m.t = "accept" /\ m.g = mem[h].g
    BY <1>1, <2>1 DEF Accept, Message, View
  <2>3. h = "B"
    BY <1>5 DEF Hosts, IInv, Roles
  <2>4. BoundTo(mem[h].g)
    BY <1>5, <2>3, ReceiverBound
  <2> HIDE DEF out
  <2> QED
    BY <1>2, <2>2, <2>4, SendIInv
<1> QED
  BY <1>1, <1>3, <1>4, <1>5 DEF View

\* Losing a message takes nothing back.
LEMMA LoseIInv ==
  ASSUME IInv, NEW m \in net, Lose(m)
  PROVE  IInv'
<1>1. TypeOK'
  BY OpeningAssumption DEF IInv, TypeOK, Lose, LoseOnce
<1>2. Roles' /\ ReceiverSaved' /\ FunderSaved' /\ KeysCounted' /\ FundingSaved'
  BY DEF IInv, Lose, Roles, ReceiverSaved, FunderSaved, KeysCounted, FundingSaved, BoundTo
<1>3. NetSaved'
  BY DEF IInv, Lose, NetSaved, BoundTo, Accept, Commit, Ready
<1> QED
  BY <1>1, <1>2, <1>3 DEF IInv

\* The steps of the funding transaction and of the poll that sends it again.
LEMMA FundingIInv ==
  ASSUME IInv, ResendFunding \/ LoseFunding \/ Mine
  PROVE  IInv'
<1>1. TypeOK'
  BY OpeningAssumption DEF IInv, TypeOK, ResendFunding, LoseFunding, Mine, LoseOnce
<1>2. UNCHANGED <<up, mem, disk, keys, net, fails>>
  BY DEF ResendFunding, LoseFunding, Mine
<1>3. Roles' /\ ReceiverSaved' /\ FunderSaved' /\ KeysCounted' /\ NetSaved'
  BY <1>2 DEF IInv, Roles, ReceiverSaved, FunderSaved, KeysCounted, NetSaved, BoundTo
<1>4. FundingSaved'
  BY DEF IInv, FunderSaved, FundingSaved, ResendFunding, LoseFunding, Mine
<1> QED
  BY <1>1, <1>3, <1>4 DEF IInv

\* A host that dies keeps its files.
LEMMA DieIInv ==
  ASSUME IInv, NEW h \in Hosts, Die(h)
  PROVE  IInv'
<1>1. TypeOK'
  BY OpeningAssumption, BlankType DEF IInv, TypeOK, Die, DieOnce
<1>2. /\ UNCHANGED <<disk, keys, net, funding, fails>>
      /\ mem'[h] = Blank /\ ~up'[h] /\ up[h]
      /\ \A k \in Hosts : k # h => mem'[k] = mem[k] /\ up'[k] = up[k]
  BY DEF IInv, TypeOK, Die, DieOnce
<1>3. Roles' /\ ReceiverSaved' /\ FunderSaved'
  BY <1>2 DEF IInv, Roles, ReceiverSaved, FunderSaved, BoundTo, Blank, Hosts
<1>4. NetSaved' /\ FundingSaved'
  BY <1>2 DEF IInv, NetSaved, FundingSaved, BoundTo, Blank, Hosts
<1>5. KeysCounted'
  BY <1>2 DEF IInv, KeysCounted, Roles, ReceiverSaved, Blank, Hosts
<1> QED
  BY <1>1, <1>3, <1>4, <1>5 DEF IInv

\* A host that is started holds what its files say.
LEMMA LoadIInv ==
  ASSUME IInv, NEW h \in Hosts, Load(h)
  PROVE  IInv'
<1> DEFINE v == RebuildOpening(disk[h])
<1>1. disk[h] \in File
  BY DEF IInv, TypeOK
<1>2. /\ v \in View /\ v.g = disk[h].g /\ v.ch = disk[h].ch /\ v.cg = disk[h].cg
      /\ v.op = IF disk[h].op = "funder" THEN IF disk[h].g = 0 THEN "proposed" ELSE "accepted"
                ELSE disk[h].op
  BY <1>1 DEF RebuildOpening, File, View
<1>3. /\ UNCHANGED <<offer, disk, keys, net, funding, fails, deaths, losses>>
      /\ up' = [up EXCEPT ![h] = TRUE] /\ mem' = [mem EXCEPT ![h] = v] /\ ~up[h]
  BY DEF Load
<1> HIDE DEF v
<1>4. TypeOK'
  BY <1>2, <1>3 DEF IInv, TypeOK
<1>5. /\ mem'[h] = v /\ up'[h]
      /\ \A k \in Hosts : k # h => mem'[k] = mem[k] /\ up'[k] = up[k]
  BY <1>3 DEF IInv, TypeOK
<1>6. Roles' /\ ReceiverSaved'
  BY <1>2, <1>3, <1>5 DEF IInv, Roles, ReceiverSaved, Hosts
<1>7. FunderSaved'
  BY <1>2, <1>3, <1>5 DEF IInv, Roles, ReceiverSaved, FunderSaved, BoundTo, Hosts
<1>8. NetSaved' /\ FundingSaved'
  BY <1>2, <1>3, <1>5 DEF IInv, Roles, NetSaved, FundingSaved, BoundTo, Hosts
<1>9. KeysCounted'
  BY <1>2, <1>3, <1>5 DEF IInv, Roles, KeysCounted, Hosts
<1> QED
  BY <1>4, <1>6, <1>7, <1>8, <1>9 DEF IInv

\* A channel whose funding is deep is open, on either side.
LEMMA ConfirmIInv ==
  ASSUME IInv, NEW h \in Hosts, ConfirmFunding(h)
  PROVE  IInv'
<1> DEFINE d == [disk[h] EXCEPT !.ch = "open", !.cg = mem[h].cg]
           n == [mem[h] EXCEPT !.ch = "open"]
<1>1. disk[h] \in File /\ mem[h] \in View /\ keys \in Nat /\ fails \in Nat
  BY OpeningAssumption, GenerationType DEF IInv, TypeOK
<1>2. /\ d \in File /\ d.op = disk[h].op /\ d.g = disk[h].g /\ d.ch = "open" /\ d.cg = mem[h].cg
      /\ n \in View /\ n.op = mem[h].op /\ n.g = mem[h].g /\ n.ch = "open" /\ n.cg = mem[h].cg
  BY <1>1 DEF File, View
<1>3. /\ Write(h, d, n, mem[h], {}) /\ UNCHANGED <<offer, keys, funding, losses>>
      /\ up[h] /\ mem[h].ch = "funding"
  BY DEF ConfirmFunding
<1> HIDE DEF d, n
<1>4. TypeOK'
  BY <1>1, <1>2, <1>3, WriteType DEF IInv, TypeOK
<1>5. disk[h].ch # "none" /\ disk[h].cg = mem[h].cg
  BY <1>3 DEF IInv, ReceiverSaved, FunderSaved, Hosts
<1>6. TypeOK
  BY DEF IInv
<1>7. /\ mem'[Peer(h)] = mem[Peer(h)] /\ disk'[Peer(h)] = disk[Peer(h)]
      /\ up'[Peer(h)] = up[Peer(h)] /\ net' = net /\ fails' \in {fails, fails + 1}
      /\ disk'[h] = disk[h] \/ disk'[h] = d
      /\ \/ mem'[h] \in {mem[h], n} /\ up'[h]
         \/ mem'[h] = Blank /\ ~up'[h]
  BY ONLY <1>3, <1>6, h \in Hosts, WriteEffect
<1>8. /\ disk'[h].op = disk[h].op /\ disk'[h].g = disk[h].g /\ disk'[h].ch # "none"
      /\ disk'[h].cg = disk[h].cg
  BY <1>2, <1>5, <1>7
<1>9. \/ /\ up'[h] /\ mem'[h].op = mem[h].op /\ mem'[h].g = mem[h].g /\ mem'[h].ch # "none"
         /\ mem'[h].cg = mem[h].cg
      \/ ~up'[h] /\ mem'[h] = Blank
  BY <1>2, <1>3, <1>7
<1> USE DEF Hosts, Peer
<1>10. Roles' /\ ReceiverSaved'
  BY <1>3, <1>5, <1>7, <1>8, <1>9 DEF IInv, Roles, ReceiverSaved, Blank
<1>11. FunderSaved'
  BY <1>3, <1>5, <1>7, <1>8, <1>9 DEF IInv, Roles, ReceiverSaved, FunderSaved, BoundTo, Blank
<1>12. NetSaved' /\ FundingSaved'
  BY <1>3, <1>5, <1>7, <1>8, <1>9 DEF IInv, Roles, NetSaved, FundingSaved, BoundTo, Blank
<1>13. KeysCounted'
  BY <1>1, <1>3, <1>7, <1>8, <1>9 DEF IInv, KeysCounted
<1> QED
  BY <1>4, <1>10, <1>11, <1>12, <1>13 DEF IInv

LEMMA NextIInv == IInv /\ [Next]_vars => IInv'
<1> SUFFICES ASSUME IInv, [Next]_vars PROVE IInv'
  OBVIOUS
<1>1. CASE Propose
  BY <1>1, ProposeIInv
<1>2. CASE ResendFunding \/ LoseFunding \/ Mine
  BY <1>2, FundingIInv
<1>3. CASE \E m \in net : Take(m) \/ Lose(m)
  BY <1>3, TakeIInv, LoseIInv
<1>4. CASE \E h \in Hosts : TickOpenings(h) \/ ConfirmFunding(h) \/ Die(h) \/ Load(h)
  BY <1>4, TickIInv, ConfirmIInv, DieIInv, LoadIInv
<1>5. CASE UNCHANGED vars
  BY <1>5 DEF vars, IInv, TypeOK, Roles, ReceiverSaved, FunderSaved, NetSaved, KeysCounted,
              FundingSaved, BoundTo
<1> QED
  BY <1>1, <1>2, <1>3, <1>4, <1>5 DEF Next

-----------------------------------------------------------------------------
(* The theorems. *)

\* The handshake keeps its invariant: what either side has taken up, and what is on the
\* relays, is borne out by the receiver's files, whatever fails, dies or is lost.
THEOREM HandshakeInvariant == Spec => []IInv
<1>1. Init => IInv
  BY InitIInv
<1>2. IInv /\ [Next]_vars => IInv'
  BY NextIInv
<1> QED
  BY <1>1, <1>2, PTL DEF Spec

\* Both hosts' records, their files, the messages and the counters keep their types; in
\* particular a fresh generation is never out of its bound, which every open guards by
\* the failed write it takes.
THEOREM OpeningTypeCorrect == Spec => []TypeOK
<1>1. IInv => TypeOK
  BY DEF IInv
<1> QED
  BY <1>1, HandshakeInvariant, PTL

\* The funder broadcasts (host.rs, adopt and resend_funding) only when both hosts hold on
\* disk a channel made of the same keys.
THEOREM FundingAlwaysRecoverable == Spec => []FundingIsRecoverable
<1>1. IInv => FundingIsRecoverable
  BY DEF IInv, FundingSaved, FunderSaved, FundingIsRecoverable
<1> QED
  BY <1>1, HandshakeInvariant, PTL

\* The receiver saves before it answers: the keys of every accept and the channel of every
\* ready are in its files.
THEOREM AnswersAlwaysSaved == Spec => []AnswersAreSaved
<1>1. IInv => AnswersAreSaved
  BY DEF IInv, NetSaved, BoundTo, AnswersAreSaved
<1> QED
  BY <1>1, HandshakeInvariant, PTL

=============================================================================
