----------------------------- MODULE FileJournal -----------------------------
(***************************************************************************)
(* The file behind a signer's votes (src/journal.rs): JSON lines, appended *)
(* and synced one record at a time by the single handle that holds the     *)
(* file's lock, repaired when it is opened, rolled back when an append     *)
(* fails, and refused for ever by a handle whose rollback failed.          *)
(*                                                                         *)
(* A handle is one live FileJournal of one process.  A process may die at  *)
(* any system call: the file keeps what was written.  The machine may lose *)
(* its power at any system call: the file keeps what was synced and any    *)
(* part of what was not.                                                   *)
(*                                                                         *)
(* A record is three cells, the two halves of its JSON text and the        *)
(* newline, so that every way to tear or to join lines is there.           *)
(***************************************************************************)
EXTENDS Integers, Sequences, FiniteSets, FiniteSetsExt

CONSTANTS
    Handles,            \* the processes that open the journal
    Votes,              \* the entries there are to record, each once (the bound)
    None,
    FileSyncCoversName  \* whether syncing a new file also makes its directory entry durable

ASSUME SyncAssumption == FileSyncCoversName \in BOOLEAN
ASSUME HandleAssumption == None \notin Handles

NL == [v |-> None, half |-> 0]
Body(v) == <<[v |-> v, half |-> 1], [v |-> v, half |-> 2]>>
Line(v) == Append(Body(v), NL)
Cell == {NL} \cup [v : Votes, half : {1, 2}]

ASSUME NoFileAssumption == None \notin Seq(Cell)

VARIABLES
    file,       \* the file's content, as every reader sees it; None when there is no file
    disk,       \* the content at the last successful sync
    named,      \* the directory entry of the file is durable
    lock,       \* the handle that holds the advisory lock, or None
    pc,         \* pc[h]: where handle h is
    before,     \* before[h]: the file's length when h began the append it is making
    used,       \* the entries somebody has tried to record
    acked       \* the entries record() has returned Ok for, in order

vars == <<file, disk, named, lock, pc, before, used, acked>>

Stages == {"closed", "created", "opened", "repaired", "ready", "written", "failed",
           "rolledback", "poisoned"}

-----------------------------------------------------------------------------
(* fn parse. *)

Newlines(f) == {i \in DOMAIN f : f[i] = NL}
DurableLen(f) == Max(Newlines(f) \cup {0})

\* The text of the line that newline i ends.
Text(f, i) == SubSeq(f, Max({j \in Newlines(f) : j < i} \cup {0}) + 1, i - 1)
Entries == {Body(v) : v \in Votes}

\* Every terminated line is blank or an entry.
WellFormed(f) == \A i \in Newlines(f) : Text(f, i) \in Entries \cup {<<>>}

Torn(f) == SubSeq(f, DurableLen(f) + 1, Len(f))

\* The entries of a file without a torn tail, oldest first.  record writes nothing but
\* whole entries, each on a line of three cells, so the n-th is on the n-th line.
EntriesOf(f) == [n \in 1 .. Len(f) \div 3 |-> f[3 * n - 1].v]

\* What opening makes of a content: an entry that lost only its newline is
\* terminated, any other torn tail is cut.
Repaired(f) ==
    LET torn == Torn(f) IN
    IF torn \in Entries THEN Append(f, NL) ELSE SubSeq(f, 1, Len(f) - Len(torn))

-----------------------------------------------------------------------------
TypeOK ==
    /\ file \in Seq(Cell) \cup {None}
    /\ disk \in Seq(Cell)
    /\ named \in BOOLEAN
    /\ lock \in Handles \cup {None}
    /\ pc \in [Handles -> Stages]
    /\ before \in [Handles -> Nat]
    /\ used \subseteq Votes
    /\ acked \in Seq(used)

Init ==
    /\ file = None
    /\ disk = <<>>
    /\ named = FALSE
    /\ lock = None
    /\ pc = [h \in Handles |-> "closed"]
    /\ before = [h \in Handles |-> 0]
    /\ used = {}
    /\ acked = <<>>

Goto(h, stage) == pc' = [pc EXCEPT ![h] = stage]

\* The handle is dropped, and with it the lock.
Close(h) == Goto(h, "closed") /\ lock' = None

\* A successful sync of the file.
Synced ==
    /\ disk' = file
    /\ named' = (named \/ FileSyncCoversName)

(***************************************************************************)
(* FileJournal::open.                                                      *)
(***************************************************************************)

\* The file is created if need be, then locked; a lock that is taken is an
\* error, and the handle is gone.
Open(h) ==
    /\ pc[h] = "closed"
    /\ file' = IF file = None THEN <<>> ELSE file
    /\ \/ lock = None /\ lock' = h /\ Goto(h, IF file = None THEN "created" ELSE "opened")
       \/ lock # None /\ UNCHANGED <<lock, pc>>
    /\ UNCHANGED <<disk, named, before, used, acked>>

\* A new file is synced, and its directory.
SyncNew(h) ==
    /\ pc[h] = "created"
    /\ disk' = file /\ named' = TRUE
    /\ Goto(h, "opened")
    /\ UNCHANGED <<file, lock, before, used, acked>>

\* Parse, and start the repair of a torn tail.
Repair(h) ==
    /\ pc[h] = "opened"
    /\ \/ WellFormed(file) /\ Goto(h, IF Torn(file) = <<>> THEN "ready" ELSE "repaired")
          /\ file' = Repaired(file) /\ UNCHANGED lock
       \/ ~WellFormed(file) /\ Close(h) /\ UNCHANGED file
    /\ UNCHANGED <<disk, named, before, used, acked>>

SyncRepair(h) ==
    /\ pc[h] = "repaired"
    /\ disk' = file /\ named' = TRUE
    /\ Goto(h, "ready")
    /\ UNCHANGED <<file, lock, before, used, acked>>

\* Any of those calls fails and open returns the error.  (A call that fails
\* half-way is the process dying there.)
OpenFails(h) ==
    /\ pc[h] \in {"created", "opened", "repaired"}
    /\ Close(h)
    /\ UNCHANGED <<file, disk, named, before, used, acked>>

(***************************************************************************)
(* FileJournal::record.                                                    *)
(***************************************************************************)
\* Mutated: the length to roll back to is the one the handle started with.
MutAppend(h, v) ==
    /\ pc[h] = "ready"
    /\ used' = used \cup {v}
    /\ \E n \in 0 .. Len(Line(v)) :
        /\ file' = file \o SubSeq(Line(v), 1, n)
        /\ Goto(h, IF n = Len(Line(v)) THEN "written" ELSE "failed")
    /\ UNCHANGED <<disk, named, lock, before, acked>>

\* write_all: the whole line, or only the beginning of it and an error.
AppendRecord(h, v) ==
    /\ pc[h] = "ready"
    /\ used' = used \cup {v}
    /\ before' = [before EXCEPT ![h] = Len(file)]
    /\ \E n \in 0 .. Len(Line(v)) :
        /\ file' = file \o SubSeq(Line(v), 1, n)
        /\ Goto(h, IF n = Len(Line(v)) THEN "written" ELSE "failed")
    /\ UNCHANGED <<disk, named, lock, acked>>

\* Mutated: acknowledged when written.
MutSyncRecord(h) ==
    /\ pc[h] = "written"
    /\ acked' = Append(acked, file[Len(file) - 1].v)
    /\ Goto(h, "ready")
    /\ UNCHANGED <<file, disk, named, lock, before, used>>

\* sync_data, and the record is acknowledged.
SyncRecord(h) ==
    /\ pc[h] = "written"
    /\ Synced
    /\ acked' = Append(acked, file[Len(file) - 1].v)
    /\ Goto(h, "ready")
    /\ UNCHANGED <<file, lock, before, used>>

SyncFails(h) ==
    /\ pc[h] = "written"
    /\ Goto(h, "failed")
    /\ UNCHANGED <<file, disk, named, lock, before, used, acked>>

\* set_len to where the append began.
Rollback(h) ==
    /\ pc[h] = "failed"
    /\ file' = SubSeq(file, 1, before[h])
    /\ Goto(h, "rolledback")
    /\ UNCHANGED <<disk, named, lock, before, used, acked>>

SyncRollback(h) ==
    /\ pc[h] = "rolledback"
    /\ Synced
    /\ Goto(h, "ready")
    /\ UNCHANGED <<file, lock, before, used, acked>>

\* A rollback that fails poisons the handle: it refuses every later write.
RollbackFails(h) ==
    /\ pc[h] \in {"failed", "rolledback"}
    /\ Goto(h, "poisoned")
    /\ UNCHANGED <<file, disk, named, lock, before, used, acked>>

-----------------------------------------------------------------------------
(* The environment. *)

\* The process of h dies; the kernel drops its lock.
Die(h) ==
    /\ pc[h] # "closed"
    /\ Close(h)
    /\ UNCHANGED <<file, disk, named, before, used, acked>>

Begins(p, f) == Len(p) <= Len(f) /\ p = SubSeq(f, 1, Len(p))

\* The contents a power loss may leave: the synced one, or the current one cut
\* anywhere after the part that the two share.
Survivors ==
    IF file = None THEN {<<>>}
    ELSE LET shared == Max({n \in 0 .. Len(file) : Begins(SubSeq(file, 1, n), disk)})
         IN  {disk} \cup {SubSeq(file, 1, n) : n \in shared .. Len(file)}

PowerLoss ==
    /\ lock' = None
    /\ pc' = [h \in Handles |-> "closed"]
    /\ \/ \E c \in Survivors : file # None /\ file' = c /\ disk' = c /\ named' = TRUE
       \/ ~named /\ file' = None /\ disk' = <<>> /\ UNCHANGED named
    /\ UNCHANGED <<before, used, acked>>

Next ==
    \/ PowerLoss
    \/ \E h \in Handles :
        \/ Open(h) \/ SyncNew(h) \/ Repair(h) \/ SyncRepair(h) \/ OpenFails(h)
        \/ \E v \in Votes \ used : AppendRecord(h, v)
        \/ SyncRecord(h) \/ SyncFails(h)
        \/ Rollback(h) \/ SyncRollback(h) \/ RollbackFails(h)
        \/ Die(h)

Spec == Init /\ [][Next]_vars

-----------------------------------------------------------------------------
(* Safety. *)

\* The entries a signer that starts now, or after a power loss, reloads.
ReloadOf(c) == EntriesOf(Repaired(c))

FoundAt(c, v) == {k \in DOMAIN ReloadOf(c) : ReloadOf(c)[k] = v}

\* No vote record() has acknowledged is ever lost, repeated or reordered: whatever a crash
\* or a power loss leaves can be parsed, and reopening it finds the acknowledged votes,
\* each once and in their order.
AckedSurvive ==
    /\ \A c \in Survivors \cup ({file} \ {None}) :
        /\ WellFormed(c)
        /\ \A i \in DOMAIN acked : \E k \in DOMAIN ReloadOf(c) : FoundAt(c, acked[i]) = {k}
        /\ \A i, j \in DOMAIN acked :
              i < j => \A k \in FoundAt(c, acked[i]), l \in FoundAt(c, acked[j]) : k < l
    /\ file = None \/ ~named => acked = <<>>

Reload == IF file = None THEN <<>> ELSE ReloadOf(file)
LastSafe == Max({i \in DOMAIN Reload : \E j \in DOMAIN acked : acked[j] = Reload[i]} \cup {0})
Log == INSTANCE VoteLog WITH log <- Reload, safe <- LastSafe

\* Over all handles, failures, crashes and power losses the file implements the log the
\* rounds are written against: what record() acknowledged stays, in its order, and only
\* a record that was not acknowledged may come or go (journal.rs open, record).
ImplementsLog == Log!Spec
=============================================================================
