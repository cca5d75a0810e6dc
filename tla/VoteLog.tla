------------------------------- MODULE VoteLog -------------------------------
(***************************************************************************)
(* What a vote journal promises to the round that writes it: a log that    *)
(* only grows, and of which everything up to the last acknowledged record  *)
(* stays for ever.  What was written since then may be kept or dropped.    *)
(***************************************************************************)
EXTENDS Naturals, Sequences

VARIABLES
    log,    \* the votes a reload finds
    safe    \* how many of them can no longer be dropped

Init == log = <<>> /\ safe = 0

Write ==
    /\ Len(log') = Len(log) + 1
    /\ SubSeq(log', 1, Len(log)) = log
    /\ UNCHANGED safe

Acknowledge == safe' = Len(log) /\ UNCHANGED log

Drop ==
    /\ Len(log') \in safe .. Len(log) - 1
    /\ log' = SubSeq(log, 1, Len(log'))
    /\ UNCHANGED safe

Next == Write \/ Acknowledge \/ Drop

Spec == Init /\ [][Next]_<<log, safe>>
=============================================================================
