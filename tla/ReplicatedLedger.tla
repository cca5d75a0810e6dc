-------------------------- MODULE ReplicatedLedger --------------------------
(***************************************************************************)
(* What the block round promises to the chain's users: one ledger, decided *)
(* a block at a time, which never loses or replaces one, and of which      *)
(* every replica holds a prefix.  A replica grows by deciding the next     *)
(* block, which only a replica that holds the whole ledger can do, or by   *)
(* learning one the ledger already has.  It may fall behind in a restart,  *)
(* and then learns the same blocks again.                                  *)
(***************************************************************************)
EXTENDS Naturals, Sequences

CONSTANT Replicas

VARIABLES
    decided,    \* the ledger
    copy        \* copy[r]: the prefix replica r holds

Init ==
    /\ decided = <<>>
    /\ copy = [r \in Replicas |-> <<>>]

Extended(old, new) ==
    /\ Len(new) = Len(old) + 1
    /\ new = Append(old, new[Len(new)])

Decide(r) ==
    /\ copy[r] = decided
    /\ Extended(decided, decided')
    /\ copy' = [copy EXCEPT ![r] = decided']

Learn(r) ==
    /\ Len(copy[r]) < Len(decided)
    /\ copy' = [copy EXCEPT ![r] = Append(@, decided[Len(@) + 1])]
    /\ UNCHANGED decided

Lose(r) ==
    /\ \E n \in 0 .. Len(copy[r]) : copy' = [copy EXCEPT ![r] = SubSeq(@, 1, n)]
    /\ UNCHANGED decided

Next == \E r \in Replicas : Decide(r) \/ Learn(r) \/ Lose(r)

Spec == Init /\ [][Next]_<<decided, copy>>
=============================================================================
