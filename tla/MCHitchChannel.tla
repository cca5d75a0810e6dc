--------------------------- MODULE MCHitchChannel ---------------------------
(***************************************************************************)
(* A small channel: the funder can send one unit beyond the fee, the other *)
(* side can send one unit, and each offers HTLCs of a hash of its own.     *)
(***************************************************************************)
EXTENDS HitchChannel

CONSTANTS h, g

SmallFunds == [s \in Sides |-> IF s = "A" THEN 2 ELSE 1]

\* Two sides that offer one hash split the channel, which is left out here.
OwnHashes == [s \in Sides |-> IF s = "A" THEN {h} ELSE {g}]
=============================================================================
