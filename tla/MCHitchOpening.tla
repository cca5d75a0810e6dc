--------------------------- MODULE MCHitchOpening ---------------------------
(***************************************************************************)
(* Offers at the edges of the policy: one both sides take, with the push   *)
(* as large as it may be, one too small to propose, one above what the     *)
(* receiver accepts, one with too short a delay.                           *)
(***************************************************************************)
EXTENDS HitchOpening

Offer(v, p, d) == [value |-> v, push |-> p, fee |-> 1, delay |-> d]
SmallOffers == {Offer(4, 2, 2), Offer(2, 0, 2), Offer(6, 0, 2), Offer(4, 0, 1)}
=============================================================================
