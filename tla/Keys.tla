-------------------------------- MODULE Keys --------------------------------
(***************************************************************************)
(* Keys as group elements (webledgers-teller/src/keys.rs): a secret is a   *)
(* residue modulo the order of the group, a point is the multiple of the   *)
(* generator it stands for, so arithmetic on points is arithmetic on their *)
(* secrets.  A point and its negation share an x; one of the two is odd.   *)
(***************************************************************************)
EXTENDS Integers

CONSTANT Order      \* a prime: the order of the group

ASSUME OrderAssumption == Order \in Nat /\ Order > 2

Scalars == 1 .. Order - 1

PointOf(d) == d
Negate(p) == Order - p

\* Which of a point and its negation is odd is as good as arbitrary.
IsOdd(p) == p > Order \div 2

\* A point from its identifier: an x is read as the even point.
XOnly(p) == IF IsOdd(p) THEN Negate(p) ELSE p
Did(p) == [form |-> "did", k |-> XOnly(p)]
Multikey(p) == [form |-> "multikey", k |-> p]
Compressed(p) == [form |-> "point", k |-> p]
BasePoint(id) == id.k

\* The secret of the even point with the same x.
Normalized(d) == IF IsOdd(PointOf(d)) THEN Negate(d) ELSE d

\* Signing takes the sign BIP 340 needs; what comes out verifies for the x.
SigningKey(d) == Normalized(d)
SignsFor(d, x) == XOnly(PointOf(SigningKey(d))) = x

\* Adding a tweak; 0 is the point at infinity, which is refused.
TweakedSecret(d, t) == (d + t) % Order
TweakedPoint(p, t) == (p + t) % Order
Refused(p) == p = 0
=============================================================================
