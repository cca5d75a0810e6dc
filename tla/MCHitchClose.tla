---------------------------- MODULE MCHitchClose ---------------------------
(***************************************************************************)
(* Small channels for TLC: each side in turn, an HTLC either way, a state  *)
(* with a set-aside alternative, a balance too small for an output.        *)
(***************************************************************************)
EXTENDS HitchClose

Bal(a, b) == [A |-> a, B |-> b]
OneHtlc(from, amount) == {[id |-> 1, from |-> from, hash |-> "h", amount |-> amount, expiry |-> 4]}
MCChannel == [value |-> 12, fee |-> 1, delay |-> 2]
Scenario(me, states, alternatives, knows) ==
    [me |-> me, channel |-> MCChannel, states |-> states, alternatives |-> alternatives,
     knows |-> knows]

Opened == [bal |-> Bal(12, 0), htlcs |-> {}]
Paid == [bal |-> Bal(7, 5), htlcs |-> {}]
Locked(from) == [bal |-> IF from = "A" THEN Bal(4, 5) ELSE Bal(7, 2),
                 htlcs |-> OneHtlc(from, 3)]

MCScenarios ==
    {Scenario("A", <<Opened, Paid>>, <<>>, {}),
     Scenario("B", <<Locked("A"), Locked("B")>>, <<>>, {}),
     Scenario("B", <<Opened, Locked("A")>>, <<Paid>>, {"h"})}
============================================================================
