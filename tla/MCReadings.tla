----------------------------- MODULE MCReadings -----------------------------
(***************************************************************************)
(* An instance of Readings for TLC: two servers in one Prometheus and one  *)
(* in another, with good rows, or with two of one instance, or with a      *)
(* malformed instance, or with an unusable URL.                            *)
(***************************************************************************)
EXTENDS Readings
CONSTANTS a, b, c, i1, i2

ThreeServers == {a, b, c}
TwoGroups    == a :> "g1" @@ b :> "g1" @@ c :> "g2"
Names        == a :> i1 @@ b :> i2 @@ c :> i1
Rows         == [instance |-> Names, malformed |-> {}, unusable |-> {}]
SomeRows     == {Rows,
                 [Rows EXCEPT !.instance[b] = i1],
                 [Rows EXCEPT !.malformed = {c}],
                 [Rows EXCEPT !.unusable = {"g2"}]}
Fleet       == {{a, b, c}, {a}}
Capacities   == a :> 20 @@ b :> 0 @@ c :> 10
Loads        == [s \in ThreeServers |-> [t \in 1 .. 3 |->
                    IF s = c THEN [output |-> 10, cpu |-> 96]
                    ELSE IF t % 2 = 0 THEN [output |-> 19, cpu |-> 50]
                    ELSE [output |-> 1, cpu |-> 10]]]

=============================================================================
