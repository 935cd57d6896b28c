--------------------------- MODULE MCFloorControl ---------------------------
(* Instances of FloorControl for TLC. *)
EXTENDS FloorControl, TLC

CONSTANTS a, b, d

Pair == {a, b}
Three == {a, b, d}

MeshOfTwo == [n \in Pair |-> Pair \ {n}]
FanOfThree == (a :> {b, d}) @@ (b :> {d}) @@ (d :> {b})
RingOfThree == (a :> {b}) @@ (b :> {d}) @@ (d :> {a})

LevelsOfTwo == (a :> {0}) @@ (b :> {1})
WideLevelsOfTwo == (a :> {3}) @@ (b :> {0})
LevelsOfThree == (a :> {0}) @@ (b :> {1}) @@ (d :> {2})
OneTalker == (a :> {0}) @@ (b :> {}) @@ (d :> {})

Calls == Permutations(Call)
=============================================================================
