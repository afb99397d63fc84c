--------------------------- MODULE MCReorgDetector ---------------------------
(* Every block up to height 3 of a chain that forks in two at each height, *)
(* and one branch of height 4, fed in any order and any number of times.   *)
EXTENDS ReorgDetector

MCBlock == {<<x>> : x \in 1..2} \cup {<<x, y>> : x, y \in 1..2}
           \cup {<<x, y, z>> : x, y, z \in 1..2} \cup {<<1, 1, 1, 1>>, <<1, 2, 1, 1>>}
==============================================================================
