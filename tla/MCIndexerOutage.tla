--------------------------- MODULE MCIndexerOutage ---------------------------
(* One fork, two blocks deep.                                              *)
EXTENDS IndexerOutage

MCStart == <<1>>

MCBlock == {SubSeq(b, 1, n) : b \in {<<1, 1, 1>>, <<1, 2, 2, 2>>}, n \in 1..3}
           \cup {<<1, 2, 2, 2>>}

MCLogsIn == [b \in MCBlock |-> IF b = <<1, 1>> THEN {"m1"} ELSE {}]
==============================================================================
