------------------------------ MODULE MCIndexer ------------------------------
(* Branches that fork from each other at up to MaxReorgDepth below a tip,  *)
(* so that one re-org follows another before the indexer has caught up.    *)
(* m1 and m2 are carried by blocks of several branches, some of them at    *)
(* different heights, m4 by the one or the other of two late blocks.       *)
EXTENDS Indexer

MCStart == <<1>>

MCBranch == {<<1, 1, 1, 1, 1, 1>>, <<1, 1, 1, 1, 3, 3, 3>>, <<1, 1, 1, 4, 4, 4>>,
             <<1, 1, 2, 2, 2, 2, 2>>, <<1, 1, 2, 2, 3, 3, 3>>, <<1, 1, 2, 2, 2, 4, 4, 4>>,
             <<1, 5, 5, 5, 5>>}

MCBlock == {SubSeq(b, 1, n) : <<b, n>> \in {<<c, k>> \in MCBranch \X (1..8) : k <= Len(c)}}

MCLogsIn ==
    [b \in MCBlock |->
        CASE b = <<1, 1>>                   -> {"m3"}
          [] b = <<1, 1, 1>>                -> {"m1", "m2"}
          [] b = <<1, 1, 2>>                -> {"m2"}
          [] b = <<1, 1, 2, 2>>             -> {"m1"}
          [] b = <<1, 1, 2, 2, 2>>          -> {"m4"}
          [] b = <<1, 1, 1, 1, 3>>          -> {"m4"}
          [] b = <<1, 1, 1, 4>>             -> {"m4"}
          [] b = <<1, 5, 5>>                -> {"m3"}
          [] OTHER                          -> {}]
==============================================================================
