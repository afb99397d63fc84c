------------------------------ MODULE BlockTree ------------------------------
(***************************************************************************)
(* The block headers of one source chain, with all of its forks.  A hash   *)
(* commits to a block and, through parentHash, to every block below it, so *)
(* a block is modelled as the path that leads to it from the genesis       *)
(* block: the sequence of the labels chosen at each height.  The path of   *)
(* length n is a block at height n, two blocks are equal exactly when      *)
(* their hashes are, and a block is an ancestor of another exactly when it *)
(* is a prefix of it.                                                      *)
(***************************************************************************)
EXTENDS Integers, Sequences

CONSTANT Block   \* the blocks that may ever be produced

\* A block's ancestors have been produced as well.
ASSUME BlockAssumption ==
    \A b \in Block :
        /\ b \in Seq(Nat) /\ Len(b) > 0
        /\ \A n \in 1..Len(b) : SubSeq(b, 1, n) \in Block

Height(b) == Len(b)

\* The block named by parentHash.  The parent of a block at height 1 is the
\* genesis block <<>>, which is never fed to the indexer.
Parent(b) == SubSeq(b, 1, Len(b) - 1)

IsAncestor(a, b) == Len(a) <= Len(b) /\ SubSeq(b, 1, Len(a)) = a

\* The height of the deepest block that a and b share: the fork point.
ForkHeight(a, b) ==
    CHOOSE n \in 0..Len(a) :
        /\ n <= Len(b) /\ SubSeq(a, 1, n) = SubSeq(b, 1, n)
        /\ (n < Len(a) /\ n < Len(b)) => a[n + 1] # b[n + 1]

\* The blocks of b's chain above height n, lowest first.
PathAbove(b, n) == [i \in 1..(Len(b) - n) |-> SubSeq(b, 1, n + i)]
==============================================================================
