-------------------------- MODULE MCFinalityTracker --------------------------
(* Two chains at different depths ("pol" starts with no configuration),    *)
(* an id observed in two blocks of its chain, and an id of both chains.    *)
EXTENDS FinalityTracker

MCChain == {"eth", "pol"}
MCRequired == [c \in MCChain |-> IF c = "eth" THEN 2 ELSE 0]
MCHead == 1..3
MCDepths == {1, 3}

Msg(i, c, h, b) == [id |-> i, chain |-> c, height |-> h, block |-> b]

MCMessage == {Msg("m1", "eth", 1, "a"), Msg("m1", "eth", 2, "b"), Msg("m2", "eth", 2, "b"),
              Msg("m2", "pol", 2, "x"), Msg("m3", "pol", 2, "x")}
==============================================================================
