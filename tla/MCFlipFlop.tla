----------------------------- MODULE MCFlipFlop -----------------------------
(* FlipFlop with three guards and two set() calls.                        *)
EXTENDS FlipFlop

CONSTANTS g1, g2, g3

MCGuards == {g1, g2, g3}
=============================================================================
