--------------------------- MODULE MCWorldsExample ---------------------------
EXTENDS WorldsExample

CONSTANTS m1, m2, other

\* The second match has more ticks than the channel has room.
MCFinalTick == [m \in Matches |-> IF m = m1 THEN 1 ELSE 2]
=============================================================================
