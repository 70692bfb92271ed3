----------------------------- MODULE MCPongMatch -----------------------------
EXTENDS PongMatch

\* Up at full speed, and to a place in the lower half.
MCInputs == {[axis |-> -1, target |-> None], [axis |-> 0, target |-> Height - 1]}
=============================================================================
