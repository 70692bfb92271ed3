------------------------------ MODULE MCPongHub -------------------------------
EXTENDS PongHub

Symmetry == Permutations(Clients) \cup Permutations(Posts)
=============================================================================
