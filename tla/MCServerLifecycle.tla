-------------------------- MODULE MCServerLifecycle --------------------------
EXTENDS ServerLifecycle, TLC

CONSTANTS c1, c2, c3

Symmetry == Permutations({c1, c2, c3})
===============================================================================
