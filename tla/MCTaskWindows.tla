---------------------------- MODULE MCTaskWindows ----------------------------
EXTENDS TaskWindows, TLC

Symmetric == Permutations(Handlers)
=============================================================================
