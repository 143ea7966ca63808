---------------------------- MODULE MCPartialApp ----------------------------
EXTENDS PartialApp, TLC

Symmetry == Permutations(Slot)
=============================================================================
