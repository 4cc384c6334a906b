----------------------------- MODULE MCWarehouse -----------------------------
EXTENDS Warehouse, TLC

Symmetry == Permutations(Texts)
=============================================================================
