------------------------------ MODULE MCCraftPage ------------------------------
EXTENDS CraftPage, TLC

Symmetry == Permutations(Accounts)
===============================================================================
