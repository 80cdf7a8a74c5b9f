---------------------------------- MODULE MCBom --------------------------------
EXTENDS Bom, TLC

CONSTANTS a, b, c, m

Symmetry == Permutations(Skus)
================================================================================
