--------------------------- MODULE MCMultipartPut ---------------------------
EXTENDS MultipartPut, TLC

Symmetry == Permutations(Uploaders)
=============================================================================
