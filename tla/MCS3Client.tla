----------------------------- MODULE MCS3Client -----------------------------
EXTENDS S3Client, TLC

Symmetry == Permutations(Tasks)
=============================================================================
