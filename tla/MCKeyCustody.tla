---------------------------- MODULE MCKeyCustody ----------------------------
EXTENDS KeyCustody, TLC

CONSTANTS k1, k2, k3

Made == Permutations(Key \ Operator)
=============================================================================
