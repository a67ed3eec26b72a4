--------------------------- MODULE MCSealedStore ---------------------------
(* Two columns, of two rows and of one, walked row by row, and two roots.   *)
EXTENDS SealedStore, TLC

CONSTANTS c1, c2

Lengths == (c1 :> 2) @@ (c2 :> 1)
=============================================================================
