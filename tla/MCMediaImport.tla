--------------------------- MODULE MCMediaImport ---------------------------
(* Two sessions of two workspaces sharing a quota of four units: one       *)
(* without a metadata text, and one whose text is counted in time or not.  *)
(* Clients of both workspaces may refer to the first.                      *)
EXTENDS MediaImport, TLC

CONSTANTS s1, s2, w1, w2

Homes == (s1 :> w1) @@ (s2 :> w2)
Sizes == (s1 :> {2}) @@ (s2 :> {1})
Paths == (w1 :> {s1}) @@ (w2 :> {s1, s2})
TextSizes == (s1 :> {0}) @@ (s2 :> {1, 2})

=============================================================================
