------------------------------ MODULE MCPaging ------------------------------
(***************************************************************************)
(* Paging for TLC. Directory entries and device frames are model values:   *)
(* only their being distinct matters, so the search is up to permutation.  *)
(***************************************************************************)
EXTENDS Paging, TLC

Symmetry == Permutations(HighDirs) \cup Permutations(Devices)
=============================================================================
