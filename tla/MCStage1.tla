------------------------------ MODULE MCStage1 ------------------------------
(***************************************************************************)
(* Stage1 for TLC: the geometry of a 32 MB disk with translation, that of  *)
(* the BPB, and that of a floppy. Clusters 24 and 25 lie on either side of *)
(* sector 256. Words of the vector table: a small offset, 0xf000, 0xfff8.  *)
(***************************************************************************)
EXTENDS Stage1

MCGeometries == {<<63, 16>>, <<32, 64>>, <<18, 2>>}
=============================================================================
