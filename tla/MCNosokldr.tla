----------------------------- MODULE MCNosokldr -----------------------------
(***************************************************************************)
(* Nosokldr for TLC: a translated disk and a floppy, on which clusters     *)
(* 2264 and 2265 lie on either side of cylinder 256.                       *)
(***************************************************************************)
EXTENDS Nosokldr

MCGeometries == {<<63, 16>>, <<18, 2>>}
=============================================================================
