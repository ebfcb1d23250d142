------------------------------- MODULE MCHeap -------------------------------
(***************************************************************************)
(* Two-byte headers and words modulo 18; HeapSize is Word - 1, as in       *)
(* kmain's call. The sizes make kmalloc split, hand out a whole block with *)
(* a slack of one and of HdrSize bytes, refuse, and run off the memory.    *)
(***************************************************************************)
EXTENDS Heap
============================================================================
