-------------------------------- MODULE Heap --------------------------------
(***************************************************************************)
(* The kernel heap of src/src/kernel/memory/alloc.cpp: one doubly linked   *)
(* list of blocks that tile the arena, first-fit kmalloc that splits, and  *)
(* kfree that merges with both neighbours.                                 *)
(*                                                                         *)
(* Addresses are offsets from heap_top. All arithmetic is that of          *)
(* uint32_t (Word stands for 2^32). hdr holds the headers the list links;  *)
(* the bytes of a header that kfree merged away belong to its neighbour    *)
(* again and nothing reads them, so they leave the domain of hdr.          *)
(*                                                                         *)
(* The arena is announced far larger than the memory behind it: only the   *)
(* first 4 MB are mapped (entry.asm), and writing a header past them is a  *)
(* page fault, whose handler stops the machine.                            *)
(***************************************************************************)
EXTENDS Integers

CONSTANTS HdrSize,    \* sizeof(heap_block_header_t), 16 in the build
          HeapSize,   \* second argument of heap_allocator_init (0xffffffff)
          Word,       \* 2^32
          Mapped,     \* offset at which the mapped memory ends
          Sizes       \* the request sizes callers use

\* The arena's size is a uint32_t, and no caller asks for a size that
\* overflows when the header is added to it.
ASSUME HeapAssumption ==
    /\ HdrSize \in Nat \ {0} /\ HeapSize \in Nat \ {0} /\ Word \in Nat
    /\ Mapped \in Nat /\ HdrSize <= Mapped
    /\ HeapSize < Word /\ Mapped < Word
    /\ \A s \in Sizes : s \in Nat /\ s + HdrSize < Word

VARIABLES hdr,        \* the headers of the list, by offset
          live,       \* pointers the callers hold -> the size they asked for
          ret,        \* what the last kmalloc returned
          halted      \* a page fault was taken: cli, hlt

vars == <<hdr, live, ret, halted>>

NULL == -1
FAIL == -1            \* (void*)-1

Plus(a, b)  == IF a + b < Word THEN a + b ELSE a + b - Word
Minus(a, b) == IF a >= b THEN a - b ELSE a - b + Word

Header == [is_allocated : BOOLEAN, size : 0 .. Word - 1,
           next : -1 .. Word - 1, prev : -1 .. Word - 1]

----------------------------------------------------------------------------
(* heap_allocator_init writes the flag and the size; next and prev are the *)
(* zero bytes of the memory behind the kernel stack.                       *)

Init ==
    /\ hdr = [n \in {0} |-> [is_allocated |-> FALSE, size |-> HeapSize,
                             next |-> NULL, prev |-> NULL]]
    /\ live = [p \in {} |-> 0]
    /\ ret = 0
    /\ halted = FALSE

\* Mutant: the walk forgets to look at is_allocated.
FitsAnyBlock(n, s) == hdr[n].size > s

Fits(n, s) == hdr[n].size > s /\ ~hdr[n].is_allocated

\* The for loop walks next from heap_top, which is the order of addresses
\* (BlocksTile), and keeps the first chunk that fits.
FirstFit(n, s) ==
    /\ Fits(n, s)
    /\ \A m \in DOMAIN hdr : Fits(m, s) => n <= m

\* Mutant: the neighbour's prev is left as it was.
SetPrevNever(h, n, p) == h

\* if (n != 0) n->prev = p (lines 32, 51, 63).
SetPrev(h, n, p) == IF n = NULL THEN h ELSE [h EXCEPT ![n].prev = p]

\* The header tmp is written behind the first s bytes of block r.
Split(h, r, s) ==
    LET tmp == Plus(Plus(r, HdrSize), s)
        new == [is_allocated |-> FALSE, prev |-> r, next |-> h[r].next,
                size |-> Minus(h[r].size, Plus(s, HdrSize))]
        g   == [m \in DOMAIN h \cup {tmp} |-> IF m = tmp THEN new ELSE h[m]]
    IN  [SetPrev(g, new.next, tmp) EXCEPT ![r].next = tmp, ![r].size = s]

\* Mutant: a block is split only if the rest holds two headers.
SplitsLate(h, r, s) == h[r].size > Plus(s, Plus(HdrSize, HdrSize))

Splits(h, r, s) == h[r].size > Plus(s, HdrSize)

\* Mutant: the flag is set inside the if.
CarveMarksSplit(h, r, s) ==
    IF Splits(h, r, s)
    THEN [Split(h, r, s) EXCEPT ![r].is_allocated = TRUE]
    ELSE h

Carve(h, r, s) ==
    LET g == IF Splits(h, r, s) THEN Split(h, r, s) ELSE h
    IN  [g EXCEPT ![r].is_allocated = TRUE]

\* Line 27 writes the first field of tmp before anything is linked to it.
Faults(h, r, s) == Splits(h, r, s) /\ r + HdrSize + s + HdrSize > Mapped

Kmalloc(s) ==
    \E r \in DOMAIN hdr :
        /\ FirstFit(r, s) /\ ~Faults(hdr, r, s)
        /\ hdr' = Carve(hdr, r, s)
        /\ ret' = Plus(r, HdrSize)
        /\ live' = [p \in DOMAIN live \cup {ret'} |->
                        IF p = ret' THEN s ELSE live[p]]
        /\ UNCHANGED halted

KmallocFaults(s) ==
    /\ \E r \in DOMAIN hdr : FirstFit(r, s) /\ Faults(hdr, r, s)
    /\ halted' = TRUE
    /\ UNCHANGED <<hdr, live, ret>>

KmallocFails(s) ==
    /\ \A n \in DOMAIN hdr : ~Fits(n, s)
    /\ ret' = FAIL
    /\ UNCHANGED <<hdr, live, halted>>

----------------------------------------------------------------------------

\* Mutant: the swallowed block's header is not counted.
AbsorbWithoutHeader(h, a) ==
    LET b == h[a].next
        c == h[b].next
        g == [SetPrev(h, c, a) EXCEPT ![a].next = c,
                                      ![a].size = Plus(h[a].size, h[b].size)]
    IN  [n \in DOMAIN h \ {b} |-> g[n]]

\* Block a swallows its successor: both merges of kfree come down to this.
Absorb(h, a) ==
    LET b == h[a].next
        c == h[b].next
        g == [SetPrev(h, c, a) EXCEPT
                ![a].next = c,
                ![a].size = Plus(h[a].size, Plus(h[b].size, HdrSize))]
    IN  [n \in DOMAIN h \ {b} |-> g[n]]

MergesPrev(h, b) == h[b].prev # NULL /\ ~h[h[b].prev].is_allocated
MergesNext(h, b) == h[b].next # NULL /\ ~h[h[b].next].is_allocated

JoinPrev(h, b) == IF MergesPrev(h, b) THEN Absorb(h, h[b].prev) ELSE h
JoinNext(h, b) == IF MergesNext(h, b) THEN Absorb(h, b) ELSE h

Freed(h, b) == [h EXCEPT ![b].is_allocated = FALSE]

\* Mutant: the second merge is an else.
CoalesceOnce(h, b) == IF MergesPrev(h, b) THEN JoinPrev(h, b) ELSE JoinNext(h, b)

Coalesce(h, b) ==
    JoinNext(JoinPrev(h, b), IF MergesPrev(h, b) THEN h[b].prev ELSE b)

Kfree(ptr) ==
    /\ hdr' = LET block == Minus(ptr, HdrSize)
              IN  Coalesce(Freed(hdr, block), block)
    /\ live' = [p \in DOMAIN live \ {ptr} |-> live[p]]
    /\ UNCHANGED <<ret, halted>>

Next ==
    /\ ~halted
    /\ \/ \E s \in Sizes : Kmalloc(s) \/ KmallocFaults(s) \/ KmallocFails(s)
       \/ \E p \in DOMAIN live : Kfree(p)

Spec == Init /\ [][Next]_vars

----------------------------------------------------------------------------
ArenaEnd == HdrSize + HeapSize

End(h, n) == n + HdrSize + h[n].size

\* Headers lie inside mapped memory, sizes and links are words.
TypeOK ==
    /\ hdr \in [DOMAIN hdr -> Header]
    /\ DOMAIN hdr \subseteq 0 .. Mapped - HdrSize
    /\ live \in [DOMAIN live -> Sizes]
    /\ ret \in -1 .. Word - 1
    /\ halted \in BOOLEAN

\* Every link of the list h leads to the block that starts where this one
\* ends and back again, and blocks do not overlap.
Linked(h) ==
    /\ 0 \in DOMAIN h /\ h[0].prev = NULL
    /\ \A n \in DOMAIN h :
        /\ h[n].next # NULL =>
            /\ h[n].next \in DOMAIN h
            /\ h[n].next = End(h, n)
            /\ h[h[n].next].prev = n
        /\ h[n].next = NULL => End(h, n) = ArenaEnd
        /\ End(h, n) <= ArenaEnd
        /\ n # 0 => /\ h[n].prev \in DOMAIN h
                    /\ h[h[n].prev].next = n
    /\ \A m, n \in DOMAIN h : m < n => End(h, m) <= n

\* The walk of kmalloc visits blocks that tile the arena, in both directions,
\* after any history of calls (kmalloc's relinking, lines 25-35, and both
\* merges of kfree, lines 49-65).
BlocksTile == Linked(hdr)

\* The two halves of the book-keeping agree: a block is marked allocated
\* exactly while a caller holds the pointer behind its header.
Accounted ==
    /\ \A n \in DOMAIN hdr : hdr[n].is_allocated <=> n + HdrSize \in DOMAIN live
    /\ \A p \in DOMAIN live : \E n \in DOMAIN hdr : p = n + HdrSize

\* kfree leaves no two free neighbours, so one look at either side is enough.
Coalesced ==
    \A n \in DOMAIN hdr :
        hdr[n].next # NULL => \/ hdr[n].is_allocated
                              \/ hdr[hdr[n].next].is_allocated

\* A block holds what its caller asked for and wastes at most one header:
\* kmalloc hands out a block unsplit only when the rest could not hold one.
BoundedSlack ==
    \A n \in DOMAIN hdr :
        hdr[n].is_allocated => hdr[n].size - live[n + HdrSize] \in 0 .. HdrSize

\* Nothing leaks: when everything was given back, in whatever order, the
\* arena is the single free block that heap_allocator_init made.
EmptyHeapIsWhole ==
    DOMAIN live = {} => /\ DOMAIN hdr = {0}
                        /\ hdr[0].size = HeapSize /\ ~hdr[0].is_allocated

\* The inductive invariant behind the properties above.
HeapInv == TypeOK /\ BlocksTile /\ Accounted /\ Coalesced /\ BoundedSlack

----------------------------------------------------------------------------
Abs == INSTANCE AllocSpec

\* kmalloc and kfree keep the promise of AllocSpec: no pointer they hand out
\* overlaps another one or its header, and only a heap in use refuses.
ImplementsAllocSpec == Abs!AbsSpec
============================================================================
