------------------------------- MODULE Paging -------------------------------
(***************************************************************************)
(* The frame bitmap (memory/frame_alloc.cpp), the page tables              *)
(* (memory/paging.cpp) as _start leaves them (entry.asm), and the TLB.     *)
(*                                                                         *)
(* A page table is reached in two ways. The MMU reads the frame a page     *)
(* directory entry names; the kernel uses the frame's physical address as  *)
(* a pointer, which the MMU translates in turn. Both meet in the same      *)
(* frame only inside the window that _start maps one to one: all pages of  *)
(* the first table but the last, which shows the text screen instead.      *)
(*                                                                         *)
(* A virtual page is a pair of indices, a frame is a number. An entry of a *)
(* page table is the frame it names, or None when it is not present.       *)
(***************************************************************************)
EXTENDS Integers, FiniteSets

CONSTANTS FrameCount,   \* frames the bitmap counts (8 * FRAME_BITMAP_SIZE)
          KernelEnd,    \* frames that frames::init marks: kernel and heap
          Entries,      \* entries of a page table (1024)
          LowDirs,      \* directory entries _start fills: 0 and 768
          HighDirs,     \* directory entries the callers of map_page use
          Devices,      \* frames they map, behind all memory
          MaxPages,     \* bound: pages mapped at a time
          TlbSize       \* bound: translations the CPU keeps

Screen   == FrameCount              \* the frame of 0xB8000
Dirs     == LowDirs \cup HighDirs
Slots    == 0 .. Entries - 1
Memory   == 0 .. FrameCount - 1
Boot     == 0                       \* the frame of page_table_0
None     == -1
Bogus    == FrameCount + 1          \* the frame number in (void*)-1
Targets  == Memory \cup {Screen} \cup Devices
\* The frames that are mapped one to one.
Window   == 0 .. Entries - 2

ASSUME PagingAssumption ==
    /\ FrameCount \in Nat /\ KernelEnd \in 1 .. FrameCount
    /\ Entries \in Nat \ {0, 1} /\ Entries < FrameCount
    /\ LowDirs # {} /\ LowDirs \cap HighDirs = {}
    /\ Devices \cap (Memory \cup {None, Screen, Bogus}) = {}
    /\ MaxPages \in Nat /\ TlbSize \in Nat

VARIABLES bitmap,       \* the frames marked as owned
          dir,          \* page_directory
          mem,          \* every frame, read as a page table
          tlb,          \* translations the CPU has kept
          asked,        \* what the callers of map_page have asked for
          unclean       \* a frame with old contents became a page table

vars == <<bitmap, dir, mem, tlb, asked, unclean>>

Empty == [t \in Slots |-> None]
\* A frame nobody has cleared.
Leftovers == [t \in Slots |-> Screen]

\* frames::init.
Reserved == 0 .. KernelEnd - 1

\* _start, then frames::init.
Init ==
    /\ bitmap = Reserved
    /\ dir = [d \in Dirs |-> IF d \in LowDirs THEN Boot ELSE None]
    /\ \E old \in SUBSET (Memory \ {Boot}) :
        mem = [f \in Memory |->
                 IF f = Boot THEN [t \in Slots |-> IF t \in Window THEN t ELSE Screen]
                 ELSE IF f \in old THEN Leftovers ELSE Empty]
    /\ tlb = {}
    /\ asked = [v \in {} |-> None]
    /\ unclean = FALSE

\* The MMU's walk: through the frames themselves.
Walk(d, t) == IF dir[d] \in Memory THEN mem[dir[d]][t] ELSE None

\* The frame a pointer to frame f leads to, or None: a page fault. No other
\* directory entry maps addresses as low as those of the frames.
Behind(f) == IF f \in Slots THEN mem[Boot][f] ELSE None

\* Mutant: the directory entry is used whether present or not.
VaddrNoCheck(d, t) ==
    LET f == IF dir[d] = None THEN 0 ELSE dir[d]
    IN  IF Behind(f) \in Memory THEN mem[Behind(f)][t] ELSE None

\* page_present and vaddr_to_paddr: the walk through pointers.
VaddrToPaddr(d, t) ==
    IF dir[d] = None THEN None
    ELSE IF Behind(dir[d]) \in Memory THEN mem[Behind(dir[d])][t] ELSE None

\* The directory entry is set before the table is written, so a page fault in
\* map_page, which stops the machine, leaves an entry that no pointer reaches.
Running == \A d \in Dirs : dir[d] # None => Behind(dir[d]) # None

----------------------------------------------------------------------------
\* frames::alloc: the first free frame, or -1.
FirstFree ==
    IF Memory \subseteq bitmap THEN Bogus
    ELSE CHOOSE f \in Memory \ bitmap : \A g \in Memory \ bitmap : f <= g

\* Mutant: alloc hands the frame out without marking it.
MarkNothing(f) == UNCHANGED bitmap

\* _mark_as_owned.
MarkAsOwned(f) == bitmap' = bitmap \cup ({f} \cap Memory)

\* page_table[t] = e through a pointer to frame f. A pointer that leads to the
\* screen, or nowhere, changes no page table.
Store(f, t, e) ==
    mem' = IF Behind(f) \in Memory THEN [mem EXCEPT ![Behind(f)][t] = e] ELSE mem

\* Mutant: unmap_page without invlpg.
NoInvlpg(d, t) == UNCHANGED tlb

\* The invlpg of unmap_page.
Invlpg(d, t) == tlb' = {e \in tlb : e[1] # <<d, t>>}

\* Mutant: map_page allocates a page table for every page.
MapPageNewTable(p, d, t) ==
    /\ <<d, t>> \notin DOMAIN asked /\ Cardinality(DOMAIN asked) < MaxPages
    /\ dir' = [dir EXCEPT ![d] = FirstFree]
    /\ MarkAsOwned(FirstFree)
    /\ unclean' = (unclean \/ (FirstFree \in Memory /\ mem[FirstFree] # Empty))
    /\ Store(dir'[d], t, p)
    /\ asked' = [v \in DOMAIN asked \cup {<<d, t>>} |-> IF v = <<d, t>> THEN p ELSE asked[v]]
    /\ UNCHANGED tlb

\* map_page. Its callers map a page once: it does not invalidate the TLB.
MapPage(p, d, t) ==
    /\ <<d, t>> \notin DOMAIN asked /\ Cardinality(DOMAIN asked) < MaxPages
    /\ IF dir[d] = None
       THEN /\ dir' = [dir EXCEPT ![d] = FirstFree]
            /\ MarkAsOwned(FirstFree)
            /\ unclean' = (unclean \/ (FirstFree \in Memory /\ mem[FirstFree] # Empty))
       ELSE UNCHANGED <<dir, bitmap, unclean>>
    /\ Store(dir'[d], t, p)
    /\ asked' = [v \in DOMAIN asked \cup {<<d, t>>} |-> IF v = <<d, t>> THEN p ELSE asked[v]]
    /\ UNCHANGED tlb

\* unmap_page, on a page that is mapped.
UnmapPage(d, t) ==
    /\ <<d, t>> \in DOMAIN asked
    /\ Store(dir[d], t, None)
    /\ Invlpg(d, t)
    /\ asked' = [v \in DOMAIN asked \ {<<d, t>>} |-> asked[v]]
    /\ UNCHANGED <<bitmap, dir, unclean>>

\* The CPU uses a present page and keeps its translation, or drops one.
Touch(d, t) ==
    /\ Walk(d, t) # None /\ Cardinality(tlb) < TlbSize
    /\ tlb' = tlb \cup {<< <<d, t>>, Walk(d, t) >>}
    /\ UNCHANGED <<bitmap, dir, mem, asked, unclean>>

Evict ==
    /\ \E e \in tlb : tlb' = tlb \ {e}
    /\ UNCHANGED <<bitmap, dir, mem, asked, unclean>>

Next ==
    /\ Running
    /\ \/ \E d \in HighDirs, t \in Slots, p \in Devices : MapPage(p, d, t)
       \/ \E d \in HighDirs, t \in Slots : UnmapPage(d, t)
       \/ \E d \in Dirs, t \in Slots : Touch(d, t)
       \/ Evict

Spec == Init /\ [][Next]_vars

----------------------------------------------------------------------------
\* Every page table lies in the window.
Reachable == \A d \in Dirs : dir[d] # None => dir[d] \in Window

\* A page table belongs to one directory entry, lies outside the kernel and is
\* marked in the bitmap, so that nobody is given its frame.
TablesPrivate ==
    \A d \in HighDirs :
        dir[d] \in Memory =>
            /\ dir[d] \in bitmap /\ dir[d] >= KernelEnd
            /\ \A e \in Dirs : e # d => dir[e] # dir[d]

\* The MMU translates every page as the callers asked, and if the page tables
\* were clean frames, no other page of theirs is present.
TranslationExact ==
    Reachable =>
        \A d \in HighDirs, t \in Slots :
            IF <<d, t>> \in DOMAIN asked THEN Walk(d, t) = asked[<<d, t>>]
            ELSE ~unclean => Walk(d, t) = None

\* vaddr_to_paddr, on which the driver's DMA addresses depend, finds what the
\* MMU finds.
SoftwareAgrees ==
    Reachable => \A d \in Dirs, t \in Slots : VaddrToPaddr(d, t) = Walk(d, t)

\* The CPU keeps no translation that the page tables no longer hold.
TlbCoherent ==
    Reachable /\ ~unclean => \A e \in tlb : Walk(e[1][1], e[1][2]) = e[2]
============================================================================
