---------------------------- MODULE PagingProofs ----------------------------
(***************************************************************************)
(* Proofs about module Paging, for every size of memory, of the kernel and *)
(* of a page table, every set of directory entries and every device: what  *)
(* map_page writes through pointers is what the MMU reads from frames.     *)
(***************************************************************************)
EXTENDS Paging, TLAPS, WellFoundedInduction

\* The frames, the directory and the tables, as far as their values matter.
PagingTypes ==
    /\ bitmap \subseteq Memory
    /\ dir \in [Dirs -> Memory \cup {None, Bogus}]
    /\ DOMAIN mem = Memory
    /\ \A f \in Memory : DOMAIN mem[f] = Slots
    /\ \A e \in tlb : e[1] \in Dirs \X Slots /\ e[2] # None

\* The first table, through which all others are written, stays as _start made it.
BootTable ==
    /\ mem[Boot] = [t \in Slots |-> IF t \in Window THEN t ELSE Screen]
    /\ \A d \in LowDirs : dir[d] = Boot
    /\ Reserved \subseteq bitmap

\* What has been asked for lies in a table, and names a device.
AskedFor ==
    \A v \in DOMAIN asked : /\ v \in HighDirs \X Slots
                            /\ dir[v[1]] # None
                            /\ asked[v] \in Devices

PagingInv == /\ PagingTypes /\ BootTable /\ AskedFor
             /\ TablesPrivate /\ TranslationExact /\ TlbCoherent

----------------------------------------------------------------------------
\* Facts about the constants.
LEMMA Numbers ==
  /\ Window \subseteq Memory /\ Window \subseteq Slots /\ Slots \subseteq Memory
  /\ Boot \in Memory /\ Boot \in Window /\ Boot \in Slots /\ Boot \in Reserved
  /\ Screen \notin Memory /\ Bogus \notin Memory /\ None \notin Memory
  /\ Bogus \notin Slots /\ None \notin Slots /\ Bogus # None
  /\ Devices \cap Memory = {} /\ None \notin Devices
  /\ \A f \in Memory : f \in Int /\ (f \notin Reserved => f >= KernelEnd)
  BY PagingAssumption DEF Window, Memory, Slots, Boot, Reserved, Screen, Bogus, None

\* Every set of numbers has a smallest one, so the search of frames::alloc ends.
LEMMA Least ==
  ASSUME NEW T, T \subseteq Nat, T # {}
  PROVE  \E x \in T : \A y \in T : x <= y
  <1> DEFINE R == OpToRel(<, Nat)
  <1>1. \E x \in T : \A y \in T : ~(<<y, x>> \in R)
    <2>1. IsWellFoundedOn(R, Nat)
      BY NatLessThanWellFounded
    <2> HIDE DEF R
    <2> QED BY <2>1, WFMin
  <1>2. \A x, y \in Nat : y < x => <<y, x>> \in R
    BY DEF OpToRel
  <1>3. PICK x \in T : \A y \in T : ~(<<y, x>> \in R)
    BY <1>1
  <1>4. \A y \in T : ~(y < x)
    <2> HIDE DEF R
    <2> QED BY <1>2, <1>3
  <1>5. \A y \in T : x <= y
    <2> SUFFICES ASSUME NEW y \in T PROVE x <= y
      OBVIOUS
    <2>1. ~(y < x) /\ x \in Nat /\ y \in Nat
      BY <1>4
    <2> QED BY <2>1
  <1> QED BY <1>5

\* frames::alloc returns a free frame, or -1 when there is none.
LEMMA FirstFreeFacts ==
  \/ FirstFree \in Memory \ bitmap
  \/ Memory \subseteq bitmap /\ FirstFree = Bogus
  <1>1. CASE Memory \subseteq bitmap
    BY <1>1 DEF FirstFree
  <1>2. CASE ~(Memory \subseteq bitmap)
    <2>1. Memory \ bitmap # {} /\ Memory \ bitmap \subseteq Nat
      BY <1>2, PagingAssumption DEF Memory
    <2>2. \E f \in Memory \ bitmap : \A g \in Memory \ bitmap : f <= g
      <3> DEFINE T == Memory \ bitmap
      <3> HIDE DEF T
      <3>1. \E x \in T : \A y \in T : x <= y
        BY <2>1, Least DEF T
      <3> QED BY <3>1 DEF T
    <2> QED BY <1>2, <2>2 DEF FirstFree
  <1> QED BY <1>1, <1>2

\* Through the first table a pointer reaches the frame it names, the screen, or
\* nothing.
LEMMA BehindIs ==
  ASSUME BootTable, NEW f
  PROVE  /\ f \in Window => Behind(f) = f
         /\ Behind(f) \in Memory => f \in Window
  <1>1. CASE f \in Slots
    BY <1>1, Numbers DEF BootTable, Behind
  <1>2. CASE f \notin Slots
    BY <1>2, Numbers DEF Behind
  <1> QED BY <1>1, <1>2

LEMMA Initially == Init => PagingInv
  <1> SUFFICES ASSUME Init PROVE PagingInv
    OBVIOUS
  <1>1. PICK old \in SUBSET (Memory \ {Boot}) :
          mem = [f \in Memory |->
                   IF f = Boot THEN [t \in Slots |-> IF t \in Window THEN t ELSE Screen]
                   ELSE IF f \in old THEN Leftovers ELSE Empty]
    BY DEF Init
  <1>2. PagingTypes
    <2>1. bitmap \subseteq Memory
      BY PagingAssumption DEF Init, Reserved, Memory
    <2>2. DOMAIN mem = Memory /\ \A f \in Memory : DOMAIN mem[f] = Slots
      BY <1>1 DEF Leftovers, Empty
    <2>3. dir \in [Dirs -> Memory \cup {None, Bogus}]
      BY Numbers DEF Init
    <2> QED BY <2>1, <2>2, <2>3 DEF Init, PagingTypes
  <1>3. BootTable
    BY <1>1, Numbers DEF Init, BootTable, Dirs
  <1>4. DOMAIN asked = {} /\ tlb = {}
    BY DEF Init
  <1>5. \A d \in HighDirs : dir[d] = None
    BY PagingAssumption DEF Init, Dirs
  <1>6. TablesPrivate
    BY <1>5, Numbers DEF TablesPrivate
  <1>7. TranslationExact
    BY <1>4, <1>5, Numbers DEF TranslationExact, Walk
  <1> QED BY <1>2, <1>3, <1>4, <1>6, <1>7 DEF PagingInv, AskedFor, TlbCoherent

----------------------------------------------------------------------------
(* Writing an entry of a table.                                            *)

LEMMA StoreEffect ==
  ASSUME PagingTypes, BootTable, NEW f, f # Boot, NEW t \in Slots, NEW e, Store(f, t, e)
  PROVE  /\ DOMAIN mem' = Memory
         /\ \A g \in Memory : DOMAIN mem'[g] = Slots
         /\ mem'[Boot] = mem[Boot]
         /\ \A g \in Memory, s \in Slots :
               mem'[g][s] = IF f \in Window /\ g = f /\ s = t THEN e ELSE mem[g][s]
  <1>1. CASE f \in Window
    <2>1. mem' = [mem EXCEPT ![f][t] = e] /\ f \in Memory
      <3>1. Behind(f) = f /\ f \in Memory
        BY <1>1, BehindIs, Numbers
      <3>2. mem' = IF Behind(f) \in Memory THEN [mem EXCEPT ![Behind(f)][t] = e] ELSE mem
        BY DEF Store
      <3> QED BY <3>1, <3>2, Zenon
    <2>2. DOMAIN mem = Memory /\ \A g \in Memory : DOMAIN mem[g] = Slots
      BY DEF PagingTypes
    <2>3. \A g \in Memory : mem'[g] = IF g = f THEN [mem[f] EXCEPT ![t] = e] ELSE mem[g]
      BY <2>1, <2>2
    <2>4. DOMAIN mem' = Memory
      BY <2>1, <2>2
    <2>5. \A s \in Slots : mem'[f][s] = IF s = t THEN e ELSE mem[f][s]
      BY <2>1, <2>2, <2>3
    <2>6. \A g \in Memory : DOMAIN mem'[g] = Slots
      BY <2>2, <2>3
    <2> QED BY <1>1, <2>1, <2>3, <2>4, <2>5, <2>6, Numbers
  <1>2. CASE f \notin Window
    <2>1. mem' = mem
      BY <1>2, BehindIs DEF Store
    <2> QED BY <1>2, <2>1 DEF PagingTypes
  <1> QED BY <1>1, <1>2

\* Storing through the entry of directory entry d changes the translation of
\* one page and of no other.
LEMMA WalkAfterStore ==
  ASSUME PagingTypes, BootTable, TablesPrivate, Reachable, dir' = dir,
         NEW d \in HighDirs, NEW t \in Slots, NEW e, dir[d] # None, Store(dir[d], t, e)
  PROVE  \A c \in Dirs, s \in Slots : Walk(c, s)' = IF c = d /\ s = t THEN e ELSE Walk(c, s)
  <1>1. dir[d] \in Window /\ dir[d] \in Memory /\ d \in Dirs
    BY Numbers DEF Reachable, Dirs
  <1>2. dir[d] # Boot
    BY <1>1, PagingAssumption DEF TablesPrivate, Boot
  <1>3. \A g \in Memory, s \in Slots :
               mem'[g][s] = IF g = dir[d] /\ s = t THEN e ELSE mem[g][s]
    BY <1>1, <1>2, StoreEffect
  <1>4. \A c \in Dirs : c # d => dir[c] # dir[d]
    BY <1>1 DEF TablesPrivate
  <1> QED BY <1>1, <1>3, <1>4 DEF Walk

----------------------------------------------------------------------------
(* unmap_page, and the CPU's use of its TLB.                               *)

LEMMA KeepsUnmap ==
  ASSUME PagingInv, NEW d \in HighDirs, NEW t \in Slots, UnmapPage(d, t)
  PROVE  PagingInv'
  <1> USE DEF PagingInv
  <1>1. /\ Store(dir[d], t, None) /\ dir' = dir /\ bitmap' = bitmap /\ unclean' = unclean
        /\ tlb' = {e \in tlb : e[1] # <<d, t>>}
        /\ asked' = [v \in DOMAIN asked \ {<<d, t>>} |-> asked[v]]
    BY DEF UnmapPage, Invlpg
  <1>2. dir[d] # None
    BY DEF UnmapPage, AskedFor
  <1>3. dir[d] # Boot
    BY Numbers, PagingAssumption DEF TablesPrivate, Boot
  <1>4. PagingTypes'
    BY <1>1, <1>3, StoreEffect DEF PagingTypes
  <1>5. BootTable'
    BY <1>1, <1>3, StoreEffect DEF BootTable
  <1>6. AskedFor'
    BY <1>1 DEF AskedFor
  <1>7. TablesPrivate'
    BY <1>1 DEF TablesPrivate
  <1>8. ASSUME Reachable
        PROVE  \A c \in Dirs, s \in Slots :
                  Walk(c, s)' = IF c = d /\ s = t THEN None ELSE Walk(c, s)
    BY <1>1, <1>2, <1>8, WalkAfterStore
  <1>9. Reachable' = Reachable
    BY <1>1 DEF Reachable
  <1>10. TranslationExact'
    <2> SUFFICES ASSUME Reachable, NEW c \in HighDirs, NEW s \in Slots
                 PROVE  IF <<c, s>> \in DOMAIN asked' THEN Walk(c, s)' = asked'[<<c, s>>]
                        ELSE ~unclean => Walk(c, s)' = None
      BY <1>1, <1>9 DEF TranslationExact
    <2>1. Walk(c, s)' = IF c = d /\ s = t THEN None ELSE Walk(c, s)
      BY <1>8 DEF Dirs
    <2> QED BY <1>1, <2>1 DEF TranslationExact
  <1>11. TlbCoherent'
    <2> SUFFICES ASSUME Reachable, ~unclean, NEW e \in tlb, e[1] # <<d, t>>
                 PROVE  Walk(e[1][1], e[1][2])' = e[2]
      BY <1>1, <1>9 DEF TlbCoherent
    <2>1. e[1] = <<e[1][1], e[1][2]>> /\ e[1][1] \in Dirs /\ e[1][2] \in Slots
      BY DEF PagingTypes
    <2>2. Walk(e[1][1], e[1][2])' = Walk(e[1][1], e[1][2])
      BY <1>8, <2>1
    <2> QED BY <2>2 DEF TlbCoherent
  <1> QED BY <1>4, <1>5, <1>6, <1>7, <1>10, <1>11

LEMMA KeepsTouch ==
  ASSUME PagingInv, NEW d \in Dirs, NEW t \in Slots, Touch(d, t)
  PROVE  PagingInv'
  <1> USE DEF PagingInv
  <1>1. /\ UNCHANGED <<bitmap, dir, mem, asked, unclean>>
        /\ tlb' = tlb \cup {<< <<d, t>>, Walk(d, t) >>} /\ Walk(d, t) # None
    BY DEF Touch
  <1>2. PagingTypes'
    BY <1>1 DEF PagingTypes
  <1>3. BootTable' /\ AskedFor' /\ TablesPrivate'
    BY <1>1 DEF BootTable, AskedFor, TablesPrivate
  <1>4. TranslationExact'
    BY <1>1 DEF TranslationExact, Reachable, Walk
  <1>5. TlbCoherent'
    BY <1>1 DEF TlbCoherent, Reachable, Walk
  <1> QED BY <1>2, <1>3, <1>4, <1>5

LEMMA KeepsEvict == ASSUME PagingInv, Evict PROVE PagingInv'
  <1> USE DEF PagingInv
  <1>1. UNCHANGED <<bitmap, dir, mem, asked, unclean>> /\ tlb' \subseteq tlb
    BY DEF Evict
  <1>2. PagingTypes'
    BY <1>1 DEF PagingTypes
  <1>3. BootTable' /\ AskedFor' /\ TablesPrivate'
    BY <1>1 DEF BootTable, AskedFor, TablesPrivate
  <1>4. TranslationExact'
    BY <1>1 DEF TranslationExact, Reachable, Walk
  <1>5. TlbCoherent'
    BY <1>1 DEF TlbCoherent, Reachable, Walk
  <1> QED BY <1>2, <1>3, <1>4, <1>5

----------------------------------------------------------------------------
(* map_page, with a table that is there and with a new one.                *)

\* What both cases share: the page is asked for once.
LEMMA AskedAfterMap ==
  ASSUME AskedFor, NEW p \in Devices, NEW d \in HighDirs, NEW t \in Slots,
         <<d, t>> \notin DOMAIN asked,
         asked' = [v \in DOMAIN asked \cup {<<d, t>>} |-> IF v = <<d, t>> THEN p ELSE asked[v]],
         dir'[d] # None, \A c \in HighDirs : dir[c] # None => dir'[c] # None
  PROVE  AskedFor'
  <1> SUFFICES ASSUME NEW v \in DOMAIN asked'
               PROVE  v \in HighDirs \X Slots /\ dir'[v[1]] # None /\ asked'[v] \in Devices
    BY DEF AskedFor
  <1>1. CASE v = <<d, t>>
    BY <1>1
  <1>2. CASE v # <<d, t>>
    BY <1>2 DEF AskedFor
  <1> QED BY <1>1, <1>2

LEMMA KeepsMapOld ==
  ASSUME PagingInv, NEW p \in Devices, NEW d \in HighDirs, NEW t \in Slots, MapPage(p, d, t),
         dir[d] # None
  PROVE  PagingInv'
  <1> USE DEF PagingInv
  <1>1. /\ UNCHANGED <<dir, bitmap, unclean, tlb>> /\ <<d, t>> \notin DOMAIN asked
        /\ Store(dir[d], t, p)
        /\ asked' = [v \in DOMAIN asked \cup {<<d, t>>} |-> IF v = <<d, t>> THEN p ELSE asked[v]]
    BY DEF MapPage
  <1>2. dir[d] # Boot
    BY Numbers, PagingAssumption DEF TablesPrivate, Boot
  <1>3. PagingTypes'
    BY <1>1, <1>2, StoreEffect DEF PagingTypes
  <1>4. BootTable'
    BY <1>1, <1>2, StoreEffect DEF BootTable
  <1>5. AskedFor'
    BY <1>1, AskedAfterMap
  <1>6. TablesPrivate'
    BY <1>1 DEF TablesPrivate
  <1>7. Reachable' = Reachable
    BY <1>1 DEF Reachable
  <1>8. ASSUME Reachable
        PROVE  \A c \in Dirs, s \in Slots :
                  Walk(c, s)' = IF c = d /\ s = t THEN p ELSE Walk(c, s)
    BY <1>1, <1>8, WalkAfterStore
  <1>9. TranslationExact'
    <2> SUFFICES ASSUME Reachable, NEW c \in HighDirs, NEW s \in Slots
                 PROVE  IF <<c, s>> \in DOMAIN asked' THEN Walk(c, s)' = asked'[<<c, s>>]
                        ELSE ~unclean => Walk(c, s)' = None
      BY <1>1, <1>7 DEF TranslationExact
    <2>1. Walk(c, s)' = IF c = d /\ s = t THEN p ELSE Walk(c, s)
      BY <1>8 DEF Dirs
    <2> QED BY <1>1, <2>1 DEF TranslationExact
  <1>10. TlbCoherent'
    <2> SUFFICES ASSUME Reachable, ~unclean, NEW e \in tlb
                 PROVE  Walk(e[1][1], e[1][2])' = e[2]
      BY <1>1, <1>7 DEF TlbCoherent
    <2>1. /\ e[1] = <<e[1][1], e[1][2]>> /\ e[1][1] \in Dirs /\ e[1][2] \in Slots
          /\ e[2] # None
      BY DEF PagingTypes
    <2>2. Walk(e[1][1], e[1][2]) = e[2]
      BY DEF TlbCoherent
    <2>3. Walk(d, t) = None
      BY <1>1 DEF TranslationExact
    <2> QED BY <1>8, <2>1, <2>2, <2>3
  <1> QED BY <1>3, <1>4, <1>5, <1>6, <1>9, <1>10

\* No frame is left: the entry names no frame, and every page of it faults.
\* Otherwise the new table is a frame that no directory entry uses.
LEMMA KeepsMapNew ==
  ASSUME PagingInv, NEW p \in Devices, NEW d \in HighDirs, NEW t \in Slots, MapPage(p, d, t),
         dir[d] = None
  PROVE  PagingInv'
  <1> USE DEF PagingInv
  <1> DEFINE f == FirstFree
  <1>1. /\ dir' = [dir EXCEPT ![d] = f] /\ bitmap' = bitmap \cup ({f} \cap Memory)
        /\ unclean' = (unclean \/ (f \in Memory /\ mem[f] # Empty))
        /\ tlb' = tlb /\ <<d, t>> \notin DOMAIN asked
        /\ Store(dir'[d], t, p)
        /\ asked' = [v \in DOMAIN asked \cup {<<d, t>>} |-> IF v = <<d, t>> THEN p ELSE asked[v]]
    BY DEF MapPage, MarkAsOwned
  <1>2. f \in Memory \ bitmap \/ f = Bogus
    BY FirstFreeFacts
  <1> HIDE DEF f
  <1>3. d \in Dirs /\ d \notin LowDirs
    BY PagingAssumption DEF Dirs
  <1>4. /\ dir'[d] = f /\ \A c \in Dirs : c # d => dir'[c] = dir[c]
        /\ dir' \in [Dirs -> Memory \cup {None, Bogus}]
    BY <1>1, <1>2, <1>3 DEF PagingTypes
  <1>5. f # Boot /\ f # None
    BY <1>2, Numbers DEF BootTable
  <1>6. PagingTypes'
    BY <1>1, <1>4, <1>5, StoreEffect DEF PagingTypes
  <1>7. BootTable'
    BY <1>1, <1>3, <1>4, <1>5, StoreEffect DEF BootTable, Dirs
  <1>8. AskedFor'
    <2>1. dir'[d] # None /\ \A c \in HighDirs : dir[c] # None => dir'[c] # None
      BY <1>4, <1>5 DEF Dirs
    <2> QED BY <1>1, <2>1, AskedAfterMap
  <1>9. f \in Memory => \A c \in Dirs : c # d => dir[c] # f
    <2> SUFFICES ASSUME NEW c \in Dirs, dir[c] = f, f \in Memory, c # d PROVE FALSE
      OBVIOUS
    <2>1. f \notin bitmap
      BY <1>2, Numbers
    <2>2. CASE c \in HighDirs
      BY <2>1, <2>2 DEF TablesPrivate
    <2>3. CASE c \in LowDirs
      BY <2>3, <1>5 DEF BootTable
    <2> QED BY <2>2, <2>3 DEF Dirs
  <1>10. TablesPrivate'
    <2> SUFFICES ASSUME NEW c \in HighDirs, dir'[c] \in Memory
                 PROVE  /\ dir'[c] \in bitmap' /\ dir'[c] >= KernelEnd
                        /\ \A e \in Dirs : e # c => dir'[e] # dir'[c]
      BY DEF TablesPrivate
    <2>0. c \in Dirs
      BY DEF Dirs
    <2>1. CASE c = d
      <3>1. f \in Memory /\ f \notin bitmap
        BY <1>2, <1>4, <2>1, Numbers
      <3>2. f >= KernelEnd
        BY <3>1, Numbers DEF BootTable
      <3> QED BY <1>1, <1>4, <1>9, <2>1, <3>1, <3>2
    <2>2. CASE c # d
      BY <1>1, <1>4, <1>9, <2>0, <2>2 DEF TablesPrivate
    <2> QED BY <2>1, <2>2
  <1>11. ASSUME Reachable'
         PROVE  /\ Reachable /\ f \in Window /\ f \in Memory
                /\ \A s \in Slots : Walk(d, s)' = IF s = t THEN p ELSE mem[f][s]
                /\ \A c \in Dirs, s \in Slots : c # d => Walk(c, s)' = Walk(c, s)
    <2>1. f \in Window /\ f \in Memory
      BY <1>3, <1>4, <1>5, <1>11, Numbers DEF Reachable
    <2>2. Reachable
      BY <1>4, <1>11 DEF Reachable
    <2>3. \A g \in Memory, s \in Slots : mem'[g][s] = IF g = f /\ s = t THEN p ELSE mem[g][s]
      BY <1>1, <1>4, <1>5, <2>1, StoreEffect
    <2>4. \A s \in Slots : Walk(d, s)' = IF s = t THEN p ELSE mem[f][s]
      BY <1>4, <2>1, <2>3 DEF Walk
    <2>5. \A c \in Dirs, s \in Slots : c # d => Walk(c, s)' = Walk(c, s)
      BY <1>4, <1>9, <2>1, <2>3 DEF Walk
    <2> QED BY <2>1, <2>2, <2>4, <2>5
  <1>12. TranslationExact'
    <2> SUFFICES ASSUME Reachable', NEW c \in HighDirs, NEW s \in Slots
                 PROVE  IF <<c, s>> \in DOMAIN asked' THEN Walk(c, s)' = asked'[<<c, s>>]
                        ELSE ~unclean' => Walk(c, s)' = None
      BY DEF TranslationExact
    <2>1. CASE c # d
      <3>1. Walk(c, s)' = Walk(c, s) /\ Reachable
        BY <1>11, <2>1 DEF Dirs
      <3> QED BY <1>1, <2>1, <3>1 DEF TranslationExact
    <2>2. CASE c = d /\ s = t
      BY <1>1, <1>11, <2>2
    <2>3. CASE c = d /\ s # t
      <3>1. <<c, s>> \notin DOMAIN asked'
        <4>1. <<c, s>> \notin DOMAIN asked
          BY <2>3 DEF AskedFor
        <4> QED BY <1>1, <2>3, <4>1
      <3>2. ~unclean' => mem[f][s] = None
        BY <1>1, <1>11 DEF Empty
      <3> QED BY <1>11, <2>3, <3>1, <3>2
    <2> QED BY <2>1, <2>2, <2>3
  <1>13. TlbCoherent'
    <2> SUFFICES ASSUME Reachable', ~unclean', NEW e \in tlb
                 PROVE  Walk(e[1][1], e[1][2])' = e[2]
      BY <1>1 DEF TlbCoherent
    <2>1. e[1][1] \in Dirs /\ e[1][2] \in Slots /\ e[2] # None
      BY DEF PagingTypes
    <2>2. Walk(e[1][1], e[1][2]) = e[2]
      BY <1>1, <1>11 DEF TlbCoherent
    <2>3. e[1][1] # d
      BY <2>1, <2>2, Numbers DEF Walk
    <2> QED BY <1>11, <2>1, <2>2, <2>3
  <1> QED BY <1>6, <1>7, <1>8, <1>10, <1>12, <1>13

----------------------------------------------------------------------------
(* The theorems.                                                           *)

\* The inductive invariant of the page tables: the table of the boot code is
\* never written, tables are private frames, and the MMU, the callers and the
\* TLB agree on every page as long as all tables lie in the one-to-one window.
THEOREM PagingInvariant == Spec => []PagingInv
  <1>1. PagingInv /\ UNCHANGED vars => PagingInv'
    BY DEF PagingInv, vars, PagingTypes, BootTable, AskedFor, TablesPrivate,
           TranslationExact, TlbCoherent, Reachable, Walk
  <1>2. PagingInv /\ [Next]_vars => PagingInv'
    BY <1>1, KeepsMapOld, KeepsMapNew, KeepsUnmap, KeepsTouch, KeepsEvict DEF Next
  <1> QED BY Initially, <1>2, PTL DEF Spec

\* frames::alloc never gives map_page a frame that holds another page table or
\* the kernel, for every size of memory.
THEOREM TablesSafe == Spec => []TablesPrivate
  <1>1. PagingInv => TablesPrivate
    BY DEF PagingInv
  <1> QED BY PagingInvariant, <1>1, PTL

\* After any history of map_page and unmap_page the MMU translates exactly the
\* pages that are mapped, and to the frames asked for.
THEOREM TranslationSafe == Spec => []TranslationExact
  <1>1. PagingInv => TranslationExact
    BY DEF PagingInv
  <1> QED BY PagingInvariant, <1>1, PTL

\* vaddr_to_paddr, which follows pointers, finds what the MMU finds in frames.
THEOREM SoftwareWalkSafe == Spec => []SoftwareAgrees
  <1>1. PagingInv => SoftwareAgrees
    <2> SUFFICES ASSUME PagingInv, Reachable, NEW d \in Dirs, NEW t \in Slots
                 PROVE  VaddrToPaddr(d, t) = Walk(d, t)
      BY DEF SoftwareAgrees
    <2>1. CASE dir[d] = None
      BY <2>1, Numbers DEF VaddrToPaddr, Walk
    <2>2. CASE dir[d] # None
      <3>1. dir[d] \in Window /\ dir[d] \in Memory /\ Behind(dir[d]) = dir[d]
        BY <2>2, BehindIs, Numbers DEF Reachable, PagingInv
      <3> QED BY <2>2, <3>1 DEF VaddrToPaddr, Walk
    <2> QED BY <2>1, <2>2
  <1> QED BY PagingInvariant, <1>1, PTL

\* map_page needs no invlpg, since it only fills entries that were not present,
\* and unmap_page's one is enough: no stale translation stays in the TLB.
THEOREM TlbSafe == Spec => []TlbCoherent
  <1>1. PagingInv => TlbCoherent
    BY DEF PagingInv
  <1> QED BY PagingInvariant, <1>1, PTL
=============================================================================
