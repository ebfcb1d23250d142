----------------------------- MODULE BootProofs -----------------------------
(***************************************************************************)
(* Proofs about the boot loader, for every disk geometry, every chain of   *)
(* clusters and every directory.                                           *)
(***************************************************************************)
EXTENDS Nosokldr, Stage1, Integers, SequenceTheorems, TLAPS

LEMMA Bounds == DirEntries \in Nat /\ MaxChain \in Nat
  BY DiskAssumption

----------------------------------------------------------------------------
(* Sectors: lba2chs and INT 13h undo each other.                           *)

LEMMA DivMod ==
  ASSUME NEW n \in Nat \ {0}, NEW k \in Nat
  PROVE  /\ k \div n \in Nat /\ k % n \in Nat /\ k % n < n
         /\ k = (k \div n) * n + (k % n)
  BY SMT

\* A number below the modulus is its own remainder.
LEMMA SmallMod ==
  ASSUME NEW n \in Nat \ {0}, NEW k \in Nat, k < n
  PROVE  k % n = k
  BY SMT

\* A number below a product has a quotient below the other factor.
LEMMA QuotientBelow ==
  ASSUME NEW n \in Nat \ {0}, NEW p \in Nat, NEW k \in Nat, k < p * n
  PROVE  k \div n < p
  <1>1. k \div n \in Nat /\ (k \div n) * n <= k
    BY DivMod
  <1> DEFINE q == k \div n
  <1> HIDE DEF q
  <1>2. q \in Nat /\ q * n <= k
    BY <1>1 DEF q
  <1>3. p <= q => p * n <= q * n
    BY <1>2
  <1>4. p * n \in Nat /\ q * n \in Nat
    BY <1>2
  <1>5. ~(p <= q)
    BY <1>2, <1>3, <1>4
  <1> QED BY <1>2, <1>5 DEF q

LEMMA RoundTrip ==
  ASSUME NEW g \in (1 .. 63) \X (1 .. 255), NEW lba \in Nat, lba < 256 * g[1] * g[2]
  PROVE  Int13(Lba2chs(lba, g), g) = lba
  <1> DEFINE track == lba \div g[1]
             cyl   == track \div g[2]
  <1>1. g[1] \in Nat \ {0} /\ g[2] \in Nat \ {0}
    OBVIOUS
  <1>2. track \in Nat /\ lba % g[1] \in Nat /\ lba = track * g[1] + (lba % g[1])
    BY <1>1, DivMod
  <1>3. 256 * g[1] * g[2] = (256 * g[2]) * g[1] /\ 256 * g[2] \in Nat
    BY <1>1
  <1>4. track < 256 * g[2]
    BY <1>1, <1>3, QuotientBelow
  <1> HIDE DEF track
  <1>5. cyl \in Nat /\ track % g[2] \in Nat /\ track = cyl * g[2] + (track % g[2])
    BY <1>1, <1>2, DivMod
  <1>6. cyl < 256
    BY <1>1, <1>2, <1>4, QuotientBelow
  <1> HIDE DEF cyl
  <1>7. cyl % 256 = cyl
    BY <1>5, <1>6
  <1>8. Int13(Lba2chs(lba, g), g)
          = ((cyl % 256) * g[2] + (track % g[2])) * g[1] + ((lba % g[1]) + 1) - 1
    BY DEF Int13, Lba2chs, track, cyl
  <1>9. Int13(Lba2chs(lba, g), g) = track * g[1] + ((lba % g[1]) + 1) - 1
    BY <1>5, <1>7, <1>8
  <1>10. track * g[1] \in Nat
    BY <1>1, <1>2
  <1> QED BY <1>2, <1>9, <1>10

LEMMA DriveReadInt ==
  ASSUME geo \in Geometries, NEW lba \in Nat PROVE DriveRead(lba) \in Int
  <1>1. geo[1] \in Nat \ {0} /\ geo[2] \in Nat \ {0}
    BY DiskAssumption
  <1> DEFINE k == lba % 65536
             chs == Lba2chs(k, geo)
  <1>2. k \in Nat
    BY DivMod
  <1> HIDE DEF k
  <1>3. k \div geo[1] \in Nat /\ k % geo[1] \in Nat
    BY <1>1, <1>2, DivMod
  <1>4. (k \div geo[1]) \div geo[2] \in Nat /\ (k \div geo[1]) % geo[2] \in Nat
    BY <1>1, <1>3, DivMod
  <1>5. chs.c \in Nat /\ chs.h \in Nat /\ chs.s \in Nat
    BY <1>3, <1>4 DEF Lba2chs
  <1> HIDE DEF chs
  <1>6. chs.c % 256 \in Nat
    BY <1>5, DivMod
  <1>7. Int13(chs, geo) \in Int
    BY <1>1, <1>5, <1>6 DEF Int13
  <1> QED BY <1>7 DEF DriveRead, chs, k

\* A sector of the tables is found on every disk.
LEMMA TablesFound ==
  ASSUME geo \in Geometries
  PROVE  DriveRead(ReservedSecs) = ReservedSecs /\ DriveRead(RootSect) = RootSect
  <1>1. geo \in (1 .. 63) \X (1 .. 255)
    BY DiskAssumption
  <1>2. geo[1] \in Nat /\ geo[2] \in Nat /\ geo[1] >= 1 /\ geo[2] >= 1
    BY <1>1
  <1>3. geo[1] * geo[2] \in Nat /\ geo[1] * geo[2] >= 1
    BY <1>2
  <1>4. 256 * geo[1] * geo[2] = 256 * (geo[1] * geo[2])
    BY <1>2
  <1>5. 256 * geo[1] * geo[2] >= 256 /\ 256 * geo[1] * geo[2] \in Nat
    BY <1>3, <1>4
  <1>6. ReservedSecs = 4 /\ RootSect = 132
    BY DEF RootSect, ReservedSecs, FatCount, SecsPerFat
  <1>7. Int13(Lba2chs(4, geo), geo) = 4 /\ Int13(Lba2chs(132, geo), geo) = 132
    BY <1>1, <1>5, RoundTrip
  <1> QED BY <1>6, <1>7 DEF DriveRead

\* Sector numbers of files fit 16 bits.
LEMMA SectorRange ==
  ASSUME NEW c \in Clusters PROVE SectorOf(c) \in Nat /\ SectorOf(c) < 65536
  <1>1. FirstData = 164
    BY DEF FirstData, RootSect, RootSecs, ReservedSecs, FatCount, SecsPerFat
  <1>2. c \in 2 .. 16344
    BY DiskAssumption
  <1> QED BY <1>1, <1>2 DEF SectorOf, SecsPerCluster

\* So is a sector of a file, up to cylinder 255.
LEMMA FileSectorFound ==
  ASSUME geo \in Geometries, NEW c \in Clusters, Addressable(SectorOf(c))
  PROVE  DriveRead(SectorOf(c)) = SectorOf(c)
  <1>1. SectorOf(c) \in Nat /\ SectorOf(c) < 65536
    BY SectorRange
  <1>2. Int13(Lba2chs(SectorOf(c), geo), geo) = SectorOf(c)
    <2>1. geo \in (1 .. 63) \X (1 .. 255)
      BY DiskAssumption
    <2>2. SectorOf(c) < 256 * geo[1] * geo[2]
      BY DEF Addressable
    <2> QED BY ONLY <1>1, <2>1, <2>2, RoundTrip
  <1>3. SectorOf(c) % 65536 = SectorOf(c)
    BY <1>1
  <1> QED BY <1>2, <1>3 DEF DriveRead

\* A chain is a sequence of clusters, each followed by the next, the last by EOF.
LEMMA ChainFacts ==
  ASSUME NEW c, NEW max \in Nat, c \in Chains(max)
  PROVE  /\ Len(c) \in Nat /\ Len(c) >= 1
         /\ \A k \in 1 .. Len(c) : c[k] \in Clusters
         /\ \A k \in 1 .. Len(c) : Link(c, c[k]) = IF k = Len(c) THEN EOF ELSE c[k + 1]
  <1>1. PICK n \in 1 .. max : /\ c \in [1 .. n -> Clusters]
                            /\ \A i1, j1 \in 1 .. n : i1 # j1 => c[i1] # c[j1]
    BY DEF Chains
  <1>2. n \in Nat /\ n >= 1 /\ c \in Seq(Clusters) /\ Len(c) = n
    BY <1>1
  <1>3. ASSUME NEW k \in 1 .. Len(c)
        PROVE  Link(c, c[k]) = IF k = Len(c) THEN EOF ELSE c[k + 1]
    <2>1. \A j \in 1 .. Len(c) : c[j] = c[k] <=> j = k
      BY <1>1, <1>2
    <2>2. (CHOOSE j \in 1 .. Len(c) : c[j] = c[k]) = k
      BY <2>1
    <2> QED BY <2>2 DEF Link
  <1> QED BY <1>1, <1>2, <1>3

----------------------------------------------------------------------------
(* The second stage: the file in memory.                                   *)

\* The k-th read went where it belongs and found what it was asked for.
ReadRight(k) ==
    LET address == KernelImageAddr + (k - 1) * ClusterBytes
    IN  /\ address < Megabyte => image[k][1] = address
        /\ Addressable(SectorOf(chain[k])) => image[k][2] \in {SectorOf(chain[k]), Stale}

\* As far as KERNEL has been read, it was read right.
ReadInv ==
    /\ image \in Seq(Int \X Int) /\ Len(image) <= Len(chain)
    /\ \A k \in 1 .. Len(image) : ReadRight(k)

Loaded == {"copy", "display", "modes", "enter", "kernel"}
Places == {"fat", "root", "scan", "read", "halt"} \cup Loaded

\* Where the search and the loop over the clusters are.
LoopInv ==
    /\ pc \in Places /\ i \in Nat
    /\ geo \in Geometries /\ chain \in Chains(MaxChain)
    /\ at \in 0 .. DirEntries
    /\ pc = "fat" => tables = << >>
    /\ pc = "root" => tables = <<ReservedSecs>>
    /\ pc \notin {"fat", "root"} => tables = <<ReservedSecs, RootSect>>
    /\ pc \in {"fat", "root"} => i = 0
    /\ pc \in {"fat", "root", "scan"} =>
        image = << >> \/ (Len(image) = Len(chain) /\ i > at)
    /\ pc = "read" =>
        /\ i = at /\ offset = Len(image) * ClusterBytes
        /\ cluster = IF Len(image) < Len(chain) THEN chain[Len(image) + 1] ELSE EOF
    /\ pc \in Loaded => Len(image) = Len(chain)

LoaderInv == ReadInv /\ LoopInv

LEMMA LoaderInit == Init => LoaderInv
  <1> SUFFICES ASSUME Init PROVE LoaderInv
    OBVIOUS
  <1>1. chain \in Chains(MaxChain) /\ Len(chain) \in Nat
    BY ChainFacts, Bounds DEF Init
  <1>2. ReadInv
    BY <1>1 DEF Init, ReadInv
  <1>3. LoopInv
    BY <1>1 DEF Init, LoopInv, Places, Loaded
  <1> QED BY <1>2, <1>3 DEF LoaderInv

\* Steps that read no cluster keep what was read.
LEMMA KeepRead == ReadInv /\ UNCHANGED <<boot, image>> => ReadInv'
  BY DEF ReadInv, ReadRight, Addressable, boot, file

LEMMA AppendPair == ASSUME NEW a \in Nat, NEW b \in Nat PROVE Append(<<a>>, b) = <<a, b>>
  <1>1. <<a>> \in Seq(Nat) /\ Len(<<a>>) = 1 /\ <<a, b>> \in Seq(Nat) /\ Len(<<a, b>>) = 2
    OBVIOUS
  <1>2. /\ Append(<<a>>, b) \in Seq(Nat) /\ Len(Append(<<a>>, b)) = 2
        /\ Append(<<a>>, b)[1] = a /\ Append(<<a>>, b)[2] = b
    BY <1>1
  <1>3. ASSUME NEW k \in 1 .. Len(Append(<<a>>, b)) PROVE Append(<<a>>, b)[k] = <<a, b>>[k]
    <2>1. k = 1 \/ k = 2
      BY <1>2
    <2> QED BY <1>2, <2>1
  <1> DEFINE s == Append(<<a>>, b)
             t == <<a, b>>
  <1>4. s \in Seq(Nat) /\ t \in Seq(Nat) /\ Len(s) = Len(t) /\ \A k \in 1 .. Len(s) : s[k] = t[k]
    BY <1>1, <1>2, <1>3
  <1> HIDE DEF s, t
  <1>5. s = t
    BY <1>4, SeqEqual
  <1> QED BY <1>5 DEF s, t

LEMMA KeepsTables == ASSUME LoaderInv, ReadFat \/ ReadRoot PROVE LoaderInv'
  <1>1. ReadInv'
    BY KeepRead DEF LoaderInv, ReadFat, ReadRoot
  <1>2. DriveRead(ReservedSecs) = ReservedSecs /\ DriveRead(RootSect) = RootSect
    BY TablesFound DEF LoaderInv, LoopInv
  <1>3. CASE ReadFat
    <2>1. tables' = <<ReservedSecs>>
      BY <1>2, <1>3 DEF LoaderInv, LoopInv, ReadFat, Goto
    <2> QED BY <1>1, <1>3, <2>1 DEF LoaderInv, LoopInv, ReadFat, Goto, boot, file, Places, Loaded
  <1>4. CASE ReadRoot
    <2>1. tables = <<ReservedSecs>> /\ tables' = Append(tables, RootSect)
      BY <1>2, <1>4 DEF LoaderInv, LoopInv, ReadRoot, Goto
    <2>2. ReservedSecs \in Nat /\ RootSect \in Nat
      BY DEF RootSect, ReservedSecs, FatCount, SecsPerFat
    <2>3. tables' = <<ReservedSecs, RootSect>>
      BY <2>1, <2>2, AppendPair
    <2> QED BY <1>1, <1>4, <2>3 DEF LoaderInv, LoopInv, ReadRoot, Goto, boot, file, Places, Loaded
  <1> QED BY <1>3, <1>4

LEMMA KeepsScan == ASSUME LoaderInv, Scan PROVE LoaderInv'
  <1>1. ReadInv'
    BY KeepRead DEF LoaderInv, Scan
  <1>2. Len(chain) >= 1 /\ Len(chain) \in Nat
    BY ChainFacts, Bounds DEF LoaderInv, LoopInv
  <1>3. CASE IsKernel
    <2>1. image = << >> /\ i = at
      BY <1>3 DEF LoaderInv, LoopInv, Scan, IsKernel
    <2>2. Len(image) = 0 /\ Len(image) * ClusterBytes = 0
      BY <2>1 DEF ClusterBytes, SecsPerCluster
    <2> QED BY <1>1, <1>2, <1>3, <2>1, <2>2
            DEF LoaderInv, LoopInv, Scan, boot, file, Places, Loaded
  <1>4. CASE ~IsKernel
    BY <1>1, <1>4 DEF LoaderInv, LoopInv, Scan, boot, file, Places, Loaded
  <1> QED BY <1>3, <1>4

LEMMA KeepsReadDone == ASSUME LoaderInv, ReadDone PROVE LoaderInv'
  <1>1. ReadInv'
    BY KeepRead DEF LoaderInv, ReadDone, load
  <1>2. \A k \in 1 .. Len(chain) : chain[k] \in Nat /\ chain[k] < 65528
    <2>1. ASSUME NEW c \in Clusters PROVE c \in Nat /\ c < 65528
      <3>1. c \in 2 .. 16344
        BY DiskAssumption
      <3> QED BY <3>1
    <2>2. \A k \in 1 .. Len(chain) : chain[k] \in Clusters
      BY ChainFacts, Bounds DEF LoaderInv, LoopInv
    <2> QED BY <2>1, <2>2
  <1>3. Len(image) = Len(chain)
    <2>1. Len(image) \in Nat /\ Len(chain) \in Nat /\ Len(image) <= Len(chain)
      BY ChainFacts, Bounds DEF LoaderInv, LoopInv, ReadInv
    <2>2. ~(Len(image) < Len(chain))
      <3> SUFFICES ASSUME Len(image) < Len(chain) PROVE FALSE
        OBVIOUS
      <3>1. cluster = chain[Len(image) + 1] /\ cluster >= 65528
        BY DEF LoaderInv, LoopInv, ReadDone, Goto
      <3>2. chain[Len(image) + 1] < 65528 /\ chain[Len(image) + 1] \in Nat
        BY <1>2, <2>1
      <3> QED BY <3>1, <3>2
    <2> QED BY <2>1, <2>2
  <1> QED BY <1>1, <1>3 DEF LoaderInv, LoopInv, ReadDone, Goto, boot, load, file, Places, Loaded

\* CheckElf, CopySegment and setup_display.
LEMMA KeepsRest ==
  ASSUME LoaderInv, CheckElf \/ CopySegment \/ GetEdid \/ TryMode \/ Fallback \/ Enter
  PROVE  LoaderInv'
  <1>1. UNCHANGED <<boot, load>>
    BY DEF CheckElf, CopySegment, GetEdid, TryMode, Fallback, Enter
  <1>2. ReadInv'
    BY <1>1, KeepRead DEF LoaderInv, load
  <1>3. Len(image') = Len(image) /\ chain' = chain /\ tables' = tables
    BY <1>1 DEF boot, file, load
  <1> USE DEF LoaderInv, LoopInv, boot, load, file, Places, Loaded
  <1>4. CASE CheckElf
    BY <1>1, <1>2, <1>3, <1>4 DEF CheckElf, HeaderRead
  <1>5. CASE CopySegment
    BY <1>1, <1>2, <1>3, <1>5 DEF CopySegment
  <1>6. CASE GetEdid
    BY <1>1, <1>2, <1>3, <1>6 DEF GetEdid
  <1>7. CASE TryMode
    BY <1>1, <1>2, <1>3, <1>7 DEF TryMode
  <1>8. CASE Fallback
    BY <1>1, <1>2, <1>3, <1>8 DEF Fallback, Goto
  <1>9. CASE Enter
    BY <1>1, <1>2, <1>3, <1>9 DEF Enter, Goto
  <1> QED BY <1>4, <1>5, <1>6, <1>7, <1>8, <1>9

\* es:bx is the address it is made of below the first megabyte.
LEMMA BufferBelow == ASSUME NEW a \in Nat, a < Megabyte PROVE Buffer(a) = a
  BY DEF Buffer, Megabyte

LEMMA KeepsReadCluster == ASSUME LoaderInv, ReadCluster PROVE LoaderInv'
  <1>0. PICK n \in Nat : n = Len(image)
    BY DEF LoaderInv, ReadInv
  <1> DEFINE address == KernelImageAddr + n * ClusterBytes
  <1>1. /\ Len(chain) \in Nat /\ n \in Nat /\ n <= Len(chain)
        /\ \A k \in 1 .. Len(chain) : chain[k] \in Clusters
        /\ \A k \in 1 .. Len(chain) :
              Link(chain, chain[k]) = IF k = Len(chain) THEN EOF ELSE chain[k + 1]
    BY <1>0, ChainFacts, Bounds DEF LoaderInv, LoopInv, ReadInv
  <1>2. n < Len(chain) /\ cluster = chain[n + 1]
    BY <1>0, <1>1 DEF LoaderInv, LoopInv, ReadCluster, EOF
  <1>3. cluster \in Clusters /\ n + 1 \in 1 .. Len(chain)
    BY <1>1, <1>2
  <1>4. cluster' = IF n + 1 = Len(chain) THEN EOF ELSE chain[n + 2]
    BY <1>1, <1>2, <1>3 DEF ReadCluster
  <1>5. /\ ClusterBytes = 2048 /\ KernelImageAddr = 262144
        /\ address \in Nat /\ offset = n * ClusterBytes
        /\ offset' = (n + 1) * ClusterBytes
    BY <1>0, <1>1 DEF LoaderInv, LoopInv, ReadCluster, ClusterBytes, SecsPerCluster, KernelImageAddr
  <1>6. PICK s \in {DriveRead(SectorOf(cluster)), Stale} :
            image' = Append(image, <<Buffer(address), s>>)
    BY <1>5 DEF ReadCluster
  <1>7. Buffer(address) \in Int /\ s \in Int
    <2>1. Buffer(address) \in Int
      BY <1>5 DEF Buffer
    <2>2. SectorOf(cluster) \in Nat
      BY <1>3, SectorRange
    <2>3. DriveRead(SectorOf(cluster)) \in Int
      BY <1>3, <2>2, DriveReadInt DEF LoaderInv, LoopInv
    <2> QED BY <2>1, <2>3, <1>6 DEF Stale
  <1>8. /\ image \in Seq(Int \X Int) /\ image' \in Seq(Int \X Int) /\ Len(image') = n + 1
        /\ image'[n + 1] = <<Buffer(address), s>>
        /\ \A k \in 1 .. n : image'[k] = image[k]
    <2> DEFINE e == <<Buffer(address), s>>
    <2>1. e \in Int \X Int /\ image \in Seq(Int \X Int) /\ image' = Append(image, e)
      BY <1>6, <1>7 DEF LoaderInv, ReadInv
    <2> HIDE DEF e
    <2>2. /\ image' \in Seq(Int \X Int) /\ Len(image') = n + 1
          /\ image'[n + 1] = e
          /\ \A k \in 1 .. n : image'[k] = image[k]
      BY <1>0, <2>1
    <2> QED BY <2>1, <2>2 DEF e
  <1> HIDE DEF address
  <1>9. UNCHANGED boot
    BY DEF ReadCluster
  <1>10. chain' = chain /\ geo' = geo
    BY <1>9 DEF boot, file
  <1>11. ASSUME NEW k \in 1 .. n PROVE ReadRight(k)'
    <2>1. ReadRight(k)
      BY <1>0 DEF LoaderInv, ReadInv
    <2>2. image'[k] = image[k]
      BY <1>8
    <2> QED BY <1>10, <2>1, <2>2 DEF ReadRight, Addressable
  <1>12. ReadRight(n + 1)'
    <2>1. KernelImageAddr + ((n + 1) - 1) * ClusterBytes = address
      BY <1>1 DEF address
    <2>2. image'[n + 1][1] = Buffer(address) /\ image'[n + 1][2] = s
      BY <1>8
    <2>3. address < Megabyte => image'[n + 1][1] = address
      BY <1>5, <2>2, BufferBelow
    <2>4. Addressable(SectorOf(cluster)) => s \in {SectorOf(cluster), Stale}
      BY <1>3, <1>6, FileSectorFound DEF LoaderInv, LoopInv
    <2>5. Addressable(SectorOf(chain[n + 1]))' => image'[n + 1][2] \in {SectorOf(chain[n + 1])', Stale}
      BY <1>2, <1>10, <2>2, <2>4 DEF Addressable
    <2> QED BY <2>1, <2>3, <2>5 DEF ReadRight
  <1>13. ReadInv'
    BY <1>1, <1>2, <1>8, <1>10, <1>11, <1>12 DEF ReadInv
  <1>14. LoopInv'
    <2>1. cluster' = IF Len(image') < Len(chain') THEN chain'[Len(image') + 1] ELSE EOF
      BY <1>1, <1>2, <1>4, <1>8, <1>10
    <2>2. offset' = Len(image') * ClusterBytes
      BY <1>5, <1>8
    <2> QED BY <2>1, <2>2, <1>9 DEF LoaderInv, LoopInv, ReadCluster, boot, file, Loaded, Places
  <1> QED BY <1>13, <1>14 DEF LoaderInv

\* The loader reads what it was asked for, in its place, all the way.
THEOREM LoaderInvariant == Spec => []LoaderInv
  <1>1. Init => LoaderInv
    BY LoaderInit
  <1>2. LoaderInv /\ [Next]_vars => LoaderInv'
    <2> SUFFICES ASSUME LoaderInv, [Next]_vars PROVE LoaderInv'
      OBVIOUS
    <2>1. CASE UNCHANGED vars
      BY <2>1 DEF vars, boot, load, file, LoaderInv, ReadInv, ReadRight, Addressable, LoopInv
    <2>2. CASE Next
      BY <2>2, KeepsTables, KeepsScan, KeepsReadCluster, KeepsReadDone, KeepsRest DEF Next
    <2> QED BY <2>1, <2>2
  <1> QED BY <1>1, <1>2, PTL DEF Spec

\* The kernel is entered with all of its file in memory, whatever clusters it
\* has and whatever the geometry (ldrmain, bios_drive_read).
THEOREM ImageSafe == Spec => []ImageComplete
  <1>1. LoaderInv => ImageComplete
    BY DEF LoaderInv, ReadInv, ReadRight, LoopInv, ImageComplete, Loaded
  <1> QED BY <1>1, LoaderInvariant, PTL

----------------------------------------------------------------------------
(* The second stage: the display.                                          *)

\* The monitor names a mode, and the info left by the default is not taken for
\* that of the first mode.
Fits == edid /\ matching # {} /\ (1 \in supported \/ Default \notin matching)

\* Up to m no mode fits; the info at hand is the default's or that of a mode
\* that does not fit, and the mode that is chosen is the one that is set.
DisplayInv ==
    /\ supported \subseteq Modes /\ matching \subseteq supported
    /\ pc \notin {"modes", "enter", "kernel"} => m = 1 /\ mode = Unknown
    /\ pc = "modes" /\ Fits =>
        /\ m \in 1 .. MaxMode + 1
        /\ m = 1 => mode \in {Default, Unknown}
        /\ m > 1 => mode \notin matching
        /\ \A j \in 1 .. m - 1 : j \notin matching
    /\ pc \in {"enter", "kernel"} /\ Fits => mode = shown /\ shown \in matching

LEMMA DisplayInit == Init => DisplayInv
  BY DEF Init, DisplayInv

LEMMA DisplayStep == DisplayInv /\ [Next]_vars => DisplayInv'
  <1> SUFFICES ASSUME DisplayInv, [Next]_vars PROVE DisplayInv'
    OBVIOUS
  <1>1. UNCHANGED vesa /\ (Fits' <=> Fits)
    BY DEF Next, vars, ReadFat, ReadRoot, Scan, ReadCluster, ReadDone, CheckElf, CopySegment,
           GetEdid, TryMode, Fallback, Enter, boot, vesa, Fits
  <1>2. supported' = supported /\ matching' = matching /\ edid' = edid
    BY <1>1 DEF vesa
  <1>3. CASE \/ ReadFat \/ ReadRoot \/ Scan \/ ReadCluster \/ ReadDone \/ CheckElf \/ CopySegment
             \/ Enter \/ UNCHANGED vars
    BY <1>1, <1>2, <1>3 DEF DisplayInv, ReadFat, ReadRoot, Scan, ReadCluster, ReadDone, CheckElf,
           CopySegment, Enter, Goto, vars, disp
  <1>4. CASE GetEdid
    <2>1. m = 1 /\ mode = Unknown /\ m' = m /\ mode' \in {Default, Unknown}
      BY <1>4 DEF DisplayInv, GetEdid, Info
    <2>2. MaxMode \in Nat
      BY NosokldrAssumption
    <2>3. CASE edid
      BY <1>1, <1>2, <1>4, <2>1, <2>2, <2>3 DEF DisplayInv, GetEdid
    <2>4. CASE ~edid
      BY <1>1, <1>2, <1>4, <2>4 DEF DisplayInv, GetEdid, Fits
    <2> QED BY <2>3, <2>4
  <1>5. CASE TryMode
    <2>1. CASE Fits
      <3>1. /\ MaxMode \in Nat /\ m \in 1 .. MaxMode
            /\ m = 1 => mode \in {Default, Unknown}
            /\ m > 1 => mode \notin matching
            /\ \A j \in 1 .. m - 1 : j \notin matching
        BY <1>5, <2>1, NosokldrAssumption DEF DisplayInv, TryMode
      <3>2. Unknown \notin matching
        BY DEF DisplayInv, Modes, Unknown
      <3>3. m \notin supported => mode' = mode /\ mode \notin matching
        BY <1>5, <2>1, <3>1, <3>2 DEF TryMode, Info, Fits
      <3>4. m \in supported => mode' = m
        BY <1>5 DEF TryMode, Info
      <3>5. CASE mode' \in matching
        BY <1>1, <1>2, <1>5, <2>1, <3>3, <3>4, <3>5 DEF DisplayInv, TryMode, Shows
      <3>6. CASE mode' \notin matching
        <4>1. m \notin matching
          BY <3>3, <3>4, <3>6 DEF DisplayInv
        <4>2. m' = m + 1 /\ pc' = "modes"
          BY <1>5, <3>6 DEF TryMode
        <4> QED BY <1>1, <1>2, <3>1, <3>6, <4>1, <4>2 DEF DisplayInv
      <3> QED BY <3>5, <3>6
    <2>2. CASE ~Fits
      BY <1>1, <1>2, <1>5, <2>2 DEF DisplayInv, TryMode
    <2> QED BY <2>1, <2>2
  <1>6. CASE Fallback
    <2>1. ~Fits
      <3> SUFFICES ASSUME Fits PROVE FALSE
        OBVIOUS
      <3>1. PICK n \in matching : n \in 1 .. MaxMode
        BY DEF Fits, DisplayInv, Modes
      <3>2. /\ m \in 1 .. MaxMode + 1 /\ m > MaxMode
            /\ \A j \in 1 .. m - 1 : j \notin matching
        BY <1>6 DEF Fallback, Goto, DisplayInv
      <3> QED BY <3>1, <3>2, NosokldrAssumption
    <2> QED BY <1>1, <1>2, <1>6, <2>1 DEF DisplayInv, Fallback, Goto
  <1> QED BY <1>3, <1>4, <1>5, <1>6 DEF Next

\* The kernel is told about the mode that is shown, whatever modes the BIOS
\* knows and in whatever order they fit (setup_display).
THEOREM DisplaySafe == Spec => []DisplayDescribed
  <1>1. DisplayInv => DisplayDescribed
    BY DEF DisplayInv, DisplayDescribed, Fits
  <1> QED BY <1>1, DisplayInit, DisplayStep, PTL DEF Spec

----------------------------------------------------------------------------
(* The boot sector.                                                        *)

\* disk_read finds a sector whose number fits its register.
LEMMA DiskReadFound ==
  ASSUME geo \in Geometries, NEW lba \in 0 .. 255 PROVE DiskRead(lba) = lba
  <1>1. geo \in (1 .. 63) \X (1 .. 255)
    BY DiskAssumption
  <1>2. lba < 256 * geo[1] * geo[2] /\ lba % 256 = lba
    <2>1. geo[1] \in Nat /\ geo[2] \in Nat /\ geo[1] >= 1 /\ geo[2] >= 1
      BY <1>1
    <2>2. geo[1] * geo[2] \in Nat /\ geo[1] * geo[2] >= 1
      BY <2>1
    <2>3. 256 * geo[1] * geo[2] = 256 * (geo[1] * geo[2])
      BY <2>1
    <2> QED BY <2>2, <2>3
  <1>3. Int13(Lba2chs(lba, geo), geo) = lba
    BY <1>1, <1>2, RoundTrip
  <1> QED BY <1>2, <1>3 DEF DiskRead, Int13, Lba2chs

LEMMA DiskReadInt ==
  ASSUME geo \in Geometries, NEW lba \in Nat PROVE DiskRead(lba) \in Int
  <1>1. lba % 256 \in Nat /\ (lba % 256) % 65536 = lba % 256
    BY DivMod
  <1>2. DriveRead(lba % 256) \in Int
    BY <1>1, DriveReadInt
  <1> QED BY <1>1, <1>2 DEF DriveRead, DiskRead, Int13, Lba2chs

LEMMA Wraps ==
  ASSUME NEW r \in Nat, r <= 65368
  PROVE  (r + 262144) % 65536 = r /\ (r + 164) % 65536 = r + 164
  OBVIOUS

\* The sector of a cluster in 16 bits.
LEMMA RelativeSector ==
  ASSUME NEW c \in Clusters PROVE (Relative(c) + FirstData) % 65536 = SectorOf(c)
  <1>1. FirstData = 164
    BY DEF FirstData, RootSect, RootSecs, ReservedSecs, FatCount, SecsPerFat
  <1>2. c \in 2 .. 16344
    BY DiskAssumption
  <1> DEFINE r == (c - 2) * 4
  <1>3. r \in Nat /\ r <= 65368 /\ (c + 65534) * 4 = r + 262144
    BY <1>2
  <1> HIDE DEF r
  <1>4. (r + 262144) % 65536 = r /\ (r + 164) % 65536 = r + 164
    BY <1>3, Wraps
  <1>5. Relative(c) = r
    BY <1>3, <1>4 DEF Relative, SecsPerCluster
  <1>6. SectorOf(c) = r + 164
    BY <1>1, <1>2, <1>3 DEF SectorOf, SecsPerCluster, r
  <1> QED BY <1>1, <1>4, <1>5, <1>6

\* The search: up to i the directory holds other files.
FindInv ==
    /\ i \in Nat
    /\ \A j, k \in Slots : j < k /\ dir[j] = "end" => dir[k] = "end"
    /\ pc = "start" \/ geo \in Geometries
    /\ pc \in {"start", "fat", "root"} => i = 0
    /\ pc \in {"start", "fat"} => tables = << >>
    /\ pc = "root" => tables = <<ReservedSecs>>
    /\ pc \in {"find", "not_found"} => tables = <<ReservedSecs, RootSect>>
    /\ pc = "find" => \A j \in Slots : j < i => dir[j] = "file"
    /\ pc = "not_found" => \A j \in Slots : dir[j] # "loader"

\* The loop: the cluster to read next, or the one that was read last.
FollowInv ==
    /\ chain \in Chains(MaxChain) /\ loaded \in Seq(Int)
    /\ cluster \in Nat /\ ax \in Nat
    /\ pc \in {"start", "fat", "root", "find", "found"} => loaded = << >>
    /\ pc = "load" /\ Len(loaded) < Len(chain) =>
        cluster = chain[Len(loaded) + 1] /\ ax = Relative(cluster)
    /\ pc \in {"test", "next"} => Len(loaded) > 0 /\ (Len(loaded) <= Len(chain) => cluster = chain[Len(loaded)])

Stage1Inv == FindInv /\ FollowInv /\ LoadsInOrder

LEMMA Stage1Starts == Stage1Init => Stage1Inv
  <1> SUFFICES ASSUME Stage1Init PROVE Stage1Inv
    OBVIOUS
  <1>1. chain \in Chains(MaxChain)
    BY DEF Stage1Init
  <1>2. FindInv
    BY DEF Stage1Init, FindInv
  <1>3. FollowInv
    BY <1>1 DEF Stage1Init, FollowInv
  <1>4. LoadsInOrder
    BY <1>1, ChainFacts, Bounds DEF Stage1Init, LoadsInOrder
  <1> QED BY <1>2, <1>3, <1>4 DEF Stage1Inv

\* Steps that load nothing.
LEMMA KeepLoaded == LoadsInOrder /\ UNCHANGED <<disk, loaded>> => LoadsInOrder'
  BY DEF LoadsInOrder, disk

LEMMA KeepsFirst ==
  ASSUME Stage1Inv, GetGeometry \/ Stage1ReadFat \/ Stage1ReadRoot \/ DiskError
  PROVE  Stage1Inv'
  <1> USE DEF Stage1Inv, FindInv, Goto
  <1>1. UNCHANGED <<disk, loaded, i, cluster, ax>>
    BY DEF GetGeometry, Stage1ReadFat, Stage1ReadRoot, DiskError
  <1>2. LoadsInOrder'
    BY <1>1, KeepLoaded
  <1>3. chain' = chain /\ dir' = dir
    BY <1>1 DEF disk
  <1>4. FollowInv'
    BY <1>1, <1>3 DEF FollowInv, GetGeometry, Stage1ReadFat, Stage1ReadRoot, DiskError
  <1>5. ReservedSecs \in 0 .. 255 /\ RootSect \in 0 .. 255
    BY DEF RootSect, ReservedSecs, FatCount, SecsPerFat
  <1>6. FindInv'
    <2>1. CASE GetGeometry
      BY <1>1, <1>3, <2>1 DEF GetGeometry
    <2>2. CASE Stage1ReadFat
      <3>1. DiskRead(ReservedSecs) = ReservedSecs
        BY <1>5, <2>2, DiskReadFound DEF Stage1ReadFat
      <3>2. tables' = <<ReservedSecs>>
        BY <2>2, <3>1 DEF Stage1ReadFat
      <3> QED BY <1>1, <1>3, <2>2, <3>2 DEF Stage1ReadFat
    <2>3. CASE Stage1ReadRoot
      <3>1. DiskRead(RootSect) = RootSect
        BY <1>5, <2>3, DiskReadFound DEF Stage1ReadRoot
      <3>2. tables' = Append(<<ReservedSecs>>, RootSect)
        BY <2>3, <3>1 DEF Stage1ReadRoot
      <3>3. tables' = <<ReservedSecs, RootSect>>
        BY <1>5, <3>2, AppendPair
      <3>4. \A j \in Slots : ~(j < 0)
        BY Bounds DEF Slots
      <3> QED BY <1>1, <1>3, <2>3, <3>3, <3>4 DEF Stage1ReadRoot
    <2>4. CASE DiskError
      BY <1>1, <1>3, <2>4 DEF DiskError
    <2> QED BY <2>1, <2>2, <2>3, <2>4
  <1> QED BY <1>2, <1>4, <1>6

LEMMA KeepsFind == ASSUME Stage1Inv, Find \/ FindBeyond PROVE Stage1Inv'
  <1> USE DEF Stage1Inv, FindInv
  <1>1. UNCHANGED <<disk, loaded, cluster, ax, geo, tables>>
    BY DEF Find, FindBeyond
  <1>2. LoadsInOrder'
    BY <1>1, KeepLoaded
  <1>3. chain' = chain /\ dir' = dir
    BY <1>1 DEF disk
  <1>4. FollowInv'
    BY <1>1, <1>3 DEF FollowInv, Find, FindBeyond
  <1>5. \A j \in Slots : j \in Nat /\ j < DirEntries
    BY Bounds DEF Slots
  <1>6. pc = "find" /\ \A j \in Slots : j < i => dir[j] = "file"
    BY DEF Find, FindBeyond
  <1>7. CASE Find
    <2>1. CASE dir[i] = "end"
      <3>1. \A j \in Slots : dir[j] # "loader"
        BY <1>5, <1>6, <1>7, <2>1 DEF Find
      <3> QED BY <1>1, <1>2, <1>3, <1>4, <1>7, <2>1, <3>1 DEF Find
    <2>2. CASE dir[i] = "loader"
      BY <1>1, <1>2, <1>3, <1>4, <1>7, <2>2 DEF Find
    <2>3. CASE dir[i] = "file"
      BY <1>1, <1>2, <1>3, <1>4, <1>5, <1>6, <1>7, <2>3 DEF Find
    <2> QED BY <1>7, <2>1, <2>2, <2>3 DEF Find
  <1>8. CASE FindBeyond
    <2>1. i \notin Slots /\ i \in Nat /\ DirEntries \in Nat
      BY <1>8, Bounds DEF FindBeyond
    <2>2. i >= DirEntries
      BY <2>1 DEF Slots
    <2>3. \A j \in Slots : dir[j] = "file"
      BY <1>5, <1>6, <2>1, <2>2
    <2> QED BY <1>1, <1>2, <1>3, <1>4, <1>8, <2>3 DEF FindBeyond
  <1> QED BY <1>7, <1>8

LEMMA ClusterNat == ASSUME NEW c \in Clusters PROVE c \in Nat /\ c < 32768
  <1>1. c \in 2 .. 16344
    BY DiskAssumption
  <1> QED BY <1>1

\* The clusters of a chain are small numbers.
LEMMA ChainNat ==
  ASSUME NEW c, c \in Chains(MaxChain), NEW k \in 1 .. Len(c)
  PROVE  c[k] \in Nat /\ c[k] < 32768
  <1>1. c[k] \in Clusters
    BY ChainFacts, Bounds
  <1> QED BY <1>1, ClusterNat

LEMMA RelativeNat == ASSUME NEW c \in Nat PROVE Relative(c) \in Nat
  <1>1. (c + 65534) * 4 \in Nat
    OBVIOUS
  <1> QED BY <1>1, DivMod DEF Relative, SecsPerCluster

LEMMA KeepsFound == ASSUME Stage1Inv, Found PROVE Stage1Inv'
  <1>1. LoadsInOrder'
    BY KeepLoaded DEF Stage1Inv, Found
  <1>2. Len(chain) \in Nat /\ 1 \in 1 .. Len(chain)
    BY ChainFacts, Bounds DEF Stage1Inv, FollowInv
  <1>3. chain[1] \in Nat
    BY <1>2, ChainNat DEF Stage1Inv, FollowInv
  <1>4. Relative(chain[1]) \in Nat
    BY <1>3, RelativeNat
  <1>5. FollowInv'
    BY <1>2, <1>3, <1>4 DEF Stage1Inv, FollowInv, Found, Goto, disk
  <1>6. FindInv'
    BY DEF Stage1Inv, FindInv, Found, Goto, disk
  <1> QED BY <1>1, <1>5, <1>6 DEF Stage1Inv

LEMMA KeepsLoad == ASSUME Stage1Inv, Load PROVE Stage1Inv'
  <1>1. PICK n \in Nat : n = Len(loaded)
    BY DEF Stage1Inv, FollowInv
  <1>2. chain' = chain /\ dir' = dir /\ UNCHANGED <<geo, tables, i, cluster, ax>>
    BY DEF Load, disk
  <1>3. FindInv'
    BY <1>2 DEF Stage1Inv, FindInv, Load
  <1>4. CASE n < Capacity
    <2> DEFINE s == DiskRead((ax + FirstData) % 65536)
    <2>1. loaded' = Append(loaded, s) /\ pc' = "test"
      BY <1>1, <1>4 DEF Load
    <2>2. s \in Int
      <3>1. (ax + FirstData) \in Nat
        BY DEF Stage1Inv, FollowInv, FirstData, RootSect, RootSecs, ReservedSecs, FatCount, SecsPerFat
      <3>2. (ax + FirstData) % 65536 \in Nat
        BY <3>1, DivMod
      <3> QED BY <3>2, DiskReadInt DEF Stage1Inv, FindInv, Load
    <2> HIDE DEF s
    <2>3. /\ loaded' \in Seq(Int) /\ Len(loaded') = n + 1
          /\ loaded'[n + 1] = s /\ \A k \in 1 .. n : loaded'[k] = loaded[k]
      BY <1>1, <2>1, <2>2 DEF Stage1Inv, FollowInv
    <2>4. Len(chain) \in Nat /\ \A k \in 1 .. Len(chain) : chain[k] \in Clusters
      BY ChainFacts, Bounds DEF Stage1Inv, FollowInv
    <2>5. FollowInv'
      BY <1>1, <1>2, <2>1, <2>3, <2>4 DEF Stage1Inv, FollowInv, Load
    <2>6. ASSUME n + 1 <= Len(chain), SectorOf(chain[n + 1]) < 256
          PROVE  s = SectorOf(chain[n + 1])
      <3>1. cluster = chain[n + 1] /\ ax = Relative(cluster) /\ cluster \in Clusters
        BY <1>1, <2>4, <2>6 DEF Stage1Inv, FollowInv, Load
      <3>2. (ax + FirstData) % 65536 = SectorOf(cluster)
        BY <3>1, RelativeSector
      <3>3. SectorOf(cluster) \in Nat
        BY <3>1, SectorRange
      <3>4. SectorOf(cluster) \in 0 .. 255
        <4>1. SectorOf(cluster) < 256
          BY <2>6, <3>1
        <4> QED BY <3>3, <4>1
      <3>5. DiskRead(SectorOf(cluster)) = SectorOf(cluster)
        <4>1. geo \in Geometries
          BY DEF Stage1Inv, FindInv, Load
        <4> QED BY <3>4, <4>1, DiskReadFound
      <3> QED BY <3>1, <3>2, <3>5 DEF s
    <2>7. LoadsInOrder'
      <3> SUFFICES ASSUME \A k \in 1 .. Len(chain) : SectorOf(chain[k]) < 256,
                          NEW k \in 1 .. n + 1, k <= Len(chain)
                   PROVE  loaded'[k] = SectorOf(chain[k])
        BY <1>2, <2>3 DEF LoadsInOrder
      <3>1. CASE k = n + 1
        BY <2>3, <2>4, <2>6, <3>1
      <3>2. CASE k # n + 1
        BY <1>1, <2>3, <3>2 DEF Stage1Inv, LoadsInOrder
      <3> QED BY <3>1, <3>2
    <2> QED BY <1>3, <2>5, <2>7 DEF Stage1Inv
  <1>5. CASE ~(n < Capacity)
    <2>1. loaded' = loaded /\ pc' = "wild"
      BY <1>1, <1>5 DEF Load
    <2>2. LoadsInOrder'
      BY <2>1, KeepLoaded DEF Stage1Inv, Load
    <2> QED BY <1>2, <1>3, <2>1, <2>2 DEF Stage1Inv, FollowInv
  <1> QED BY <1>4, <1>5

LEMMA KeepsTest == ASSUME Stage1Inv, Test PROVE Stage1Inv'
  <1>1. LoadsInOrder'
    BY KeepLoaded DEF Stage1Inv, Test
  <1>2. pc = "test" /\ pc' \in {"ldr", "next"} /\ UNCHANGED <<geo, dir, chain, tables, i, cluster, ax, loaded>>
    BY DEF Test, disk
  <1> QED BY <1>1, <1>2 DEF Stage1Inv, FindInv, FollowInv

LEMMA KeepsNextCluster == ASSUME Stage1Inv, NextCluster PROVE Stage1Inv'
  <1>1. LoadsInOrder'
    BY KeepLoaded DEF Stage1Inv, NextCluster
  <1>2. /\ pc = "next" /\ pc' = "load"
        /\ UNCHANGED <<geo, dir, chain, tables, i, loaded>>
    BY DEF NextCluster, Goto, disk
  <1>3. PICK w \in FatWords :
                cluster' = w % 32768 /\ ax' = Relative(w % 32768)
    BY DEF NextCluster, Follow
  <1>4. /\ Len(chain) \in Nat
        /\ \A k \in 1 .. Len(chain) :
              Link(chain, chain[k]) = IF k = Len(chain) THEN EOF ELSE chain[k + 1]
    BY ChainFacts, Bounds DEF Stage1Inv, FollowInv
  <1>5. \A k \in 1 .. Len(chain) : chain[k] \in Nat /\ chain[k] < 32768
    BY ChainNat DEF Stage1Inv, FollowInv
  <1>6. w \in Nat
    <2>1. CASE InChain(chain, cluster)
      <3>1. PICK k \in 1 .. Len(chain) : chain[k] = cluster
        BY <2>1 DEF InChain
      <3> QED BY <1>3, <1>4, <1>5, <2>1, <3>1 DEF FatWords, EOF
    <2>2. CASE ~InChain(chain, cluster)
      BY <1>3, <2>2 DEF FatWords, EOF, MediaDescr
    <2> QED BY <2>1, <2>2
  <1>7. cluster' \in Nat /\ ax' \in Nat
    <2>1. w % 32768 \in Nat
      BY <1>6, DivMod
    <2> QED BY <1>3, <2>1, RelativeNat
  <1>8. Len(loaded) < Len(chain) => cluster' = chain[Len(loaded) + 1]
    <2> SUFFICES ASSUME Len(loaded) < Len(chain) PROVE cluster' = chain[Len(loaded) + 1]
      OBVIOUS
    <2> DEFINE n == Len(loaded)
    <2>1. n \in 1 .. Len(chain) /\ n # Len(chain) /\ n + 1 \in 1 .. Len(chain) /\ cluster = chain[n]
      BY <1>2, <1>4 DEF Stage1Inv, FollowInv
    <2>2. InChain(chain, cluster)
      BY <2>1 DEF InChain
    <2>3. w = chain[n + 1]
      BY <1>3, <1>4, <2>1, <2>2 DEF FatWords
    <2>4. chain[n + 1] % 32768 = chain[n + 1]
      <3> DEFINE c == chain[n + 1]
      <3>1. c \in Nat /\ c < 32768
        BY <1>5, <2>1
      <3> HIDE DEF c
      <3>2. c % 32768 = c
        BY ONLY <3>1, SmallMod
      <3> QED BY ONLY <3>2 DEF c
    <2> QED BY <1>3, <2>3, <2>4
  <1>9. FollowInv'
    BY <1>2, <1>3, <1>7, <1>8 DEF Stage1Inv, FollowInv
  <1>10. FindInv'
    BY <1>2 DEF Stage1Inv, FindInv
  <1> QED BY <1>1, <1>9, <1>10 DEF Stage1Inv

\* The boot sector's loop follows the chain, and its search misses nothing.
THEOREM Stage1Invariant == Stage1Spec => []Stage1Inv
  <1>1. Stage1Init => Stage1Inv
    BY Stage1Starts
  <1>2. Stage1Inv /\ [Stage1Next]_stage1Vars => Stage1Inv'
    <2> SUFFICES ASSUME Stage1Inv, [Stage1Next]_stage1Vars PROVE Stage1Inv'
      OBVIOUS
    <2>1. CASE UNCHANGED stage1Vars
      BY <2>1, KeepLoaded DEF stage1Vars, disk, Stage1Inv, FindInv, FollowInv
    <2>2. CASE Stage1Next
      BY <2>2, KeepsFirst, KeepsFind, KeepsFound, KeepsLoad, KeepsTest, KeepsNextCluster DEF Stage1Next
    <2> QED BY <2>1, <2>2
  <1> QED BY <1>1, <1>2, PTL DEF Stage1Spec

\* "not found" means that NOSOKLDR.BIN is not in the directory of the disk
\* (find_loop), whatever the directory and the geometry.
THEOREM LoaderFound == Stage1Spec => []FindsLoader
  <1>1. Stage1Inv => FindsLoader
    BY DEF Stage1Inv, FindInv, FindsLoader
  <1> QED BY <1>1, Stage1Invariant, PTL

\* What is loaded is NOSOKLDR.BIN in order (the loop of stage1.asm), for every
\* chain of clusters and every geometry.
THEOREM LoaderInOrder == Stage1Spec => []LoadsInOrder
  <1>1. Stage1Inv => LoadsInOrder
    BY DEF Stage1Inv
  <1> QED BY <1>1, Stage1Invariant, PTL
=============================================================================
