------------------------------- MODULE Stage1 -------------------------------
(***************************************************************************)
(* The boot sector (src/boot/legacy/stage1.asm): it reads the FAT and the  *)
(* root directory, finds NOSOKLDR.BIN and loads its clusters to 0x4000.    *)
(*                                                                         *)
(* The end of the file is looked for at [ds:si] with ds = 0, so what       *)
(* decides is a word of the interrupt vector table and not the FAT. What   *)
(* was loaded is recorded as the first sector read for each cluster.       *)
(***************************************************************************)
EXTENDS Disk

CONSTANTS Capacity,     \* clusters from 0x4000 up to the boot sector (7)
          LowWords      \* words in the interrupt vector table

ASSUME Stage1Assumption ==
    /\ Capacity \in Nat
    /\ LowWords \subseteq Words

\* i is bx / 32 in find_loop, cluster is si / 2 in .loop.
VARIABLES dir,          \* the root directory
          ax,           \* the sector, relative to first_data_sect
          loaded        \* sectors read to 0x4000 and up

disk == <<dir, chain>>
stage1Vars == <<pc, geo, disk, tables, i, cluster, ax, loaded>>

MediaDescr == 248           \* 0xf8
Entry == {"loader", "file", "end"}
Slots == 0 .. DirEntries - 1

\* One NOSOKLDR.BIN at most; behind the first unused entry nothing is used.
Stage1Init ==
    /\ pc = "start" /\ geo = <<32, 64>> /\ tables = << >>
    /\ i = 0 /\ cluster = 0 /\ ax = 0 /\ loaded = << >>
    /\ chain \in Chains(MaxChain)
    /\ dir \in [Slots -> Entry]
    /\ \A j, k \in Slots : j < k => /\ dir[j] = "end" => dir[k] = "end"
                                    /\ ~(dir[j] = "loader" /\ dir[k] = "loader")

\* The sector disk_read reads first when it is asked for lba.
DiskRead(lba) == Int13(Lba2chs(lba % 256, geo), geo)

\* INT 13h reports an error: a message, then the machine hangs.
DiskError ==
    /\ pc \in {"fat", "root", "load"} /\ pc' = "error"
    /\ UNCHANGED <<geo, disk, tables, i, cluster, ax, loaded>>

GetGeometry ==
    /\ Goto("start", "fat")
    /\ geo' \in Geometries
    /\ UNCHANGED <<disk, tables, i, cluster, ax, loaded>>

Stage1ReadFat ==
    /\ Goto("fat", "root")
    /\ tables' = Append(tables, DiskRead(ReservedSecs))
    /\ UNCHANGED <<geo, disk, i, cluster, ax, loaded>>

Stage1ReadRoot ==
    /\ Goto("root", "find")
    /\ tables' = Append(tables, DiskRead(RootSect))
    /\ UNCHANGED <<geo, disk, i, cluster, ax, loaded>>

\* Mutant: an unused entry is not told from a file that is not it.
FindStopsAtFile ==
    /\ pc = "find" /\ i \in Slots
    /\ \/ dir[i] # "loader" /\ pc' = "not_found" /\ UNCHANGED i
       \/ dir[i] = "loader" /\ pc' = "found" /\ UNCHANGED i
    /\ UNCHANGED <<geo, disk, tables, cluster, ax, loaded>>

Find ==
    /\ pc = "find" /\ i \in Slots
    /\ \/ dir[i] = "end" /\ pc' = "not_found" /\ UNCHANGED i
       \/ dir[i] = "loader" /\ pc' = "found" /\ UNCHANGED i
       \/ dir[i] = "file" /\ i' = i + 1 /\ UNCHANGED pc
    /\ UNCHANGED <<geo, disk, tables, cluster, ax, loaded>>

\* A full directory: the search goes on in memory nobody has written.
FindBeyond ==
    /\ pc = "find" /\ i \notin Slots
    /\ pc' \in {"not_found", "wild"}
    /\ UNCHANGED <<geo, disk, tables, i, cluster, ax, loaded>>

\* (c - 2) * secs_per_cluster in 16 bits.
Relative(c) == ((c + 65534) * SecsPerCluster) % 65536

Found ==
    /\ Goto("found", "load")
    /\ cluster' = chain[1] /\ ax' = Relative(chain[1])
    /\ UNCHANGED <<geo, disk, tables, i, loaded>>

\* The eighth cluster would overwrite the code that loads it.
Load ==
    /\ pc = "load"
    /\ IF Len(loaded) < Capacity
       THEN /\ loaded' = Append(loaded, DiskRead((ax + FirstData) % 65536))
            /\ pc' = "test"
       ELSE pc' = "wild" /\ UNCHANGED loaded
    /\ UNCHANGED <<geo, disk, tables, i, cluster, ax>>

\* cmp with 0xfff8, jge: a signed comparison.
AtEnd(w) == (IF w >= 32768 THEN w - 32768 ELSE w + 32768) >= 32760

Test ==
    /\ pc = "test"
    /\ \E w \in LowWords : pc' = IF AtEnd(w) THEN "ldr" ELSE "next"
    /\ UNCHANGED <<geo, disk, tables, i, cluster, ax, loaded>>

\* Mutant: si stays at the first cluster.
FollowFirst(w) == cluster' = cluster /\ ax' = Relative(w)

\* shl and shr by one drop the highest bit of the cluster number.
Follow(w) == cluster' = w % 32768 /\ ax' = Relative(w % 32768)

\* The word at [FAT_ADDR_SEG:si]. The entry of cluster 0 is the media byte; the
\* end mark, taken for a cluster, points behind the FAT, into memory nobody has
\* written.
FatWords ==
    IF InChain(chain, cluster) THEN {Link(chain, cluster)}
    ELSE IF cluster = 0 THEN {65280 + MediaDescr} ELSE {0, EOF}

NextCluster ==
    /\ Goto("next", "load")
    /\ \E w \in FatWords : Follow(w)
    /\ UNCHANGED <<geo, disk, tables, i, loaded>>

Stage1Next == \/ GetGeometry \/ Stage1ReadFat \/ Stage1ReadRoot \/ DiskError \/ Find \/ FindBeyond
        \/ Found \/ Load \/ Test \/ NextCluster

Stage1Spec == Stage1Init /\ [][Stage1Next]_stage1Vars

----------------------------------------------------------------------------
\* The machine says "not found" only if it has looked at the directory of the
\* disk and NOSOKLDR.BIN is not in it.
FindsLoader ==
    pc = "not_found" =>
        tables = <<ReservedSecs, RootSect>> /\ \A j \in Slots : dir[j] # "loader"

\* What lies at 0x4000 is the beginning of NOSOKLDR.BIN, in order, as far as
\* the file goes and as long as its sectors have numbers below 256, which is
\* all that disk_read looks at.
LoadsInOrder ==
    (\A k \in 1 .. Len(chain) : SectorOf(chain[k]) < 256) =>
        \A k \in 1 .. Len(loaded) : k <= Len(chain) => loaded[k] = SectorOf(chain[k])

\* stage1.asm:151 announces that the clusters are loaded into memory: all of
\* them are there when the loader is started.
LoadsAllClusters == pc = "ldr" => Len(loaded) >= Len(chain)
=============================================================================
