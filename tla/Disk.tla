-------------------------------- MODULE Disk --------------------------------
(***************************************************************************)
(* Sectors as both stages of the boot loader address them: lba2chs turns a *)
(* sector number into cylinder, head and sector, and INT 13h turns those   *)
(* back. A geometry is a pair of sectors per track and heads, as the BIOS  *)
(* reports it. The BPB is the one in the boot sector. Both stages read the *)
(* FAT and the root directory and follow the chain of one file: the state  *)
(* they keep for it has the same names in both.                            *)
(***************************************************************************)
EXTENDS Naturals, Sequences

CONSTANTS Geometries,   \* what INT 13h function 8 may report
          Clusters,     \* clusters that files may use
          DirEntries,   \* bound: entries of the root directory (512)
          MaxChain      \* bound: clusters of the file

VARIABLES pc,
          geo,          \* secs_per_track and head_count
          chain,        \* the clusters of the file
          tables,       \* sectors the FAT and the directory were read from
          i,            \* the directory entry looked at
          cluster       \* the cluster of the file that is read

Words == 0 .. 65535
EOF   == 65535                      \* the mark mkfs.fat and mcopy write
ReservedSecs  == 4
SecsPerFat    == 64
FatCount      == 2
SecsPerCluster == 4
\* 512 entries of 32 bytes in sectors of 512 bytes.
RootSecs == (512 * 32) \div 512
RootSect == ReservedSecs + FatCount * SecsPerFat
FirstData == RootSect + RootSecs

\* CHS numbers sectors of a track from 1 to 63; cylinders above 255 would need
\* two bits of the register that holds the sector.
ASSUME DiskAssumption ==
    /\ \A g \in Geometries : g \in (1 .. 63) \X (1 .. 255)
    /\ Clusters \subseteq 2 .. 16344
    /\ DirEntries \in Nat /\ MaxChain \in Nat

Goto(from, to) == pc = from /\ pc' = to

Lba2chs(lba, g) ==
    [c |-> (lba \div g[1]) \div g[2], h |-> (lba \div g[1]) % g[2], s |-> (lba % g[1]) + 1]

\* The sector INT 13h reads for ch = c, dh = h and cl = s.
Int13(chs, g) == ((chs.c % 256) * g[2] + chs.h) * g[1] + chs.s - 1

\* The first sector of a cluster.
SectorOf(c) == FirstData + (c - 2) * SecsPerCluster

\* A file: the clusters of its chain, no cluster twice.
Chains(n) ==
    UNION {{s \in [1 .. k -> Clusters] : \A a, b \in 1 .. k : a # b => s[a] # s[b]} : k \in 1 .. n}

\* What the FAT holds for a cluster of the chain.
Link(links, c) ==
    LET k == CHOOSE k \in 1 .. Len(links) : links[k] = c
    IN  IF k = Len(links) THEN EOF ELSE links[k + 1]

InChain(links, c) == \E k \in 1 .. Len(links) : links[k] = c
=============================================================================
