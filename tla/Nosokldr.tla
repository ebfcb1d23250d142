------------------------------ MODULE Nosokldr ------------------------------
(***************************************************************************)
(* The second stage (src/boot/legacy/nosokldr.c, nosokldr.asm): ldrmain    *)
(* reads the FAT and the root directory, loads the file KERNEL, copies the *)
(* segments of the ELF image, chooses a display mode and enters the        *)
(* kernel. Interrupts and other processors play no part. Reads of the      *)
(* file may fail; a failed read of the FAT or of the directory, which      *)
(* leaves any file at all, is left out.                                    *)
(*                                                                         *)
(* Only the first sector of the root directory is read, into an array for  *)
(* all of it; the rest of the array is the loader's own code and stack,    *)
(* where no entry is taken to be named KERNEL. A display mode stands for   *)
(* its number and its mode info; Default is 0x4115.                        *)
(***************************************************************************)
EXTENDS Disk

CONSTANTS PerSector,    \* entries in the directory's first sector (16)
          MaxSegments,  \* bound: program headers
          MaxMode,      \* bound: modes tried (from 0x4100 to 0xfffe)
          Default       \* the mode 0x4115 among them

ASSUME NosokldrAssumption ==
    /\ PerSector \in 1 .. DirEntries /\ MaxSegments \in Nat
    /\ MaxMode \in Nat /\ Default \in 1 .. MaxMode

VARIABLES at,           \* KERNEL's place in the directory, or DirEntries
          phnum,        \* its program headers
          valid,        \* its ELF header is one that ldrmain accepts
          edid, supported, matching,    \* what the BIOS and the monitor say
          offset,
          image,        \* <<address, sector>> of every cluster read
          m, mode,      \* setup_display: m, and whose info is in mode
          shown         \* the mode that was set

file == <<at, chain, phnum, valid>>
vesa == <<edid, supported, matching>>
boot == <<geo, file, vesa>>
disp == <<m, mode, shown>>
load == <<tables, cluster, offset, image>>
vars == <<pc, boot, i, load, disp>>

Modes   == 1 .. MaxMode
Unknown == 0                    \* an info the BIOS did not write; no mode set
Banked  == MaxMode + 1          \* 0x115: the default without linear memory
KernelImageAddr == 262144       \* 0x40000
ClusterBytes    == SecsPerCluster * 512
Megabyte        == 1048576      \* what a segment register reaches; RAM ends at 0xa0000
Stale   == 65536                \* in image, no sector: the read failed

Init ==
    /\ pc = "fat" /\ geo \in Geometries
    /\ at \in 0 .. DirEntries /\ chain \in Chains(MaxChain)
    /\ phnum \in 0 .. MaxSegments /\ valid \in BOOLEAN
    /\ edid \in BOOLEAN /\ supported \in SUBSET Modes /\ matching \in SUBSET supported
    /\ tables = << >> /\ i = 0 /\ cluster = 0 /\ offset = 0 /\ image = << >>
    /\ m = 1 /\ mode = Unknown /\ shown = Unknown

\* bios_drive_read: the sector read first, from a 16-bit number.
DriveRead(lba) == Int13(Lba2chs(lba % 65536, geo), geo)
\* The address es:bx that it makes of a pointer.
Buffer(a) == ((a \div 65536) % 16) * 65536 + (a % 65536)

----------------------------------------------------------------------------
ReadFat ==
    /\ Goto("fat", "root")
    /\ tables' = Append(tables, DriveRead(ReservedSecs))
    /\ UNCHANGED <<boot, i, cluster, offset, image, disp>>

ReadRoot ==
    /\ Goto("root", "scan")
    /\ tables' = Append(tables, DriveRead(RootSect))
    /\ UNCHANGED <<boot, i, cluster, offset, image, disp>>

\* The name in root_directory[i] is KERNEL's.
IsKernel == i = at /\ i < PerSector

\* One turn of the search.
Scan ==
    /\ pc = "scan" /\ i < DirEntries
    /\ IF IsKernel THEN pc' = "read" /\ cluster' = chain[1] /\ offset' = 0 /\ UNCHANGED i
                   ELSE i' = i + 1 /\ UNCHANGED <<pc, cluster, offset>>
    /\ UNCHANGED <<boot, tables, image, disp>>

\* Mutant: the offset counts sectors.
ReadShort ==
    /\ pc = "read" /\ cluster < 65528
    /\ image' = Append(image, <<Buffer(KernelImageAddr + offset), DriveRead(SectorOf(cluster))>>)
    /\ cluster' = Link(chain, cluster) /\ offset' = offset + 512
    /\ UNCHANGED <<pc, boot, tables, i, disp>>

\* The body of the while loop. INT 13h is not asked whether it succeeded: after
\* an error the loop goes on and the buffer keeps what it held.
ReadCluster ==
    /\ pc = "read" /\ cluster < 65528
    /\ \E s \in {DriveRead(SectorOf(cluster)), Stale} :
            image' = Append(image, <<Buffer(KernelImageAddr + offset), s>>)
    /\ cluster' = Link(chain, cluster) /\ offset' = offset + ClusterBytes
    /\ UNCHANGED <<pc, boot, tables, i, disp>>

\* The search goes on behind the entry that was found.
ReadDone ==
    /\ Goto("read", "scan") /\ cluster >= 65528
    /\ i' = i + 1
    /\ UNCHANGED <<boot, load, disp>>

\* Without the first cluster there is no ELF header at 0x40000 and ldrmain returns.
HeaderRead == image # << >> /\ image[1][2] # Stale
CheckElf ==
    /\ pc = "scan" /\ i = DirEntries
    /\ pc' = IF HeaderRead /\ valid THEN "copy" ELSE "halt"
    /\ i' = 0
    /\ UNCHANGED <<boot, load, disp>>

\* Mutant: the loop does not step to the next header.
CopyForever ==
    /\ pc = "copy"
    /\ IF i < phnum THEN UNCHANGED <<i, pc>> ELSE pc' = "display" /\ UNCHANGED i
    /\ UNCHANGED <<boot, load, disp>>

\* memcpy of p_filesz bytes of one segment to p_paddr.
CopySegment ==
    /\ pc = "copy"
    /\ IF i < phnum THEN i' = i + 1 /\ UNCHANGED pc ELSE pc' = "display" /\ UNCHANGED i
    /\ UNCHANGED <<boot, load, disp>>

----------------------------------------------------------------------------
(* setup_display.                                                          *)

\* The BIOS fills in the info of a mode it knows and leaves the buffer alone
\* for any other; it does not set a mode it does not know.
Info(n) == IF n \in supported THEN n ELSE mode
Shows(n) == IF n \in supported THEN n ELSE shown

GetEdid ==
    /\ pc = "display"
    /\ mode' = Info(Default)
    /\ IF edid THEN pc' = "modes" /\ UNCHANGED shown
               ELSE pc' = "enter" /\ shown' = Banked
    /\ UNCHANGED <<boot, i, load, m>>

\* Mutant: the modes are compared before the info is read.
TryModeBefore ==
    /\ pc = "modes" /\ m <= MaxMode
    /\ mode' = Info(m)
    /\ IF mode \in matching THEN pc' = "enter" /\ shown' = Shows(m) /\ UNCHANGED m
                            ELSE m' = m + 1 /\ UNCHANGED <<pc, shown>>
    /\ UNCHANGED <<boot, i, load>>

TryMode ==
    /\ pc = "modes" /\ m <= MaxMode
    /\ mode' = Info(m)
    /\ IF mode' \in matching THEN pc' = "enter" /\ shown' = Shows(m) /\ UNCHANGED m
                             ELSE m' = m + 1 /\ UNCHANGED <<pc, shown>>
    /\ UNCHANGED <<boot, i, load>>

\* No mode fits: the default is set, and mode describes the last one tried.
Fallback ==
    /\ Goto("modes", "enter") /\ m > MaxMode
    /\ shown' = Shows(Default)
    /\ UNCHANGED <<boot, i, load, m, mode>>

Enter ==
    /\ Goto("enter", "kernel")
    /\ UNCHANGED <<boot, i, load, disp>>

Next == \/ ReadFat \/ ReadRoot \/ Scan \/ ReadCluster \/ ReadDone \/ CheckElf
        \/ CopySegment \/ GetEdid \/ TryMode \/ Fallback \/ Enter

Spec == Init /\ [][Next]_vars

\* The processor does not stop.
FairSpec == Spec /\ WF_vars(Next)

----------------------------------------------------------------------------
\* Sector numbers whose cylinder fits the eight bits the loader passes on.
Addressable(s) == s < 256 * geo[1] * geo[2]

\* When the kernel is entered, each cluster of its file has been read, in order
\* and without gaps, to the address that its place in the file gives, unless it
\* lies behind cylinder 255 or its address beyond the first megabyte. A cluster
\* that the BIOS failed to read leaves a hole of its own size and moves no
\* other. The address is the one handed to the BIOS: from 0xa0000 on, behind 192
\* clusters, there is video memory and ROM and no RAM to keep what is read.
ImageComplete ==
    pc \in {"copy", "display", "modes", "enter", "kernel"} =>
        /\ tables = <<ReservedSecs, RootSect>>
        /\ Len(image) = Len(chain)
        /\ \A k \in 1 .. Len(chain) :
            LET address == KernelImageAddr + (k - 1) * ClusterBytes
            IN  /\ address < Megabyte => image[k][1] = address
                /\ Addressable(SectorOf(chain[k])) => image[k][2] \in {SectorOf(chain[k]), Stale}

\* What the kernel is told about the display is what the display shows, if
\* there is an EDID record and a mode that fits it. The stale info of the
\* default is taken for that of the first mode if the BIOS does not know it.
DisplayDescribed ==
    pc = "kernel" /\ edid /\ matching # {} /\ (1 \in supported \/ Default \notin matching) =>
        mode = shown /\ shown \in matching

\* A proper kernel in the first sector of the directory is entered, whatever
\* reads fail behind the cluster with its header.
EntersKernel ==
    (at < PerSector /\ valid) => <>(pc = "kernel" \/ (image # << >> /\ ~HeaderRead))

\* nosokldr.c:56 says that the root directory is read, and line 60 that the
\* image is looked for: one that is in the directory is loaded.
FindsKernel ==
    pc = "halt" /\ valid /\ (image = << >> \/ HeaderRead) => at = DirEntries
=============================================================================
