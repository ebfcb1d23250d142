# nOSok in TLA+

nOSok is a small 32-bit x86 kernel with its own boot sector and loader: a heap,
page tables, preemptive tasks, a driver for the AMD PCnet network card and a
network stack just large enough for DHCP and ARP. The repository has no tests
and no documents, so the code, with its few comments, is the only reference.
This directory holds TLA+ models of its core, the TLC runs that check them on
small instances, and TLAPS proofs of the properties for every instance.

Every model is written from the source; `map` in `PROJECT.json` names the lines
behind each definition. Wording, fonts and the layout of most messages are left
out; control flow, early returns and the order of assignments are kept. Where a
property is about a conversion (`printf`'s numbers, byte order, checksums) the
conversion is modelled by what it does.

## The system

One CPU, no user mode, no SMP. Concurrency comes from interrupts only: IRQ0
(the PIT) preempts tasks once `kmain` has unmasked it, the network card's IRQ
runs `PCNET::irq` and, inside it, the whole receive path of the network stack.
Interrupt gates keep interrupts off in a handler, and `tasks::create` is the
only code that uses `cli`. Everything else can be interrupted anywhere.

| Component | State | Operations | Uses / is used by |
|---|---|---|---|
| Heap (`memory/alloc.cpp`) | doubly linked list of block headers in the arena | `kmalloc`, `kfree`, `new`, `delete` | everything, interrupt handlers included |
| Frames (`memory/frame_alloc.cpp`) | bitmap | `init`, `alloc`, `free` | paging |
| Paging (`memory/paging.cpp`, `entry.asm`) | page directory and tables, TLB | `map_page`, `unmap_page`, `vaddr_to_paddr` | console, driver (DMA addresses) |
| Tasks (`task/taskmgr.cpp`, `cpu/context_switch.asm`) | ring of contexts, current task, one stack each | `init`, `create`, `switch_context` | IRQ0 |
| Interrupts (`cpu/interrupts.*`) | IDT, two 8259A, handler table | stubs, `irq_handler`, `unmask_irq` | tasks, device registry |
| PCnet driver (`drivers/net/pcnet.cpp`) | two descriptor rings shared with the card, `rx_n`, `tx_n` | `init`, `irq`, `send_packet` | network stack, heap, paging |
| UDP (`net/udp.cpp`) | socket table, one flag and one buffer pointer per socket | constructor, `sendto`, `recv`, `handle_packet` | DHCP, IP |
| DHCP (`net/dhcp.cpp`) | nothing of its own | `init`: DISCOVER, OFFER, REQUEST, ACK | `kmain` waits for it |
| ARP (`net/arp.cpp`) | list of cache entries | `handle_packet`, `add_cache_entry` | card's interrupt, DHCP |
| IP, Ethernet (`net/ip.cpp`, `net/ethernet.cpp`) | the host's address | `set_ip`, demultiplexing, headers | all of the above |
| Registry, PCI (`drivers/devices.cpp`, `drivers/pci.cpp`) | table of 1024 drivers | enumeration, `register_driver`, `find_device_by_class`, `send_irq` | drivers, `net::send` |
| Console (`drivers/video.cpp`, `std/printf.cpp`) | cursor, framebuffer | `init`, `clear`, `putc`, `scroll`, `printf` | all tasks |
| Block devices (`drivers/block*`) | one address | AHCI's registration and `init` | PCI |
| Boot sector, loader (`src/boot/legacy`) | FAT, directory and ELF buffers | FAT walk, file search, ELF load | hands over to `_start` |

What is hard here, and hardly testable:

* a tick at any instruction of `kmain` and of the tasks, also between the `sti`
  of `switch_context` and the `iret` of `irq_32`, where interrupts nest;
* a device interrupt that runs C++ code without saving the scratch registers;
* one acknowledgement for several frames, in a ring both sides walk alone;
* `recv`, which loads a flag and then executes `hlt` with interrupts on: the
  interrupt may come between the two;
* received data that is never copied out of a ring the card keeps filling;
* page tables that the MMU finds by frame and the kernel by pointer;
* a cursor of two words that three preemptive tasks load and store unlocked;
* drivers that are initialised with interrupts on, one after the other, on lines
  they may share, in a loop the compiler may drop;
* look-ups that dereference the null entries of the registry;
* word arithmetic over an arena that is announced as 0xffffffff bytes;
* messages that are lost and never repeated.

`hazards` in `PROJECT.json` lists them all with their lines.

## Modules

| Module | Models | Proofs |
|---|---|---|
| `AllocSpec` | what a heap promises, whatever its strategy | `HeapProofs` |
| `Heap`, `MCHeap` | `kmalloc`, `kfree` on words modulo `Word` | `HeapProofs` |
| `Tasks` | `kmain`'s start of multitasking, `tasks::create`, context switch, PIC | `TasksProofs` |
| `Pcnet` | driver, card and both rings | `PcnetProofs` |
| `Dhcp` | DHCP, UDP socket, demultiplexing, ARP, over the receive half of the driver | `DhcpProofs` |
| `Terminal` | what a text console promises, whatever keeps its cursor | `ConsoleProofs` |
| `Console`, `MCConsole` | `printf` and `putc` from several tasks, the framebuffer and its mapping | `ConsoleProofs` |
| `Devices` | the PCI scan, the registry, `PCNET::init` up to the start of the card, `send_irq` | `SendProofs` |
| `Packets` | byte order, UDP and IP headers and checksums, as operators | `SendProofs` |
| `Send`, `MCSend` | `net::init` and `sendto` down to the adapter, over `Devices` and `Packets` | `SendProofs` |
| `Paging`, `MCPaging` | frame bitmap, page tables, MMU, TLB | `PagingProofs` |
| `Disk` | sector addressing (LBA, CHS, INT 13h), the BPB, FAT chains and the state that the next two name alike | `BootProofs` |
| `Stage1`, `MCStage1` | the boot sector | `BootProofs` |
| `Nosokldr`, `MCNosokldr` | `ldrmain` and `setup_display` | `BootProofs` |

Definitions called *Mutant* in their comment are plausible bugs in the
definition that follows; `mutants` in `PROJECT.json` says which property each
of them violates. They are no part of any specification.

### Heap

`hdr` maps the address of a header (an offset from the heap's top) to its
fields. `Kmalloc` finds the first free block that is strictly larger than the
request (`FirstFit`), splits it unless the rest would have no room for a header
(`Carve`) and returns the address behind the header. `KmallocFails` is the
return of `(void*)-1`. `KmallocFaults` is a split whose new header lies behind
the memory `_start` has mapped: the page fault handler stops the machine.
`Kfree` merges with the previous block and then with the next one. Sums and
differences wrap at `Word` as 32-bit words do. The ghost variable `live` records
what callers hold. Callers free each pointer once and do not write outside it.

### Tasks

The CPU is a program counter, the interrupt flag, registers and a stack of
interrupt frames; a context is what `switch_context` pushes. Registers are two
values, one for the callee-saved and one for the scratch registers, because the
C++ functions behind a device interrupt preserve the former only. `kmain`'s two
calls that hold something in a scratch register while a device IRQ may come are
two steps each: `TasksNew` and `TasksInit` (the address of the new context),
`ReadMask` and `UnmaskIrq0` (the interrupt mask). If the register was
overwritten in between, the first pair stores a wild pointer, after which the
model claims nothing more (`pc = "wild"`), and the second writes any mask.
`create` is six steps, `TakeTimer`, `SwitchContext` and `Iret` make up a tick.
The 8259A pair has request and in-service bits. `Work` lets a task put a fresh
value in its registers, so a lost or foreign value is visible. `clobbered` is a
ghost: the tasks whose scratch registers a device interrupt has destroyed.

### Pcnet

A thread (`init` after `INEA` is set, then `send_packet`), `irq()` in the steps
at which the card may interfere, and the card: it receives into the descriptor
it looks at (`drx`), sends from `dtx`, sets `RINT` and `TINT`. `irq()` serves
one frame per interrupt and acknowledges both bits at once. `send_packet` also
runs inside `irq()`, when ARP answers (`Reply`). `init()` waits for `init_done`
in a loop over a variable that is not volatile, and the compiler drops it at the
Makefile's `-O2`; `Start` may therefore come before the card is ready. The ghost
`raced` is set when a send uses a descriptor that the card has finished but
`irq()` has not stepped over yet: then `tx_n` and `dtx` part, and frames are
dropped until `tx_n` is back in step. That is the code's behaviour; the transmit
properties say that nothing else does this.

### Dhcp

`kmain`'s thread through `dhcp::init`: the socket is registered before its flag is
cleared, `recv` loads the flag, executes `hlt`, clears the flag twice and reads
from the ring slot `recv_buffer` points to. A handler step serves one frame:
Ethernet and IP demultiplexing, the socket's `handle_packet`, or ARP. The server
answers what it has received, messages may be lost, other frames may come at any
time. Ghosts: `lost` (a message was lost), `stray` (a BOOTP reply that answers none
of our messages came to port 68), `lapped` (the card has overwritten the slot in
use). `Calm` is the absence of the last two: the code has no defence against
either, so the safety properties about addresses are stated under it.

The walk over the options of the first answer has no bound: only option 255 ends
it. `Replies` are the frames that have one; in any other frame taken for a reply (a plain
BOOTP reply, the bytes of a lapped slot) `ReadOptions` may go on, give up, or
run into a page that is not mapped, which stops the machine (`pc = "fault"`). A
server's replies are taken to have no pad option before their end.

Like `Pcnet` and `Devices`, the model takes the interrupted code to keep its
registers. The stub of a device IRQ (`interrupts.asm:10-14`) saves none, and what the
C++ code behind it leaves in `eax`, `ecx` and `edx` reaches whatever was
interrupted; only `Tasks` models this. What the other three show is therefore that
the order of steps is right where the compiler keeps nothing in those registers
over an interrupt.

`HeapNotReentered` is about the heap, which has no lock: ARP's reply allocates in
the interrupt, and never while `dhcp::init` is at an allocation of its own, because
the cache is empty until the last of them is over. It does not extend to
`tasks::init`, whose `new` runs with interrupts on and the cache filled.

### Console and Terminal

A character is drawn pixel line by pixel line, the screen is scrolled line by
line, and the two words of the cursor are read and written one at a time, in any
order; a tick may come between any two of these steps. A cell shows a character if
all its pixel lines do. `printf`'s format is a sequence of literals and
conversions, its numbers become digits as `print_hex` and `print_dec` make them.
`CallOK` says what a call is taken to be: every conversion has its argument and no
width is larger than 8, which is so for every call in the repository (the widths
are 1, 2, 4 and 8); `print_hex` would write below its array for more. `PrintedExact`
compares with a definition that has no loop: a numeral is the shortest sequence of
digits whose value is the number.
Once two calls of `putc` have overlapped (`torn`) nothing is promised of the text,
but the position stays on the screen: however the words of two cursors are mixed,
each of them is one some task computed, so no glyph reaches the bottom row or
leaves the mapped pages. Without overlaps `Console` implements `Terminal`, in which
the text is written on endless paper and the screen is a window on its end. The
refinement maps the size of the screen to the mode that was set.

### Devices, Packets, Send

`Devices` scans configuration space register by register (`GetId`, `ConfigRead16`,
`GetDeviceHeader`). An empty slot reads as ones; a card with one function may
answer at all of them. `MachineOK` and `CardOK` say what any machine is taken to be:
what a card's configuration space says of it is so, a slot holds one card, a card
is at one slot unless it has a single function and answers at others of its device,
a device with several functions says so at function 0, and a PCnet's ports are its
own. `PCNET::init` is seven steps, and cards started earlier
interrupt between any two. `SendIrq` calls every driver that has stored the line;
for a null entry it compares the byte at address 12 (`low`), and a match is a call
through address 0 (`pc = "wild"`). `waits` says whether the compiler has kept
`while(!init_done)`. An AHCI driver is registered through the one of its two
`Device` parts whose class nobody sets: `Garbage` is what it may read as, and
`Confused` names the case in which it reads as a network card. Cards nobody drives
are quiet. `Send` goes on after the scan: `net::init` and `net::send` look the
adapter up, and `Packets` makes the bytes of the datagram. `FramesVerify` tests them
as a receiver does, in big-endian words, where the code adds little-endian ones.
`SendAssumption` takes bytes for bytes, ports for 16-bit numbers, and a datagram to
fit the 16-bit length of an IP packet: DHCP's, the only ones sent, have 258 and 264
bytes.

### Paging

A frame is a number and holds, read as a page table, one entry per slot. `Walk`
is the MMU's way through it; `Behind(f)` is where a pointer made from a physical
address leads. Both meet in the window `_start` maps one to one, all pages of the
first table but the last, which shows the text screen. Frames hold old contents
when they become page tables (`unclean` records it): the code does not clear
them. A page fault stops the machine (`Running`).

### Disk, Stage1, Nosokldr

Both stages extend `Disk` with variables of their own; the boot sector's
specification is called `Stage1Spec`, so that one module of proofs can speak of both.
The disk is a geometry as the BIOS reports it, a root directory and the cluster
chain of the one file each stage looks for; the BPB is the boot sector's own.
Both stages turn a sector number into cylinder, head and sector and hand them to
INT 13h, the boot sector after dropping the upper eight bits of the number, the
loader with eight bits of the cylinder. What is loaded is recorded as the sectors
read, in order. In `Stage1` the end of the chain is decided by a word of the
interrupt vector table (`LowWords`), because `ds` is 0 at the comparison; the model
follows the loop past the end of the file and up to the cluster that would
overwrite the boot sector. In `Nosokldr` a display mode stands for its number and its
info; the BIOS leaves the info buffer alone for a mode it does not know, so `mode`
may be that of another one. Reads of the file may fail there; the loader does not
notice, and `image` records a hole (`Stale`). The buffer's address reaches the BIOS
as a segment that keeps four bits of its upper half, so `ImageComplete` speaks of the
addresses below one megabyte: from the 385th cluster (768 KB) on a kernel would be
read over the bottom of memory. It is about the address handed to the BIOS. RAM ends
at 0xa0000, after 192 clusters (384 KB); video memory and ROM follow, and whether
they keep what is read into them is not modelled.

## Runs

| Run | Bounds | States | Shows |
|---|---|---|---|
| `heap` | header 2, arena 17, word 18, 15 bytes mapped, requests 0, 1, 3, 15 | 66 543 | `BlocksTile`, `Accounted`, `Coalesced`, `BoundedSlack`, `EmptyHeapIsWhole`, `ImplementsAllocSpec` |
| `tasks` | 3 tasks, 2 nested frames per stack | 298 996 | `RingIntact`, `OwnRegisters`, `NothingLeftInService`, `BalancedStack`, `EveryTaskRuns` |
| `pcnet` | 3 descriptors, 4 frames in, 3 out | 49 832 | `SlotIsDrivers`, `HandledInOrder`, `TxInStep`, `SentInOrder`, `TxRecovers` |
| `pcnet_csr` | 2 descriptors | small | violated: `CsrAccessIsNamed` |
| `dhcp` | 2 descriptors, 3 frames, 1 address | 854 747 | `HeapNotReentered`, `AsksForOffer`, `IpIsLeased`, `ClaimsOwnAddress`, `InitReturns` |
| `stage1` | 3 directory entries, chains up to 3, clusters 2, 3, 24, 25, three geometries | 97 048 | `FindsLoader`, `LoadsInOrder` |
| `stage1_clusters` | the same | small | violated: `LoadsAllClusters` |
| `nosokldr` | 3 directory entries, 2 of them in the first sector, chains up to 3, 2 segments, 3 modes | 870 768 | `ImageComplete`, `DisplayDescribed`, `EntersKernel` |
| `nosokldr_root` | the same | small | violated: `FindsKernel` |
| `console` | 2 tasks, 2 modes of 3 rows and 2 columns, characters of 2 lines, texts of up to 6 characters, 17 numbers | 1 332 714 | `WritesMapped`, `BottomRowBlank`, `PrintedExact`, `ImplementsTerminal` |
| `devices` | 2 buses, 2 devices, 2 functions; 72 machines; 17 payloads of up to 4 bytes | 106 512 | `RegistryExact`, `InterruptsReachDrivers`, `SentByFirstCard`, `FramesVerify`, `ScanEnds` |
| `paging` | 5 frames, 4 entries, 4 directory entries, 2 pages, TLB of 1 | 2.3 million up to symmetry | `TablesPrivate`, `TranslationExact`, `SoftwareAgrees`, `TlbCoherent` |

Why the bounds are enough:

* heap: the arena holds up to six blocks, so splits, unsplit grants, both
  merges, refusals and the fault all occur, in every order; no address wraps in the
  run, the proofs cover words of every size;
* tasks: three tasks are the ones `kmain` makes, and the smallest ring in which
  predecessor and successor differ; two frames are a tick nested in a tick. The
  proofs cover every number of either;
* pcnet: a ring that wraps with more frames than descriptors, so the card
  catches up with a driver that lags a whole ring behind. The proofs cover
  every size;
* dhcp: three frames on two slots are the offer, the answer and one frame in
  between or after them, so lapping happens;
* stage1, nosokldr: clusters 24 and 25 lie on either side of sector 256, clusters
  2264 and 2265 on either side of cylinder 256 of a floppy's geometry; chains of
  three in any order of clusters have a first, an inner and a last link; three
  modes are one before, at and behind the default;
* console: two rows above the bottom row and lines of two characters make every
  text of six wrap and scroll, singly and together; two tasks are all it takes to
  mix a cursor; the numbers are the boundaries of the digit loops;
* devices: cards on both buses, in one or two functions, alone, aliased or side by
  side, with lines of their own, shared or not connected, every mix of PCnet, AHCI
  and others; payloads of even and odd length, with carries, without, and with the
  sum that makes the checksum 0. Each behaviour sends one datagram, since nothing
  but the card remembers one;
* paging: two tables inside the window, one on its last page and one behind it.

Deadlock is checked in `tasks`. The others may stop: a heap after a page fault,
a driver whose bounded traffic is over, a `kmain` asleep in `hlt`, a machine after
a fault, a boot loader that has jumped or hung, tasks that have printed their
text, a call through a null pointer.

### Fairness

* `tasks`: the CPU executes, the PIT keeps ticking (mode and frequency are left as
  the BIOS set them), and the CPU takes a pending tick when it may. Nothing is
  assumed of the card. `EveryTaskRuns` excludes the two ways in which a device IRQ
  that hits `tasks::init` or `unmask_irq(0)` ends multitasking (`Derailed`).
* `pcnet`: a pending interrupt is eventually served, the card polls its transmit
  ring. Nothing is assumed of callers or of the network.
* `dhcp`: the CPU runs and takes interrupts; a message the server has is answered
  or lost. `InitReturns` needs no fairness of the network: it names the states in
  which the code waits for ever (a lost message, the wake-up lost between load and
  `hlt`, a frame behind a `RINT` already acknowledged, and, after a stray or a lapped
  frame, a fault of the walk over the options) and says there are no others.
* `nosokldr`: the processor does not stop.
* `devices`: the scan goes on, asserted and unmasked interrupts are taken, a card
  told to initialise does. `ScanEnds` names what it needs of the machine: lines not
  shared, the byte at address 12 no line in use, and, where the waiting loop is
  compiled, lines that are connected.

### Findings

`CsrAccessIsNamed`: `init()` accesses CSR3 after it has enabled the card's
interrupts. Access is two instructions, a write to RAP and an access to RDP, and
`irq()` selects CSR0 through the same RAP, so the second half may reach CSR0; the
write then clears `INEA` and the card never interrupts again.

`LoadsAllClusters`: the boot sector looks for the end of NOSOKLDR.BIN's chain in the
interrupt vector table, and with a signed comparison; a file of more than one
cluster may be started before it is loaded.

`FindsKernel`: the loader searches 512 directory entries and has read 16.

Met on the way, and stated as conditions of properties because no line of the
repository says otherwise: the odd last byte of a datagram is added to its
checksum in the wrong half of a word (`FramesVerify`; DHCP's 258 and 264 bytes are
even); AHCI drivers are registered with an uninitialised class
(`SentByFirstCard`); `send_irq` dereferences null entries (`ScanEnds`); a line is
unmasked before its driver knows its ports (`InterruptsReachDrivers`).

## Proofs

TLAPS checks all of them; the only assumptions are the named `ASSUME`s of the
modules, which TLC evaluates in the runs.

* `HeapProofs`, for every header size, arena, word and set of requests with
  `HeapSize < Word`, `Mapped < Word` and requests that do not overflow when a
  header is added. `HeapInv` is the conjunction of the properties themselves: none
  is inductive alone, since a merge is right only if neighbours are linked both
  ways, and the walk finds all blocks only if no two free ones touch.
  `HeapInvariant`, `TilingHolds`, `AccountsHold`, `CoalescingHolds`, `SlackHolds`,
  `NoLeak`, and `Refinement`: `Heap` implements `AllocSpec`.
* `TasksProofs`, for every number of tasks and every depth. `TasksInv` adds to the
  type: which registers and flags go with each program counter, and how far `kmain`
  has come below the interrupts on its stack (`ControlInv`, `Phase`),
  that every stack, running or saved, is interrupt frames over one return address
  (`FrameInv`), the ring at every step of `create` (`RingInv`), that every task but
  the running one can be resumed (`ReadyInv`), and who owns the values in each
  saved context (`RegInv`). From it `RingSafe`, `RegistersSafe`, `InServiceSafe`,
  `StackSafe` and `TypeCorrect`.
* `PcnetProofs`, for every ring size. `PcnetInv` describes the receive ring as a
  window of `Lag` filled slots from `rx_n` on, in order, with the card's slots
  behind it (`RxWindow`); a pending `RINT` not yet served means the window is not
  empty (`RxPending`). Without a race at most one transmit descriptor is with the
  card, and it is `tx_n` (`TxOutstanding`). From it `SlotsSafe`, `ReceiveOrder`,
  `TransmitInStep`, `TransmitOrder` and `TypeCorrect`.
* `ConsoleProofs`, for every number of tasks, every page size and every mode of at
  least two rows of text whose lines hold their pixels. `BottomRowBlank` is not
  inductive: whether a glyph reaches the bottom row depends on a copy of the cursor
  taken earlier, perhaps half before and half after another task's store.
  `ConsoleInv` therefore bounds each word by itself, in the cursor and in every
  task's copy (`WordsInRange`), and adds how far each task is in its glyph or scroll
  (`PutcInv`) and what is mapped (`VideoInv`). From it `BottomRowSafe` and
  `WritesSafe`.

  `PrintInv` is about `printf` and holds whatever the other tasks do: what a task has
  printed, followed by the digits still to be printed, is the meaning of the items it
  has taken from its format, the items and arguments left are the rest of its call,
  and no number has left its array. That the digit loop yields the
  shortest numeral (`NumeralIs` and the lemmas before it) is an induction over the
  number, and that at most 8 or 10 digits come out bounds the array. From it
  `PrintingExact`.

  `TextInv` is about the screen while nothing is torn: at most one task is inside
  `putc`, and the framebuffer is the window on the paper of the text so far, with
  the glyph in progress drawn down to the pixel line reached, or scrolled down to
  it; the cursor is the end of the paper. With it every step maps to a stutter, but
  the last store of `putc`, which types the character (`TerminalRefinement`).
* `PagingProofs`, for every size of memory, of the kernel and of a page table, and
  every set of devices. `PagingInv` adds to the properties that the first table,
  through which all others are written, stays as `_start` made it (`BootTable`), and
  that what was asked for lies in a table (`AskedFor`). `TranslationExact` alone is
  not inductive: a store through a pointer changes the page that was meant only if
  the pointer leads to the table's own frame, which needs the boot table intact, and
  no other page only if tables are private. `Least` is the well-ordering of the
  numbers, which makes `frames::alloc`'s search end. From it `TablesSafe`,
  `TranslationSafe`, `SoftwareWalkSafe` and `TlbSafe`.
* `DhcpProofs`, for every ring size and set of addresses and any traffic.
  `IpIsLeased` depends on which of several frames `recv` returns, so `DhcpInv` follows
  the conversation: while nothing was lapped and nothing stray came, at most one of
  the message on its way out, the answer in the ring and the answer in
  `dhcp::init`'s hands exists, and it belongs to the current call of `recv`
  (`Conversation`). `ArpInv` says that the cache gets its entry in the last step. From
  it `RequestsSafe`, `LeaseSafe`, `ClaimsSafe`, `HeapSafe` and `WalkEnds`.
* `BootProofs`, for every geometry the BIOS may report, every directory and chain, any
  number of modes and every content of the interrupt vector table. `RoundTrip` is
  the arithmetic: `lba2chs` and INT 13h undo each other. `LoaderInv` ties the offset
  and the cluster of the loop to the number of clusters read (`LoopInv`), for
  `ImageSafe`; `DisplayInv` says what the info buffer may hold while modes are tried,
  for `DisplaySafe`; `Stage1Inv` does for the boot sector what `LoaderInv` does for the
  second stage, for `LoaderFound` and `LoaderInOrder`.
* `SendProofs`, for every machine with `MachineOK` and any number of buses, devices and
  functions that PCI can number. `ScanInv` says that the registry is sorted by slot
  and behind the scan (`OrderInv`), that every card the scan has passed has its
  driver (`CompleteInv`), what `PCNET::init` has stored at each of its steps
  (`InitInv`), and that a card that may interrupt has a driver past the setting of
  its line and ports (`CardInv`). Two lemmas carry the argument: the header read
  through `config_read16` tells the kind of the card (`HeaderTells`), and a visited slot
  is the only visited one of its card (`OneSlot`), so an aliased card is registered
  once. From it `InterruptsSafe`, `RegistrySafe` and, with `NetInv`, `SenderSafe`.

  `FramesSafe` rests on arithmetic modulo 65535. `Add`, with its carry, and the loop
  `Fold16` do not leave the congruence class of the sum, so both checksums are the
  complement of a sum of words; swapping the bytes of a word multiplies it by 256,
  and 256 * 256 is 1 modulo 65535, so a sum of little-endian words is a multiple of
  65535 exactly if that of the big-endian ones is. Filling in a field that was zero
  adds its value to the sum (`Filled`), which gives `UdpVerifies` and `IpVerifies` for
  every header and every payload of even length (the odd last byte is treated apart:
  a 0 fits either half of its word); `WireInv` carries them to the frame on the wire.

Loops over data (digits, formats, text, words of a packet) are recursive functions
in the models. The library's induction theorems take an operator, which the
provers cannot instantiate; `AllNumbers` states induction for a set of numbers
instead (it follows from `Least`, the well-ordering of the numbers) and `NatRecursion`
says that a function that satisfies a recursive equation exists. All rest on the
library's fact that the order of the numbers is well-founded, and stand in
`ConsoleProofs` and in `SendProofs`.

The inductive invariants were checked with TLC on the runs' instances before they
were proved, but for `PrintInv`, `TextInv` and `WireInv`, which quantify over sets that
TLC cannot enumerate; the properties that follow from them are what the runs check. `ImageComplete` got its condition on the address from its proof: the runs'
chains are too short to reach the wrap. The proofs of `PrintingExact` and
`TerminalRefinement` corrected the models too: the digits of a number were defined by
one recursion over all bases, 0 and 1 among them, for which no such function exists,
and two cases of `Terminal`'s `Type` overlapped.

Every safety invariant, both refinements and the scheduler's type invariant that the
passing runs check are proved. Only model-checked are the liveness properties
(`EveryTaskRuns`, `TxRecovers`, `InitReturns`, `EntersKernel`, `ScanEnds`): they need
fairness and `ENABLED`, which are out of the prover's reach.

The type invariants of `Heap` and `Pcnet` are parts of their inductive invariants and
are proved, not run.

## Not modelled

* `frames::free`, `set_cr3`, `mask_irq`, `get_by_mac`, `switch_task`, `htonl`,
  `devices::init`: no callers.
* Calls of the heap that interrupt each other. `kmalloc` has no protection; a model
  would break at its first step, and the code promises nothing. `HeapNotReentered`
  says where it cannot happen.
* Scratch registers that a device IRQ destroys, outside `Tasks`.
* Where task stacks lie: `create` points `esp` 16384 bytes above a block of 4096.
* Where the heap lies: `kmain` starts it at `&stack_end` (`main.cpp:39`), the end of
  the `.bss` of `entry.asm` and not of the kernel's: `link.ld:31-34` puts the `.bss` of
  objects linked later behind it, so blocks may overlap variables. The models keep
  the two apart.
* Heap requests within a header of 4 GB, which overflow the split test.
* The callers' disregard of `kmalloc`'s `(void*)-1`.
* The bytes of the kernel's segments (`.bss` is not cleared by the loader; the
  models take it for zero), failed reads of the FAT and of the directory in the
  second stage, switching between real and protected mode.
* The font, the list of PCI devices that `kmain` prints, the bytes of ARP replies
  and of DHCP's options.
* RTL8139 (empty), the block layer's `read` and `write` (empty), port I/O, Bochs
  output: single instructions, part of the steps that use them.

## What is left

What remains could be added without changing what is there: a model of heap calls
that interrupt each other (it would show that `kmalloc` needs a lock), the bytes of
DHCP's options and of ARP's replies, and failed reads of the FAT and the directory
in the second stage.
