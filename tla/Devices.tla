------------------------------ MODULE Devices -------------------------------
(***************************************************************************)
(* pci::init (drivers/pci.cpp): the scan of PCI configuration space that   *)
(* creates, registers and initialises the drivers, with the registry of    *)
(* drivers/devices.cpp, the constructors of the device classes and         *)
(* PCNET::init up to the start of the card. Interrupts are on during the   *)
(* scan: a card that is started interrupts the initialisation of the next  *)
(* one, and send_irq finds a driver by the line it has stored.             *)
(*                                                                         *)
(* A dword of configuration space is the pair <<low word, high word>>. The *)
(* rings of a started card are those of module Pcnet; here it interrupts,  *)
(* and irq() silences it. The interrupted code is taken to keep its        *)
(* registers, though the stub of a device IRQ saves none                   *)
(* (interrupts.asm:10-14): module Tasks is about that.                     *)
(***************************************************************************)
EXTENDS Integers, Sequences, FiniteSets

CONSTANTS Buses, Devs, Fns,     \* 8, 32 and 8 in the code
          Machines,             \* see MachineOK
          LowBytes,             \* the byte at address 12, where a null driver has irq_n
          Garbage               \* what an uninitialised dev_class may hold

DEVICE_BLOCK   == 0
DEVICE_NETWORK == 1
NoLine == 255           \* irq_n = -1, and an interrupt line that is not connected
Unset  == -1            \* a field the constructor leaves alone

Slots == [bus : 0 .. Buses - 1, device : 0 .. Devs - 1, function : 0 .. Fns - 1]

Word == 0 .. 65535
First(s) == [s EXCEPT !.function = 0]

\* A card, and the dwords of its configuration space that are read: what they
\* say of it is so. A card that says it has one function has bit 7 of its header
\* type clear.
CardOK(card) ==
    LET config == card.config
    IN  /\ \A reg \in {0, 8, 12, 16, 36, 60} : config[reg] \in Word \X Word
        /\ card.kind = "pcnet" <=> config[0] = <<4130, 8192>>
        /\ card.kind = "ahci" <=> config[8][1] \div 256 = 1 /\ config[8][2] = 262
        /\ card.single <=> (config[12][2] \div 128) % 2 = 0
        /\ card.line = config[60][1] % 256
        /\ card.kind = "pcnet" => card.base = config[16][1] - (config[16][1] % 4)

\* A machine says which card answers at each slot, 0 where none does. A card
\* with one function may answer at other function numbers of its device too; a
\* device that has other cards there says so at function 0. A PCnet's ports are
\* its own.
MachineOK(m) ==
    LET single(c) == c # 0 /\ m.cards[c].single
    IN  /\ 0 \notin DOMAIN m.cards /\ \A c \in DOMAIN m.cards : CardOK(m.cards[c])
        /\ m.at \in [Slots -> {0} \cup DOMAIN m.cards]
        /\ \A c \in DOMAIN m.cards : \E s \in Slots : m.at[s] = c
        /\ \A s, t \in Slots : m.at[s] = m.at[t] /\ m.at[s] # 0 /\ s # t =>
                First(s) = First(t) /\ m.at[First(s)] = m.at[s] /\ single(m.at[s])
        /\ \A s \in Slots : m.at[s] # 0 /\ single(m.at[First(s)]) => m.at[First(s)] = m.at[s]
        /\ \A c, d \in DOMAIN m.cards :
                m.cards[c].kind = "pcnet" /\ m.cards[c].base = m.cards[d].base => c = d

ASSUME DevicesAssumption ==
    /\ Buses \in 1 .. 256 /\ Devs \in 1 .. 32 /\ Fns \in 1 .. 8
    /\ \A m \in Machines : MachineOK(m)

VARIABLES
    machine, waits, low,    \* the machine; PCNET::init's loop is compiled; the byte
    pc, at, func, header,   \* pci::init and the driver's init that it calls
    registry,               \* driver_registry up to total_drivers; nulls follow
    unmasked,               \* lines unmasked in the 8259A pair
    mastering,              \* cards that may access memory
    enabled, idon, started, \* cards with INIT and INEA set, initialised, started
    asserted,               \* cards that assert their line
    astray                  \* irq() has used an io_base that was not set

scan  == <<pc, at, func, header>>
cards == <<mastering, enabled, idon, started, asserted>>
given == <<machine, waits, low>>
devVars == <<given, scan, registry, unmasked, cards, astray>>

Init ==
    /\ machine \in Machines /\ waits \in BOOLEAN /\ low \in LowBytes
    /\ pc = "func" /\ at = [bus |-> 0, device |-> 0, function |-> 0] /\ func = 0
    /\ header = << >> /\ registry = << >> /\ unmasked = {}
    /\ mastering = {} /\ enabled = {} /\ idon = {} /\ started = {} /\ asserted = {}
    /\ astray = FALSE

----------------------------------------------------------------------------
(* Configuration space.                                                    *)

GetId(dev, reg) ==
    [bus |-> dev.bus % 256, device |-> dev.device % 32, function |-> dev.function % 8,
     reg |-> reg - (reg % 4)]

\* What the host bridge returns through PCI_DATA: ones where nobody answers.
PciData(id) ==
    LET slot == [bus |-> id.bus, device |-> id.device, function |-> id.function]
        card == machine.at[slot]
    IN  IF card = 0 THEN <<65535, 65535>> ELSE machine.cards[card].config[id.reg]

ConfigRead(dev, reg) == PciData(GetId(dev, reg))

\* config >> ((reg & 2) * 8)
ConfigRead16(dev, reg) == ConfigRead(dev, reg)[1 + ((reg \div 2) % 2)]

\* The fields that are used.
GetDeviceHeader(dev) ==
    [vendor_id  |-> ConfigRead16(dev, 0),
     device_id  |-> ConfigRead16(dev, 2),
     prog_if    |-> ConfigRead16(dev, 8) \div 256,
     subclass   |-> ConfigRead16(dev, 10) % 256,
     class_code |-> ConfigRead16(dev, 10) \div 256,
     bar0       |-> ConfigRead(dev, 16),
     bar5       |-> ConfigRead(dev, 36),
     irq_line   |-> ConfigRead16(dev, 60) % 256]

----------------------------------------------------------------------------
(* The registry.                                                           *)

\* Mutant: total_drivers does not advance.
RegisterOverwrites(drv) == <<drv>>
RegisterDriver(drv) == Append(registry, drv)

\* Mutant: the search does not stop at the first match.
FindLastByClass(class) ==
    LET found == {i \in DOMAIN registry : registry[i].dev_class = class}
    IN  IF found = {} THEN 0 ELSE CHOOSE i \in found : \A j \in found : i >= j

\* Null entries lie behind all drivers: one that matches is a null result too.
FindDeviceByClass(class) ==
    LET found == {i \in DOMAIN registry : registry[i].dev_class = class}
    IN  IF found = {} THEN 0 ELSE CHOOSE i \in found : \A j \in found : i <= j

\* Device, PCIDevice, PCINetworkDevice, PCNET: io_base and mac stay unset.
NewPcnet(info) ==
    [driver |-> "PCNET", info |-> info, dev_class |-> DEVICE_NETWORK, irq_n |-> NoLine,
     io_base |-> Unset, mac |-> Unset, init_done |-> FALSE]

\* PCIBlockDevice has two Device parts. BlockDevice sets dev_class in its own;
\* the registry keeps the part that PCIDevice brings.
NewAhci(info, class) ==
    [driver |-> "AHCI", info |-> info, dev_class |-> class, irq_n |-> NoLine,
     io_base |-> Unset, mac |-> Unset, mmio_base |-> Unset]

----------------------------------------------------------------------------
(* pci::init.                                                              *)

\* Mutant: every device is asked for all its functions.
FunctionsAll(bus, device) == Fns
Functions(bus, device) ==
    LET type == ConfigRead16([bus |-> bus, device |-> device, function |-> 0], 14)
    IN  IF (type \div 128) % 2 = 1 THEN Fns ELSE 1

ReadFunc ==
    /\ pc = "func" /\ pc' = "vendor"
    /\ func' = Functions(at.bus, at.device)
    /\ UNCHANGED <<given, at, header, registry, unmasked, cards, astray>>

IsPcnet(h) == h.vendor_id = 4130 /\ h.device_id = 8192                \* 0x1022, 0x2000
IsAhci(h)  == h.class_code = 1 /\ h.subclass = 6 /\ h.prog_if = 1

\* switch (header.vendor_id), up to register_driver.
Vendor ==
    /\ pc = "vendor"
    /\ header' = GetDeviceHeader(at)
    /\ IF IsPcnet(header')
       THEN registry' = RegisterDriver(NewPcnet(at)) /\ pc' = "irq_n"
       ELSE UNCHANGED registry /\ pc' = "class"
    /\ UNCHANGED <<given, at, func, unmasked, cards, astray>>

\* The three loops' increments and conditions.
Advance ==
    CASE at.function + 1 < func ->
            at' = [at EXCEPT !.function = @ + 1] /\ pc' = "vendor"
      [] at.function + 1 >= func /\ at.device + 1 < Devs ->
            at' = [at EXCEPT !.function = 0, !.device = @ + 1] /\ pc' = "func"
      [] at.function + 1 >= func /\ at.device + 1 >= Devs /\ at.bus + 1 < Buses ->
            at' = [bus |-> at.bus + 1, device |-> 0, function |-> 0] /\ pc' = "func"
      [] OTHER -> UNCHANGED at /\ pc' = "done"

\* A dword without its two low bits.
Aligned(dword) == <<dword[1] - (dword[1] % 4), dword[2]>>

\* AHCIBlockDevice::init.
AhciInit(drv) == [drv EXCEPT !.mmio_base = Aligned(GetDeviceHeader(drv.info).bar5)]

\* switch (header.class_code).
Class ==
    /\ pc = "class"
    /\ IF IsAhci(header)
       THEN \E class \in Garbage : registry' = RegisterDriver(AhciInit(NewAhci(at, class)))
       ELSE UNCHANGED registry
    /\ Advance
    /\ UNCHANGED <<given, func, header, unmasked, cards, astray>>

----------------------------------------------------------------------------
(* PCNET::init. The driver being initialised is the last one registered.   *)

Goto(from, to) == pc = from /\ pc' = to
Driver == registry[Len(registry)]
Set(f, v) == registry' = [registry EXCEPT ![Len(registry)][f] = v]

\* The card whose ports begin at base.
At(base) == {c \in DOMAIN machine.cards : machine.cards[c].base = base}

\* Mutant: the line is never stored.
IrqLineNotStored ==
    Goto("irq_n", "unmask") /\ UNCHANGED <<given, at, func, header, registry, unmasked, cards, astray>>
SetIrqN ==
    /\ Goto("irq_n", "unmask")
    /\ Set("irq_n", GetDeviceHeader(Driver.info).irq_line)
    /\ UNCHANGED <<given, at, func, header, unmasked, cards, astray>>

\* The bits unmask_irq clears. x86 shifts modulo 32: line 40 is taken for line
\* 8, and for 255 the bit lies outside both masks.
Unmasks(line) == IF line < 8 THEN {line} ELSE {8 + ((line - 8) % 32)} \cap 8 .. 15

UnmaskIrq ==
    /\ Goto("unmask", "master")
    /\ unmasked' = unmasked \cup Unmasks(header.irq_line)
    /\ UNCHANGED <<given, at, func, header, registry, cards, astray>>

\* The card at Driver.info gets bus mastering through its command register.
BusMaster ==
    /\ Goto("master", "io_base")
    /\ mastering' = mastering \cup {machine.at[Driver.info]}
    /\ UNCHANGED <<given, at, func, header, registry, unmasked, enabled, idon, started,
                   asserted, astray>>

\* bar0 cut to 16 bits; the reset, and the address from the ports.
SetIoBase ==
    /\ Goto("io_base", "enable")
    /\ LET base == Aligned(header.bar0)[1]
       IN  registry' = [registry EXCEPT ![Len(registry)].io_base = base,
                ![Len(registry)].mac = machine.cards[CHOOSE c \in At(base) : TRUE].mac]
    /\ UNCHANGED <<given, at, func, header, unmasked, cards, astray>>

\* Rings and initialisation block; INIT and INEA in CSR0.
Enable ==
    /\ Goto("enable", "wait")
    /\ enabled' = enabled \cup At(Driver.io_base)
    /\ UNCHANGED <<given, at, func, header, registry, unmasked, mastering, idon, started,
                   asserted, astray>>

\* while(!init_done), and STRT. init_done is not volatile: the compiler may
\* drop the loop.
Start ==
    /\ Goto("wait", "class")
    /\ waits => Driver.init_done
    /\ started' = started \cup At(Driver.io_base)
    /\ UNCHANGED <<given, at, func, header, registry, unmasked, mastering, enabled, idon,
                   asserted, astray>>

----------------------------------------------------------------------------
(* The cards and their interrupts.                                         *)

CardIdon(c) ==
    /\ c \in (enabled \cap mastering) \ idon
    /\ idon' = idon \cup {c} /\ asserted' = asserted \cup {c}
    /\ UNCHANGED <<given, scan, registry, unmasked, mastering, enabled, started, astray>>

CardFrame(c) ==
    /\ c \in started \cap idon /\ asserted' = asserted \cup {c}
    /\ UNCHANGED <<given, scan, registry, unmasked, mastering, enabled, idon, started, astray>>

Line(c) == machine.cards[c].line
Running == pc # "wild"

\* send_irq: every driver with this irq_n is called, and irq() silences the card
\* behind its io_base. For a null entry irq_n is the byte at address 12; if it
\* matches, the call goes through the pointer at address 0.
SendIrq(n) ==
    /\ Running /\ n \in unmasked /\ \E c \in asserted : Line(c) = n
    /\ LET called == {i \in DOMAIN registry : registry[i].irq_n = n}
           of(i)  == At(registry[i].io_base)
       IN  /\ registry' = [i \in DOMAIN registry |->
                  IF i \in called /\ of(i) \cap idon # {}
                  THEN [registry[i] EXCEPT !.init_done = TRUE] ELSE registry[i]]
           /\ asserted' = asserted \ UNION {of(i) : i \in called}
           /\ astray' = (astray \/ \E i \in called : registry[i].io_base = Unset)
    /\ pc' = IF n = low THEN "wild" ELSE pc
    /\ UNCHANGED <<given, at, func, header, unmasked, mastering, enabled, idon, started>>

Pci == ReadFunc \/ Vendor \/ Class \/ SetIrqN \/ UnmaskIrq \/ BusMaster \/ SetIoBase
       \/ Enable \/ Start
Hardware == \E c \in DOMAIN machine.cards : CardIdon(c) \/ CardFrame(c)
Interrupts == \E n \in 0 .. 15 : SendIrq(n)

----------------------------------------------------------------------------
Kind(c) == machine.cards[c].kind
Pcnets  == {c \in DOMAIN machine.cards : Kind(c) = "pcnet"}

\* Where the scan meets a card first, as a number.
Place(c) ==
    LET here == {s \in Slots : machine.at[s] = c}
        key(s) == (s.bus * Devs + s.device) * Fns + s.function
    IN  CHOOSE k \in {key(s) : s \in here} : \A s \in here : k <= key(s)

\* When the scan is over, every card there is a driver for has exactly one, of
\* the right class, in the order of the bus, though a card with one function
\* may answer at all eight and an empty slot reads as a device with eight.
RegistryExact ==
    pc = "done" =>
        LET card(i) == machine.at[registry[i].info]
        IN  /\ {card(i) : i \in DOMAIN registry}
                  = {c \in DOMAIN machine.cards : Kind(c) \in {"pcnet", "ahci"}}
            /\ \A i, j \in DOMAIN registry : i < j => Place(card(i)) < Place(card(j))
            /\ \A i \in DOMAIN registry :
                  (registry[i].driver = "PCNET") = (Kind(card(i)) = "pcnet")

\* No two network cards share a line.
OwnLines == \A c, d \in Pcnets : c # d => Line(c) # Line(d) \/ Line(c) = NoLine

\* A card that asserts its line has a driver that send_irq finds and that talks
\* to this card; and irq() is never called on a driver that does not know its
\* ports yet, unless two cards share a line.
InterruptsReachDrivers ==
    /\ \A c \in asserted : \E i \in DOMAIN registry :
            registry[i].irq_n = Line(c) /\ At(registry[i].io_base) = {c}
    /\ OwnLines => ~astray

\* The scan ends, though it waits for each card inside an interrupt-driven
\* loop: if the byte at address 12 is no line in use, lines are not shared
\* and, where the loop is compiled, every card's line is connected.
ScanEnds ==
    (/\ OwnLines
     /\ \A c \in Pcnets : Line(c) # low /\ (waits => Line(c) < 16)) => <>(pc = "done")

\* pci::init's thread runs whenever it can, the CPU takes interrupts that are
\* asserted and unmasked, and a card that is told to initialise does.
DevFairness ==
    /\ WF_devVars(Pci)
    /\ \A n \in 0 .. 15 : WF_devVars(SendIrq(n))
    /\ \A m \in Machines : \A c \in DOMAIN m.cards : WF_devVars(c \in DOMAIN machine.cards /\ CardIdon(c))
=============================================================================
