----------------------------- MODULE SendProofs -----------------------------
(***************************************************************************)
(* Proofs about the scan of the bus, the interrupts during it, the adapter *)
(* that frames leave through and their checksums, for every machine        *)
(* (MachineOK), any number of buses, devices and functions, and datagrams  *)
(* of any content.                                                         *)
(***************************************************************************)
EXTENDS Send, TLAPS, WellFoundedInduction, SequenceTheorems

\* The order of the three loops.
Before(s, t) ==
    \/ s.bus < t.bus
    \/ s.bus = t.bus /\ s.device < t.device
    \/ s.bus = t.bus /\ s.device = t.device /\ s.function < t.function

\* A card that says it is its device's only function.
Single(c) == c # 0 /\ machine.cards[c].single

\* Slots that the scan looks at.
Visited(s) == s.function = 0 \/ ~Single(machine.at[First(s)])

Inits == {"irq_n", "unmask", "master", "io_base", "enable", "wait"}
InScan == {"vendor", "class"} \cup Inits
Places == {"func", "done", "net", "wild"} \cup InScan

Macs == {machine.cards[c].mac : c \in DOMAIN machine.cards} \cup {Unset}
PcnetDrivers == [driver : {"PCNET"}, info : Slots, dev_class : {DEVICE_NETWORK}, irq_n : 0 .. 255,
                 io_base : Int, mac : Macs, init_done : BOOLEAN]
AhciDrivers == [driver : {"AHCI"}, info : Slots, dev_class : Garbage, irq_n : {NoLine},
                io_base : {Unset}, mac : {Unset}, mmio_base : Int \X Int]

Info(i) == registry[i].info
CardOf(i) == machine.at[Info(i)]

ScanTypes ==
    /\ machine \in Machines /\ pc \in Places /\ at \in Slots
    /\ registry \in Seq(PcnetDrivers \cup AhciDrivers)

\* Where the loops are.
LoopInv ==
    /\ pc = "func" => at.function = 0
    /\ pc \in InScan => func = Functions(at.bus, at.device) /\ Visited(at)
    /\ pc \in InScan \ {"vendor"} => header = GetDeviceHeader(at)

\* Every driver has a card of its kind, at a slot the scan looked at, in its order.
RightCard(i) ==
    /\ CardOf(i) # 0 /\ Visited(Info(i))
    /\ registry[i].driver = "PCNET" => Kind(CardOf(i)) = "pcnet"
    /\ registry[i].driver = "AHCI" => Kind(CardOf(i)) = "ahci"

Passed(i) ==
    \/ Before(Info(i), at)
    \/ /\ Info(i) = at /\ pc \notin {"func", "vendor"}
       /\ pc \in InScan => registry[i].driver = "PCNET"

OrderInv ==
    /\ \A i \in DOMAIN registry : RightCard(i) /\ Passed(i)
    /\ \A i, j \in DOMAIN registry : i < j => Before(Info(i), Info(j))
    /\ pc \in Inits => /\ registry # << >>
                       /\ Driver.driver = "PCNET" /\ Driver.info = at

\* Every card of a kind there is a driver for has one once the scan is past it.
Due(s) ==
    /\ machine.at[s] # 0 /\ Visited(s)
    /\ \/ Kind(machine.at[s]) \in {"pcnet", "ahci"} /\ (Before(s, at) \/ pc \in {"done", "net"})
       \/ Kind(machine.at[s]) = "pcnet" /\ s = at /\ pc = "class"
CompleteInv == \A s \in Slots : Due(s) => \E i \in DOMAIN registry : Info(i) = s

\* What PCNET::init has stored so far.
Lined(i) == registry[i].irq_n = Line(CardOf(i))
Based(i) == /\ registry[i].io_base = machine.cards[CardOf(i)].base
            /\ registry[i].mac = machine.cards[CardOf(i)].mac
InitInv ==
    /\ \A i \in DOMAIN registry : registry[i].driver = "PCNET" =>
        /\ i < Len(registry) \/ pc \notin {"irq_n", "wild"} => Lined(i)
        /\ i < Len(registry) \/ pc \notin {"irq_n", "unmask", "master", "io_base", "wild"} => Based(i)
    /\ pc = "irq_n" => Driver.irq_n = NoLine

\* A card that may interrupt has a driver that is past the setting of both.
Served(c) ==
    /\ c \in Pcnets
    /\ \E i \in DOMAIN registry :
        /\ CardOf(i) = c /\ Lined(i) /\ registry[i].io_base = machine.cards[c].base
        /\ pc \in Inits \ {"wait"} => i < Len(registry)
CardInv ==
    /\ idon \subseteq enabled /\ asserted \subseteq enabled
    /\ \A c \in enabled : Served(c)
    /\ OwnLines => ~astray

ScanInv == ScanTypes /\ LoopInv /\ OrderInv /\ CompleteInv /\ InitInv /\ CardInv

\* The network is not used before the scan is over.
NetInv == pc \in {"func", "done"} \cup InScan => client_mac = ZeroMac /\ wire = None

----------------------------------------------------------------------------
(* Slots and configuration space.                                          *)

LEMMA SlotFields ==
  ASSUME NEW s \in Slots
  PROVE  /\ s.bus \in Nat /\ s.bus < Buses /\ s.device \in Nat /\ s.device < Devs
         /\ s.function \in Nat /\ s.function < Fns
  BY DevicesAssumption DEF Slots

LEMMA SlotBuilt ==
  ASSUME NEW b \in Nat, b < Buses, NEW d \in Nat, d < Devs, NEW f \in Nat, f < Fns
  PROVE  [bus |-> b, device |-> d, function |-> f] \in Slots
  BY DevicesAssumption DEF Slots

LEMMA SlotEqual ==
  ASSUME NEW s \in Slots, NEW t \in Slots,
         s.bus = t.bus, s.device = t.device, s.function = t.function
  PROVE  s = t
  BY DEF Slots

LEMMA SlotIs ==
  ASSUME NEW s \in Slots
  PROVE  s = [bus |-> s.bus, device |-> s.device, function |-> s.function]
  BY DEF Slots

LEMMA FirstSlot ==
  ASSUME NEW s \in Slots
  PROVE  /\ First(s) \in Slots /\ First(s).bus = s.bus /\ First(s).device = s.device
         /\ First(s).function = 0
         /\ First(s) = [bus |-> s.bus, device |-> s.device, function |-> 0]
  <1>1. Fns \in Nat /\ Fns >= 1
    BY DevicesAssumption
  <1>2. 0 \in 0 .. Fns - 1
    BY <1>1
  <1> QED BY <1>2 DEF First, Slots

LEMMA ThisMachine ==
  ASSUME machine \in Machines
  PROVE  /\ 0 \notin DOMAIN machine.cards
         /\ \A c \in DOMAIN machine.cards : CardOK(machine.cards[c])
         /\ machine.at \in [Slots -> {0} \cup DOMAIN machine.cards]
         /\ \A c \in DOMAIN machine.cards : \E s \in Slots : machine.at[s] = c
         /\ \A s, t \in Slots : machine.at[s] = machine.at[t] /\ machine.at[s] # 0 /\ s # t =>
                First(s) = First(t) /\ machine.at[First(s)] = machine.at[s] /\ Single(machine.at[s])
         /\ \A s \in Slots : machine.at[s] # 0 /\ Single(machine.at[First(s)]) =>
                machine.at[First(s)] = machine.at[s]
         /\ \A c, d \in DOMAIN machine.cards :
                Kind(c) = "pcnet" /\ machine.cards[c].base = machine.cards[d].base => c = d
  <1>1. MachineOK(machine)
    BY DevicesAssumption
  <1> QED BY <1>1 DEF MachineOK, Single, Kind

\* get_id names the slot and the register it is given.
LEMMA ReadSlot ==
  ASSUME NEW s \in Slots, NEW reg \in Nat
  PROVE  ConfigRead(s, reg) = IF machine.at[s] = 0 THEN <<65535, 65535>>
                              ELSE machine.cards[machine.at[s]].config[reg - (reg % 4)]
  <1>1. s.bus % 256 = s.bus /\ s.device % 32 = s.device /\ s.function % 8 = s.function
    <2>1. Buses <= 256 /\ Devs <= 32 /\ Fns <= 8 /\ Buses \in Nat /\ Devs \in Nat /\ Fns \in Nat
      BY DevicesAssumption
    <2>2. s.bus \in Nat /\ s.bus < 256 /\ s.device \in Nat /\ s.device < 32
          /\ s.function \in Nat /\ s.function < 8
      BY <2>1, SlotFields
    <2> QED BY <2>2
  <1>2. GetId(s, reg) = [bus |-> s.bus, device |-> s.device, function |-> s.function,
                         reg |-> reg - (reg % 4)]
    BY <1>1 DEF GetId
  <1> QED BY <1>2, SlotIs DEF ConfigRead, PciData

\* Where nobody answers, the header is all ones; else it is the card's.
LEMMA HeaderNone ==
  ASSUME NEW s \in Slots, machine.at[s] = 0
  PROVE  /\ GetDeviceHeader(s).vendor_id = 65535 /\ GetDeviceHeader(s).class_code = 255
         /\ GetDeviceHeader(s).bar5 = <<65535, 65535>>
  <1>1. \A reg \in Nat : ConfigRead(s, reg) = <<65535, 65535>>
    BY ReadSlot
  <1>2. ConfigRead16(s, 0) = 65535 /\ ConfigRead16(s, 10) = 65535 /\ ConfigRead(s, 36) = <<65535, 65535>>
    BY <1>1 DEF ConfigRead16
  <1>3. 65535 \div 256 = 255
    OBVIOUS
  <1> QED BY <1>2, <1>3 DEF GetDeviceHeader

LEMMA HeaderSome ==
  ASSUME NEW s \in Slots, machine.at[s] # 0, NEW config, config = machine.cards[machine.at[s]].config
  PROVE  /\ GetDeviceHeader(s).vendor_id = config[0][1] /\ GetDeviceHeader(s).device_id = config[0][2]
         /\ GetDeviceHeader(s).prog_if = config[8][1] \div 256
         /\ GetDeviceHeader(s).subclass = config[8][2] % 256
         /\ GetDeviceHeader(s).class_code = config[8][2] \div 256
         /\ GetDeviceHeader(s).bar0 = config[16] /\ GetDeviceHeader(s).bar5 = config[36]
         /\ GetDeviceHeader(s).irq_line = config[60][1] % 256
  <1>1. /\ ConfigRead(s, 0) = config[0] /\ ConfigRead(s, 2) = config[0] /\ ConfigRead(s, 8) = config[8]
        /\ ConfigRead(s, 10) = config[8] /\ ConfigRead(s, 16) = config[16]
        /\ ConfigRead(s, 36) = config[36] /\ ConfigRead(s, 60) = config[60]
    BY ReadSlot
  <1>2. /\ ConfigRead16(s, 0) = config[0][1] /\ ConfigRead16(s, 2) = config[0][2]
        /\ ConfigRead16(s, 8) = config[8][1] /\ ConfigRead16(s, 10) = config[8][2]
        /\ ConfigRead16(s, 60) = config[60][1]
    BY <1>1 DEF ConfigRead16
  <1> QED BY <1>1, <1>2 DEF GetDeviceHeader

LEMMA WordFacts ==
  ASSUME NEW w \in Word
  PROVE  /\ w \in Int
         /\ (w % 256 = 6 /\ w \div 256 = 1) <=> w = 262
         /\ w % 256 \in 0 .. 255
         /\ w - (w % 4) \in Nat
         /\ (w \div 128) % 2 = 0 \/ (w \div 128) % 2 = 1
  <1>1. w \in Nat /\ w <= 65535
    BY DEF Word
  <1> QED BY <1>1

LEMMA CardWords ==
  ASSUME NEW card, CardOK(card)
  PROVE  /\ \A reg \in {0, 8, 12, 16, 36, 60} : card.config[reg] \in Word \X Word
         /\ card.kind = "pcnet" <=> card.config[0] = <<4130, 8192>>
         /\ card.kind = "ahci" <=> card.config[8][1] \div 256 = 1 /\ card.config[8][2] = 262
         /\ card.single <=> (card.config[12][2] \div 128) % 2 = 0
         /\ card.line = card.config[60][1] % 256
         /\ card.kind = "pcnet" => card.base = card.config[16][1] - (card.config[16][1] % 4)
  <1>1. \A reg \in {0, 8, 12, 16, 36, 60} : card.config[reg] \in Word \X Word
    BY DEF CardOK
  <1>2. card.kind = "pcnet" <=> card.config[0] = <<4130, 8192>>
    BY DEF CardOK
  <1>3. card.kind = "ahci" <=> card.config[8][1] \div 256 = 1 /\ card.config[8][2] = 262
    BY DEF CardOK
  <1>4. card.single <=> (card.config[12][2] \div 128) % 2 = 0
    BY DEF CardOK
  <1>5. card.line = card.config[60][1] % 256
    BY DEF CardOK
  <1>6. card.kind = "pcnet" => card.base = card.config[16][1] - (card.config[16][1] % 4)
    BY DEF CardOK
  <1> QED BY ONLY <1>1, <1>2, <1>3, <1>4, <1>5, <1>6

\* The switches of pci::init tell the cards apart, and the driver is told the
\* line and the ports of its card.
LEMMA NoCard ==
  ASSUME NEW s \in Slots, machine.at[s] = 0
  PROVE  ~IsPcnet(GetDeviceHeader(s)) /\ ~IsAhci(GetDeviceHeader(s))
  BY HeaderNone DEF IsPcnet, IsAhci

LEMMA HeaderTells ==
  ASSUME machine \in Machines, NEW s \in Slots, NEW c, c = machine.at[s], c # 0
  PROVE  /\ c \in DOMAIN machine.cards
         /\ IsPcnet(GetDeviceHeader(s)) <=> Kind(c) = "pcnet"
         /\ IsAhci(GetDeviceHeader(s)) <=> Kind(c) = "ahci"
         /\ Aligned(GetDeviceHeader(s).bar5) \in Int \X Int
         /\ GetDeviceHeader(s).irq_line = Line(c) /\ Line(c) \in 0 .. 255
         /\ Kind(c) = "pcnet" => /\ Aligned(GetDeviceHeader(s).bar0)[1] = machine.cards[c].base
                                 /\ machine.cards[c].base \in Nat
  <1>0. c \in DOMAIN machine.cards /\ CardOK(machine.cards[c])
    BY ThisMachine
  <1>1. PICK card, config : card = machine.cards[c] /\ config = card.config
    OBVIOUS
  <1>2. PICK h : h = GetDeviceHeader(s)
    OBVIOUS
  <1>3. /\ h.vendor_id = config[0][1] /\ h.device_id = config[0][2]
        /\ h.prog_if = config[8][1] \div 256
        /\ h.subclass = config[8][2] % 256 /\ h.class_code = config[8][2] \div 256
        /\ h.bar0 = config[16] /\ h.bar5 = config[36] /\ h.irq_line = config[60][1] % 256
    BY <1>1, <1>2, HeaderSome
  <1>4. /\ \A reg \in {0, 8, 12, 16, 36, 60} : config[reg] \in Word \X Word
        /\ Kind(c) = "pcnet" <=> config[0] = <<4130, 8192>>
        /\ Kind(c) = "ahci" <=> config[8][1] \div 256 = 1 /\ config[8][2] = 262
        /\ Line(c) = config[60][1] % 256
        /\ Kind(c) = "pcnet" => machine.cards[c].base = config[16][1] - (config[16][1] % 4)
    <2>1. CardOK(card) /\ Kind(c) = card.kind /\ Line(c) = card.line /\ machine.cards[c].base = card.base
      BY <1>0, <1>1 DEF Kind, Line
    <2>2. /\ \A reg \in {0, 8, 12, 16, 36, 60} : card.config[reg] \in Word \X Word
          /\ card.kind = "pcnet" <=> card.config[0] = <<4130, 8192>>
          /\ card.kind = "ahci" <=> card.config[8][1] \div 256 = 1 /\ card.config[8][2] = 262
          /\ card.line = card.config[60][1] % 256
          /\ card.kind = "pcnet" => card.base = card.config[16][1] - (card.config[16][1] % 4)
      BY ONLY <2>1, CardWords
    <2> QED BY ONLY <1>1, <2>1, <2>2
  <1>5. /\ config[0] \in Word \X Word
        /\ config[8][2] \in Word /\ config[16][1] \in Word /\ config[60][1] \in Word
        /\ config[36][1] \in Word /\ config[36][2] \in Word
    BY <1>4
  <1>6. config[0] = <<4130, 8192>> <=> config[0][1] = 4130 /\ config[0][2] = 8192
    BY <1>5
  <1>7. IsPcnet(h) <=> Kind(c) = "pcnet"
    BY <1>3, <1>4, <1>6 DEF IsPcnet
  <1>8. (config[8][2] % 256 = 6 /\ config[8][2] \div 256 = 1) <=> config[8][2] = 262
    BY <1>5, WordFacts
  <1>9. IsAhci(h) <=> Kind(c) = "ahci"
    BY <1>3, <1>4, <1>8 DEF IsAhci
  <1>10. Aligned(h.bar5) \in Int \X Int
    <2>1. config[36][1] - (config[36][1] % 4) \in Int /\ config[36][2] \in Int
      BY <1>5, WordFacts
    <2> QED BY <1>3, <2>1 DEF Aligned
  <1>11. h.irq_line = Line(c) /\ Line(c) \in 0 .. 255
    BY <1>3, <1>4, <1>5, WordFacts
  <1>12. Kind(c) = "pcnet" => Aligned(h.bar0)[1] = machine.cards[c].base /\ machine.cards[c].base \in Nat
    <2>1. config[16][1] - (config[16][1] % 4) \in Nat
      BY <1>5, WordFacts
    <2> QED BY <1>3, <1>4, <2>1 DEF Aligned
  <1> QED BY <1>0, <1>2, <1>7, <1>9, <1>10, <1>11, <1>12

\* A device is asked for all its functions unless its first card has only one.
LEMMA FunctionsAre ==
  ASSUME machine \in Machines, NEW s \in Slots
  PROVE  Functions(s.bus, s.device) = IF Single(machine.at[First(s)]) THEN 1 ELSE Fns
  <1> DEFINE c == machine.at[First(s)]
             type == ConfigRead16(First(s), 14)
  <1>1. ConfigRead(First(s), 14) = IF c = 0 THEN <<65535, 65535>> ELSE machine.cards[c].config[12]
    BY FirstSlot, ReadSlot
  <1>2. type = IF c = 0 THEN 65535 ELSE machine.cards[c].config[12][2]
    BY <1>1 DEF ConfigRead16
  <1>3. Functions(s.bus, s.device) = IF (type \div 128) % 2 = 1 THEN Fns ELSE 1
    BY FirstSlot DEF Functions
  <1> HIDE DEF type
  <1>4. CASE c = 0
    BY <1>2, <1>3, <1>4 DEF Single
  <1>5. CASE c # 0
    <2>1. CardOK(machine.cards[c])
      BY <1>5, ThisMachine, FirstSlot
    <2>2. machine.cards[c].config[12] \in Word \X Word
          /\ (machine.cards[c].single <=> (machine.cards[c].config[12][2] \div 128) % 2 = 0)
      BY <2>1, CardWords
    <2>3. type \in Word /\ (machine.cards[c].single <=> (type \div 128) % 2 = 0)
      BY <1>2, <1>5, <2>2
    <2>4. (type \div 128) % 2 = 0 \/ (type \div 128) % 2 = 1
      BY <2>3, WordFacts
    <2>5. Single(c) <=> (type \div 128) % 2 = 0
      BY <1>5, <2>3 DEF Single
    <2> QED BY <1>3, <2>4, <2>5
  <1> QED BY <1>4, <1>5

\* The scan meets a card once,
LEMMA OneSlot ==
  ASSUME machine \in Machines, NEW s \in Slots, NEW t \in Slots,
         machine.at[s] = machine.at[t], machine.at[s] # 0, Visited(s), Visited(t)
  PROVE  s = t
  <1> SUFFICES ASSUME s # t PROVE FALSE
    OBVIOUS
  <1>1. First(s) = First(t) /\ machine.at[First(s)] = machine.at[s] /\ Single(machine.at[s])
    BY ThisMachine
  <1>2. s.function = 0 /\ t.function = 0
    BY <1>1 DEF Visited
  <1>3. s.bus = t.bus /\ s.device = t.device
    BY <1>1, FirstSlot
  <1> QED BY <1>2, <1>3, SlotEqual

\* and every card.
LEMMA HasSlot ==
  ASSUME machine \in Machines, NEW c \in DOMAIN machine.cards
  PROVE  \E s \in Slots : machine.at[s] = c /\ Visited(s)
  <1>1. PICK s \in Slots : machine.at[s] = c
    BY ThisMachine
  <1>2. c # 0
    BY ThisMachine
  <1>3. CASE Visited(s)
    BY <1>1, <1>3
  <1>4. CASE ~Visited(s)
    <2>1. Single(machine.at[First(s)])
      BY <1>4 DEF Visited
    <2>2. machine.at[First(s)] = c
      BY <1>1, <1>2, <2>1, ThisMachine
    <2>3. Visited(First(s)) /\ First(s) \in Slots
      BY FirstSlot DEF Visited
    <2> QED BY <2>2, <2>3
  <1> QED BY <1>3, <1>4

LEMMA AtBase == ASSUME machine \in Machines, NEW c \in Pcnets PROVE At(machine.cards[c].base) = {c}
  <1>1. c \in DOMAIN machine.cards /\ Kind(c) = "pcnet"
    BY DEF Pcnets
  <1>2. \A d \in DOMAIN machine.cards : machine.cards[c].base = machine.cards[d].base => c = d
    BY <1>1, ThisMachine
  <1> QED BY <1>1, <1>2 DEF At

----------------------------------------------------------------------------
(* The loops.                                                              *)

LEMMA BeforeOrder ==
  ASSUME NEW s \in Slots, NEW t \in Slots
  PROVE  /\ ~Before(s, s)
         /\ \A u \in Slots : Before(s, t) /\ Before(t, u) => Before(s, u)
  BY SlotFields DEF Before

\* The loops step to the next slot that is visited, or end behind the last.
LEMMA AdvanceFacts ==
  ASSUME machine \in Machines, at \in Slots, Visited(at), func = Functions(at.bus, at.device), Advance
  PROVE  /\ at' \in Slots
         /\ \/ pc' = "done" /\ at' = at
            \/ pc' = "func" /\ at'.function = 0 /\ Before(at, at')
            \/ /\ pc' = "vendor" /\ Before(at, at') /\ func = Functions(at'.bus, at'.device)
               /\ First(at') = First(at) /\ ~Single(machine.at[First(at)])
         /\ \A s \in Slots : Visited(s) /\ (Before(s, at') \/ pc' = "done") => Before(s, at) \/ s = at
  <1> DEFINE b == at.bus
             d == at.device
             f == at.function
  <1>1. /\ b \in Nat /\ b < Buses /\ d \in Nat /\ d < Devs /\ f \in Nat /\ f < Fns
        /\ Buses \in Nat /\ Devs \in Nat /\ Fns \in Nat /\ Devs >= 1 /\ Fns >= 1
    BY SlotFields, DevicesAssumption
  <1>2. func = IF Single(machine.at[First(at)]) THEN 1 ELSE Fns
    BY FunctionsAre
  <1>3. at = [bus |-> b, device |-> d, function |-> f]
    BY SlotIs
  \* What the function loop leaves out is not visited.
  <1>4. ASSUME NEW s \in Slots, Visited(s), s.bus = b, s.device = d, func <= f + 1
        PROVE  Before(s, at) \/ s = at
    <2>1. s.function \in Nat /\ s.function < Fns
      BY SlotFields
    <2>2. First(s) = First(at)
      BY <1>4, FirstSlot
    <2>3. s.function = 0 \/ ~Single(machine.at[First(at)])
      BY <1>4, <2>2 DEF Visited
    <2>4. s.function <= f
      BY <1>1, <1>2, <1>4, <2>1, <2>3
    <2>5. CASE s.function = f
      BY <1>4, <2>5, SlotEqual
    <2>6. CASE s.function # f
      BY <1>1, <1>4, <2>1, <2>4, <2>6 DEF Before
    <2> QED BY <2>5, <2>6
  <1> HIDE DEF b, d, f
  <1>5. CASE f + 1 < func
    <2>0. func \in Nat
      BY <1>1, <1>2
    <2>1. at' = [at EXCEPT !.function = @ + 1] /\ pc' = "vendor"
      BY <1>1, <1>5, <2>0 DEF Advance, f
    <2>2. at' = [bus |-> b, device |-> d, function |-> f + 1]
      <3>1. at.function = f
        BY <1>3
      <3> QED BY <1>3, <2>1, <3>1
    <2>3. func = Fns /\ ~Single(machine.at[First(at)])
      BY <1>1, <1>2, <1>5
    <2>4. at' \in Slots
      BY <1>1, <1>5, <2>2, <2>3, SlotBuilt
    <2>5. Before(at, at')
      BY <1>1, <1>3, <2>2 DEF Before
    <2>6. First(at') = First(at)
      BY <1>3, <2>2 DEF First
    <2>7. ASSUME NEW s \in Slots, Before(s, at') PROVE Before(s, at) \/ s = at
      <3>1. s.bus \in Nat /\ s.device \in Nat /\ s.function \in Nat
        BY SlotFields
      <3>2. Before(s, at) \/ (s.bus = b /\ s.device = d /\ s.function = f)
        BY <1>1, <1>3, <2>2, <2>7, <3>1 DEF Before
      <3> QED BY <1>3, <3>2, SlotEqual DEF b, d, f
    <2>8. func = Functions(at'.bus, at'.device)
      BY <1>3, <2>2 DEF b, d
    <2> QED BY <2>1, <2>3, <2>4, <2>5, <2>6, <2>7, <2>8
  <1>6. CASE ~(f + 1 < func) /\ d + 1 < Devs
    <2>0. func \in Nat /\ func <= f + 1
      BY <1>1, <1>2, <1>6
    <2>1. at' = [at EXCEPT !.function = 0, !.device = @ + 1] /\ pc' = "func"
      BY <1>1, <1>6, <2>0 DEF Advance, d, f
    <2>2. at' = [bus |-> b, device |-> d + 1, function |-> 0]
      <3>1. at.device = d
        BY <1>3
      <3> QED BY <1>3, <2>1, <3>1
    <2>3. at' \in Slots
      BY <1>1, <1>6, <2>2, SlotBuilt
    <2>4. Before(at, at') /\ at'.function = 0
      BY <1>1, <1>3, <2>2 DEF Before
    <2>5. ASSUME NEW s \in Slots, Visited(s), Before(s, at') PROVE Before(s, at) \/ s = at
      <3>1. s.bus \in Nat /\ s.device \in Nat /\ s.function \in Nat
        BY SlotFields
      <3>2. Before(s, at) \/ (s.bus = b /\ s.device = d)
        BY <1>1, <1>3, <2>2, <2>5, <3>1 DEF Before
      <3> QED BY <1>4, <2>0, <2>5, <3>2
    <2> QED BY <2>1, <2>3, <2>4, <2>5
  <1>7. CASE ~(f + 1 < func) /\ ~(d + 1 < Devs)
    <2>0. func \in Nat /\ func <= f + 1 /\ Devs <= d + 1
      BY <1>1, <1>2, <1>7
    <2>1. ASSUME NEW s \in Slots, Visited(s), s.bus <= b PROVE Before(s, at) \/ s = at
      <3>1. s.bus \in Nat /\ s.device \in Nat /\ s.device < Devs /\ s.function \in Nat
        BY SlotFields
      <3>2. Before(s, at) \/ (s.bus = b /\ s.device = d)
        BY <1>1, <1>3, <2>0, <2>1, <3>1 DEF Before
      <3> QED BY <1>4, <2>0, <2>1, <3>2
    <2>2. CASE b + 1 < Buses
      <3>1. at' = [bus |-> b + 1, device |-> 0, function |-> 0] /\ pc' = "func"
        BY <1>1, <1>7, <2>0, <2>2 DEF Advance, b, d, f
      <3>2. at' \in Slots
        BY <1>1, <2>2, <3>1, SlotBuilt
      <3>3. Before(at, at') /\ at'.function = 0
        BY <1>1, <1>3, <3>1 DEF Before
      <3>4. ASSUME NEW s \in Slots, Before(s, at') PROVE s.bus <= b
        BY <1>1, <3>1, <3>4, SlotFields DEF Before
      <3> QED BY <2>1, <3>1, <3>2, <3>3, <3>4
    <2>3. CASE ~(b + 1 < Buses)
      <3>1. at' = at /\ pc' = "done"
        BY <1>1, <1>7, <2>0, <2>3 DEF Advance, b, d, f
      <3>2. ASSUME NEW s \in Slots PROVE s.bus <= b
        BY <1>1, <2>3, SlotFields
      <3> QED BY <2>1, <3>1, <3>2
    <2> QED BY <2>2, <2>3
  <1> QED BY <1>5, <1>6, <1>7

----------------------------------------------------------------------------
(* Steps of the scan.                                                      *)

LEMMA ScanInit == Init => ScanInv
  <1> SUFFICES ASSUME Init PROVE ScanInv
    OBVIOUS
  <1>1. at \in Slots /\ at.function = 0 /\ at.bus = 0 /\ at.device = 0
    BY SlotBuilt, DevicesAssumption DEF Init
  <1>2. ScanTypes /\ LoopInv
    BY <1>1 DEF Init, ScanTypes, LoopInv, Places, InScan, Inits
  <1>3. OrderInv /\ InitInv /\ CardInv
    BY DEF Init, OrderInv, InitInv, CardInv, Inits
  <1>4. \A s \in Slots : ~Before(s, at)
    BY <1>1, SlotFields DEF Before
  <1>5. CompleteInv
    BY <1>4 DEF Init, CompleteInv, Due
  <1> QED BY <1>2, <1>3, <1>5 DEF ScanInv

\* Steps between which no driver is registered and no slot is left.
SameDrivers ==
    /\ registry' \in Seq(PcnetDrivers \cup AhciDrivers) /\ DOMAIN registry' = DOMAIN registry
    /\ Len(registry') = Len(registry)
    /\ \A i \in DOMAIN registry : /\ registry'[i].info = registry[i].info
                                  /\ registry'[i].driver = registry[i].driver
SamePlace ==
    \/ pc' = pc \/ pc' = "wild"
    \/ pc = "done" /\ pc' = "net"
    \/ pc \in Inits /\ pc' \in Inits \cup {"class"}

\* Configuration space does not change.
LEMMA SameSpace ==
  ASSUME machine' = machine, at' = at
  PROVE  /\ GetDeviceHeader(at)' = GetDeviceHeader(at)
         /\ Functions(at.bus, at.device)' = Functions(at.bus, at.device)
  <1>1. GetDeviceHeader(at)' = GetDeviceHeader(at)
    BY SMT DEF GetDeviceHeader, ConfigRead16, ConfigRead, PciData
  <1>2. Functions(at.bus, at.device)' = Functions(at.bus, at.device)
    BY SMT DEF Functions, ConfigRead16, ConfigRead, PciData
  <1> QED BY <1>1, <1>2

LEMMA KeepsPlace ==
  ASSUME ScanInv, SameDrivers, SamePlace, UNCHANGED <<machine, at, func, header>>
  PROVE  ScanTypes' /\ LoopInv' /\ OrderInv' /\ CompleteInv'
  <1>1. ScanTypes'
    BY DEF ScanInv, ScanTypes, SameDrivers, SamePlace, PcnetDrivers, Macs, Places, InScan, Inits
  <1>2. /\ GetDeviceHeader(at)' = GetDeviceHeader(at)
        /\ Functions(at.bus, at.device)' = Functions(at.bus, at.device)
    BY SameSpace
  <1>3. LoopInv'
    <2>1. Visited(at)' <=> Visited(at)
      BY DEF Visited, Single
    <2> QED BY <1>2, <2>1 DEF ScanInv, LoopInv, SamePlace, InScan, Inits
  <1>4. \A i \in DOMAIN registry : RightCard(i)' /\ Passed(i)' /\ Info(i)' = Info(i)
    BY DEF ScanInv, OrderInv, RightCard, Passed, Info, CardOf, Kind, Visited, Single, SameDrivers,
           SamePlace, InScan, Inits
  <1>5. pc' \in Inits => pc \in Inits
    BY DEF SamePlace, Inits
  <1>6. registry # << >> => Len(registry) \in DOMAIN registry
    BY DEF ScanInv, ScanTypes
  <1>7. OrderInv'
    BY <1>4, <1>5, <1>6 DEF ScanInv, OrderInv, Driver, SameDrivers
  <1>8. CompleteInv'
    <2> SUFFICES ASSUME NEW s \in Slots, Due(s)' PROVE \E i \in DOMAIN registry : Info(i) = s
      BY <1>4 DEF CompleteInv, SameDrivers
    <2>1. CASE Due(s)
      BY <2>1 DEF ScanInv, CompleteInv
    <2>2. CASE ~Due(s)
      <3>1. s = at /\ pc \in Inits
        BY <2>2 DEF Due, Visited, Single, Kind, SamePlace, Inits
      <3>2. Info(Len(registry)) = at /\ registry # << >>
        BY <3>1 DEF ScanInv, OrderInv, Driver, Info
      <3> QED BY <1>6, <3>1, <3>2
    <2> QED BY <2>1, <2>2
  <1> QED BY <1>1, <1>3, <1>7, <1>8

LEMMA SameRegistry == ASSUME ScanInv, registry' = registry PROVE SameDrivers
  BY DEF ScanInv, ScanTypes, SameDrivers

\* The driver being initialised is that of the card at hand.
LEMMA LastDriver ==
  ASSUME ScanInv, pc \in Inits
  PROVE  /\ Len(registry) \in DOMAIN registry /\ Len(registry) \in Nat
         /\ \A i \in DOMAIN registry : i \in Nat /\ i <= Len(registry)
         /\ registry[Len(registry)] \in PcnetDrivers /\ registry[Len(registry)].info = at
         /\ CardOf(Len(registry)) = machine.at[at] /\ machine.at[at] # 0 /\ machine.at[at] \in Pcnets
  <1>1. registry # << >> /\ Driver.driver = "PCNET" /\ Driver.info = at
    BY DEF ScanInv, OrderInv
  <1>2. registry \in Seq(PcnetDrivers \cup AhciDrivers)
    BY DEF ScanInv, ScanTypes
  <1>3. /\ Len(registry) \in DOMAIN registry /\ Len(registry) \in Nat
        /\ \A i \in DOMAIN registry : i \in Nat /\ i <= Len(registry)
        /\ registry[Len(registry)] \in PcnetDrivers \cup AhciDrivers
    BY <1>1, <1>2
  <1>4. registry[Len(registry)] \in PcnetDrivers
    BY <1>1, <1>3 DEF Driver, AhciDrivers
  <1>5. /\ CardOf(Len(registry)) = machine.at[at] /\ machine.at[at] # 0
        /\ Kind(machine.at[at]) = "pcnet"
    BY <1>1, <1>3 DEF ScanInv, OrderInv, RightCard, CardOf, Info, Driver
  <1>6. machine.at[at] \in DOMAIN machine.cards
    BY <1>5, ThisMachine DEF ScanInv, ScanTypes
  <1> QED BY <1>1, <1>3, <1>4, <1>5, <1>6 DEF Driver, Pcnets

LEMMA KeepsQuiet == ASSUME ScanInv, UnmaskIrq \/ BusMaster \/ Start PROVE ScanInv'
  <1>1. UNCHANGED <<machine, at, func, header, registry, enabled, idon, asserted, astray>>
    BY DEF UnmaskIrq, BusMaster, Start, given, cards
  <1>2. \/ pc = "unmask" /\ pc' = "master"
        \/ pc = "master" /\ pc' = "io_base"
        \/ pc = "wait" /\ pc' = "class"
    BY DEF UnmaskIrq, BusMaster, Start, Goto
  <1>3. SamePlace
    BY <1>2 DEF SamePlace, Inits
  <1>4. ScanTypes' /\ LoopInv' /\ OrderInv' /\ CompleteInv'
    BY <1>1, <1>3, KeepsPlace, SameRegistry
  <1>5. InitInv'
    <2>1. \A i : Lined(i)' = Lined(i) /\ Based(i)' = Based(i)
      BY <1>1 DEF Lined, Based, CardOf, Info, Line
    <2> QED BY <1>1, <1>2, <2>1 DEF ScanInv, InitInv, Driver
  <1>6. CardInv'
    BY <1>1, <1>2 DEF ScanInv, CardInv, Served, Pcnets, Kind, OwnLines, Lined, CardOf, Info, Line, Inits
  <1> QED BY <1>4, <1>5, <1>6 DEF ScanInv

LEMMA KeepsEnable == ASSUME ScanInv, Enable PROVE ScanInv'
  <1>1. UNCHANGED <<machine, at, func, header, registry, idon, asserted, astray>>
    BY DEF Enable, given, cards
  <1>2. pc = "enable" /\ pc' = "wait" /\ pc \in Inits
    BY DEF Enable, Goto, Inits
  <1>3. SamePlace
    BY <1>2 DEF SamePlace, Inits
  <1>4. ScanTypes' /\ LoopInv' /\ OrderInv' /\ CompleteInv'
    BY <1>1, <1>3, KeepsPlace, SameRegistry
  <1>5. InitInv'
    <2>1. \A i : Lined(i)' = Lined(i) /\ Based(i)' = Based(i)
      BY <1>1 DEF Lined, Based, CardOf, Info, Line
    <2> QED BY <1>1, <1>2, <2>1 DEF ScanInv, InitInv, Driver
  <1> DEFINE n == Len(registry)
             c == machine.at[at]
  <1>6. /\ n \in DOMAIN registry /\ c \in Pcnets /\ CardOf(n) = c
        /\ registry[n].driver = "PCNET"
    BY <1>2, LastDriver DEF PcnetDrivers
  <1>7. Lined(n) /\ registry[n].io_base = machine.cards[c].base
    BY <1>2, <1>6 DEF ScanInv, InitInv, Based
  <1>8. enabled' = enabled \cup {c}
    BY <1>6, <1>7, AtBase DEF Enable, Driver, ScanInv, ScanTypes
  <1>9. \A d \in enabled' : Served(d)'
    BY <1>1, <1>2, <1>6, <1>7, <1>8
       DEF ScanInv, CardInv, Served, Pcnets, Kind, Lined, CardOf, Info, Line, Inits
  <1>10. CardInv'
    BY <1>1, <1>8, <1>9 DEF ScanInv, CardInv, OwnLines, Pcnets, Kind, Line
  <1> QED BY <1>4, <1>5, <1>10 DEF ScanInv

LEMMA KeepsSetIrqN == ASSUME ScanInv, SetIrqN PROVE ScanInv'
  <1>1. UNCHANGED <<machine, at, func, header, enabled, idon, asserted, astray>>
    BY DEF SetIrqN, given, cards
  <1>2. pc = "irq_n" /\ pc' = "unmask" /\ pc \in Inits
    BY DEF SetIrqN, Goto, Inits
  <1>3. SamePlace
    BY <1>2 DEF SamePlace, Inits
  <1>4. PICK n, v : n = Len(registry) /\ v = GetDeviceHeader(at).irq_line
    OBVIOUS
  <1>5. /\ n \in DOMAIN registry /\ n \in Nat /\ \A i \in DOMAIN registry : i \in Nat /\ i <= n
        /\ registry[n] \in PcnetDrivers /\ registry[n].info = at
        /\ CardOf(n) = machine.at[at] /\ machine.at[at] # 0 /\ machine.at[at] \in Pcnets
    BY <1>2, <1>4, LastDriver
  <1>6. v = Line(machine.at[at]) /\ v \in 0 .. 255
    BY <1>4, <1>5, HeaderTells DEF ScanInv, ScanTypes
  <1>7. registry' = [registry EXCEPT ![n] = [registry[n] EXCEPT !["irq_n"] = v]]
    BY <1>4, <1>5 DEF SetIrqN, Set, Driver
  <1>8. [registry[n] EXCEPT !["irq_n"] = v] \in PcnetDrivers
    BY <1>5, <1>6 DEF PcnetDrivers
  <1>9. /\ registry' \in Seq(PcnetDrivers \cup AhciDrivers)
        /\ DOMAIN registry' = DOMAIN registry /\ Len(registry') = n
        /\ \A i \in DOMAIN registry : i # n => registry'[i] = registry[i]
        /\ registry'[n] = [registry[n] EXCEPT !["irq_n"] = v]
    BY <1>4, <1>5, <1>7, <1>8 DEF ScanInv, ScanTypes
  <1>10. /\ registry'[n].info = registry[n].info /\ registry'[n].driver = registry[n].driver
         /\ registry'[n].irq_n = v /\ registry'[n].io_base = registry[n].io_base
         /\ registry'[n].mac = registry[n].mac
    BY <1>5, <1>9 DEF PcnetDrivers
  <1>11. SameDrivers
    BY <1>4, <1>9, <1>10 DEF SameDrivers
  <1>12. ScanTypes' /\ LoopInv' /\ OrderInv' /\ CompleteInv'
    BY <1>1, <1>3, <1>11, KeepsPlace
  <1>13. InitInv'
    <2>1. ASSUME NEW i \in DOMAIN registry, i # n, registry[i].driver = "PCNET" PROVE Lined(i)' /\ Based(i)'
      <3>1. Lined(i) /\ Based(i)
        BY <1>4, <1>5, <2>1 DEF ScanInv, InitInv
      <3> QED BY <1>1, <1>9, <2>1, <3>1 DEF Lined, Based, CardOf, Info, Line
    <2>2. Lined(n)'
      BY <1>1, <1>5, <1>6, <1>10 DEF Lined, CardOf, Info, Line
    <2> QED BY <1>2, <1>4, <1>5, <1>9, <2>1, <2>2 DEF InitInv
  <1>14. CardInv'
    <2>1. ASSUME NEW c \in enabled PROVE Served(c)'
      <3>1. PICK i \in DOMAIN registry : /\ CardOf(i) = c /\ Lined(i) /\ i < n
                                         /\ registry[i].io_base = machine.cards[c].base
        BY <1>2, <1>4 DEF ScanInv, CardInv, Served, Inits
      <3>2. registry'[i] = registry[i]
        BY <1>5, <1>9, <3>1
      <3>3. c \in Pcnets
        BY DEF ScanInv, CardInv, Served
      <3> QED BY <1>1, <1>9, <3>1, <3>2, <3>3 DEF Served, Pcnets, Kind, Lined, CardOf, Info, Line
    <2> QED BY <1>1, <2>1 DEF ScanInv, CardInv, OwnLines, Pcnets, Kind, Line
  <1> QED BY <1>12, <1>13, <1>14 DEF ScanInv

LEMMA KeepsSetIoBase == ASSUME ScanInv, SetIoBase PROVE ScanInv'
  <1>1. UNCHANGED <<machine, at, func, header, enabled, idon, asserted, astray>>
    BY DEF SetIoBase, given, cards
  <1>2. pc = "io_base" /\ pc' = "enable" /\ pc \in Inits
    BY DEF SetIoBase, Goto, Inits
  <1>3. SamePlace
    BY <1>2 DEF SamePlace, Inits
  <1>4. PICK n, c : n = Len(registry) /\ c = machine.at[at]
    OBVIOUS
  <1>5. /\ n \in DOMAIN registry /\ n \in Nat /\ \A i \in DOMAIN registry : i \in Nat /\ i <= n
        /\ registry[n] \in PcnetDrivers /\ registry[n].info = at
        /\ CardOf(n) = c /\ c # 0 /\ c \in Pcnets
    BY <1>2, <1>4, LastDriver
  <1>6. /\ Aligned(header.bar0)[1] = machine.cards[c].base /\ machine.cards[c].base \in Nat
    <2>1. header = GetDeviceHeader(at)
      BY <1>2 DEF ScanInv, LoopInv, InScan, Inits
    <2> QED BY <1>4, <1>5, <2>1, HeaderTells DEF ScanInv, ScanTypes, Pcnets
  <1>7. PICK base, mac : base = machine.cards[c].base /\ mac = machine.cards[c].mac
    OBVIOUS
  <1>8. mac \in Macs /\ base \in Int
    BY <1>5, <1>6, <1>7 DEF Macs, Pcnets
  <1>9. machine.cards[CHOOSE d \in At(base) : TRUE].mac = mac
    <2>1. At(base) = {c}
      BY <1>5, <1>7, AtBase DEF ScanInv, ScanTypes
    <2>2. (CHOOSE d \in At(base) : TRUE) = c
      BY <2>1
    <2> QED BY <1>7, <2>2
  <1>10. registry' = [registry EXCEPT ![n].io_base = base, ![n].mac = mac]
    BY <1>4, <1>6, <1>7, <1>9 DEF SetIoBase
  <1>11. registry' = [registry EXCEPT ![n] = [registry[n] EXCEPT !.io_base = base, !.mac = mac]]
    BY <1>5, <1>10 DEF ScanInv, ScanTypes
  <1>12. [registry[n] EXCEPT !.io_base = base, !.mac = mac] \in PcnetDrivers
    BY <1>5, <1>8 DEF PcnetDrivers
  <1>13. /\ registry' \in Seq(PcnetDrivers \cup AhciDrivers)
         /\ DOMAIN registry' = DOMAIN registry /\ Len(registry') = n
         /\ \A i \in DOMAIN registry : i # n => registry'[i] = registry[i]
         /\ registry'[n] = [registry[n] EXCEPT !.io_base = base, !.mac = mac]
    BY <1>4, <1>5, <1>11, <1>12 DEF ScanInv, ScanTypes
  <1>14. /\ registry'[n].info = registry[n].info /\ registry'[n].driver = registry[n].driver
         /\ registry'[n].irq_n = registry[n].irq_n /\ registry'[n].io_base = base
         /\ registry'[n].mac = mac
    BY <1>5, <1>13 DEF PcnetDrivers
  <1>15. SameDrivers
    BY <1>4, <1>13, <1>14 DEF SameDrivers
  <1>16. ScanTypes' /\ LoopInv' /\ OrderInv' /\ CompleteInv'
    BY <1>1, <1>3, <1>15, KeepsPlace
  <1>17. InitInv'
    <2>1. ASSUME NEW i \in DOMAIN registry, i # n, registry[i].driver = "PCNET" PROVE Lined(i)' /\ Based(i)'
      <3>1. Lined(i) /\ Based(i)
        BY <1>4, <1>5, <2>1 DEF ScanInv, InitInv
      <3> QED BY <1>1, <1>13, <2>1, <3>1 DEF Lined, Based, CardOf, Info, Line
    <2>2. Lined(n)
      BY <1>2, <1>5 DEF ScanInv, InitInv, PcnetDrivers
    <2>3. Lined(n)' /\ Based(n)'
      BY <1>1, <1>4, <1>5, <1>7, <1>14, <2>2 DEF Lined, Based, CardOf, Info, Line
    <2> QED BY <1>2, <1>5, <1>13, <2>1, <2>3 DEF InitInv
  <1>18. CardInv'
    <2>1. ASSUME NEW d \in enabled PROVE Served(d)'
      <3>1. PICK i \in DOMAIN registry : /\ CardOf(i) = d /\ Lined(i) /\ i < n
                                         /\ registry[i].io_base = machine.cards[d].base
        BY <1>2, <1>4 DEF ScanInv, CardInv, Served, Inits
      <3>2. registry'[i] = registry[i]
        BY <1>5, <1>13, <3>1
      <3>3. d \in Pcnets
        BY DEF ScanInv, CardInv, Served
      <3> QED BY <1>1, <1>13, <3>1, <3>2, <3>3 DEF Served, Pcnets, Kind, Lined, CardOf, Info, Line
    <2> QED BY <1>1, <2>1 DEF ScanInv, CardInv, OwnLines, Pcnets, Kind, Line
  <1> QED BY <1>16, <1>17, <1>18 DEF ScanInv

LEMMA KeepsCard ==
  ASSUME ScanInv, NEW c \in DOMAIN machine.cards, CardIdon(c) \/ CardFrame(c) PROVE ScanInv'
  <1>1. UNCHANGED <<machine, pc, at, func, header, registry, enabled, astray>>
    BY DEF CardIdon, CardFrame, given, scan
  <1>2. SamePlace
    BY <1>1 DEF SamePlace
  <1>3. ScanTypes' /\ LoopInv' /\ OrderInv' /\ CompleteInv'
    BY <1>1, <1>2, KeepsPlace, SameRegistry
  <1>4. \A i : Lined(i)' = Lined(i) /\ Based(i)' = Based(i)
    BY <1>1 DEF Lined, Based, CardOf, Info, Line
  <1>5. InitInv'
    BY <1>1, <1>4 DEF ScanInv, InitInv, Driver
  <1>6. idon' \subseteq enabled' /\ asserted' \subseteq enabled'
    BY <1>1 DEF ScanInv, CardInv, CardIdon, CardFrame
  <1>7. CardInv'
    BY <1>1, <1>6 DEF ScanInv, CardInv, Served, Pcnets, Kind, OwnLines, Lined, CardOf, Info, Line
  <1> QED BY <1>3, <1>5, <1>7 DEF ScanInv

\* Two drivers have two cards.
LEMMA OwnCards ==
  ASSUME ScanInv, NEW i \in DOMAIN registry, NEW j \in DOMAIN registry, CardOf(i) = CardOf(j)
  PROVE  i = j
  <1>1. /\ Info(i) \in Slots /\ Info(j) \in Slots /\ machine \in Machines
        /\ i \in Nat /\ j \in Nat
    BY DEF ScanInv, ScanTypes, Info, PcnetDrivers, AhciDrivers
  <1>2. Visited(Info(i)) /\ Visited(Info(j)) /\ CardOf(i) # 0
    BY DEF ScanInv, OrderInv, RightCard
  <1>3. Info(i) = Info(j)
    BY <1>1, <1>2, OneSlot DEF CardOf
  <1>4. ~(i < j) /\ ~(j < i)
    BY <1>1, <1>3, BeforeOrder DEF ScanInv, OrderInv
  <1> QED BY <1>1, <1>4

\* irq() knows its ports: the driver that is called is not the one being
\* initialised, whose card is not enabled yet and has a line of its own.
LEMMA NotAstray ==
  ASSUME ScanInv, OwnLines, NEW n \in 0 .. 15, NEW c \in asserted, Line(c) = n,
         Running, NEW i \in DOMAIN registry, registry[i].irq_n = n
  PROVE  registry[i].io_base # Unset
  <1> SUFFICES ASSUME registry[i].io_base = Unset PROVE FALSE
    OBVIOUS
  <1>1. registry[i] \in PcnetDrivers \cup AhciDrivers /\ machine \in Machines
        /\ i \in Nat /\ Len(registry) \in Nat /\ i <= Len(registry)
    BY DEF ScanInv, ScanTypes
  <1>2. registry[i].driver = "PCNET"
    BY <1>1 DEF PcnetDrivers, AhciDrivers, NoLine
  <1>3. CardOf(i) # 0 /\ Kind(CardOf(i)) = "pcnet" /\ Info(i) \in Slots
    BY <1>1, <1>2 DEF ScanInv, OrderInv, RightCard, Info, PcnetDrivers, AhciDrivers
  <1>4. CardOf(i) \in DOMAIN machine.cards /\ machine.cards[CardOf(i)].base \in Nat
    BY <1>1, <1>3, HeaderTells DEF CardOf
  <1>5. ~Based(i)
    BY <1>4 DEF Based, Unset
  <1>6. i = Len(registry) /\ pc \in {"irq_n", "unmask", "master", "io_base"}
    BY <1>1, <1>2, <1>5 DEF ScanInv, InitInv, Running
  <1>7. pc # "irq_n"
    BY <1>6 DEF ScanInv, InitInv, Driver, NoLine
  <1>8. Line(CardOf(i)) = n
    BY <1>2, <1>6, <1>7 DEF ScanInv, InitInv, Lined
  <1>9. c \in Pcnets /\ \E j \in DOMAIN registry : CardOf(j) = c /\ j < Len(registry)
    BY <1>6 DEF ScanInv, CardInv, Served, Inits
  <1>10. c # CardOf(i)
    <2>1. PICK j \in DOMAIN registry : CardOf(j) = c /\ j < Len(registry)
      BY <1>9
    <2>2. j # i
      BY <1>1, <1>6, <2>1
    <2> QED BY <2>1, <2>2, OwnCards
  <1>11. CardOf(i) \in Pcnets
    BY <1>3, <1>4 DEF Pcnets
  <1> QED BY <1>8, <1>9, <1>10, <1>11 DEF OwnLines, NoLine

LEMMA KeepsSendIrq == ASSUME ScanInv, NEW n \in 0 .. 15, SendIrq(n) PROVE ScanInv'
  <1>1. UNCHANGED <<machine, at, func, header, enabled, idon>>
    BY DEF SendIrq, given
  <1>2. (pc' = pc \/ pc' = "wild") /\ SamePlace /\ pc # "wild"
    BY DEF SendIrq, SamePlace, Running
  <1>3. DOMAIN registry = 1 .. Len(registry) /\ Len(registry) \in Nat
        /\ \A i \in DOMAIN registry : registry[i] \in PcnetDrivers \cup AhciDrivers
    BY DEF ScanInv, ScanTypes
  <1>4. ASSUME NEW i \in DOMAIN registry
        PROVE  /\ registry'[i] \in PcnetDrivers \cup AhciDrivers
               /\ registry'[i].info = registry[i].info /\ registry'[i].driver = registry[i].driver
               /\ registry'[i].irq_n = registry[i].irq_n /\ registry'[i].io_base = registry[i].io_base
               /\ registry'[i].mac = registry[i].mac
    <2>1. \/ registry'[i] = registry[i]
          \/ registry[i].irq_n = n /\ registry'[i] = [registry[i] EXCEPT !.init_done = TRUE]
      BY DEF SendIrq
    <2>2. CASE registry'[i] = registry[i]
      BY <1>3, <2>2
    <2>3. CASE registry[i].irq_n = n /\ registry'[i] = [registry[i] EXCEPT !.init_done = TRUE]
      <3>1. registry[i] \in PcnetDrivers
        BY <1>3, <2>3 DEF AhciDrivers, NoLine
      <3> QED BY <2>3, <3>1 DEF PcnetDrivers
    <2> QED BY <2>1, <2>2, <2>3
  <1>5. DOMAIN registry' = DOMAIN registry /\ registry' = [i \in 1 .. Len(registry) |-> registry'[i]]
    BY <1>3 DEF SendIrq
  <1>6. registry' \in Seq(PcnetDrivers \cup AhciDrivers) /\ Len(registry') = Len(registry)
    BY <1>3, <1>4, <1>5
  <1>7. SameDrivers
    BY <1>4, <1>5, <1>6 DEF SameDrivers
  <1>8. ScanTypes' /\ LoopInv' /\ OrderInv' /\ CompleteInv'
    BY <1>1, <1>2, <1>7, KeepsPlace
  <1>9. \A i \in DOMAIN registry : Lined(i)' = Lined(i) /\ Based(i)' = Based(i) /\ CardOf(i)' = CardOf(i)
    BY <1>1, <1>4 DEF Lined, Based, CardOf, Info, Line
  <1>10. InitInv'
    <2>1. pc' = "irq_n" => Len(registry) \in DOMAIN registry
      BY <1>2, LastDriver DEF Inits
    <2> QED BY <1>2, <1>4, <1>5, <1>6, <1>9, <2>1 DEF ScanInv, InitInv, Driver
  <1>11. \A d \in enabled : Served(d)'
    BY <1>1, <1>2, <1>4, <1>5, <1>6, <1>9 DEF ScanInv, CardInv, Served, Pcnets, Kind, Inits
  <1>12. OwnLines => ~astray'
    <2> SUFFICES ASSUME OwnLines PROVE ~astray'
      OBVIOUS
    <2>1. ~astray
      BY DEF ScanInv, CardInv
    <2>2. PICK c \in asserted : Line(c) = n
      BY DEF SendIrq
    <2>3. \A i \in DOMAIN registry : registry[i].irq_n = n => registry[i].io_base # Unset
      BY <2>2, NotAstray DEF SendIrq
    <2> QED BY <2>1, <2>3 DEF SendIrq
  <1>13. CardInv'
    <2>1. asserted' \subseteq enabled' /\ idon' \subseteq enabled'
      BY <1>1 DEF ScanInv, CardInv, SendIrq
    <2>2. OwnLines' <=> OwnLines
      BY <1>1 DEF OwnLines, Pcnets, Kind, Line
    <2> QED BY <1>1, <1>11, <1>12, <2>1, <2>2 DEF CardInv
  <1> QED BY <1>8, <1>10, <1>13 DEF ScanInv

LEMMA KeepsReadFunc == ASSUME ScanInv, ReadFunc PROVE ScanInv'
  <1>1. /\ UNCHANGED <<machine, at, header, registry, enabled, idon, asserted, astray>>
        /\ pc = "func" /\ pc' = "vendor" /\ func' = Functions(at.bus, at.device)
    BY DEF ReadFunc, given, cards
  <1>2. ScanTypes'
    BY <1>1 DEF ScanInv, ScanTypes, PcnetDrivers, Macs, Places, InScan, Inits
  <1>3. LoopInv'
    <2>1. Functions(at.bus, at.device)' = Functions(at.bus, at.device)
      BY <1>1, SameSpace
    <2>2. Visited(at)'
      BY <1>1 DEF ScanInv, LoopInv, Visited
    <2> QED BY <1>1, <2>1, <2>2 DEF LoopInv
  <1>4. OrderInv'
    BY <1>1 DEF ScanInv, OrderInv, RightCard, Passed, Info, CardOf, Kind, Visited, Single, Inits
  <1>5. CompleteInv'
    BY <1>1 DEF ScanInv, CompleteInv, Due, Visited, Single, Kind, Info
  <1>6. InitInv'
    <2>1. \A i : Lined(i)' = Lined(i) /\ Based(i)' = Based(i)
      BY <1>1 DEF Lined, Based, CardOf, Info, Line
    <2> QED BY <1>1, <2>1 DEF ScanInv, InitInv, Driver
  <1>7. CardInv'
    BY <1>1 DEF ScanInv, CardInv, Served, Pcnets, Kind, OwnLines, Lined, CardOf, Info, Line, Inits
  <1> QED BY <1>2, <1>3, <1>4, <1>5, <1>6, <1>7 DEF ScanInv

\* A driver is added to the registry.
LEMMA Appended ==
  ASSUME ScanInv, NEW drv \in PcnetDrivers \cup AhciDrivers, registry' = Append(registry, drv)
  PROVE  /\ registry' \in Seq(PcnetDrivers \cup AhciDrivers) /\ registry' # << >>
         /\ Len(registry) \in Nat /\ Len(registry') = Len(registry) + 1
         /\ DOMAIN registry' = DOMAIN registry \cup {Len(registry) + 1}
         /\ \A i \in DOMAIN registry : i \in Nat /\ i <= Len(registry) /\ registry'[i] = registry[i]
         /\ registry'[Len(registry) + 1] = drv
  BY DEF ScanInv, ScanTypes

LEMMA KeepsVendor == ASSUME ScanInv, Vendor PROVE ScanInv'
  <1>1. /\ UNCHANGED <<machine, at, func, enabled, idon, asserted, astray>>
        /\ pc = "vendor" /\ header' = GetDeviceHeader(at)
    BY DEF Vendor, given, cards
  <1>2. \/ IsPcnet(header') /\ registry' = Append(registry, NewPcnet(at)) /\ pc' = "irq_n"
        \/ ~IsPcnet(header') /\ registry' = registry /\ pc' = "class"
    BY DEF Vendor, RegisterDriver
  <1>3. machine \in Machines /\ at \in Slots /\ func = Functions(at.bus, at.device) /\ Visited(at)
    BY <1>1 DEF ScanInv, ScanTypes, LoopInv, InScan
  <1>4. IsPcnet(header') <=> machine.at[at] # 0 /\ Kind(machine.at[at]) = "pcnet"
    BY <1>1, <1>3, NoCard, HeaderTells
  <1>5. LoopInv'
    <2>1. Functions(at.bus, at.device)' = Functions(at.bus, at.device)
      BY <1>1, SameSpace
    <2>2. GetDeviceHeader(at)' = GetDeviceHeader(at)
      BY <1>1, SameSpace
    <2>3. Visited(at)'
      BY <1>1, <1>3 DEF Visited, Single
    <2> QED BY <1>1, <1>2, <1>3, <2>1, <2>2, <2>3 DEF LoopInv
  <1>6. \A i \in DOMAIN registry : Before(Info(i), at) /\ RightCard(i)
    BY <1>1 DEF ScanInv, OrderInv, Passed
  <1>7. \A i \in DOMAIN registry : registry[i].driver = "PCNET" => Lined(i) /\ Based(i)
    BY <1>1 DEF ScanInv, InitInv
  <1>8. OwnLines' <=> OwnLines
    BY <1>1 DEF OwnLines, Pcnets, Kind, Line
  <1>9. CASE IsPcnet(header')
    <2> DEFINE n == Len(registry)
    <2>1. NewPcnet(at) \in PcnetDrivers
      BY <1>3 DEF NewPcnet, PcnetDrivers, Macs, NoLine, Unset
    <2>2. registry' = Append(registry, NewPcnet(at)) /\ pc' = "irq_n"
      BY <1>2, <1>9
    <2>3. /\ registry' \in Seq(PcnetDrivers \cup AhciDrivers) /\ registry' # << >>
          /\ n \in Nat /\ Len(registry') = n + 1
          /\ DOMAIN registry' = DOMAIN registry \cup {n + 1}
          /\ \A i \in DOMAIN registry : i \in Nat /\ i <= n /\ registry'[i] = registry[i]
          /\ registry'[n + 1] = NewPcnet(at)
      BY <2>1, <2>2, Appended
    <2>4. /\ registry'[n + 1].info = at /\ registry'[n + 1].driver = "PCNET"
          /\ registry'[n + 1].irq_n = NoLine
      BY <2>3 DEF NewPcnet
    <2>5. PICK k : k = n + 1
      OBVIOUS
    <2> HIDE DEF n
    <2>6. ScanTypes'
      BY <1>1, <1>3, <2>2, <2>3 DEF ScanTypes, PcnetDrivers, Macs, Places, InScan, Inits
    <2>7. \A i \in DOMAIN registry : RightCard(i)' /\ Passed(i)' /\ Info(i)' = Info(i)
      BY <1>1, <1>6, <2>2, <2>3 DEF RightCard, Passed, Info, CardOf, Kind, Visited, Single
    <2>8. RightCard(k)' /\ Passed(k)' /\ Info(k)' = at
      BY <1>1, <1>3, <1>4, <1>9, <2>2, <2>4, <2>5 DEF RightCard, Passed, Info, CardOf, Kind, Visited, Single
    <2>9. OrderInv'
      <3>1. \A i, j \in DOMAIN registry' : i < j => Before(Info(i)', Info(j)')
        BY <1>6, <2>3, <2>5, <2>7, <2>8 DEF ScanInv, OrderInv
      <3>2. Driver'.driver = "PCNET" /\ Driver'.info = at'
        BY <1>1, <2>3, <2>4 DEF Driver
      <3>3. \A i \in DOMAIN registry' : RightCard(i)' /\ Passed(i)'
        BY <2>3, <2>5, <2>7, <2>8
      <3>4. \A i, j \in DOMAIN registry' : i < j => Before(Info(i), Info(j))'
        BY <3>1 DEF Before
      <3> QED BY <2>3, <3>2, <3>3, <3>4 DEF OrderInv
    <2>10. CompleteInv'
      BY <1>1, <2>2, <2>3, <2>7 DEF ScanInv, CompleteInv, Due, Visited, Single, Kind
    <2>11. \A i \in DOMAIN registry : (Lined(i)' <=> Lined(i)) /\ (Based(i)' <=> Based(i)) /\ CardOf(i)' = CardOf(i)
      BY <1>1, <2>3 DEF Lined, Based, CardOf, Info, Line
    <2>12. InitInv'
      <3>1. Driver'.irq_n = NoLine
        BY <2>3, <2>4 DEF Driver
      <3>2. ASSUME NEW i \in DOMAIN registry', registry'[i].driver = "PCNET", i < Len(registry')
            PROVE  Lined(i)' /\ Based(i)'
        BY <1>7, <2>3, <2>11, <3>2
      <3>3. \A i \in DOMAIN registry' : i < Len(registry') \/ i = Len(registry')
        BY <2>3
      <3> QED BY <2>2, <3>1, <3>2 DEF InitInv
    <2>13. \A c \in enabled : Served(c)'
      BY <1>1, <2>3, <2>11 DEF ScanInv, CardInv, Served, Pcnets, Kind
    <2>14. CardInv'
      BY <1>1, <1>8, <2>13 DEF ScanInv, CardInv
    <2> QED BY <1>5, <2>6, <2>9, <2>10, <2>12, <2>14 DEF ScanInv
  <1>10. CASE ~IsPcnet(header')
    <2>1. registry' = registry /\ pc' = "class"
      BY <1>2, <1>10
    <2>2. ScanTypes'
      BY <1>1, <2>1 DEF ScanInv, ScanTypes, PcnetDrivers, Macs, Places, InScan, Inits
    <2>3. OrderInv'
      BY <1>1, <1>6, <2>1 DEF ScanInv, OrderInv, RightCard, Passed, Info, CardOf, Kind, Visited, Single, Inits
    <2>4. CompleteInv'
      BY <1>1, <1>4, <1>10, <2>1 DEF ScanInv, CompleteInv, Due, Visited, Single, Kind, Info
    <2>5. InitInv'
      BY <1>1, <1>7, <2>1 DEF InitInv, Lined, Based, CardOf, Info, Line
    <2>6. CardInv'
      BY <1>1, <1>8, <2>1 DEF ScanInv, CardInv, Served, Pcnets, Kind, Lined, CardOf, Info, Line, Inits
    <2> QED BY <1>5, <2>2, <2>3, <2>4, <2>5, <2>6 DEF ScanInv
  <1> QED BY <1>9, <1>10

LEMMA KeepsClass == ASSUME ScanInv, Class PROVE ScanInv'
  <1>1. /\ UNCHANGED <<machine, func, enabled, idon, asserted, astray>> /\ pc = "class" /\ Advance
    BY DEF Class, given, cards
  <1>2. PICK c : c = machine.at[at]
    OBVIOUS
  <1>3. /\ machine \in Machines /\ at \in Slots /\ Visited(at)
        /\ func = Functions(at.bus, at.device) /\ header = GetDeviceHeader(at)
    BY <1>1 DEF ScanInv, ScanTypes, LoopInv, InScan
  <1>4. IsAhci(header) <=> c # 0 /\ Kind(c) = "ahci"
    BY <1>2, <1>3, NoCard, HeaderTells
  <1>5. /\ at' \in Slots
        /\ \/ pc' = "done" /\ at' = at
           \/ pc' = "func" /\ at'.function = 0 /\ Before(at, at')
           \/ /\ pc' = "vendor" /\ Before(at, at') /\ func = Functions(at'.bus, at'.device)
              /\ First(at') = First(at) /\ ~Single(machine.at[First(at)])
        /\ \A s \in Slots : Visited(s) /\ (Before(s, at') \/ pc' = "done") => Before(s, at) \/ s = at
    BY <1>1, <1>3, AdvanceFacts
  <1>6. LoopInv'
    <2>1. Functions(at.bus, at.device)' = Functions(at'.bus, at'.device)
      <3>1. machine' = machine
        BY <1>1
      <3> QED BY ONLY <3>1, SMT DEF Functions, ConfigRead16, ConfigRead, PciData
    <2>2. pc' = "vendor" => Visited(at)'
      <3>1. machine.at[First(at')] = machine.at[First(at)] \/ pc' # "vendor"
        BY <1>5
      <3> QED BY <1>1, <1>5, <3>1 DEF Visited, Single
    <2> QED BY <1>1, <1>5, <2>1, <2>2 DEF LoopInv, InScan, Inits
  <1>7. ASSUME NEW i \in DOMAIN registry
        PROVE  /\ RightCard(i) /\ Info(i) \in Slots
               /\ Before(Info(i), at) \/ (Info(i) = at /\ Kind(c) = "pcnet")
               /\ registry[i].driver = "PCNET" => Lined(i) /\ Based(i)
    <2>1. RightCard(i) /\ Passed(i)
      BY DEF ScanInv, OrderInv
    <2>2. Info(i) \in Slots
      BY DEF ScanInv, ScanTypes, Info, PcnetDrivers, AhciDrivers
    <2>3. registry[i].driver = "PCNET" => Lined(i) /\ Based(i)
      BY <1>1 DEF ScanInv, InitInv
    <2> QED BY <1>1, <1>2, <2>1, <2>2, <2>3 DEF RightCard, Passed, InScan, CardOf
  <1>8. pc' \in {"func", "vendor", "done"}
    BY <1>5
  <1>9. ASSUME NEW s \in Slots, Before(s, at) \/ s = at
        PROVE  Before(s, at') \/ (s = at' /\ pc' = "done")
    BY <1>3, <1>5, <1>9, BeforeOrder
  <1>10. \/ ~IsAhci(header) /\ registry' = registry
         \/ IsAhci(header) /\ \E class \in Garbage : registry' = Append(registry, AhciInit(NewAhci(at, class)))
    BY DEF Class, RegisterDriver
  \* The registry, and one more AHCI driver for a card that has one.
  <1>11. /\ registry' \in Seq(PcnetDrivers \cup AhciDrivers) /\ Len(registry) \in Nat
         /\ DOMAIN registry \subseteq DOMAIN registry'
         /\ \A i \in DOMAIN registry : i \in Nat /\ i <= Len(registry) /\ registry'[i] = registry[i]
         /\ \A i \in DOMAIN registry' \ DOMAIN registry :
                /\ i = Len(registry) + 1 /\ registry'[i].info = at /\ registry'[i].driver = "AHCI"
                /\ IsAhci(header)
         /\ IsAhci(header) => \E i \in DOMAIN registry' : registry'[i].info = at
    <2>1. CASE ~IsAhci(header)
      BY <1>10, <2>1 DEF ScanInv, ScanTypes
    <2>2. CASE IsAhci(header)
      <3>1. PICK class \in Garbage : registry' = Append(registry, AhciInit(NewAhci(at, class)))
        BY <1>10, <2>2
      <3>2. PICK base \in Int \X Int : base = Aligned(GetDeviceHeader(at).bar5)
        BY <1>2, <1>3, <1>4, <2>2, HeaderTells
      <3>3. PICK drv : drv = AhciInit(NewAhci(at, class))
        OBVIOUS
      <3>4. drv = [driver |-> "AHCI", info |-> at, dev_class |-> class, irq_n |-> NoLine,
                   io_base |-> Unset, mac |-> Unset, mmio_base |-> base]
        BY <3>2, <3>3 DEF AhciInit, NewAhci
      <3>5. drv \in AhciDrivers /\ drv.info = at /\ drv.driver = "AHCI"
        BY <1>3, <3>4 DEF AhciDrivers
      <3>6. /\ registry' \in Seq(PcnetDrivers \cup AhciDrivers) /\ registry' # << >>
            /\ Len(registry) \in Nat /\ Len(registry') = Len(registry) + 1
            /\ DOMAIN registry' = DOMAIN registry \cup {Len(registry) + 1}
            /\ \A i \in DOMAIN registry : i \in Nat /\ i <= Len(registry) /\ registry'[i] = registry[i]
            /\ registry'[Len(registry) + 1] = drv
        BY <3>1, <3>3, <3>5, Appended
      <3> QED BY <2>2, <3>5, <3>6
    <2> QED BY <2>1, <2>2
  <1>12. ScanTypes'
    BY <1>1, <1>3, <1>5, <1>11 DEF ScanTypes, PcnetDrivers, Macs, Places, InScan
  <1>13. ASSUME NEW i \in DOMAIN registry
         PROVE  /\ Info(i)' = Info(i) /\ CardOf(i)' = CardOf(i) /\ RightCard(i)'
                /\ (Lined(i)' <=> Lined(i)) /\ (Based(i)' <=> Based(i))
    BY <1>1, <1>7, <1>11 DEF Info, CardOf, RightCard, Lined, Based, Line, Kind, Visited, Single
  <1>14. ASSUME NEW i \in DOMAIN registry' \ DOMAIN registry
         PROVE  Info(i)' = at /\ RightCard(i)'
    <2>1. registry'[i].info = at /\ registry'[i].driver = "AHCI" /\ IsAhci(header)
      BY <1>11
    <2> QED BY <1>1, <1>2, <1>3, <1>4, <2>1 DEF Info, CardOf, RightCard, Kind, Visited, Single
  <1>15. \A i \in DOMAIN registry' : Passed(i)'
    <2>1. ASSUME NEW i \in DOMAIN registry' PROVE Info(i)' \in Slots /\ (Before(Info(i)', at) \/ Info(i)' = at)
      BY <1>3, <1>7, <1>13, <1>14
    <2>2. ASSUME NEW i \in DOMAIN registry' PROVE Before(Info(i)', at') \/ (Info(i)' = at' /\ pc' = "done")
      BY <1>9, <2>1
    <2> QED BY <2>2 DEF Passed, Before, InScan, Inits
  <1>16. \A i, j \in DOMAIN registry' : i < j => Before(Info(i)', Info(j)')
    <2> SUFFICES ASSUME NEW i \in DOMAIN registry', NEW j \in DOMAIN registry', i < j
                 PROVE  Before(Info(i)', Info(j)')
      OBVIOUS
    <2>1. CASE j \in DOMAIN registry
      <3>1. i \in DOMAIN registry
        BY <1>11, <2>1
      <3> QED BY <1>13, <2>1, <3>1 DEF ScanInv, OrderInv
    <2>2. CASE j \notin DOMAIN registry
      <3>1. i \in DOMAIN registry /\ IsAhci(header) /\ Info(j)' = at
        BY <1>11, <1>14, <2>2
      <3>2. Before(Info(i), at)
        BY <1>4, <1>7, <3>1
      <3> QED BY <1>13, <3>1, <3>2
    <2> QED BY <2>1, <2>2
  <1>17. OrderInv'
    <2>1. \A i, j \in DOMAIN registry' : i < j => Before(Info(i), Info(j))'
      BY <1>16 DEF Before
    <2>2. \A i \in DOMAIN registry' : RightCard(i)'
      BY <1>13, <1>14
    <2> QED BY <1>8, <1>15, <2>1, <2>2 DEF OrderInv, Inits
  <1>18. CompleteInv'
    <2> SUFFICES ASSUME NEW s \in Slots, Due(s)' PROVE \E i \in DOMAIN registry' : registry'[i].info = s
      BY DEF CompleteInv, Info
    <2>1. /\ machine.at[s] # 0 /\ Visited(s) /\ Kind(machine.at[s]) \in {"pcnet", "ahci"}
          /\ Before(s, at') \/ pc' = "done"
      BY <1>1, <1>8 DEF Due, Visited, Single, Kind, Before
    <2>2. Before(s, at) \/ s = at
      BY <1>5, <2>1
    <2>3. CASE Due(s)
      <3>1. PICK i \in DOMAIN registry : Info(i) = s
        BY <2>3 DEF ScanInv, CompleteInv
      <3> QED BY <1>11, <3>1 DEF Info
    <2>4. CASE ~Due(s)
      <3>1. s = at /\ Kind(machine.at[s]) = "ahci"
        BY <1>1, <2>1, <2>2, <2>4 DEF Due
      <3> QED BY <1>2, <1>4, <1>11, <2>1, <3>1
    <2> QED BY <2>3, <2>4
  <1>19. InitInv'
    <2>1. ASSUME NEW i \in DOMAIN registry', registry'[i].driver = "PCNET" PROVE Lined(i)' /\ Based(i)'
      <3>1. i \in DOMAIN registry
        BY <1>11, <2>1
      <3> QED BY <1>7, <1>11, <1>13, <2>1, <3>1
    <2> QED BY <1>8, <2>1 DEF InitInv
  <1>20. CardInv'
    <2>1. \A d \in enabled : Served(d)'
      BY <1>1, <1>8, <1>11, <1>13 DEF ScanInv, CardInv, Served, Pcnets, Kind, Inits
    <2>2. OwnLines' <=> OwnLines
      BY <1>1 DEF OwnLines, Pcnets, Kind, Line
    <2> QED BY <1>1, <2>1, <2>2 DEF ScanInv, CardInv
  <1> QED BY <1>6, <1>12, <1>17, <1>18, <1>19, <1>20 DEF ScanInv

LEMMA KeepsThread == ASSUME ScanInv, Thread \/ UNCHANGED devVars PROVE ScanInv'
  <1>1. /\ UNCHANGED <<machine, at, func, header, registry, enabled, idon, asserted, astray>>
        /\ pc' = pc \/ (pc = "done" /\ pc' = "net")
    BY DEF Thread, NetInit, SetIp, Sendto, Goto, devVars, given, cards, scan
  <1>2. SamePlace
    BY <1>1 DEF SamePlace
  <1>3. ScanTypes' /\ LoopInv' /\ OrderInv' /\ CompleteInv'
    BY <1>1, <1>2, KeepsPlace, SameRegistry
  <1>4. InitInv'
    <2>1. \A i : Lined(i)' = Lined(i) /\ Based(i)' = Based(i)
      BY <1>1 DEF Lined, Based, CardOf, Info, Line
    <2> QED BY <1>1, <2>1 DEF ScanInv, InitInv, Driver
  <1>5. CardInv'
    BY <1>1 DEF ScanInv, CardInv, Served, Pcnets, Kind, OwnLines, Lined, CardOf, Info, Line, Inits
  <1> QED BY <1>3, <1>4, <1>5 DEF ScanInv

\* What is registered, stored and interrupting is right at every step of the
\* scan (pci::init, PCNET::init, send_irq), and afterwards.
THEOREM ScanInvariant == Spec => []ScanInv
  <1>1. SendInit => ScanInv
    BY ScanInit DEF SendInit
  <1>2. ScanInv /\ [Next]_vars => ScanInv'
    <2> SUFFICES ASSUME ScanInv, [Next]_vars PROVE ScanInv'
      OBVIOUS
    <2>1. CASE Pci
      BY <2>1, KeepsReadFunc, KeepsVendor, KeepsClass, KeepsSetIrqN, KeepsQuiet, KeepsSetIoBase,
         KeepsEnable DEF Pci
    <2>2. CASE Hardware
      BY <2>2, KeepsCard DEF Hardware
    <2>3. CASE Interrupts
      BY <2>3, KeepsSendIrq DEF Interrupts
    <2>4. CASE Thread \/ UNCHANGED devVars
      BY <2>4, KeepsThread
    <2> QED BY <2>1, <2>2, <2>3, <2>4 DEF Next, vars
  <1> QED BY <1>1, <1>2, PTL DEF Spec

\* A card that asserts its line has a driver that send_irq finds and that talks
\* to it, and irq() knows its ports (send_irq, PCNET::irq), on every machine and
\* at every moment of the scan.
THEOREM InterruptsSafe == Spec => []InterruptsReachDrivers
  <1>1. ScanInv => InterruptsReachDrivers
    <2> SUFFICES ASSUME ScanInv PROVE InterruptsReachDrivers
      OBVIOUS
    <2>1. ASSUME NEW c \in asserted
          PROVE  \E i \in DOMAIN registry : registry[i].irq_n = Line(c) /\ At(registry[i].io_base) = {c}
      <3>1. Served(c) /\ machine \in Machines
        BY DEF ScanInv, CardInv, ScanTypes
      <3>2. PICK i \in DOMAIN registry : /\ CardOf(i) = c /\ Lined(i)
                                         /\ registry[i].io_base = machine.cards[c].base
        BY <3>1 DEF Served
      <3> QED BY <3>1, <3>2, AtBase DEF Served, Lined
    <2> QED BY <2>1 DEF ScanInv, CardInv, InterruptsReachDrivers
  <1> QED BY <1>1, ScanInvariant, PTL

----------------------------------------------------------------------------
(* The order of the bus as numbers.                                        *)

Key(s) == (s.bus * Devs + s.device) * Fns + s.function

LEMMA DigitsOrder ==
  ASSUME NEW n \in Nat, NEW a \in Nat, NEW b \in Nat, a < b, NEW x \in Nat, x < n, NEW y \in Nat
  PROVE  a * n + x < b * n + y
  <1>0. a + 1 <= b
    OBVIOUS
  <1>1. (a + 1) * n <= b * n
    BY <1>0
  <1>2. (a + 1) * n = a * n + n
    OBVIOUS
  <1>3. a * n \in Nat /\ b * n \in Nat
    OBVIOUS
  <1> QED BY <1>1, <1>2, <1>3

LEMMA KeyNat ==
  ASSUME NEW s \in Slots
  PROVE  s.bus * Devs + s.device \in Nat /\ (s.bus * Devs + s.device) * Fns \in Nat /\ Key(s) \in Nat
  <1>1. s.bus \in Nat /\ s.device \in Nat /\ s.function \in Nat /\ Devs \in Nat /\ Fns \in Nat
    BY SlotFields, DevicesAssumption
  <1>2. s.bus * Devs \in Nat
    BY <1>1
  <1>3. s.bus * Devs + s.device \in Nat
    BY <1>1, <1>2
  <1>4. (s.bus * Devs + s.device) * Fns \in Nat
    BY <1>1, <1>3
  <1> QED BY <1>1, <1>3, <1>4 DEF Key

LEMMA KeyOrder ==
  ASSUME NEW s \in Slots, NEW t \in Slots, Before(s, t) PROVE Key(s) < Key(t)
  <1>1. /\ s.bus \in Nat /\ s.device \in Nat /\ s.function \in Nat
        /\ t.bus \in Nat /\ t.device \in Nat /\ t.function \in Nat
        /\ Devs \in Nat /\ Fns \in Nat /\ s.device < Devs /\ s.function < Fns
    BY SlotFields, DevicesAssumption
  <1> DEFINE x == s.bus * Devs + s.device
             y == t.bus * Devs + t.device
  <1>2. x \in Nat /\ y \in Nat /\ x * Fns \in Nat
    BY KeyNat
  <1>3. s.bus < t.bus => x < y
    BY <1>1, DigitsOrder
  <1>4. s.bus = t.bus => s.bus * Devs = t.bus * Devs /\ s.bus * Devs \in Nat
    BY <1>1
  <1>5. s.bus = t.bus /\ s.device < t.device => x < y
    BY <1>1, <1>4
  <1>6. s.bus = t.bus /\ s.device = t.device => x = y
    BY <1>4
  <1> HIDE DEF x, y
  <1>7. x < y \/ (x = y /\ s.function < t.function)
    BY <1>3, <1>5, <1>6 DEF Before
  <1>8. CASE x < y
    <2>1. x * Fns + s.function < y * Fns + t.function
      BY <1>1, <1>2, <1>8, DigitsOrder
    <2> QED BY <2>1 DEF Key, x, y
  <1>9. CASE x = y /\ s.function < t.function
    <2>1. x * Fns + s.function < y * Fns + t.function
      BY <1>1, <1>2, <1>9
    <2> QED BY <2>1 DEF Key, x, y
  <1> QED BY <1>7, <1>8, <1>9

\* The scan meets a card first where it is visited.
LEMMA PlaceIs ==
  ASSUME machine \in Machines, NEW s \in Slots, Visited(s), machine.at[s] # 0
  PROVE  Place(machine.at[s]) = Key(s)
  <1> DEFINE here == {t \in Slots : machine.at[t] = machine.at[s]}
  <1>1. ASSUME NEW t \in here PROVE Key(s) <= Key(t) /\ Key(t) \in Nat
    <2>1. CASE t = s
      BY <2>1, KeyNat
    <2>2. CASE t # s
      <3>1. First(s) = First(t) /\ machine.at[First(s)] = machine.at[s] /\ Single(machine.at[s])
        BY <2>2, ThisMachine
      <3>2. s.function = 0
        BY <3>1 DEF Visited
      <3>3. s.bus = t.bus /\ s.device = t.device
        BY <3>1, FirstSlot
      <3>4. (t.bus * Devs + t.device) * Fns \in Nat /\ t.function \in Nat /\ Key(t) \in Nat
        BY KeyNat, SlotFields
      <3> QED BY <3>2, <3>3, <3>4 DEF Key
    <2> QED BY <2>1, <2>2
  <1>2. s \in here /\ Key(s) \in Nat
    BY KeyNat
  <1>3. \A k \in {Key(t) : t \in here} : (\A t \in here : k <= Key(t)) => k = Key(s)
    BY <1>1, <1>2
  <1>4. (CHOOSE k \in {Key(t) : t \in here} : \A t \in here : k <= Key(t)) = Key(s)
    BY <1>1, <1>2, <1>3
  <1> QED BY <1>4 DEF Place, Key

----------------------------------------------------------------------------
(* After the scan.                                                         *)

\* Each driver has a place on the bus, and they are in its order.
LEMMA DriverPlaces ==
  ASSUME ScanInv
  PROVE  /\ \A i \in DOMAIN registry : CardOf(i) \in DOMAIN machine.cards
         /\ \A i, j \in DOMAIN registry : i < j =>
                /\ Place(CardOf(i)) \in Nat /\ Place(CardOf(j)) \in Nat
                /\ Place(CardOf(i)) < Place(CardOf(j))
  <1>1. ASSUME NEW i \in DOMAIN registry
        PROVE  /\ Info(i) \in Slots /\ CardOf(i) \in DOMAIN machine.cards
               /\ Place(CardOf(i)) = Key(Info(i))
    <2>1. Info(i) \in Slots /\ machine \in Machines
      BY DEF ScanInv, ScanTypes, Info, PcnetDrivers, AhciDrivers
    <2>2. CardOf(i) # 0 /\ Visited(Info(i))
      BY DEF ScanInv, OrderInv, RightCard
    <2>3. CardOf(i) \in DOMAIN machine.cards
      BY <2>1, <2>2, ThisMachine DEF CardOf
    <2> QED BY <2>1, <2>2, <2>3, PlaceIs DEF CardOf
  <1>2. ASSUME NEW i \in DOMAIN registry, NEW j \in DOMAIN registry, i < j
        PROVE  Key(Info(i)) < Key(Info(j)) /\ Key(Info(i)) \in Nat /\ Key(Info(j)) \in Nat
    <2>1. Before(Info(i), Info(j))
      BY <1>2 DEF ScanInv, OrderInv
    <2> QED BY <1>1, <2>1, KeyOrder, KeyNat
  <1> QED BY <1>1, <1>2

LEMMA AllRegistered ==
  ASSUME ScanInv, pc \in {"done", "net"}, NEW c \in DOMAIN machine.cards, Kind(c) \in {"pcnet", "ahci"}
  PROVE  \E i \in DOMAIN registry : CardOf(i) = c
  <1>1. machine \in Machines /\ c # 0
    BY ThisMachine DEF ScanInv, ScanTypes
  <1>2. PICK s \in Slots : machine.at[s] = c /\ Visited(s)
    BY <1>1, HasSlot
  <1>3. PICK i \in DOMAIN registry : Info(i) = s
    BY <1>1, <1>2 DEF ScanInv, CompleteInv, Due
  <1> QED BY <1>2, <1>3 DEF CardOf

LEMMA RightDriver ==
  ASSUME ScanInv, NEW i \in DOMAIN registry
  PROVE  /\ registry[i].driver = "PCNET" <=> Kind(CardOf(i)) = "pcnet"
         /\ Kind(CardOf(i)) \in {"pcnet", "ahci"}
         /\ registry[i].driver = "PCNET" => registry[i].dev_class = DEVICE_NETWORK
  <1>1. registry[i] \in PcnetDrivers \cup AhciDrivers
    BY DEF ScanInv, ScanTypes
  <1>2. registry[i].driver = "PCNET" \/ registry[i].driver = "AHCI"
    BY <1>1 DEF PcnetDrivers, AhciDrivers
  <1>3. registry[i].driver = "PCNET" => registry[i].dev_class = DEVICE_NETWORK
    BY <1>1 DEF PcnetDrivers, AhciDrivers
  <1> QED BY <1>2, <1>3 DEF ScanInv, OrderInv, RightCard

\* When the scan is over, every card there is a driver for has exactly one, of
\* the right class, in the order of the bus (pci::init, register_driver), on
\* every machine.
THEOREM RegistrySafe == Spec => []RegistryExact
  <1>1. ScanInv => RegistryExact
    <2> SUFFICES ASSUME ScanInv, pc = "done" PROVE RegistryExact
      BY DEF RegistryExact
    <2>1. {CardOf(i) : i \in DOMAIN registry} = {c \in DOMAIN machine.cards : Kind(c) \in {"pcnet", "ahci"}}
      BY AllRegistered, RightDriver, DriverPlaces
    <2>2. \A i, j \in DOMAIN registry : i < j => Place(CardOf(i)) < Place(CardOf(j))
      BY DriverPlaces
    <2>3. \A i \in DOMAIN registry : (registry[i].driver = "PCNET") = (Kind(CardOf(i)) = "pcnet")
      BY RightDriver
    <2> QED BY <2>1, <2>2, <2>3, Zenon DEF RegistryExact, CardOf, Info
  <1> QED BY <1>1, ScanInvariant, PTL

\* find_device_by_class finds the driver of the first network card of the bus.
LEMMA FirstAdapter ==
  ASSUME ScanInv, pc \in {"done", "net"}, ~Confused
  PROVE  /\ Pcnets = {} => FindDeviceByClass(DEVICE_NETWORK) = 0
         /\ \A c \in Pcnets : (\A d \in Pcnets : Place(c) <= Place(d)) =>
                /\ FindDeviceByClass(DEVICE_NETWORK) \in DOMAIN registry
                /\ FindDeviceByClass(DEVICE_NETWORK) # 0
                /\ CardOf(FindDeviceByClass(DEVICE_NETWORK)) = c
                /\ Based(FindDeviceByClass(DEVICE_NETWORK))
  <1> DEFINE found == {i \in DOMAIN registry : registry[i].dev_class = DEVICE_NETWORK}
  <1>1. ASSUME NEW i \in found PROVE i \in DOMAIN registry /\ CardOf(i) \in Pcnets
    <2>1. registry[i].driver = "PCNET"
      BY DEF Confused
    <2> QED BY <2>1, RightDriver, DriverPlaces DEF Pcnets
  <1>2. Pcnets = {} => FindDeviceByClass(DEVICE_NETWORK) = 0
    BY <1>1 DEF FindDeviceByClass
  <1>3. ASSUME NEW c \in Pcnets, \A d \in Pcnets : Place(c) <= Place(d)
        PROVE  /\ FindDeviceByClass(DEVICE_NETWORK) \in DOMAIN registry
               /\ FindDeviceByClass(DEVICE_NETWORK) # 0
               /\ CardOf(FindDeviceByClass(DEVICE_NETWORK)) = c
               /\ Based(FindDeviceByClass(DEVICE_NETWORK))
    <2>1. PICK n \in DOMAIN registry : CardOf(n) = c
      BY AllRegistered DEF Pcnets
    <2>2. registry[n].driver = "PCNET" /\ n \in found
      BY <2>1, RightDriver DEF Pcnets
    <2>3. \A i \in DOMAIN registry : i \in Nat /\ i # 0
      BY DEF ScanInv, ScanTypes
    <2>4. ASSUME NEW j \in found PROVE n <= j
      <3>1. Place(c) <= Place(CardOf(j)) /\ j \in DOMAIN registry
        BY <1>1, <1>3
      <3>2. ~(j < n)
        BY <2>1, <3>1, DriverPlaces
      <3> QED BY <2>3, <3>1, <3>2
    <2>5. \A i \in found : (\A j \in found : i <= j) => i = n
      BY <2>2, <2>3, <2>4
    <2>6. (CHOOSE i \in found : \A j \in found : i <= j) = n
      BY <2>2, <2>4, <2>5
    <2>7. FindDeviceByClass(DEVICE_NETWORK) = n
      BY <2>2, <2>6 DEF FindDeviceByClass
    <2>8. Based(n)
      BY <2>2 DEF ScanInv, InitInv
    <2> QED BY <2>1, <2>3, <2>7, <2>8
  <1> QED BY <1>2, <1>3

LEMMA SentInit == SendInit => NetInv /\ SentByFirstCard
  BY DEF SendInit, Init, NetInv, SentByFirstCard

LEMMA SentStep ==
  ASSUME ScanInv, NetInv, SentByFirstCard, [Next]_vars
  PROVE  NetInv' /\ SentByFirstCard'
  <1> DEFINE Same == /\ UNCHANGED <<machine, client_mac, wire>> /\ (Confused' <=> Confused)
                     /\ pc' \in {"func", "done"} \cup InScan => pc \in {"func", "done"} \cup InScan
                     /\ pc' = "net" => pc = "net"
  <1>1. \A c : (Place(c)' = Place(c) /\ Kind(c)' = Kind(c)) \/ machine' # machine
    BY DEF Place, Kind
  <1>2. Same => NetInv' /\ SentByFirstCard'
    <2> SUFFICES ASSUME Same PROVE NetInv' /\ SentByFirstCard'
      OBVIOUS
    <2>1. NetInv'
      BY DEF NetInv
    <2>2. Pcnets' = Pcnets /\ \A c : Place(c)' = Place(c)
      BY <1>1 DEF Pcnets
    <2>3. SentByFirstCard'
      BY <2>2 DEF SentByFirstCard
    <2> QED BY <2>1, <2>3
  <1>3. CASE Pci /\ UNCHANGED netVars
    <2>1. machine' = machine /\ pc \in {"func"} \cup InScan /\ pc' # "net" /\ pc' # "wild"
      BY <1>3 DEF Pci, ReadFunc, Vendor, Class, Advance, SetIrqN, UnmaskIrq, BusMaster, SetIoBase, Enable,
             Start, Goto, given, InScan, Inits
    <2> QED BY <1>3, <2>1 DEF NetInv, SentByFirstCard, netVars
  <1>4. CASE Hardware /\ UNCHANGED netVars
    <2>1. Same
      BY <1>4 DEF Hardware, CardIdon, CardFrame, given, scan, netVars, Confused
    <2> QED BY <1>2, <2>1
  <1>5. CASE Interrupts /\ UNCHANGED netVars
    <2>1. PICK n \in 0 .. 15 : SendIrq(n)
      BY <1>5 DEF Interrupts
    <2>2. DOMAIN registry' = DOMAIN registry
      BY <2>1 DEF SendIrq
    <2>3. ASSUME NEW i \in DOMAIN registry
          PROVE  registry'[i].driver = registry[i].driver /\ registry'[i].dev_class = registry[i].dev_class
      <3>1. \/ registry'[i] = registry[i]
            \/ registry'[i] = [registry[i] EXCEPT !.init_done = TRUE]
        BY <2>1 DEF SendIrq
      <3>2. registry[i] \in PcnetDrivers \cup AhciDrivers
        BY DEF ScanInv, ScanTypes
      <3> QED BY <3>1, <3>2 DEF PcnetDrivers, AhciDrivers
    <2>4. Confused' <=> Confused
      BY <2>2, <2>3 DEF Confused
    <2>5. Same
      BY <1>5, <2>1, <2>4 DEF SendIrq, given, netVars, InScan, Inits
    <2> QED BY <1>2, <2>5
  <1>6. CASE Thread
    <2>1. UNCHANGED <<machine, registry>> /\ (Confused' <=> Confused)
      BY <1>6 DEF Thread, NetInit, SetIp, Sendto, devVars, given, Confused
    <2>2. CASE \E ip \in Addresses : SetIp(ip)
      BY <1>2, <2>1, <2>2 DEF SetIp, devVars, scan
    <2>3. CASE NetInit
      <3>1. /\ pc = "done" /\ pc' = "net" /\ wire' = wire /\ wire = None /\ client_mac = ZeroMac
            /\ client_mac' = IF FindDeviceByClass(DEVICE_NETWORK) = 0 THEN client_mac
                             ELSE registry[FindDeviceByClass(DEVICE_NETWORK)].mac
        BY <2>3 DEF NetInit, Goto, NetInv
      <3>2. NetInv'
        BY <3>1 DEF NetInv, InScan, Inits
      <3>3. Pcnets' = Pcnets /\ \A c : Place(c)' = Place(c)
        BY <1>1, <2>1 DEF Pcnets
      <3>4. SentByFirstCard'
        BY <2>1, <3>1, <3>3, FirstAdapter DEF SentByFirstCard, Based
      <3> QED BY <3>2, <3>4
    <2>4. CASE \E port \in Ports, peer \in Peers, buffer \in Buffers : Sendto(port, peer, buffer)
      <3>1. /\ pc = "net" /\ pc' = "net" /\ client_mac' = client_mac
            /\ FindDeviceByClass(DEVICE_NETWORK) # 0
            /\ wire'.by = registry[FindDeviceByClass(DEVICE_NETWORK)].info
            /\ wire'.src_mac = registry[FindDeviceByClass(DEVICE_NETWORK)].mac
        BY <2>4 DEF Sendto, EthernetSend, devVars, scan
      <3>2. NetInv'
        BY <3>1 DEF NetInv, InScan, Inits
      <3>3. Pcnets' = Pcnets /\ \A c : Place(c)' = Place(c)
        BY <1>1, <2>1 DEF Pcnets
      <3>4. SentByFirstCard'
        BY <2>1, <3>1, <3>3, FirstAdapter DEF SentByFirstCard, Based, CardOf, Info
      <3> QED BY <3>2, <3>4
    <2> QED BY <1>6, <2>2, <2>3, <2>4 DEF Thread
  <1>7. CASE UNCHANGED vars
    <2>1. Same
      BY <1>7 DEF vars, devVars, given, scan, netVars, Confused
    <2> QED BY <1>2, <2>1
  <1> QED BY <1>3, <1>4, <1>5, <1>6, <1>7 DEF Next

\* Frames leave through the first network card of the bus, under its address
\* (net::init, net::send, find_device_by_class), on every machine.
THEOREM SenderSafe == Spec => []SentByFirstCard
  <1>1. ScanInv /\ (NetInv /\ SentByFirstCard) /\ [Next]_vars => (NetInv /\ SentByFirstCard)'
    BY SentStep
  <1> QED BY <1>1, SentInit, ScanInvariant, PTL DEF Spec

----------------------------------------------------------------------------
(***************************************************************************)
(* The checksums. Both are sums modulo 2^16 - 1: words are compared up to  *)
(* multiples of it (Congruent), adding with end-around carries (AddAll)    *)
(* and folding (Fold16) do not leave a class, and the other byte order     *)
(* multiplies a class by 256. Recursive functions are unfolded, and        *)
(* induction is done, for sets of numbers.                                 *)
(***************************************************************************)

\* A set of numbers has a least element.
LEMMA Least ==
  ASSUME NEW T, T \subseteq Nat, T # {}
  PROVE  \E x \in T : \A y \in T : x <= y
  <1> DEFINE R == OpToRel(<, Nat)
  <1>1. \E x \in T : \A y \in T : ~(<<y, x>> \in R)
    <2>1. IsWellFoundedOn(R, Nat)
      BY NatLessThanWellFounded
    <2> HIDE DEF R
    <2> QED BY <2>1, WFMin
  <1>2. \A x, y \in Nat : y < x => <<y, x>> \in R
    BY DEF OpToRel
  <1>3. PICK x \in T : \A y \in T : ~(<<y, x>> \in R)
    BY <1>1
  <1>4. \A y \in T : ~(y < x)
    <2> HIDE DEF R
    <2> QED BY <1>2, <1>3
  <1>5. \A y \in T : x <= y
    <2> SUFFICES ASSUME NEW y \in T PROVE x <= y
      OBVIOUS
    <2>1. ~(y < x) /\ x \in Nat /\ y \in Nat
      BY <1>4
    <2> QED BY <2>1
  <1> QED BY <1>5

\* Induction: a set that holds 0 and with every number the next holds them all.
LEMMA AllNumbers ==
  ASSUME NEW T, 0 \in T, \A n \in Nat : n \in T => n + 1 \in T
  PROVE  Nat \subseteq T
  <1> SUFFICES ASSUME Nat \ T # {} PROVE FALSE
    OBVIOUS
  <1>1. PICK x \in Nat \ T : \A y \in Nat \ T : x <= y
    <2> DEFINE U == Nat \ T
    <2> HIDE DEF U
    <2>1. U \subseteq Nat /\ U # {}
      BY DEF U
    <2>2. \E x \in U : \A y \in U : x <= y
      BY <2>1, Least
    <2> QED BY <2>2 DEF U
  <1>2. x # 0 /\ x - 1 \in Nat /\ (x - 1) + 1 = x
    OBVIOUS
  <1>3. x - 1 \in T
    BY <1>1, <1>2
  <1> QED BY <1>2, <1>3

\* A function defined by recursion on the numbers.
Follows(f, A, a, g) ==
    f \in [Nat -> A] /\ f[0] = a /\ \A n \in Nat : f[n + 1] = g[<<n, f[n]>>]

\* A function that starts at a and goes on with g exists.
LEMMA NatRecursion ==
  ASSUME NEW A, NEW a \in A, NEW g \in [Nat \X A -> A]
  PROVE  \E f : Follows(f, A, a, g)
  <1> DEFINE Part(f, n) == /\ f \in [0 .. n -> A] /\ f[0] = a
                           /\ \A k \in 0 .. n - 1 : f[k + 1] = g[<<k, f[k]>>]
             T == {n \in Nat : \E f : Part(f, n)}
  <1>1. Nat \subseteq T
    <2>1. 0 \in T
      <3>1. Part([k \in 0 .. 0 |-> a], 0)
        OBVIOUS
      <3> QED BY <3>1
    <2>2. ASSUME NEW n \in Nat, n \in T PROVE n + 1 \in T
      <3>1. PICK f : Part(f, n)
        BY <2>2
      <3> DEFINE h == [k \in 0 .. n + 1 |-> IF k <= n THEN f[k] ELSE g[<<n, f[n]>>]]
      <3>2. g[<<n, f[n]>>] \in A
        BY <3>1
      <3>3. h \in [0 .. n + 1 -> A] /\ h[0] = a
        BY <3>1, <3>2
      <3>4. ASSUME NEW k \in 0 .. n PROVE h[k + 1] = g[<<k, h[k]>>]
        <4>1. CASE k = n
          BY <4>1
        <4>2. CASE k # n
          <5>1. k \in 0 .. n - 1 /\ k + 1 \in 0 .. n
            BY <4>2
          <5>2. h[k + 1] = f[k + 1] /\ h[k] = f[k]
            BY <5>1
          <5> QED BY <5>1, <5>2, <3>1
        <4> QED BY <4>1, <4>2
      <3>5. (n + 1) - 1 = n
        OBVIOUS
      <3> HIDE DEF h
      <3>6. Part(h, n + 1)
        BY <3>3, <3>4, <3>5
      <3> QED BY <3>6
    <2> HIDE DEF T
    <2> QED BY <2>1, <2>2, AllNumbers
  <1>2. ASSUME NEW m \in Nat, NEW n \in Nat, NEW f, NEW h, Part(f, m), Part(h, n)
        PROVE  \A k \in Nat : k <= m /\ k <= n => f[k] = h[k]
    <2> DEFINE U == {k \in Nat : k <= m /\ k <= n => f[k] = h[k]}
    <2>1. 0 \in U
      BY <1>2
    <2>2. ASSUME NEW k \in Nat, k \in U PROVE k + 1 \in U
      <3> SUFFICES ASSUME k + 1 <= m, k + 1 <= n PROVE f[k + 1] = h[k + 1]
        OBVIOUS
      <3>1. k \in 0 .. m - 1 /\ k \in 0 .. n - 1 /\ k <= m /\ k <= n
        OBVIOUS
      <3>2. f[k] = h[k]
        BY <2>2, <3>1
      <3> QED BY <1>2, <3>1, <3>2
    <2>3. Nat \subseteq U
      <3> HIDE DEF U
      <3> QED BY <2>1, <2>2, AllNumbers
    <2> QED BY <2>3
  <1> DEFINE part == [n \in Nat |-> CHOOSE f : Part(f, n)]
             f == [n \in Nat |-> part[n][n]]
  <1>3. \A n \in Nat : Part(part[n], n)
    <2> SUFFICES ASSUME NEW n \in Nat PROVE Part(part[n], n)
      OBVIOUS
    <2> HIDE DEF Part
    <2>1. \E x : Part(x, n)
      BY <1>1
    <2> QED BY <2>1
  <1> HIDE DEF part
  <1>4. \A n \in Nat : part[n][n] \in A
    BY <1>3
  <1>5. f \in [Nat -> A] /\ f[0] = a
    <2>1. part[0][0] = a
      BY <1>3
    <2> QED BY <2>1, <1>4
  <1>6. ASSUME NEW n \in Nat PROVE f[n + 1] = g[<<n, f[n]>>]
    <2>1. n + 1 \in Nat /\ n \in 0 .. (n + 1) - 1 /\ n <= n + 1 /\ n <= n
      OBVIOUS
    <2>2. Part(part[n + 1], n + 1) /\ Part(part[n], n)
      BY <1>3, <2>1
    <2>3. part[n + 1][n] = part[n][n]
      <3> HIDE DEF Part
      <3>1. \A k \in Nat : k <= n + 1 /\ k <= n => part[n + 1][k] = part[n][k]
        BY <1>2, <2>1, <2>2
      <3> QED BY <2>1, <3>1
    <2>4. part[n + 1][n + 1] = g[<<n, part[n + 1][n]>>]
      BY <2>1, <2>2
    <2> QED BY <2>1, <2>3, <2>4
  <1> HIDE DEF f
  <1>7. Follows(f, A, a, g)
    BY <1>5, <1>6 DEF Follows
  <1> QED BY <1>7

\* Equal up to multiples of 2^16 - 1: what a checksum does not tell apart.
Multiple(k) == k * 65535
Congruent(m, n) == \E k \in Int : m = n + Multiple(k)

\* What 16 bits hold.
Word16(w) == w \in Nat /\ w <= 65535

\* Sums of multiples are multiples.
LEMMA Multiples ==
  /\ \A k \in Int : Multiple(k) \in Int /\ Multiple(-k) = -Multiple(k)
  /\ \A k, j \in Int : Multiple(k + j) = Multiple(k) + Multiple(j)
  /\ Multiple(0) = 0
  BY SMT DEF Multiple

\* So are products,
LEMMA MultipleTimes == \A k, f \in Int : Multiple(f * k) = f * Multiple(k)
  BY SMT DEF Multiple

\* multiples leave no rest,
LEMMA MultipleRest == \A k \in Int : Multiple(k) % 65535 = 0
  BY SMT DEF Multiple

\* and 2^16 - 1 is one.
LEMMA MultipleOne == Multiple(1) = 65535 /\ Multiple(-1) = -65535
  BY SMT DEF Multiple

\* Congruent is an equivalence, and respects sums and products.
LEMMA CongruentSelf == \A m \in Int : Congruent(m, m)
  <1> TAKE m \in Int
  <1>1. m = m + Multiple(0)
    BY Multiples
  <1> QED BY <1>1 DEF Congruent

\* It is symmetric.
LEMMA CongruentBack ==
  ASSUME NEW m \in Int, NEW n \in Int, Congruent(m, n)
  PROVE  Congruent(n, m)
  <1>1. PICK k \in Int : m = n + Multiple(k)
    BY DEF Congruent
  <1>2. PICK i \in Int : i = -k
    OBVIOUS
  <1>3. n = m + Multiple(i)
    <2>1. Multiple(k) \in Int /\ Multiple(i) = -Multiple(k)
      BY ONLY k \in Int, <1>2, Multiples
    <2>2. PICK a \in Int : a = Multiple(k)
      BY <2>1
    <2> QED BY <1>1, <2>1, <2>2
  <1> QED BY <1>3 DEF Congruent

\* It is transitive.
LEMMA CongruentThrough ==
  ASSUME NEW m \in Int, NEW n \in Int, NEW o \in Int, Congruent(m, n), Congruent(n, o)
  PROVE  Congruent(m, o)
  <1>1. PICK k \in Int : m = n + Multiple(k)
    BY DEF Congruent
  <1>2. PICK j \in Int : n = o + Multiple(j)
    BY DEF Congruent
  <1>3. PICK i \in Int : i = k + j
    OBVIOUS
  <1>4. m = o + Multiple(i)
    <2>1. Multiple(k) \in Int /\ Multiple(j) \in Int /\ Multiple(i) = Multiple(k) + Multiple(j)
      BY ONLY k \in Int, j \in Int, <1>3, Multiples
    <2>2. PICK a \in Int, b \in Int : a = Multiple(k) /\ b = Multiple(j)
      BY <2>1
    <2> QED BY <1>1, <1>2, <2>1, <2>2
  <1> QED BY <1>4 DEF Congruent

\* Sums of congruent numbers are congruent.
LEMMA CongruentSum ==
  ASSUME NEW m \in Int, NEW n \in Int, NEW o \in Int, NEW p \in Int, Congruent(m, n), Congruent(o, p)
  PROVE  Congruent(m + o, n + p)
  <1>1. PICK k \in Int : m = n + Multiple(k)
    BY DEF Congruent
  <1>2. PICK j \in Int : o = p + Multiple(j)
    BY DEF Congruent
  <1>3. PICK i \in Int : i = k + j
    OBVIOUS
  <1>4. m + o = (n + p) + Multiple(i)
    <2>1. Multiple(k) \in Int /\ Multiple(j) \in Int /\ Multiple(i) = Multiple(k) + Multiple(j)
      BY ONLY k \in Int, j \in Int, <1>3, Multiples
    <2>2. PICK a \in Int, b \in Int : a = Multiple(k) /\ b = Multiple(j)
      BY <2>1
    <2> QED BY <1>1, <1>2, <2>1, <2>2
  <1> QED BY <1>4 DEF Congruent

\* So are multiples of them.
LEMMA CongruentTimes ==
  ASSUME NEW m \in Int, NEW n \in Int, NEW f \in Int, Congruent(m, n)
  PROVE  Congruent(f * m, f * n)
  <1>1. PICK k \in Int : m = n + Multiple(k)
    BY DEF Congruent
  <1>2. PICK i \in Int : i = f * k
    OBVIOUS
  <1>3. Multiple(k) \in Int
    BY Multiples
  <1>4. \A u \in Int : f * (n + u) = f * n + f * u
    OBVIOUS
  <1>5. f * m = f * n + Multiple(i)
    <2>1. Multiple(i) = f * Multiple(k)
      BY <1>2, MultipleTimes
    <2>2. f * m = f * n + f * Multiple(k)
      BY <1>1, <1>3, <1>4
    <2> QED BY <2>1, <2>2
  <1> QED BY <1>5 DEF Congruent

\* What is congruent to 0 passes the test of a receiver.
LEMMA CongruentZero ==
  ASSUME NEW m \in Nat, Congruent(m, 0)
  PROVE  m % 65535 = 0
  <1>1. PICK k \in Int : m = 0 + Multiple(k)
    BY DEF Congruent
  <1>2. m = Multiple(k)
    BY <1>1, Multiples
  <1> QED BY <1>2, MultipleRest

----------------------------------------------------------------------------
\* One step of the loop of udp::compute_checksum.
LEMMA AddIs ==
  ASSUME NEW m \in Nat, NEW w \in Nat, m <= 65535, w <= 65535
  PROVE  Word16(Add(m, w)) /\ Congruent(Add(m, w), m + w)
  <1>1. PICK sum \in Nat : sum = m + w
    OBVIOUS
  <1>2. sum <= 131070
    BY <1>1
  <1>3. CASE sum >= 65536
    <2>1. Add(m, w) = (sum % 65536) + 1
      BY <1>1, <1>3 DEF Add
    <2>2. sum % 65536 = sum - 65536
      BY <1>2, <1>3
    <2>3. Add(m, w) = sum + Multiple(-1)
      BY <2>1, <2>2, MultipleOne
    <2>4. Word16(Add(m, w))
      BY <1>2, <1>3, <2>1, <2>2 DEF Word16
    <2>5. Congruent(Add(m, w), sum)
      BY <2>3 DEF Congruent
    <2> QED BY <1>1, <2>4, <2>5
  <1>4. CASE ~(sum >= 65536)
    <2>1. Add(m, w) = sum
      BY <1>1, <1>4 DEF Add
    <2>2. Word16(sum)
      BY <1>4 DEF Word16
    <2>3. Congruent(sum, sum)
      BY CongruentSelf
    <2> QED BY <1>1, <2>1, <2>2, <2>3
  <1> QED BY <1>3, <1>4

\* One round of the loop of ip::compute_checksum.
LEMMA FoldOnce ==
  ASSUME NEW s \in Nat, s >= 65536, NEW t, t = (s % 65536) + s \div 65536
  PROVE  t \in Nat /\ t < s /\ t >= 1 /\ Congruent(s, t)
  <1> DEFINE d == s \div 65536
             r == s % 65536
  <1>1. d \in Nat /\ d >= 1 /\ r \in Nat /\ s = d * 65536 + r
    OBVIOUS
  <1> HIDE DEF d, r
  <1>2. t = r + d
    BY DEF d, r
  <1>3. s = t + Multiple(d) /\ d \in Int
    BY <1>1, <1>2 DEF Multiple
  <1>4. t \in Nat /\ t < s /\ t >= 1
    BY <1>1, <1>2
  <1> QED BY <1>3, <1>4 DEF Congruent

\* The loop of ip::compute_checksum ends with a word congruent to the sum.
LEMMA FoldIs == \A s \in Nat : Word16(Fold16[s]) /\ Congruent(s, Fold16[s])
  <1> DEFINE T(s) == (s % 65536) + s \div 65536
             E(f, s) == IF s < 65536 THEN s ELSE f[T(s)]
             Body(f) == [s \in Nat |-> E(f, s)]
             D == CHOOSE f : f = Body(f)
             g(s) == IF s = 0 THEN 0 ELSE ((s - 1) % 65535) + 1
             G == [s \in Nat |-> g(s)]
  <1>1. Fold16 = D
    BY DEF Fold16
  <1>2. \A s \in Nat : s < 65536 => g(s) = s
    OBVIOUS
  <1>3. ASSUME NEW s \in Nat, ~(s < 65536) PROVE g(s) = g(T(s)) /\ T(s) \in Nat
    <2>1. PICK t : t = T(s)
      OBVIOUS
    <2>2. t \in Nat /\ t >= 1 /\ Congruent(s, t)
      BY <1>3, <2>1, FoldOnce
    <2>3. PICK k \in Int : s = t + k * 65535
      BY <2>2 DEF Congruent, Multiple
    <2>4. s - 1 = (t - 1) + k * 65535 /\ t - 1 \in Nat /\ s - 1 \in Nat
      BY <1>3, <2>2, <2>3
    <2>5. ASSUME NEW m \in Nat, NEW n \in Nat, NEW j \in Int, m = n + j * 65535 PROVE m % 65535 = n % 65535
      BY <2>5
    <2>6. (s - 1) % 65535 = (t - 1) % 65535
      BY <2>4, <2>5
    <2> QED BY <1>3, <2>1, <2>2, <2>6
  <1> HIDE DEF g, T
  <1>4. G = Body(G)
    <2>1. \A s \in Nat : g(s) = E(G, s)
      BY <1>2, <1>3
    <2> HIDE DEF E
    <2>2. G = [s \in Nat |-> E(G, s)]
      <3>1. \A h : (\A s \in Nat : g(s) = E(h, s)) => [s \in Nat |-> g(s)] = [s \in Nat |-> E(h, s)]
        OBVIOUS
      <3> HIDE DEF G
      <3>2. [s \in Nat |-> g(s)] = [s \in Nat |-> E(G, s)]
        BY <2>1, <3>1
      <3> QED BY <3>2 DEF G
    <2> QED BY <2>2
  <1>5. D = Body(D)
    <2> HIDE DEF Body, G
    <2> QED BY <1>4
  <1>6. \A s \in Nat : D[s] = E(D, s)
    <2> HIDE DEF D, E
    <2> QED BY <1>5
  <1> HIDE DEF D
  <1> DEFINE Ok(s) == Word16(D[s]) /\ Congruent(s, D[s])
             Bad == {s \in Nat : ~Ok(s)}
  <1> HIDE DEF Ok
  <1>7. ASSUME Bad # {} PROVE FALSE
    <2>1. PICK s \in Bad : \A u \in Bad : s <= u
      <3>1. Bad \subseteq Nat
        OBVIOUS
      <3> HIDE DEF Bad
      <3> QED BY <1>7, <3>1, Least
    <2>2. s \in Nat /\ ~Ok(s)
      OBVIOUS
    <2>3. CASE s < 65536
      <3>1. D[s] = s
        BY <1>6, <2>2, <2>3
      <3>2. Ok(s)
        BY <2>2, <2>3, <3>1, CongruentSelf DEF Ok, Word16
      <3> QED BY <2>2, <3>2
    <2>4. CASE ~(s < 65536)
      <3>1. PICK t : t = T(s)
        OBVIOUS
      <3>2. t \in Nat /\ t < s /\ Congruent(s, t)
        BY <2>2, <2>4, <3>1, FoldOnce DEF T
      <3>3. D[s] = D[t]
        BY <1>6, <2>2, <2>4, <3>1
      <3>4. Ok(t)
        BY <2>1, <3>2
      <3>5. Word16(D[t]) /\ D[t] \in Int /\ Congruent(t, D[t])
        BY <3>4 DEF Ok, Word16
      <3>6. Congruent(s, D[t])
        BY <2>2, <3>2, <3>5, CongruentThrough
      <3>7. Ok(s)
        BY <3>3, <3>5, <3>6 DEF Ok
      <3> QED BY <2>2, <3>7
    <2> QED BY <2>3, <2>4
  <1>8. \A s \in Nat : Ok(s)
    BY <1>7
  <1> QED BY <1>1, <1>8 DEF Ok

WordSet == {w \in Nat : Word16(w)}

\* The sum of one word more.
LEMMA TotalOfPrefix ==
  ASSUME NEW g \in [Nat -> Nat]
  PROVE  /\ Total([j \in 1 .. 0 |-> g[j]]) = 0
         /\ \A i \in Nat : Total([j \in 1 .. i |-> g[j]]) \in Nat
         /\ \A i \in Nat : Total([j \in 1 .. i + 1 |-> g[j]])
                             = Total([j \in 1 .. i |-> g[j]]) + g[i + 1]
  <1> DEFINE typ(q, c) == q + c
             B == Nat
             a == 0
             h == [x \in Nat \X B |-> typ(x[2], g[x[1] + 1])]
  <1>0. (\A q \in B : \A c \in Nat : typ(q, c) \in B) /\ a \in B
    OBVIOUS
  <1> HIDE DEF typ, B, a
  <1>1. h \in [Nat \X B -> B]
    <2>1. \A x \in Nat \X B : x[1] \in Nat /\ x[2] \in B
      BY ONLY TRUE
    <2>2. \A n \in Nat : g[n + 1] \in Nat
      OBVIOUS
    <2>3. \A x \in Nat \X B : typ(x[2], g[x[1] + 1]) \in B
      BY ONLY <1>0, <2>1, <2>2
    <2> QED BY <2>3
  <1>2. \A n \in Nat, q \in B : h[<<n, q>>] = typ(q, g[n + 1])
    BY <1>0
  <1> HIDE DEF h
  <1>3. \E f : Follows(f, B, a, h)
    BY <1>0, <1>1, NatRecursion
  <1>4. PICK F : F \in [Nat -> B] /\ F[0] = a /\ \A n \in Nat : F[n + 1] = h[<<n, F[n]>>]
    BY <1>3 DEF Follows
  <1>5. \A n \in Nat : F[n] \in B /\ F[n + 1] = typ(F[n], g[n + 1])
    BY <1>2, <1>4
  <1>6. ASSUME NEW i \in Nat PROVE Total([j \in 1 .. i |-> g[j]]) = F[i]
    <2> DEFINE s == [j \in 1 .. i |-> g[j]]
    <2>1. Len(s) = i /\ \A k \in 1 .. i : s[k] = g[k]
      OBVIOUS
    <2> HIDE DEF s
    <2> DEFINE E(f, k) == IF k = 0 THEN a ELSE typ(f[k - 1], s[k])
               Body(f) == [k \in 0 .. i |-> E(f, k)]
               D == CHOOSE f : f = Body(f)
               G == [k \in 0 .. i |-> F[k]]
    <2>2. Total(s) = D[i]
      BY <2>1 DEF Total, typ, a
    <2>3. \A k \in 0 .. i : G[k] = E(G, k)
      <3> SUFFICES ASSUME NEW k \in 0 .. i PROVE G[k] = E(G, k)
        OBVIOUS
      <3>1. CASE k = 0
        BY <3>1, <1>4
      <3>2. CASE k # 0
        <4>1. k - 1 \in Nat /\ (k - 1) + 1 = k /\ k \in 1 .. i /\ k - 1 \in 0 .. i
          BY <3>2
        <4>2. F[k] = typ(F[k - 1], g[k])
          BY <4>1, <1>5
        <4>3. G[k - 1] = F[k - 1] /\ G[k] = F[k] /\ s[k] = g[k]
          BY <4>1, <2>1
        <4> QED BY <3>2, <4>2, <4>3
      <3> QED BY <3>1, <3>2
    <2>4. G = Body(G)
      <3>1. G = [k \in 0 .. i |-> G[k]]
        OBVIOUS
      <3> HIDE DEF G, E
      <3> QED BY <2>3, <3>1
    <2>5. D = Body(D)
      <3> HIDE DEF Body, G
      <3> QED BY <2>4
    <2>6. \A k \in 0 .. i : D[k] = E(D, k)
      <3> HIDE DEF D, E
      <3> QED BY <2>5
    <2> HIDE DEF D
    <2> DEFINE U == {k \in Nat : k \in 0 .. i => D[k] = F[k]}
    <2>7. 0 \in U
      BY <1>4, <2>6
    <2>8. ASSUME NEW k \in Nat, k \in U PROVE k + 1 \in U
      <3> SUFFICES ASSUME k + 1 \in 0 .. i PROVE D[k + 1] = F[k + 1]
        OBVIOUS
      <3>1. k \in 0 .. i /\ k + 1 \in 1 .. i /\ k + 1 # 0 /\ (k + 1) - 1 = k
        OBVIOUS
      <3>2. D[k + 1] = typ(D[k], s[k + 1])
        BY <2>6, <3>1
      <3>3. D[k] = F[k]
        BY <2>8, <3>1
      <3>4. F[k + 1] = typ(F[k], s[k + 1])
        BY <1>5, <2>1, <3>1
      <3> QED BY <3>2, <3>3, <3>4
    <2>9. i \in U
      <3> HIDE DEF U
      <3>1. Nat \subseteq U
        BY <2>7, <2>8, AllNumbers
      <3> QED BY <3>1
    <2>10. D[i] = F[i]
      BY <2>9
    <2> QED BY <2>2, <2>10 DEF s
  <1> DEFINE Pp(i) == Total([j \in 1 .. i |-> g[j]])
  <1>7. \A i \in Nat : Pp(i) = F[i]
    BY <1>6
  <1> HIDE DEF Pp
  <1>8. Pp(0) = a
    BY <1>4, <1>7
  <1>9. \A i \in Nat : Pp(i) \in B /\ Pp(i + 1) = typ(Pp(i), g[i + 1])
    <2> SUFFICES ASSUME NEW i \in Nat PROVE Pp(i) \in B /\ Pp(i + 1) = typ(Pp(i), g[i + 1])
      OBVIOUS
    <2>1. i + 1 \in Nat
      OBVIOUS
    <2> QED BY <2>1, <1>5, <1>7
  <1> QED BY <1>8, <1>9 DEF Pp, typ, B, a

\* The same with end-around carries.
LEMMA AddAllOfPrefix ==
  ASSUME NEW g \in [Nat -> WordSet]
  PROVE  /\ AddAll([j \in 1 .. 0 |-> g[j]]) = 0
         /\ \A i \in Nat : AddAll([j \in 1 .. i |-> g[j]]) \in WordSet
         /\ \A i \in Nat : AddAll([j \in 1 .. i + 1 |-> g[j]])
                             = Add(AddAll([j \in 1 .. i |-> g[j]]), g[i + 1])
  <1> DEFINE typ(q, c) == Add(q, c)
             B == WordSet
             a == 0
             h == [x \in Nat \X B |-> typ(x[2], g[x[1] + 1])]
  <1>0. (\A q \in B : \A c \in WordSet : typ(q, c) \in B) /\ a \in B
    BY AddIs DEF WordSet, Word16
  <1> HIDE DEF typ, B, a
  <1>1. h \in [Nat \X B -> B]
    <2>1. \A x \in Nat \X B : x[1] \in Nat /\ x[2] \in B
      BY ONLY TRUE
    <2>2. \A n \in Nat : g[n + 1] \in WordSet
      OBVIOUS
    <2>3. \A x \in Nat \X B : typ(x[2], g[x[1] + 1]) \in B
      BY ONLY <1>0, <2>1, <2>2
    <2> QED BY <2>3
  <1>2. \A n \in Nat, q \in B : h[<<n, q>>] = typ(q, g[n + 1])
    BY <1>0
  <1> HIDE DEF h
  <1>3. \E f : Follows(f, B, a, h)
    BY <1>0, <1>1, NatRecursion
  <1>4. PICK F : F \in [Nat -> B] /\ F[0] = a /\ \A n \in Nat : F[n + 1] = h[<<n, F[n]>>]
    BY <1>3 DEF Follows
  <1>5. \A n \in Nat : F[n] \in B /\ F[n + 1] = typ(F[n], g[n + 1])
    BY <1>2, <1>4
  <1>6. ASSUME NEW i \in Nat PROVE AddAll([j \in 1 .. i |-> g[j]]) = F[i]
    <2> DEFINE s == [j \in 1 .. i |-> g[j]]
    <2>1. Len(s) = i /\ \A k \in 1 .. i : s[k] = g[k]
      OBVIOUS
    <2> HIDE DEF s
    <2> DEFINE E(f, k) == IF k = 0 THEN a ELSE typ(f[k - 1], s[k])
               Body(f) == [k \in 0 .. i |-> E(f, k)]
               D == CHOOSE f : f = Body(f)
               G == [k \in 0 .. i |-> F[k]]
    <2>2. AddAll(s) = D[i]
      BY <2>1 DEF AddAll, typ, a
    <2>3. \A k \in 0 .. i : G[k] = E(G, k)
      <3> SUFFICES ASSUME NEW k \in 0 .. i PROVE G[k] = E(G, k)
        OBVIOUS
      <3>1. CASE k = 0
        BY <3>1, <1>4
      <3>2. CASE k # 0
        <4>1. k - 1 \in Nat /\ (k - 1) + 1 = k /\ k \in 1 .. i /\ k - 1 \in 0 .. i
          BY <3>2
        <4>2. F[k] = typ(F[k - 1], g[k])
          BY <4>1, <1>5
        <4>3. G[k - 1] = F[k - 1] /\ G[k] = F[k] /\ s[k] = g[k]
          BY <4>1, <2>1
        <4> QED BY <3>2, <4>2, <4>3
      <3> QED BY <3>1, <3>2
    <2>4. G = Body(G)
      <3>1. G = [k \in 0 .. i |-> G[k]]
        OBVIOUS
      <3> HIDE DEF G, E
      <3> QED BY <2>3, <3>1
    <2>5. D = Body(D)
      <3> HIDE DEF Body, G
      <3> QED BY <2>4
    <2>6. \A k \in 0 .. i : D[k] = E(D, k)
      <3> HIDE DEF D, E
      <3> QED BY <2>5
    <2> HIDE DEF D
    <2> DEFINE U == {k \in Nat : k \in 0 .. i => D[k] = F[k]}
    <2>7. 0 \in U
      BY <1>4, <2>6
    <2>8. ASSUME NEW k \in Nat, k \in U PROVE k + 1 \in U
      <3> SUFFICES ASSUME k + 1 \in 0 .. i PROVE D[k + 1] = F[k + 1]
        OBVIOUS
      <3>1. k \in 0 .. i /\ k + 1 \in 1 .. i /\ k + 1 # 0 /\ (k + 1) - 1 = k
        OBVIOUS
      <3>2. D[k + 1] = typ(D[k], s[k + 1])
        BY <2>6, <3>1
      <3>3. D[k] = F[k]
        BY <2>8, <3>1
      <3>4. F[k + 1] = typ(F[k], s[k + 1])
        BY <1>5, <2>1, <3>1
      <3> QED BY <3>2, <3>3, <3>4
    <2>9. i \in U
      <3> HIDE DEF U
      <3>1. Nat \subseteq U
        BY <2>7, <2>8, AllNumbers
      <3> QED BY <3>1
    <2>10. D[i] = F[i]
      BY <2>9
    <2> QED BY <2>2, <2>10 DEF s
  <1> DEFINE Pp(i) == AddAll([j \in 1 .. i |-> g[j]])
  <1>7. \A i \in Nat : Pp(i) = F[i]
    BY <1>6
  <1> HIDE DEF Pp
  <1>8. Pp(0) = a
    BY <1>4, <1>7
  <1>9. \A i \in Nat : Pp(i) \in B /\ Pp(i + 1) = typ(Pp(i), g[i + 1])
    <2> SUFFICES ASSUME NEW i \in Nat PROVE Pp(i) \in B /\ Pp(i + 1) = typ(Pp(i), g[i + 1])
      OBVIOUS
    <2>1. i + 1 \in Nat
      OBVIOUS
    <2> QED BY <2>1, <1>5, <1>7
  <1> QED BY <1>8, <1>9 DEF Pp, typ, B, a

\* Membership in WordSet, as a bound.
LEMMA WordSetIs == \A w : w \in WordSet <=> w \in Nat /\ w <= 65535
  BY DEF WordSet, Word16

\* Adding with end-around carries is adding, up to multiples of 2^16 - 1.
LEMMA AddAllIs ==
  ASSUME NEW g \in [Nat -> WordSet], NEW n \in Nat
  PROVE  /\ AddAll([j \in 1 .. n |-> g[j]]) \in WordSet
         /\ Total([j \in 1 .. n |-> g[j]]) \in Nat
         /\ Congruent(AddAll([j \in 1 .. n |-> g[j]]), Total([j \in 1 .. n |-> g[j]]))
  <1> DEFINE A(i) == AddAll([j \in 1 .. i |-> g[j]])
             T(i) == Total([j \in 1 .. i |-> g[j]])
             U == {i \in Nat : Congruent(A(i), T(i))}
  <1>1. A(0) = 0 /\ \A i \in Nat : A(i) \in WordSet /\ A(i + 1) = Add(A(i), g[i + 1])
    BY AddAllOfPrefix
  <1>2. T(0) = 0 /\ \A i \in Nat : T(i) \in Nat /\ T(i + 1) = T(i) + g[i + 1]
    <2>1. g \in [Nat -> Nat]
      BY WordSetIs
    <2> QED BY <2>1, TotalOfPrefix
  <1> HIDE DEF A, T
  <1>3. 0 \in U
    <2>1. 0 \in Int
      OBVIOUS
    <2>2. Congruent(0, 0)
      BY <2>1, CongruentSelf
    <2> QED BY <1>1, <1>2, <2>2
  <1>4. ASSUME NEW i \in Nat, i \in U PROVE i + 1 \in U
    <2>1. PICK a \in Nat, t \in Nat, w \in Nat :
            a = A(i) /\ t = T(i) /\ w = g[i + 1] /\ a <= 65535 /\ w <= 65535
      <3>1. A(i) \in WordSet /\ T(i) \in Nat /\ g[i + 1] \in WordSet
        BY <1>1, <1>2
      <3> QED BY <3>1, WordSetIs
    <2>2. Word16(Add(a, w)) /\ Congruent(Add(a, w), a + w)
      BY <2>1, AddIs
    <2>3. Congruent(a, t)
      BY <1>4, <2>1
    <2>4. Congruent(w, w)
      BY CongruentSelf
    <2>5. Congruent(a + w, t + w)
      BY <2>3, <2>4, CongruentSum
    <2>6. Add(a, w) \in Int /\ a + w \in Int /\ t + w \in Int
      BY <2>2 DEF Word16
    <2>7. Congruent(Add(a, w), t + w)
      BY <2>2, <2>5, <2>6, CongruentThrough
    <2>8. A(i + 1) = Add(a, w) /\ T(i + 1) = t + w /\ i + 1 \in Nat
      BY <1>1, <1>2, <2>1
    <2> QED BY <2>7, <2>8
  <1>5. Nat \subseteq U
    <2> HIDE DEF U
    <2> QED BY <1>3, <1>4, AllNumbers
  <1>6. Congruent(A(n), T(n)) /\ A(n) \in WordSet /\ T(n) \in Nat
    BY <1>1, <1>2, <1>5
  <1> QED BY <1>6 DEF A, T

\* h has m times the words of g, and word k of h also m times the word c.
Scaled(g, h, m, c, k, n) ==
    /\ \A j \in 1 .. n : j # k => Congruent(h[j], m * g[j])
    /\ Congruent(h[k], m * (g[k] + c))

\* Then the sums are scaled as well.
LEMMA TotalsScaled ==
  ASSUME NEW g \in [Nat -> Nat], NEW h \in [Nat -> Nat], NEW m \in Nat, NEW c \in Nat,
         NEW n \in Nat, NEW k \in 1 .. n, Scaled(g, h, m, c, k, n)
  PROVE  /\ Total([j \in 1 .. n |-> g[j]]) \in Nat /\ Total([j \in 1 .. n |-> h[j]]) \in Nat
         /\ Congruent(Total([j \in 1 .. n |-> h[j]]), m * (Total([j \in 1 .. n |-> g[j]]) + c))
  <1> DEFINE S(i) == Total([j \in 1 .. i |-> g[j]])
             T(i) == Total([j \in 1 .. i |-> h[j]])
             d(i) == IF i < k THEN 0 ELSE c
             U == {i \in Nat : i <= n => Congruent(T(i), m * (S(i) + d(i)))}
  <1>1. S(0) = 0 /\ \A i \in Nat : S(i) \in Nat /\ S(i + 1) = S(i) + g[i + 1]
    BY TotalOfPrefix
  <1>2. T(0) = 0 /\ \A i \in Nat : T(i) \in Nat /\ T(i + 1) = T(i) + h[i + 1]
    BY TotalOfPrefix
  <1> HIDE DEF S, T
  <1>3. 0 \in U
    <2>1. 0 \in Int /\ d(0) = 0
      OBVIOUS
    <2>2. Congruent(0, 0)
      BY <2>1, CongruentSelf
    <2>3. m * (0 + 0) = 0
      OBVIOUS
    <2> QED BY <1>1, <1>2, <2>1, <2>2, <2>3
  <1>4. ASSUME NEW i \in Nat, i \in U PROVE i + 1 \in U
    <2> SUFFICES ASSUME i + 1 <= n PROVE Congruent(T(i + 1), m * (S(i + 1) + d(i + 1)))
      OBVIOUS
    <2>1. PICK s \in Nat, t \in Nat, v \in Nat, w \in Nat :
            s = S(i) /\ t = T(i) /\ v = g[i + 1] /\ w = h[i + 1]
      <3>1. S(i) \in Nat /\ T(i) \in Nat
        BY <1>1, <1>2
      <3>2. g[i + 1] \in Nat /\ h[i + 1] \in Nat
        OBVIOUS
      <3> QED BY <3>1, <3>2
    <2>2. PICK e \in Nat, f \in Nat : e = d(i) /\ f = IF i + 1 = k THEN c ELSE 0
      OBVIOUS
    <2>3. d(i + 1) = e + f
      BY <2>2
    <2>4. Congruent(t, m * (s + e))
      BY <1>4, <2>1, <2>2
    <2>5. Congruent(w, m * (v + f))
      <3>1. CASE i + 1 = k
        BY <2>1, <2>2, <3>1 DEF Scaled
      <3>2. CASE i + 1 # k
        <4>1. i + 1 \in 1 .. n /\ f = 0 /\ v + 0 = v
          BY <2>2, <3>2
        <4> QED BY <2>1, <3>2, <4>1 DEF Scaled
      <3> QED BY <3>1, <3>2
    <2>6. PICK x \in Int, y \in Int : x = m * (s + e) /\ y = m * (v + f)
      OBVIOUS
    <2>7. Congruent(t + w, x + y)
      BY <2>4, <2>5, <2>6, CongruentSum
    <2>8. x + y = m * ((s + v) + (e + f))
      BY <2>6
    <2>9. S(i + 1) = s + v /\ T(i + 1) = t + w
      BY <1>1, <1>2, <2>1
    <2> HIDE DEF d
    <2> QED BY <2>3, <2>7, <2>8, <2>9
  <1>5. Nat \subseteq U
    <2> HIDE DEF U
    <2> QED BY <1>3, <1>4, AllNumbers
  <1>6. Congruent(T(n), m * (S(n) + c)) /\ S(n) \in Nat /\ T(n) \in Nat
    <2>1. d(n) = c
      OBVIOUS
    <2> QED BY <1>1, <1>2, <1>5, <2>1
  <1> QED BY <1>6 DEF S, T

\* The two orders of two bytes.
LEMMA BytePair ==
  ASSUME NEW a \in Byte, NEW b \in Byte
  PROVE  /\ a + 256 * b \in WordSet /\ 256 * a + b \in Nat
         /\ Htons(a + 256 * b) = 256 * a + b
         /\ Congruent(256 * a + b, 256 * (a + 256 * b))
  <1>1. a \in Nat /\ a <= 255 /\ b \in Nat /\ b <= 255
    BY DEF Byte
  <1>2. a + 256 * b \in WordSet
    <2>1. a + 256 * b \in Nat /\ a + 256 * b <= 65535
      BY <1>1
    <2> QED BY <2>1, WordSetIs
  <1>3. (a + 256 * b) % 256 = a /\ (a + 256 * b) \div 256 = b
    BY <1>1
  <1>4. Htons(a + 256 * b) = 256 * a + b
    BY <1>1, <1>3 DEF Htons
  <1>5. 256 * a + b = 256 * (a + 256 * b) + Multiple(-b) /\ -b \in Int
    BY <1>1, SMT DEF Multiple
  <1>6. Congruent(256 * a + b, 256 * (a + 256 * b))
    BY <1>5 DEF Congruent
  <1>7. 256 * a + b \in Nat
    BY <1>1
  <1> QED BY <1>2, <1>4, <1>6, <1>7

\* A word in memory, and one in network order.
LEMMA StoreIs ==
  ASSUME NEW w \in WordSet
  PROVE  /\ Store16(w) = <<w % 256, w \div 256>> /\ w % 256 \in Byte /\ w \div 256 \in Byte
         /\ (w % 256) + 256 * (w \div 256) = w
         /\ Store16(Htons(w)) = <<w \div 256, w % 256>>
  <1>1. w \in Nat /\ w <= 65535
    BY WordSetIs
  <1>2. PICK r \in Nat, d \in Nat : r = w % 256 /\ d = w \div 256 /\ r <= 255 /\ d <= 255 /\ w = 256 * d + r
    <2>1. w % 256 \in Nat /\ w % 256 <= 255
      BY <1>1
    <2>2. w \div 256 \in Nat /\ w \div 256 <= 255
      BY <1>1
    <2>3. w = 256 * (w \div 256) + (w % 256)
      BY <1>1
    <2> QED BY <2>1, <2>2, <2>3
  <1>3. r \in Byte /\ d \in Byte
    BY <1>2 DEF Byte
  <1>4. Htons(w) = r * 256 + d
    BY <1>2 DEF Htons
  <1>5. (r * 256 + d) % 256 = d /\ (r * 256 + d) \div 256 = r
    BY <1>2
  <1>6. r + 256 * d = w
    BY <1>2
  <1> QED BY <1>2, <1>3, <1>4, <1>5, <1>6 DEF Store16

\* The bytes of a packet without its checksum, word k, and with it.
Filled(B, R, k) ==
    /\ B \in Seq(Byte) /\ R \in Seq(Byte) /\ Len(R) = Len(B)
    /\ B[2 * k - 1] = 0 /\ B[2 * k] = 0
    /\ \A i \in 1 .. Len(B) : i # 2 * k - 1 /\ i # 2 * k => R[i] = B[i]

\* An even number of bytes passes the test of a receiver.
Verifies(R) ==
    Total([j \in 1 .. Len(R) \div 2 |-> 256 * R[2 * j - 1] + R[2 * j]]) % 65535 = 0

\* The bytes of word j.
LEMMA PairOf ==
  ASSUME NEW B \in Seq(Byte), NEW j \in 1 .. Len(B) \div 2
  PROVE  /\ 2 * j - 1 \in 1 .. Len(B) /\ 2 * j \in 1 .. Len(B)
         /\ B[2 * j - 1] \in Byte /\ B[2 * j] \in Byte /\ j \in Nat \ {0}
  <1>1. PICK l \in Nat : l = Len(B)
    OBVIOUS
  <1>2. j \in Nat /\ j >= 1 /\ 2 * j <= l
    BY <1>1
  <1>3. 2 * j - 1 \in 1 .. l /\ 2 * j \in 1 .. l
    BY <1>2
  <1>4. \A i \in 1 .. l : B[i] \in Byte
    BY <1>1
  <1> QED BY <1>1, <1>2, <1>3, <1>4

\* The header checksum of IP: its words are added in network order.
LEMMA IpVerifies ==
  ASSUME NEW B, NEW R, NEW k, Filled(B, R, k), k \in 1 .. Len(B) \div 2, NEW c \in Nat,
         256 * R[2 * k - 1] + R[2 * k] = c, c = IpChecksum(B)
  PROVE  Verifies(R)
  <1>1. B \in Seq(Byte) /\ R \in Seq(Byte) /\ Len(R) = Len(B)
    BY DEF Filled
  <1>2. PICK n \in Nat : n = Len(B) \div 2
    <2>1. Len(B) \in Nat
      BY <1>1
    <2> QED BY <2>1
  <1> DEFINE g == [j \in Nat |-> IF j \in 1 .. n THEN 256 * B[2 * j - 1] + B[2 * j] ELSE 0]
             h == [j \in Nat |-> IF j \in 1 .. n THEN 256 * R[2 * j - 1] + R[2 * j] ELSE 0]
  <1>3. ASSUME NEW j \in 1 .. n
        PROVE  /\ B[2 * j - 1] \in Byte /\ B[2 * j] \in Byte /\ R[2 * j - 1] \in Byte /\ R[2 * j] \in Byte
               /\ 256 * B[2 * j - 1] + B[2 * j] \in Nat /\ 256 * R[2 * j - 1] + R[2 * j] \in Nat
               /\ Htons(B[2 * j - 1] + 256 * B[2 * j]) = 256 * B[2 * j - 1] + B[2 * j]
    <2>1. j \in 1 .. Len(B) \div 2 /\ j \in 1 .. Len(R) \div 2
      BY <1>1, <1>2
    <2>2. B[2 * j - 1] \in Byte /\ B[2 * j] \in Byte /\ R[2 * j - 1] \in Byte /\ R[2 * j] \in Byte
      BY <1>1, <2>1, PairOf
    <2> DEFINE p == B[2 * j - 1]
               q == B[2 * j]
               x == R[2 * j - 1]
               y == R[2 * j]
    <2>3. p \in Byte /\ q \in Byte /\ x \in Byte /\ y \in Byte
      BY <2>2
    <2> HIDE DEF p, q, x, y
    <2>4. 256 * p + q \in Nat /\ Htons(p + 256 * q) = 256 * p + q
      BY ONLY <2>3, BytePair
    <2>5. 256 * x + y \in Nat
      BY ONLY <2>3, BytePair
    <2> QED BY ONLY <2>3, <2>4, <2>5 DEF p, q, x, y
  <1>4. g \in [Nat -> Nat] /\ h \in [Nat -> Nat]
    BY <1>3
  <1>5. /\ \A j \in 1 .. n : g[j] = 256 * B[2 * j - 1] + B[2 * j]
        /\ \A j \in 1 .. n : h[j] = 256 * R[2 * j - 1] + R[2 * j]
    OBVIOUS
  <1> HIDE DEF g, h
  <1>6. [j \in 1 .. Len(R) \div 2 |-> 256 * R[2 * j - 1] + R[2 * j]] = [j \in 1 .. n |-> h[j]]
    BY <1>1, <1>2, <1>5
  <1>7. c = 65535 - Fold16[Total([j \in 1 .. n |-> g[j]])]
    <2>1. Words(B) = [i \in 1 .. n |-> B[2 * i - 1] + 256 * B[2 * i]]
      BY <1>2 DEF Words
    <2>2. Len(Words(B)) = n /\ \A i \in 1 .. n : Words(B)[i] = B[2 * i - 1] + 256 * B[2 * i]
      <3>1. ASSUME NEW w, w = [i \in 1 .. n |-> B[2 * i - 1] + 256 * B[2 * i]]
            PROVE  Len(w) = n /\ \A i \in 1 .. n : w[i] = B[2 * i - 1] + 256 * B[2 * i]
        BY <3>1
      <3> QED BY <2>1, <3>1
    <2>3. \A i \in 1 .. n : Htons(Words(B)[i]) = g[i]
      BY <1>3, <1>5, <2>2
    <2>4. [i \in 1 .. Len(Words(B)) |-> Htons(Words(B)[i])] = [i \in 1 .. n |-> g[i]]
      BY <2>2, <2>3
    <2> DEFINE G == [i \in 1 .. n |-> g[i]]
               H == [i \in 1 .. Len(Words(B)) |-> Htons(Words(B)[i])]
    <2>5. H = G
      BY ONLY <2>4
    <2>6. IpChecksum(B) = 65535 - Fold16[Total(H)]
      BY ONLY DEF IpChecksum
    <2> HIDE DEF G, H
    <2>7. IpChecksum(B) = 65535 - Fold16[Total(G)]
      BY ONLY <2>5, <2>6
    <2>8. c = 65535 - Fold16[Total(G)]
      BY <2>7
    <2> QED BY ONLY <2>8 DEF G
  <1>8. k \in 1 .. n /\ g[k] = 0 /\ h[k] = c
    <2>1. k \in 1 .. n
      BY <1>2
    <2>2. g[k] = 256 * B[2 * k - 1] + B[2 * k] /\ h[k] = 256 * R[2 * k - 1] + R[2 * k]
      BY <1>5, <2>1
    <2> QED BY <2>1, <2>2 DEF Filled
  <1>0. PICK one \in Nat : one = 1
    OBVIOUS
  <1>9. Scaled(g, h, one, c, k, n)
    <2>1. ASSUME NEW j \in 1 .. n, j # k PROVE Congruent(h[j], one * g[j])
      <3>1. 2 * j - 1 \in 1 .. Len(B) /\ 2 * j \in 1 .. Len(B) /\ j \in Nat
        BY <1>1, <1>2, PairOf
      <3>2. k \in Nat
        BY <1>8
      <3>3. 2 * j - 1 # 2 * k - 1 /\ 2 * j - 1 # 2 * k /\ 2 * j # 2 * k - 1 /\ 2 * j # 2 * k
        BY <2>1, <3>1, <3>2
      <3>4. R[2 * j - 1] = B[2 * j - 1] /\ R[2 * j] = B[2 * j]
        BY <3>1, <3>3 DEF Filled
      <3>5. h[j] = g[j]
        BY <1>5, <3>4
      <3>6. g[j] \in Nat
        BY <1>4, <3>1
      <3>7. one * g[j] = g[j] /\ g[j] \in Int
        BY <1>0, <3>6
      <3> QED BY <3>5, <3>7, CongruentSelf
    <2>2. Congruent(h[k], one * (g[k] + c))
      <3>1. one * (g[k] + c) = c /\ c \in Int
        BY <1>0, <1>8
      <3> QED BY <1>8, <3>1, CongruentSelf
    <2> QED BY <2>1, <2>2 DEF Scaled
  <1>10. PICK s \in Nat, t \in Nat : /\ s = Total([j \in 1 .. n |-> g[j]]) /\ t = Total([j \in 1 .. n |-> h[j]])
                                     /\ Congruent(t, one * (s + c))
    <2>1. k \in 1 .. n
      BY <1>8
    <2>2. /\ Total([j \in 1 .. n |-> g[j]]) \in Nat /\ Total([j \in 1 .. n |-> h[j]]) \in Nat
          /\ Congruent(Total([j \in 1 .. n |-> h[j]]), one * (Total([j \in 1 .. n |-> g[j]]) + c))
      <3>1. one \in Nat /\ c \in Nat /\ n \in Nat
        OBVIOUS
      <3> QED BY ONLY <1>4, <1>9, <2>1, <3>1, TotalsScaled, Zenon
    <2> DEFINE G == Total([j \in 1 .. n |-> g[j]])
               H == Total([j \in 1 .. n |-> h[j]])
    <2>3. G \in Nat /\ H \in Nat /\ Congruent(H, one * (G + c))
      BY <2>2
    <2> HIDE DEF G, H
    <2>4. \E s, t \in Nat : s = G /\ t = H /\ Congruent(t, one * (s + c))
      BY <2>3
    <2> QED BY ONLY <2>4, Zenon DEF G, H
  <1>11. PICK f \in Nat : f = Fold16[s] /\ Congruent(s, f)
    <2>1. Word16(Fold16[s]) /\ Congruent(s, Fold16[s])
      BY FoldIs
    <2>2. Fold16[s] \in Nat
      BY <2>1 DEF Word16
    <2> QED BY <2>1, <2>2
  <1>12. c = 65535 - f
    BY <1>7, <1>10, <1>11
  <1>13. Congruent(s + c, 0)
    <2>1. PICK i \in Int : s = f + Multiple(i)
      BY <1>11 DEF Congruent
    <2>2. Multiple(i) \in Int /\ Multiple(i + 1) = Multiple(i) + 65535
      <3>1. PICK o \in Int : o = 1
        OBVIOUS
      <3>2. Multiple(i) \in Int /\ Multiple(i + o) = Multiple(i) + Multiple(o)
        BY ONLY i \in Int, o \in Int, Multiples
      <3>3. Multiple(o) = 65535
        BY <3>1, MultipleOne
      <3> QED BY <3>1, <3>2, <3>3
    <2>3. s + c = 0 + Multiple(i + 1)
      BY <1>12, <2>1, <2>2
    <2>4. i + 1 \in Int
      OBVIOUS
    <2> QED BY <2>3, <2>4 DEF Congruent
  <1>14. Congruent(t, 0)
    <2>1. one * (s + c) = s + c /\ s + c \in Int /\ 0 \in Int
      BY <1>0
    <2> QED BY <1>10, <1>13, <2>1, CongruentThrough
  <1>15. t % 65535 = 0
    BY <1>14, CongruentZero
  <1>16. Total([j \in 1 .. Len(R) \div 2 |-> 256 * R[2 * j - 1] + R[2 * j]]) = t
    <2> DEFINE G == [j \in 1 .. n |-> h[j]]
    <2>1. t = Total(G)
      BY ONLY <1>10, Zenon
    <2>2. [j \in 1 .. Len(R) \div 2 |-> 256 * R[2 * j - 1] + R[2 * j]] = G
      BY ONLY <1>6
    <2> HIDE DEF G
    <2> QED BY ONLY <2>1, <2>2
  <1> QED BY <1>15, <1>16 DEF Verifies

\* The checksum of UDP: its words are added in the order of memory, with
\* end-around carries, and checked in network order.
UdpSum(B) == 65535 - AddAll(Words(B))

\* A datagram whose checksum is filled in verifies.
LEMMA UdpVerifies ==
  ASSUME NEW B, NEW R, NEW k, Filled(B, R, k), k \in 1 .. Len(B) \div 2, NEW c \in Nat,
         R[2 * k - 1] + 256 * R[2 * k] = c, c = UdpSum(B)
  PROVE  Verifies(R)
  <1>1. B \in Seq(Byte) /\ R \in Seq(Byte) /\ Len(R) = Len(B)
    BY DEF Filled
  <1>2. PICK n \in Nat : n = Len(B) \div 2
    <2>1. Len(B) \in Nat
      BY <1>1
    <2> QED BY <2>1
  <1> DEFINE g == [j \in Nat |-> IF j \in 1 .. n THEN B[2 * j - 1] + 256 * B[2 * j] ELSE 0]
             h == [j \in Nat |-> IF j \in 1 .. n THEN 256 * R[2 * j - 1] + R[2 * j] ELSE 0]
  <1>3. ASSUME NEW j \in 1 .. n
        PROVE  /\ B[2 * j - 1] + 256 * B[2 * j] \in WordSet /\ 256 * R[2 * j - 1] + R[2 * j] \in Nat
               /\ Congruent(256 * R[2 * j - 1] + R[2 * j], 256 * (R[2 * j - 1] + 256 * R[2 * j]))
    <2>1. j \in 1 .. Len(B) \div 2 /\ j \in 1 .. Len(R) \div 2
      BY <1>1, <1>2
    <2>2. B[2 * j - 1] \in Byte /\ B[2 * j] \in Byte /\ R[2 * j - 1] \in Byte /\ R[2 * j] \in Byte
      BY <1>1, <2>1, PairOf
    <2> DEFINE p == B[2 * j - 1]
               q == B[2 * j]
               x == R[2 * j - 1]
               y == R[2 * j]
    <2>3. p \in Byte /\ q \in Byte /\ x \in Byte /\ y \in Byte
      BY <2>2
    <2> HIDE DEF p, q, x, y
    <2>4. p + 256 * q \in WordSet
      BY <2>3, BytePair
    <2>5. 256 * x + y \in Nat /\ Congruent(256 * x + y, 256 * (x + 256 * y))
      BY <2>3, BytePair
    <2> QED BY <2>4, <2>5 DEF p, q, x, y
  <1>4. g \in [Nat -> WordSet] /\ h \in [Nat -> Nat]
    <2>1. 0 \in WordSet
      BY WordSetIs
    <2> QED BY <1>3, <2>1
  <1>5. /\ \A j \in 1 .. n : g[j] = B[2 * j - 1] + 256 * B[2 * j]
        /\ \A j \in 1 .. n : h[j] = 256 * R[2 * j - 1] + R[2 * j]
    OBVIOUS
  <1> HIDE DEF g, h
  <1>6. [j \in 1 .. Len(R) \div 2 |-> 256 * R[2 * j - 1] + R[2 * j]] = [j \in 1 .. n |-> h[j]]
    BY <1>1, <1>2, <1>5
  <1>7. Words(B) = [j \in 1 .. n |-> g[j]]
    BY <1>2, <1>5 DEF Words
  <1>8. k \in 1 .. n /\ g[k] = 0 /\ h[k] = 256 * R[2 * k - 1] + R[2 * k]
    <2>1. k \in 1 .. n
      BY <1>2
    <2>2. g[k] = B[2 * k - 1] + 256 * B[2 * k] /\ h[k] = 256 * R[2 * k - 1] + R[2 * k]
      BY <1>5, <2>1
    <2> QED BY <2>1, <2>2 DEF Filled
  <1>0. PICK f \in Nat : f = 256
    OBVIOUS
  <1>9. Scaled(g, h, f, c, k, n)
    <2>1. ASSUME NEW j \in 1 .. n, j # k PROVE Congruent(h[j], f * g[j])
      <3>1. 2 * j - 1 \in 1 .. Len(B) /\ 2 * j \in 1 .. Len(B) /\ j \in Nat
        BY <1>1, <1>2, PairOf
      <3>2. k \in Nat
        BY <1>8
      <3>3. 2 * j - 1 # 2 * k - 1 /\ 2 * j - 1 # 2 * k /\ 2 * j # 2 * k - 1 /\ 2 * j # 2 * k
        BY <2>1, <3>1, <3>2
      <3>4. R[2 * j - 1] = B[2 * j - 1] /\ R[2 * j] = B[2 * j]
        BY <3>1, <3>3 DEF Filled
      <3>5. h[j] = 256 * R[2 * j - 1] + R[2 * j] /\ g[j] = R[2 * j - 1] + 256 * R[2 * j]
        BY <1>5, <3>4
      <3> QED BY <1>0, <1>3, <3>5
    <2>2. Congruent(h[k], f * (g[k] + c))
      <3>1. g[k] + c = R[2 * k - 1] + 256 * R[2 * k]
        BY <1>8
      <3> QED BY <1>0, <1>3, <1>8, <3>1
    <2> QED BY <2>1, <2>2 DEF Scaled
  <1>10. PICK s \in Nat, t \in Nat : /\ s = Total([j \in 1 .. n |-> g[j]]) /\ t = Total([j \in 1 .. n |-> h[j]])
                                     /\ Congruent(t, f * (s + c))
    <2>0. ASSUME NEW j \in Nat PROVE g[j] \in Nat
      <3>1. g[j] \in WordSet
        BY <1>4
      <3> QED BY <3>1, WordSetIs
    <2>1. k \in 1 .. n /\ g \in [Nat -> Nat]
      <3>1. g \in [Nat -> WordSet]
        BY <1>4
      <3>2. g = [j \in Nat |-> g[j]]
        BY <3>1
      <3>3. k \in 1 .. n
        BY <1>8
      <3> QED BY ONLY <2>0, <3>2, <3>3, Zenon
    <2>2. /\ Total([j \in 1 .. n |-> g[j]]) \in Nat /\ Total([j \in 1 .. n |-> h[j]]) \in Nat
          /\ Congruent(Total([j \in 1 .. n |-> h[j]]), f * (Total([j \in 1 .. n |-> g[j]]) + c))
      <3>1. g \in [Nat -> Nat] /\ h \in [Nat -> Nat] /\ Scaled(g, h, f, c, k, n) /\ k \in 1 .. n /\ f \in Nat /\ c \in Nat /\ n \in Nat
        <4>1. f \in Nat /\ c \in Nat /\ n \in Nat
          OBVIOUS
        <4> QED BY ONLY <1>4, <1>9, <2>1, <4>1, Zenon
      <3> QED BY ONLY <3>1, TotalsScaled, Zenon
    <2> DEFINE G == Total([j \in 1 .. n |-> g[j]])
               H == Total([j \in 1 .. n |-> h[j]])
    <2>3. G \in Nat /\ H \in Nat /\ Congruent(H, f * (G + c))
      BY <2>2
    <2> HIDE DEF G, H
    <2>4. \E s, t \in Nat : s = G /\ t = H /\ Congruent(t, f * (s + c))
      BY <2>3
    <2> QED BY ONLY <2>4, Zenon DEF G, H
  <1>11. PICK a \in Nat : a = AddAll([j \in 1 .. n |-> g[j]]) /\ Congruent(a, s)
    <2> DEFINE A == AddAll([j \in 1 .. n |-> g[j]])
    <2>0. g \in [Nat -> WordSet]
      BY <1>4
    <2>1. A \in WordSet /\ Congruent(A, Total([j \in 1 .. n |-> g[j]]))
      BY <2>0, AddAllIs
    <2> HIDE DEF A
    <2>2. A \in Nat
      BY <2>1, WordSetIs
    <2>3. Congruent(A, s)
      BY <1>10, <2>1
    <2>4. \E a \in Nat : a = A /\ Congruent(a, s)
      BY <2>2, <2>3
    <2> QED BY ONLY <2>4, Zenon DEF A
  <1>12. c = 65535 - a
    BY <1>7, <1>11 DEF UdpSum
  <1>13. Congruent(s + c, 0)
    <2>0. Congruent(s, a)
      BY <1>11, CongruentBack
    <2>1. PICK i \in Int : s = a + Multiple(i)
      BY <2>0 DEF Congruent
    <2>2. Multiple(i) \in Int /\ Multiple(i + 1) = Multiple(i) + 65535
      <3>1. PICK o \in Int : o = 1
        OBVIOUS
      <3>2. Multiple(i) \in Int /\ Multiple(i + o) = Multiple(i) + Multiple(o)
        BY ONLY i \in Int, o \in Int, Multiples
      <3>3. Multiple(o) = 65535
        BY <3>1, MultipleOne
      <3> QED BY <3>1, <3>2, <3>3
    <2>3. s + c = 0 + Multiple(i + 1)
      BY <1>12, <2>1, <2>2
    <2>4. i + 1 \in Int
      OBVIOUS
    <2> QED BY <2>3, <2>4 DEF Congruent
  <1>14. Congruent(t, 0)
    <2>1. PICK u \in Int : u = s + c
      OBVIOUS
    <2>2. PICK z \in Int : z = 0
      OBVIOUS
    <2>0. Congruent(u, z)
      BY <1>13, <2>1, <2>2
    <2>3. Congruent(f * u, f * z)
      BY ONLY u \in Int, z \in Int, f \in Nat, <2>0, CongruentTimes
    <2>4. f * z = z
      BY <2>2
    <2>5. f * u \in Int
      OBVIOUS
    <2>6. Congruent(t, f * u) /\ Congruent(f * u, z)
      BY <1>10, <2>1, <2>3, <2>4
    <2> QED BY <2>2, <2>5, <2>6, CongruentThrough
  <1>15. t % 65535 = 0
    BY <1>14, CongruentZero
  <1>16. Total([j \in 1 .. Len(R) \div 2 |-> 256 * R[2 * j - 1] + R[2 * j]]) = t
    <2> DEFINE G == [j \in 1 .. n |-> h[j]]
    <2>1. t = Total(G)
      BY ONLY <1>10, Zenon
    <2>2. [j \in 1 .. Len(R) \div 2 |-> 256 * R[2 * j - 1] + R[2 * j]] = G
      BY ONLY <1>6
    <2> HIDE DEF G
    <2> QED BY ONLY <2>1, <2>2
  <1> QED BY <1>15, <1>16 DEF Verifies

\* Bytes put together.
LEMMA Joined ==
  ASSUME NEW s \in Seq(Byte), NEW t \in Seq(Byte)
  PROVE  /\ s \o t \in Seq(Byte) /\ Len(s \o t) = Len(s) + Len(t)
         /\ Len(s) \in Nat /\ Len(t) \in Nat
         /\ \A i \in 1 .. Len(s) : (s \o t)[i] = s[i]
         /\ \A i \in 1 .. Len(t) : (s \o t)[Len(s) + i] = t[i]
  <1>1. /\ s \o t \in Seq(Byte) /\ Len(s \o t) = Len(s) + Len(t)
        /\ \A i \in 1 .. Len(s) + Len(t) : (s \o t)[i] = IF i <= Len(s) THEN s[i] ELSE t[i - Len(s)]
    BY ConcatProperties
  <1>2. Len(s) \in Nat /\ Len(t) \in Nat
    OBVIOUS
  <1>3. ASSUME NEW i \in 1 .. Len(s) PROVE (s \o t)[i] = s[i]
    BY <1>1, <1>2
  <1>4. ASSUME NEW i \in 1 .. Len(t) PROVE (s \o t)[Len(s) + i] = t[i]
    <2>1. Len(s) + i \in 1 .. Len(s) + Len(t) /\ ~(Len(s) + i <= Len(s)) /\ (Len(s) + i) - Len(s) = i
      BY <1>2
    <2> QED BY <1>1, <2>1
  <1> QED BY <1>1, <1>2, <1>3, <1>4

\* Two bytes.
LEMMA TwoBytes ==
  ASSUME NEW a \in Byte, NEW b \in Byte
  PROVE  <<a, b>> \in Seq(Byte) /\ Len(<<a, b>>) = 2 /\ <<a, b>>[1] = a /\ <<a, b>>[2] = b
  OBVIOUS

\* A part of a packet.
LEMMA MiddleIs ==
  ASSUME NEW s \in Seq(Byte), NEW t \in Seq(Byte), NEW u \in Seq(Byte)
  PROVE  SubSeq((s \o t) \o u, Len(s) + 1, Len(s) + Len(t)) = t
  <1>1. PICK m \in Nat, n \in Nat : m = Len(s) /\ n = Len(t)
    OBVIOUS
  <1>2. /\ s \o t \in Seq(Byte) /\ Len(s \o t) = m + n
        /\ \A i \in 1 .. n : (s \o t)[m + i] = t[i]
    BY <1>1, Joined
  <1>3. \A i \in 1 .. m + n : ((s \o t) \o u)[i] = (s \o t)[i]
    BY <1>2, Joined
  <1>4. \A i \in 1 .. n : m + i \in 1 .. m + n
    OBVIOUS
  <1>5. \A i \in 1 .. n : ((s \o t) \o u)[m + i] = t[i] /\ t[i] \in Byte
    BY <1>1, <1>2, <1>3, <1>4
  <1> DEFINE w == (s \o t) \o u
             v == SubSeq(w, m + 1, m + n)
  <1>6. \A i \in 1 .. n : w[m + i] = t[i] /\ t[i] \in Byte
    BY <1>5
  <1> HIDE DEF w
  <1>7. ASSUME NEW i \in (m + 1) .. (m + n) PROVE w[i] \in Byte
    <2>1. PICK j \in 1 .. n : i = m + j
      <3>1. i - m \in 1 .. n /\ i = m + (i - m)
        OBVIOUS
      <3> QED BY <3>1
    <2> QED BY <1>6, <2>1
  <1>8. /\ v \in Seq(Byte) /\ Len(v) = IF m + 1 <= m + n THEN (m + n) - (m + 1) + 1 ELSE 0
        /\ \A i \in 1 .. (m + n) - (m + 1) + 1 : v[i] = w[(m + 1) + i - 1]
    <2>1. m + 1 \in Int /\ m + n \in Int
      OBVIOUS
    <2>2. PICK i \in Int, j \in Int : i = m + 1 /\ j = m + n
      BY ONLY <2>1
    <2>3. \A k \in i .. j : w[k] \in Byte
      BY ONLY <1>7, <2>2
    <2>4. /\ SubSeq(w, i, j) \in Seq(Byte) /\ Len(SubSeq(w, i, j)) = IF i <= j THEN j - i + 1 ELSE 0
          /\ \A k \in 1 .. j - i + 1 : SubSeq(w, i, j)[k] = w[i + k - 1]
      BY ONLY <2>3, i \in Int, j \in Int, SubSeqProperties
    <2> QED BY ONLY <2>2, <2>4
  <1> HIDE DEF v
  <1>9. Len(v) = n /\ (m + n) - (m + 1) + 1 = n
    BY <1>8
  <1>10. ASSUME NEW i \in 1 .. n PROVE v[i] = t[i]
    <2>1. v[i] = w[(m + 1) + i - 1] /\ (m + 1) + i - 1 = m + i
      BY <1>8, <1>9
    <2> QED BY <1>6, <2>1
  <1>11. v = t
    BY <1>1, <1>8, <1>9, <1>10, SeqEqual
  <1> QED BY <1>1, <1>11 DEF v, w

\* The packet with its checksum: word k follows x.
LEMMA FilledAround ==
  ASSUME NEW x \in Seq(Byte), NEW y \in Seq(Byte), NEW a \in Byte, NEW b \in Byte,
         NEW k \in Nat \ {0}, Len(x) = 2 * k - 2
  PROVE  /\ Filled((x \o <<0, 0>>) \o y, (x \o <<a, b>>) \o y, k)
         /\ ((x \o <<a, b>>) \o y)[2 * k - 1] = a /\ ((x \o <<a, b>>) \o y)[2 * k] = b
         /\ Len((x \o <<a, b>>) \o y) = 2 * k + Len(y)
         /\ k \in 1 .. Len((x \o <<0, 0>>) \o y) \div 2
  <1> DEFINE P(c, d) == (x \o <<c, d>>) \o y
  <1>0. 0 \in Byte
    BY DEF Byte
  <1>1. PICK n \in Nat : n = Len(y)
    OBVIOUS
  <1>2. ASSUME NEW c \in Byte, NEW d \in Byte
        PROVE  /\ P(c, d) \in Seq(Byte) /\ Len(P(c, d)) = 2 * k + n
               /\ P(c, d)[2 * k - 1] = c /\ P(c, d)[2 * k] = d
               /\ \A i \in 1 .. 2 * k - 2 : P(c, d)[i] = x[i]
               /\ \A i \in 1 .. n : P(c, d)[2 * k + i] = y[i]
    <2> DEFINE q == <<c, d>>
               z == x \o q
               p == z \o y
    <2>1. q \in Seq(Byte) /\ Len(q) = 2 /\ q[1] = c /\ q[2] = d
      BY TwoBytes
    <2> HIDE DEF q
    <2>2. /\ z \in Seq(Byte) /\ Len(z) = Len(x) + 2 /\ \A i \in 1 .. Len(x) : z[i] = x[i]
          /\ \A i \in 1 .. 2 : z[Len(x) + i] = q[i]
      <3>1. /\ z \in Seq(Byte) /\ Len(z) = Len(x) + Len(q) /\ \A i \in 1 .. Len(x) : z[i] = x[i]
            /\ \A i \in 1 .. Len(q) : z[Len(x) + i] = q[i]
        BY <2>1, Joined
      <3> QED BY <2>1, <3>1
    <2> HIDE DEF z
    <2>3. Len(z) = 2 * k /\ z[2 * k - 1] = c /\ z[2 * k] = d
      <3>1. Len(x) + 1 = 2 * k - 1 /\ Len(x) + 2 = 2 * k /\ 1 \in 1 .. 2 /\ 2 \in 1 .. 2
        OBVIOUS
      <3>2. z[Len(x) + 1] = q[1] /\ z[Len(x) + 2] = q[2]
        BY <2>2, <3>1
      <3> QED BY <2>1, <2>2, <3>1, <3>2
    <2>4. /\ p \in Seq(Byte) /\ Len(p) = Len(z) + Len(y) /\ \A i \in 1 .. Len(z) : p[i] = z[i]
          /\ \A i \in 1 .. Len(y) : p[Len(z) + i] = y[i]
      BY <2>2, Joined
    <2> HIDE DEF p
    <2>5. 2 * k - 1 \in 1 .. 2 * k /\ 2 * k \in 1 .. 2 * k
      OBVIOUS
    <2>6. p[2 * k - 1] = c /\ p[2 * k] = d
      BY <2>3, <2>4, <2>5
    <2>7. ASSUME NEW i \in 1 .. 2 * k - 2 PROVE p[i] = x[i]
      <3>1. i \in 1 .. 2 * k /\ i \in 1 .. Len(x)
        OBVIOUS
      <3> QED BY <2>2, <2>3, <2>4, <3>1
    <2>8. P(c, d) = p
      BY DEF p, z, q
    <2> HIDE DEF P
    <2> QED BY <1>1, <2>3, <2>4, <2>6, <2>7, <2>8
  <1> HIDE DEF P
  <1>3. /\ P(0, 0) \in Seq(Byte) /\ Len(P(0, 0)) = 2 * k + n
        /\ P(0, 0)[2 * k - 1] = 0 /\ P(0, 0)[2 * k] = 0
        /\ \A i \in 1 .. 2 * k - 2 : P(0, 0)[i] = x[i]
        /\ \A i \in 1 .. n : P(0, 0)[2 * k + i] = y[i]
    BY <1>0, <1>2
  <1>4. /\ P(a, b) \in Seq(Byte) /\ Len(P(a, b)) = 2 * k + n
        /\ P(a, b)[2 * k - 1] = a /\ P(a, b)[2 * k] = b
        /\ \A i \in 1 .. 2 * k - 2 : P(a, b)[i] = x[i]
        /\ \A i \in 1 .. n : P(a, b)[2 * k + i] = y[i]
    BY <1>2
  <1>5. ASSUME NEW i \in 1 .. 2 * k + n, i # 2 * k - 1, i # 2 * k PROVE P(a, b)[i] = P(0, 0)[i]
    <2>1. CASE i \in 1 .. 2 * k - 2
      BY <1>3, <1>4, <2>1
    <2>2. CASE i > 2 * k
      <3>1. PICK j \in 1 .. n : i = 2 * k + j
        <4>1. i - 2 * k \in 1 .. n /\ i = 2 * k + (i - 2 * k)
          BY <2>2
        <4> QED BY <4>1
      <3> QED BY <1>3, <1>4, <3>1
    <2> QED BY <1>5, <2>1, <2>2
  <1>6. Filled(P(0, 0), P(a, b), k)
    BY <1>3, <1>4, <1>5 DEF Filled
  <1>7. k \in 1 .. Len(P(0, 0)) \div 2
    BY <1>3
  <1> QED BY <1>1, <1>4, <1>6, <1>7 DEF P

\* The words of bytes, as a function.
LEMMA WordsAre ==
  ASSUME NEW B \in Seq(Byte)
  PROVE  /\ Words(B) \in Seq(WordSet) /\ Len(Words(B)) = Len(B) \div 2
         /\ \A j \in 1 .. Len(B) \div 2 : Words(B)[j] = B[2 * j - 1] + 256 * B[2 * j]
  <1>1. PICK n \in Nat : n = Len(B) \div 2
    <2>1. Len(B) \in Nat
      OBVIOUS
    <2> QED BY <2>1
  <1>2. ASSUME NEW j \in 1 .. n PROVE B[2 * j - 1] + 256 * B[2 * j] \in WordSet
    <2> DEFINE p == B[2 * j - 1]
               q == B[2 * j]
    <2>1. p \in Byte /\ q \in Byte
      BY <1>1, PairOf
    <2> HIDE DEF p, q
    <2>2. p + 256 * q \in WordSet
      BY <2>1, BytePair
    <2> QED BY <2>2 DEF p, q
  <1>3. Words(B) = [j \in 1 .. n |-> B[2 * j - 1] + 256 * B[2 * j]]
    BY <1>1 DEF Words
  <1>4. ASSUME NEW w, w = [j \in 1 .. n |-> B[2 * j - 1] + 256 * B[2 * j]]
        PROVE  w \in Seq(WordSet) /\ Len(w) = n /\ \A j \in 1 .. n : w[j] = B[2 * j - 1] + 256 * B[2 * j]
    <2>1. \A j \in 1 .. n : w[j] = B[2 * j - 1] + 256 * B[2 * j]
      BY <1>4
    <2>2. \A j \in 1 .. n : w[j] \in WordSet
      BY <1>2, <2>1
    <2>3. w = [j \in 1 .. n |-> w[j]]
      BY <1>4, <2>1
    <2> QED BY <2>1, <2>2, <2>3
  <1> QED BY <1>1, <1>3, <1>4

\* Bytes in pairs are words one after the other.
LEMMA WordsJoined ==
  ASSUME NEW s \in Seq(Byte), NEW t \in Seq(Byte), NEW m \in Nat, Len(s) = 2 * m
  PROVE  Words(s \o t) = Words(s) \o Words(t)
  <1>0. PICK l \in Nat, n \in Nat : l = Len(t) /\ n = l \div 2
    <2>1. Len(t) \in Nat /\ Len(t) \div 2 \in Nat
      <3>1. Len(t) \in Nat
        OBVIOUS
      <3> QED BY <3>1
    <2> QED BY <2>1
  <1>1. /\ s \o t \in Seq(Byte) /\ Len(s \o t) = 2 * m + l
        /\ \A i \in 1 .. 2 * m : (s \o t)[i] = s[i]
        /\ \A i \in 1 .. l : (s \o t)[2 * m + i] = t[i]
    <2>1. /\ s \o t \in Seq(Byte) /\ Len(s \o t) = Len(s) + Len(t)
          /\ \A i \in 1 .. Len(s) : (s \o t)[i] = s[i]
          /\ \A i \in 1 .. Len(t) : (s \o t)[Len(s) + i] = t[i]
      BY ONLY s \in Seq(Byte), t \in Seq(Byte), Joined, Zenon
    <2> QED BY <1>0, <2>1
  <1> DEFINE u == s \o t
             W == Words(u)
             V == Words(s)
             U == Words(t)
  <1>2. u \in Seq(Byte) /\ Len(u) = 2 * m + l
    BY <1>1
  <1>3. (2 * m + l) \div 2 = m + n /\ (2 * m) \div 2 = m
    BY <1>0
  <1>4. /\ W \in Seq(WordSet) /\ Len(W) = m + n
        /\ \A j \in 1 .. m + n : W[j] = u[2 * j - 1] + 256 * u[2 * j]
    <2>1. /\ W \in Seq(WordSet) /\ Len(W) = Len(u) \div 2
          /\ \A j \in 1 .. Len(u) \div 2 : W[j] = u[2 * j - 1] + 256 * u[2 * j]
      BY <1>2, WordsAre
    <2>2. Len(u) \div 2 = m + n
      BY <1>2, <1>3
    <2> HIDE DEF W, u
    <2> QED BY <2>1, <2>2
  <1>5. V \in Seq(WordSet) /\ Len(V) = m /\ \A j \in 1 .. m : V[j] = s[2 * j - 1] + 256 * s[2 * j]
    <2>1. /\ V \in Seq(WordSet) /\ Len(V) = Len(s) \div 2
          /\ \A j \in 1 .. Len(s) \div 2 : V[j] = s[2 * j - 1] + 256 * s[2 * j]
      BY WordsAre
    <2> HIDE DEF V
    <2> QED BY <1>3, <2>1
  <1>6. U \in Seq(WordSet) /\ Len(U) = n /\ \A j \in 1 .. n : U[j] = t[2 * j - 1] + 256 * t[2 * j]
    <2>1. /\ U \in Seq(WordSet) /\ Len(U) = Len(t) \div 2
          /\ \A j \in 1 .. Len(t) \div 2 : U[j] = t[2 * j - 1] + 256 * t[2 * j]
      BY WordsAre
    <2> HIDE DEF U
    <2> QED BY ONLY <1>0, <2>1
  <1>7. ASSUME NEW j \in 1 .. m PROVE W[j] = V[j]
    <2>1. j \in 1 .. m + n /\ 2 * j - 1 \in 1 .. 2 * m /\ 2 * j \in 1 .. 2 * m
      OBVIOUS
    <2>2. u[2 * j - 1] = s[2 * j - 1] /\ u[2 * j] = s[2 * j]
      BY <1>1, <2>1
    <2> HIDE DEF W, V, u
    <2> QED BY <1>4, <1>5, <2>1, <2>2
  <1>8. ASSUME NEW j \in 1 .. n PROVE W[m + j] = U[j]
    <2>1. m + j \in 1 .. m + n /\ 2 * j - 1 \in 1 .. l /\ 2 * j \in 1 .. l
      BY <1>0
    <2>2. 2 * (m + j) - 1 = 2 * m + (2 * j - 1) /\ 2 * (m + j) = 2 * m + 2 * j
      OBVIOUS
    <2>3. u[2 * (m + j) - 1] = t[2 * j - 1] /\ u[2 * (m + j)] = t[2 * j]
      BY <1>1, <2>1, <2>2
    <2> HIDE DEF W, U, u
    <2>4. W[m + j] = u[2 * (m + j) - 1] + 256 * u[2 * (m + j)]
      BY <1>4, <2>1
    <2>5. U[j] = t[2 * j - 1] + 256 * t[2 * j]
      BY <1>6
    <2> QED BY <2>3, <2>4, <2>5
  <1> HIDE DEF W, V, U
  <1>9. /\ V \o U \in Seq(WordSet) /\ Len(V \o U) = m + n
        /\ \A i \in 1 .. m + n : (V \o U)[i] = IF i <= m THEN V[i] ELSE U[i - m]
    <2>0. V \in Seq(WordSet) /\ U \in Seq(WordSet)
      BY <1>5, <1>6
    <2>1. /\ V \o U \in Seq(WordSet) /\ Len(V \o U) = Len(V) + Len(U)
          /\ \A i \in 1 .. Len(V) + Len(U) : (V \o U)[i] = IF i <= Len(V) THEN V[i] ELSE U[i - Len(V)]
      BY ONLY <2>0, ConcatProperties, Zenon
    <2> QED BY <1>5, <1>6, <2>1
  <1>10. ASSUME NEW i \in 1 .. m + n PROVE W[i] = (V \o U)[i]
    <2>1. CASE i <= m
      <3>1. i \in 1 .. m
        BY <2>1
      <3> QED BY <1>7, <1>9, <2>1, <3>1
    <2>2. CASE ~(i <= m)
      <3>1. i - m \in 1 .. n /\ m + (i - m) = i
        BY <2>2
      <3> QED BY <1>8, <1>9, <2>2, <3>1
    <2> QED BY <2>1, <2>2
  <1>11. W = V \o U
    BY <1>4, <1>9, <1>10, SeqEqual
  <1> QED BY <1>11 DEF W, V, U, u

\* A zero byte completes the last word.
LEMMA WordsPadded ==
  ASSUME NEW B \in Seq(Byte), NEW m \in Nat, Len(B) = 2 * m + 1, B[2 * m + 1] = 0
  PROVE  /\ Words(Append(B, 0)) = Words(B) \o <<0>>
         /\ Append(B, 0) \in Seq(Byte) /\ Len(Append(B, 0)) = 2 * (m + 1)
         /\ \A i \in 1 .. Len(B) : Append(B, 0)[i] = B[i]
  <1>0. 0 \in Byte /\ 0 \in WordSet
    <2>1. 0 \in Byte
      BY DEF Byte
    <2>2. 0 \in WordSet
      BY WordSetIs
    <2> QED BY <2>1, <2>2
  <1> DEFINE A == Append(B, 0)
             W == Words(A)
             V == Words(B)
  <1>1. /\ A \in Seq(Byte) /\ Len(A) = (2 * m + 1) + 1 /\ \A i \in 1 .. 2 * m + 1 : A[i] = B[i]
        /\ A[(2 * m + 1) + 1] = 0
    BY <1>0, AppendProperties
  <1> HIDE DEF A
  <1>2. (2 * m + 1) \div 2 = m /\ ((2 * m + 1) + 1) \div 2 = m + 1 /\ (2 * m + 1) + 1 = 2 * (m + 1)
    OBVIOUS
  <1>3. V \in Seq(WordSet) /\ Len(V) = m /\ \A j \in 1 .. m : V[j] = B[2 * j - 1] + 256 * B[2 * j]
    <2>1. /\ V \in Seq(WordSet) /\ Len(V) = Len(B) \div 2
          /\ \A j \in 1 .. Len(B) \div 2 : V[j] = B[2 * j - 1] + 256 * B[2 * j]
      BY WordsAre
    <2> HIDE DEF V
    <2> QED BY <1>2, <2>1
  <1>4. /\ W \in Seq(WordSet) /\ Len(W) = m + 1
        /\ \A j \in 1 .. m + 1 : W[j] = A[2 * j - 1] + 256 * A[2 * j]
    <2>1. /\ W \in Seq(WordSet) /\ Len(W) = Len(A) \div 2
          /\ \A j \in 1 .. Len(A) \div 2 : W[j] = A[2 * j - 1] + 256 * A[2 * j]
      BY <1>1, WordsAre
    <2>2. Len(A) \div 2 = m + 1
      BY <1>1, <1>2
    <2> HIDE DEF W
    <2> QED BY <2>1, <2>2
  <1> HIDE DEF W, V
  <1>5. ASSUME NEW j \in 1 .. m PROVE W[j] = V[j]
    <2>1. j \in 1 .. m + 1 /\ 2 * j - 1 \in 1 .. 2 * m + 1 /\ 2 * j \in 1 .. 2 * m + 1
      OBVIOUS
    <2>2. A[2 * j - 1] = B[2 * j - 1] /\ A[2 * j] = B[2 * j]
      BY <1>1, <2>1
    <2> QED BY <1>3, <1>4, <2>1, <2>2
  <1>6. W[m + 1] = 0
    <2>1. m + 1 \in 1 .. m + 1 /\ 2 * (m + 1) - 1 = 2 * m + 1 /\ 2 * m + 1 \in 1 .. 2 * m + 1
      OBVIOUS
    <2>2. A[2 * (m + 1) - 1] = 0 /\ A[2 * (m + 1)] = 0
      BY <1>1, <1>2, <2>1
    <2> QED BY <1>4, <2>1, <2>2
  <1>7. /\ Append(V, 0) \in Seq(WordSet) /\ Len(Append(V, 0)) = m + 1
        /\ \A i \in 1 .. m : Append(V, 0)[i] = V[i]
        /\ Append(V, 0)[m + 1] = 0 /\ Append(V, 0) = V \o <<0>>
    BY <1>0, <1>3, AppendProperties, AppendIsConcat
  <1>8. \A i \in 1 .. m + 1 : i \in 1 .. m \/ i = m + 1
    OBVIOUS
  <1>9. \A i \in 1 .. m + 1 : W[i] = Append(V, 0)[i]
    BY <1>5, <1>6, <1>7, <1>8
  <1>10. W = Append(V, 0)
    <2> DEFINE X == Append(V, 0)
    <2>1. /\ W \in Seq(WordSet) /\ X \in Seq(WordSet) /\ Len(W) = Len(X)
          /\ \A i \in 1 .. Len(W) : W[i] = X[i]
      BY ONLY <1>4, <1>7, <1>9
    <2> HIDE DEF X
    <2>2. W = X
      BY ONLY <2>1, SeqEqual
    <2> QED BY ONLY <2>2 DEF X
  <1> QED BY <1>1, <1>2, <1>7, <1>10 DEF W, V, A

\* Words add up to a word.
LEMMA AddAllWord ==
  ASSUME NEW w \in Seq(WordSet)
  PROVE  AddAll(w) \in WordSet /\ Total(w) \in Nat
  <1>1. PICK n \in Nat : n = Len(w)
    OBVIOUS
  <1> DEFINE g == [j \in Nat |-> IF j \in 1 .. n THEN w[j] ELSE 0]
  <1>2. 0 \in WordSet
    BY WordSetIs
  <1>3. g \in [Nat -> WordSet]
    BY <1>1, <1>2
  <1>4. w = [j \in 1 .. n |-> g[j]]
    BY <1>1
  <1> HIDE DEF g
  <1>5. /\ AddAll([j \in 1 .. n |-> g[j]]) \in WordSet
        /\ Total([j \in 1 .. n |-> g[j]]) \in Nat
    BY <1>3, AddAllIs
  <1> QED BY <1>4, <1>5

\* So does the header checksum.
LEMMA IpChecksumWord == ASSUME NEW B \in Seq(Byte) PROVE IpChecksum(B) \in WordSet
  <1>1. PICK n \in Nat : n = Len(B) \div 2
    <2>1. Len(B) \in Nat
      OBVIOUS
    <2> QED BY <2>1
  <1> DEFINE W == Words(B)
  <1>2. /\ Len(W) = Len(B) \div 2 
        /\ \A j \in 1 .. Len(B) \div 2 : W[j] = B[2 * j - 1] + 256 * B[2 * j]
    BY WordsAre
  <1> HIDE DEF W
  <1>3. ASSUME NEW j \in 1 .. n PROVE Htons(W[j]) \in WordSet
    <2> DEFINE p == B[2 * j - 1]
               q == B[2 * j]
    <2>1. p \in Byte /\ q \in Byte
      BY <1>1, PairOf
    <2>2. W[j] = p + 256 * q
      BY <1>1, <1>2
    <2> HIDE DEF p, q
    <2>3. Htons(p + 256 * q) = 256 * p + q
      BY <2>1, BytePair
    <2>4. q + 256 * p \in WordSet
      BY <2>1, BytePair
    <2>5. q + 256 * p = 256 * p + q
      <3>1. p \in Int /\ q \in Int
        BY <2>1 DEF Byte
      <3> QED BY ONLY <3>1
    <2> QED BY <2>2, <2>3, <2>4, <2>5
  <1> DEFINE V == [j \in 1 .. n |-> Htons(W[j])]
  <1>4. V \in Seq(WordSet)
    BY <1>3
  <1>5. IpChecksum(B) = 65535 - Fold16[Total(V)]
    BY <1>1, <1>2 DEF IpChecksum, W
  <1> HIDE DEF V
  <1>6. Total(V) \in Nat
    BY <1>4, AddAllWord
  <1>7. Word16(Fold16[Total(V)])
    BY <1>6, FoldIs
  <1>8. ASSUME NEW f, Word16(f) PROVE 65535 - f \in WordSet
    <2>1. 65535 - f \in Nat /\ 65535 - f <= 65535
      BY <1>8 DEF Word16
    <2> QED BY <2>1, WordSetIs
  <1> QED BY <1>5, <1>7, <1>8

\* The complement of a word.
LEMMA ComplementWord == ASSUME NEW w \in WordSet PROVE 65535 - w \in WordSet
  <1>1. w \in Nat /\ w <= 65535
    BY WordSetIs
  <1>2. 65535 - w \in Nat /\ 65535 - w <= 65535
    BY <1>1
  <1> QED BY <1>2, WordSetIs

\* What a receiver adds up when the number of bytes is even.
LEMMA SumEven ==
  ASSUME NEW R \in Seq(Byte), NEW m \in Nat, Len(R) = 2 * m
  PROVE  SumBE(R) % 65535 = 0 <=> Verifies(R)
  <1>1. Len(R) % 2 # 1
    OBVIOUS
  <1> QED BY <1>1 DEF SumBE, Verifies

\* A zero byte follows an odd one.
LEMMA SumOdd ==
  ASSUME NEW R \in Seq(Byte), NEW m \in Nat, Len(R) = 2 * m + 1
  PROVE  SumBE(R) % 65535 = 0 <=> Verifies(Append(R, 0))
  <1>1. Len(R) % 2 = 1
    OBVIOUS
  <1> DEFINE T(A) == Total([j \in 1 .. Len(A) \div 2 |-> 256 * A[2 * j - 1] + A[2 * j]])
  <1>2. SumBE(R) = T(IF Len(R) % 2 = 1 THEN Append(R, 0) ELSE R)
    BY DEF SumBE
  <1>3. Verifies(Append(R, 0)) <=> T(Append(R, 0)) % 65535 = 0
    BY DEF Verifies
  <1> HIDE DEF T
  <1>4. (IF Len(R) % 2 = 1 THEN Append(R, 0) ELSE R) = Append(R, 0)
    BY <1>1
  <1> QED BY ONLY <1>2, <1>3, <1>4

\* The header of an IP packet verifies: x before the checksum and y behind it.
LEMMA HeaderVerifies ==
  ASSUME NEW x \in Seq(Byte), Len(x) = 10, NEW y \in Seq(Byte), Len(y) = 8,
         NEW c, c = IpChecksum((x \o <<0, 0>>) \o y)
  PROVE  c \in WordSet /\ SumBE((x \o Store16(Htons(c))) \o y) % 65535 = 0
  <1>1. 0 \in Byte
    BY DEF Byte
  <1>2. (x \o <<0, 0>>) \o y \in Seq(Byte)
    BY <1>1, TwoBytes, Joined
  <1>3. c \in WordSet
    BY <1>2, IpChecksumWord
  <1>4. PICK a \in Byte, b \in Byte : Store16(Htons(c)) = <<a, b>> /\ 256 * a + b = c
    <2>1. /\ c % 256 \in Byte /\ c \div 256 \in Byte /\ (c % 256) + 256 * (c \div 256) = c
          /\ Store16(Htons(c)) = <<c \div 256, c % 256>>
      BY <1>3, StoreIs
    <2> DEFINE p == c \div 256
               q == c % 256
    <2>2. q \in Byte /\ p \in Byte /\ q + 256 * p = c /\ Store16(Htons(c)) = <<p, q>>
      BY <2>1
    <2> HIDE DEF p, q
    <2>3. q \in Int /\ p \in Int
      BY <2>2 DEF Byte
    <2>4. 256 * p + q = c
      BY ONLY <2>2, <2>3
    <2> QED BY <2>2, <2>4
  <1> DEFINE B == (x \o <<0, 0>>) \o y
             R == (x \o <<a, b>>) \o y
  <1>5. PICK k \in Nat \ {0} : k = 6
    OBVIOUS
  <1>6. Len(x) = 2 * k - 2
    BY <1>5
  <1>7. Filled(B, R, k) /\ R[2 * k - 1] = a /\ R[2 * k] = b /\ Len(R) = 2 * k + Len(y) /\ k \in 1 .. Len(B) \div 2
    BY ONLY x \in Seq(Byte), y \in Seq(Byte), a \in Byte, b \in Byte, k \in Nat \ {0}, <1>6, FilledAround
  <1> HIDE DEF B, R
  <1>8. c \in Nat
    BY <1>3, WordSetIs
  <1>9. 256 * R[2 * k - 1] + R[2 * k] = c /\ c = IpChecksum(B)
    BY <1>4, <1>7 DEF B
  <1>10. Verifies(R)
    BY ONLY <1>7, <1>8, <1>9, IpVerifies
  <1>11. R \in Seq(Byte) /\ Len(R) = 2 * 10
    BY <1>5, <1>7 DEF Filled
  <1>12. SumBE(R) % 65535 = 0
    <2>1. PICK m \in Nat : m = 10
      OBVIOUS
    <2>2. Len(R) = 2 * m
      BY <1>11, <2>1
    <2> QED BY <1>10, <1>11, <2>2, SumEven
  <1>13. (x \o Store16(Htons(c))) \o y = R
    BY <1>4 DEF R
  <1> QED BY ONLY <1>3, <1>12, <1>13

\* Joining is associative.
LEMMA WordsAssociative ==
  ASSUME NEW s \in Seq(WordSet), NEW t \in Seq(WordSet), NEW u \in Seq(WordSet)
  PROVE  (s \o t) \o u = s \o (t \o u)
  BY ConcatAssociative

\* The same for bytes.
LEMMA BytesAssociative ==
  ASSUME NEW s \in Seq(Byte), NEW t \in Seq(Byte), NEW u \in Seq(Byte)
  PROVE  (s \o t) \o u = s \o (t \o u)
  BY ConcatAssociative

OddWord(b) == IF Len(b) % 2 = 1 THEN <<b[Len(b)] * 256>> ELSE << >>

\* The bytes y have the words that the sender reads from b.
Completes(b, y) == Words(b) \o OddWord(b) = Words(y) /\ OddWord(b) \in Seq(WordSet)

\* The sender adds up the words of the datagram, with a zero byte if need be.
LEMMA SenderWords ==
  ASSUME NEW X \in Seq(Byte), Len(X) = 12, NEW H \in Seq(Byte), Len(H) = 8, NEW b \in Seq(Byte),
         NEW y \in Seq(Byte), Completes(b, y)
  PROVE  UdpChecksum(X, H, b) = UdpSum((X \o H) \o y)
  <1>0. PICK l : l = OddWord(b) /\ Words(b) \o l = Words(y) /\ l \in Seq(WordSet)
    BY DEF Completes
  <1>1. Words(X) \in Seq(WordSet) /\ Words(H) \in Seq(WordSet) /\ Words(b) \in Seq(WordSet)
    BY WordsAre
  <1>2. UdpChecksum(X, H, b) = 65535 - AddAll(((Words(X) \o Words(H)) \o Words(b)) \o l)
    BY <1>0 DEF UdpChecksum, OddWord
  <1>3. X \o H \in Seq(Byte) /\ Len(X \o H) = 12 + 8
    <2>1. X \o H \in Seq(Byte) /\ Len(X \o H) = Len(X) + Len(H)
      BY ONLY X \in Seq(Byte), H \in Seq(Byte), Joined
    <2> QED BY <2>1
  <1>4. PICK m \in Nat, n \in Nat : m = 6 /\ n = 10
    OBVIOUS
  <1>5. Len(X) = 2 * m /\ Len(X \o H) = 2 * n
    BY <1>3, <1>4
  <1>6. Words(X \o H) = Words(X) \o Words(H)
    BY ONLY X \in Seq(Byte), H \in Seq(Byte), m \in Nat, <1>5, WordsJoined
  <1>7. Words((X \o H) \o y) = Words(X \o H) \o Words(y)
    BY ONLY <1>3, y \in Seq(Byte), n \in Nat, <1>5, WordsJoined
  <1>8. Words(X \o H) \in Seq(WordSet)
    BY ONLY <1>3, WordsAre
  <1>9. (Words(X \o H) \o Words(b)) \o l = Words(X \o H) \o (Words(b) \o l)
    <2> DEFINE P == Words(X \o H)
               Q == Words(b)
    <2>1. P \in Seq(WordSet) /\ Q \in Seq(WordSet) /\ l \in Seq(WordSet)
      BY ONLY <1>0, <1>1, <1>8
    <2> HIDE DEF P, Q
    <2>2. (P \o Q) \o l = P \o (Q \o l)
      BY ONLY <2>1, WordsAssociative, Zenon
    <2> QED BY ONLY <2>2 DEF P, Q
  <1>10. Words((X \o H) \o y) = ((Words(X) \o Words(H)) \o Words(b)) \o l
    BY ONLY <1>0, <1>6, <1>7, <1>9
  <1> QED BY ONLY <1>2, <1>10 DEF UdpSum

\* A datagram with F before the checksum in its header verifies.
LEMMA DatagramVerifies ==
  ASSUME NEW X \in Seq(Byte), Len(X) = 12, NEW F \in Seq(Byte), Len(F) = 6, NEW b \in Seq(Byte),
         NEW c, c = UdpChecksum(X, F \o <<0, 0>>, b), b = << >> \/ Len(b) % 2 = 0 \/ b[Len(b)] = 0
  PROVE  c \in WordSet /\ SumBE(X \o ((F \o Store16(c)) \o b)) % 65535 = 0
  <1> DEFINE l == IF Len(b) % 2 = 1 THEN <<b[Len(b)] * 256>> ELSE << >>
             z == IF Len(b) % 2 = 1 THEN <<0>> ELSE << >>
             y == b \o z
             Z == <<0, 0>>
  <1>0. 0 \in Byte /\ 0 \in WordSet
    <2>1. 0 \in Byte
      BY DEF Byte
    <2>2. 0 \in WordSet
      BY WordSetIs
    <2> QED BY <2>1, <2>2
  <1>1. PICK n \in Nat, m \in Nat : /\ n = Len(b) /\ (n % 2 = 1 => n = 2 * m + 1)
                                    /\ (n % 2 # 1 => n = 2 * m)
    <2>1. PICK n \in Nat : n = Len(b)
      OBVIOUS
    <2>2. n \div 2 \in Nat /\ (n % 2 = 1 => n = 2 * (n \div 2) + 1) /\ (n % 2 # 1 => n = 2 * (n \div 2))
      BY <2>1
    <2> QED BY <2>1, <2>2
  <1>2. z \in Seq(Byte) /\ y \in Seq(Byte) /\ l \in Seq(WordSet) /\ Words(b) \o l = Words(y)
    <2>1. CASE n % 2 = 1
      <3>1. l = <<b[Len(b)] * 256>> /\ z = <<0>>
        BY <1>1, <2>1
      <3>2. b[2 * m + 1] = 0 /\ Len(b) = 2 * m + 1 /\ b # << >>
        BY <1>1, <2>1
      <3>3. l = <<0>>
        BY <3>1, <3>2
      <3>4. <<0>> \in Seq(Byte) /\ <<0>> \in Seq(WordSet)
        BY <1>0
      <3>5. Words(Append(b, 0)) = Words(b) \o <<0>> /\ Append(b, 0) \in Seq(Byte)
        BY <3>2, WordsPadded
      <3>6. Append(b, 0) = b \o <<0>>
        BY <1>0, AppendIsConcat
      <3> QED BY ONLY <3>1, <3>3, <3>4, <3>5, <3>6
    <2>2. CASE n % 2 # 1
      <3>1. l = << >> /\ z = << >>
        BY <1>1, <2>2
      <3>2. Words(b) \in Seq(WordSet)
        BY WordsAre
      <3>3. Words(b) \o << >> = Words(b) /\ b \o << >> = b
        BY <3>2, ConcatEmptySeq
      <3>4. << >> \in Seq(Byte) /\ << >> \in Seq(WordSet)
        OBVIOUS
      <3> QED BY ONLY b \in Seq(Byte), <3>1, <3>3, <3>4
    <2> QED BY <2>1, <2>2
  <1>3. PICK e \in Nat : Len(y) = 2 * e
    <2>1. Len(y) = Len(b) + Len(z)
      BY <1>2, ConcatProperties
    <2>2. CASE n % 2 = 1
      <3>1. z = <<0>>
        BY <1>1, <2>2
      <3>2. Len(y) = 2 * (m + 1) /\ m + 1 \in Nat
        <4>1. Len(z) = 1
          BY ONLY <3>1
        <4> HIDE DEF y, z
        <4> QED BY ONLY <1>1, <2>1, <2>2, <4>1, m \in Nat
      <3> QED BY ONLY <3>2
    <2>3. CASE n % 2 # 1
      <3>1. z = << >>
        BY <1>1, <2>3
      <3> HIDE DEF y
      <3>2. Len(y) = 2 * m
        BY <1>1, <2>1, <2>3, <3>1
      <3> QED BY ONLY m \in Nat, <3>2
    <2> QED BY <2>2, <2>3
  <1>4. Z \in Seq(Byte) /\ Len(Z) = 2
    BY <1>0, TwoBytes
  <1>5. l = OddWord(b)
    BY DEF OddWord
  <1>6. z = (IF n % 2 = 1 THEN <<0>> ELSE << >>) /\ y = b \o z /\ Z = <<0, 0>>
    BY <1>1
  <1> HIDE DEF l, z, y, Z
  <1>7. F \o Z \in Seq(Byte) /\ Len(F \o Z) = 8
    <2>1. F \o Z \in Seq(Byte) /\ Len(F \o Z) = Len(F) + Len(Z)
      BY <1>4, Joined
    <2> QED BY <1>4, <2>1
  <1> DEFINE B == ((X \o F) \o Z) \o y
  <1>8. (X \o (F \o Z)) \o y = B
    <2>1. Z \in Seq(Byte) /\ y \in Seq(Byte)
      BY ONLY <1>2, <1>4
    <2>2. (X \o F) \o Z = X \o (F \o Z)
      BY ONLY X \in Seq(Byte), F \in Seq(Byte), <2>1, BytesAssociative
    <2> QED BY ONLY <2>2
  <1>9. c = UdpSum(B)
    <2>1. c = UdpChecksum(X, F \o Z, b)
      BY <1>6
    <2>2. UdpChecksum(X, F \o Z, b) = UdpSum((X \o (F \o Z)) \o y)
      <3> DEFINE H == F \o Z
      <3>1. H \in Seq(Byte) /\ Len(H) = 8 /\ y \in Seq(Byte) /\ Completes(b, y)
        BY ONLY <1>2, <1>5, <1>7 DEF Completes
      <3> HIDE DEF H
      <3>2. UdpChecksum(X, H, b) = UdpSum((X \o H) \o y)
        BY ONLY X \in Seq(Byte), Len(X) = 12, b \in Seq(Byte), <3>1, SenderWords
      <3> QED BY ONLY <3>2 DEF H
    <2> QED BY ONLY <1>8, <2>1, <2>2
  <1>10. X \o F \in Seq(Byte) /\ Len(X \o F) = 18
    <2>1. X \o F \in Seq(Byte) /\ Len(X \o F) = Len(X) + Len(F)
      BY Joined
    <2> QED BY <2>1
  <1>11. B \in Seq(Byte)
    <2>1. (X \o F) \o Z \in Seq(Byte)
      BY <1>4, <1>10, ConcatProperties
    <2> QED BY <1>2, <2>1, ConcatProperties
  <1> HIDE DEF B
  <1>12. c \in WordSet
    <2>1. Words(B) \in Seq(WordSet)
      BY ONLY <1>11, WordsAre
    <2>2. AddAll(Words(B)) \in WordSet
      BY ONLY <2>1, AddAllWord
    <2> QED BY ONLY <1>9, <2>2, ComplementWord DEF UdpSum
  <1>13. PICK a \in Byte, d \in Byte : Store16(c) = <<a, d>> /\ a + 256 * d = c
    <2>1. /\ c % 256 \in Byte /\ c \div 256 \in Byte /\ (c % 256) + 256 * (c \div 256) = c
          /\ Store16(c) = <<c % 256, c \div 256>>
      BY ONLY <1>12, StoreIs
    <2> QED BY ONLY <2>1
  <1> DEFINE C == <<a, d>>
             R == ((X \o F) \o C) \o y
  <1>14. C \in Seq(Byte) /\ Store16(c) = C
    BY ONLY a \in Byte, d \in Byte, <1>13, TwoBytes
  <1>15. PICK k \in Nat \ {0} : k = 10
    OBVIOUS
  <1>16. Len(X \o F) = 2 * k - 2
    BY <1>10, <1>15
  <1>17. /\ Filled(B, R, k) /\ R[2 * k - 1] = a /\ R[2 * k] = d
         /\ Len(R) = 2 * k + Len(y) /\ k \in 1 .. Len(B) \div 2
    <2>1. B = ((X \o F) \o <<0, 0>>) \o y
      BY ONLY <1>6 DEF B
    <2> DEFINE S == X \o F
    <2>2. S \in Seq(Byte) /\ Len(S) = 2 * k - 2 /\ y \in Seq(Byte)
      BY ONLY <1>2, <1>10, <1>16
    <2> HIDE DEF S
    <2>3. LET M == (S \o <<a, d>>) \o y
              N == (S \o <<0, 0>>) \o y
          IN  /\ Filled(N, M, k) /\ M[2 * k - 1] = a /\ M[2 * k] = d
              /\ Len(M) = 2 * k + Len(y) /\ k \in 1 .. Len(N) \div 2
      BY ONLY <2>2, a \in Byte, d \in Byte, k \in Nat \ {0}, FilledAround
    <2> QED BY ONLY <2>1, <2>3 DEF S
  <1>18. R[2 * k - 1] + 256 * R[2 * k] = c /\ c \in Nat
    <2>1. c \in Nat
      BY ONLY <1>12, WordSetIs
    <2> HIDE DEF R
    <2> QED BY ONLY <1>13, <1>17, <2>1
  <1>19. X \o ((F \o C) \o b) \in Seq(Byte)
    <2>1. F \o C \in Seq(Byte)
      BY <1>14, ConcatProperties
    <2>2. (F \o C) \o b \in Seq(Byte)
      BY <2>1, ConcatProperties
    <2> QED BY <2>2, ConcatProperties
  <1>20. (X \o ((F \o C) \o b)) \o z = R
    <2>1. (X \o ((F \o C) \o b)) \o z = ((X \o F) \o C) \o (b \o z)
      <3>1. C \in Seq(Byte) /\ z \in Seq(Byte)
        BY ONLY <1>2, <1>14
      <3> HIDE DEF C
      <3> DEFINE K == F \o C
                 L == X \o F
      <3>2. K \in Seq(Byte) /\ L \in Seq(Byte)
        BY ONLY X \in Seq(Byte), F \in Seq(Byte), <3>1, Joined, Zenon
      <3>3. L \o C = X \o K
        BY ONLY X \in Seq(Byte), F \in Seq(Byte), <3>1, BytesAssociative
      <3> HIDE DEF K, L
      <3>4. L \o C \in Seq(Byte)
        BY ONLY <3>1, <3>2, Joined, Zenon
      <3>5. (X \o K) \o b = X \o (K \o b)
        BY ONLY X \in Seq(Byte), <3>2, b \in Seq(Byte), BytesAssociative
      <3>6. ((L \o C) \o b) \o z = (L \o C) \o (b \o z)
        BY ONLY <3>1, <3>4, b \in Seq(Byte), BytesAssociative, Zenon
      <3> QED BY ONLY <3>3, <3>5, <3>6 DEF K, L
    <2> QED BY <1>6, <2>1
  <1> HIDE DEF R, C
  <1>21. Verifies(R)
    BY ONLY <1>9, <1>17, <1>18, UdpVerifies
  <1> DEFINE D == X \o ((F \o C) \o b)
  <1>22. D \in Seq(Byte) /\ D \o z = R
    BY <1>19, <1>20
  <1>23. SumBE(D) % 65535 = 0
    <2>1. PICK o \in Nat : Len(R) = 2 * o
      <3>1. k + e \in Nat /\ Len(R) = 2 * (k + e)
        BY <1>3, <1>17
      <3> QED BY ONLY <3>1
    <2> HIDE DEF D
    <2>2. CASE n % 2 = 1
      <3>1. z = <<0>>
        BY <1>6, <2>2
      <3>2. Append(D, 0) = R /\ Len(Append(D, 0)) = Len(D) + 1 /\ Len(D) \in Nat
        BY <1>0, <1>22, <3>1, AppendIsConcat, AppendProperties
      <3>3. PICK i \in Nat : Len(D) = 2 * i + 1
        <4>1. o - 1 \in Nat /\ Len(D) = 2 * (o - 1) + 1
          BY <2>1, <3>2
        <4> QED BY ONLY <4>1
      <3>4. Verifies(Append(D, 0)) /\ D \in Seq(Byte)
        BY ONLY <1>21, <1>22, <3>2
      <3> QED BY ONLY <3>3, <3>4, i \in Nat, SumOdd
    <2>3. CASE n % 2 # 1
      <3>1. z = << >>
        BY <1>6, <2>3
      <3>2. D = R
        BY <1>22, <3>1, ConcatEmptySeq
      <3> QED BY ONLY <1>21, <1>22, <2>1, o \in Nat, <3>2, SumEven
    <2> QED BY <2>2, <2>3
  <1>24. X \o ((F \o Store16(c)) \o b) = D
    BY ONLY <1>14
  <1> QED BY ONLY <1>12, <1>23, <1>24

\* An address is four bytes.
LEMMA AddressBytes == ASSUME NEW a \in Address PROVE a \in Seq(Byte) /\ Len(a) = 4
  <1>1. PICK n \in Nat : n = 4
    OBVIOUS
  <1>2. a \in [1 .. n -> Byte]
    BY <1>1 DEF Address
  <1>3. a \in Seq(Byte) /\ Len(a) = n
    BY ONLY <1>2, n \in Nat
  <1> QED BY <1>1, <1>3

\* A 16-bit field in network order.
LEMMA FieldStored ==
  ASSUME NEW w \in WordSet
  PROVE  LET q == Store16(Htons(w)) IN q \in Seq(Byte) /\ Len(q) = 2 /\ 256 * q[1] + q[2] = w
  <1> DEFINE a == w \div 256
             b == w % 256
             q == Store16(Htons(w))
  <1>1. b \in Byte /\ a \in Byte /\ b + 256 * a = w /\ q = <<a, b>>
    BY StoreIs
  <1> HIDE DEF a, b
  <1>2. a \in Int /\ b \in Int
    BY <1>1 DEF Byte
  <1>3. 256 * a + b = w
    BY ONLY <1>1, <1>2
  <1>4. <<a, b>> \in Seq(Byte) /\ Len(<<a, b>>) = 2 /\ <<a, b>>[1] = a /\ <<a, b>>[2] = b
    BY ONLY <1>1, TwoBytes
  <1>5. q \in Seq(Byte) /\ Len(q) = 2 /\ q[1] = a /\ q[2] = b
    BY ONLY <1>1, <1>4
  <1> HIDE DEF q
  <1>6. q \in Seq(Byte) /\ Len(q) = 2 /\ 256 * q[1] + q[2] = w
    BY ONLY <1>3, <1>5
  <1> QED BY <1>6 DEF q

\* One field more.
LEMMA Extended ==
  ASSUME NEW q \in Seq(Byte), NEW m \in Nat, Len(q) = m, NEW r \in Seq(Byte), Len(r) = 2
  PROVE  /\ q \o r \in Seq(Byte) /\ Len(q \o r) = m + 2
         /\ (q \o r)[m + 1] = r[1] /\ (q \o r)[m + 2] = r[2]
         /\ \A i \in 1 .. m : (q \o r)[i] = q[i]
  <1>1. /\ q \o r \in Seq(Byte) /\ Len(q \o r) = Len(q) + Len(r)
        /\ \A i \in 1 .. Len(q) : (q \o r)[i] = q[i]
        /\ \A i \in 1 .. Len(r) : (q \o r)[Len(q) + i] = r[i]
    BY ONLY q \in Seq(Byte), r \in Seq(Byte), Joined
  <1>2. 1 \in 1 .. Len(r) /\ 2 \in 1 .. Len(r)
    OBVIOUS
  <1> QED BY ONLY <1>1, <1>2, Len(q) = m, Len(r) = 2

\* The IP header: ten bytes, the checksum and the addresses.
LEMMA HeaderParts ==
  ASSUME NEW s \in Address, NEW d \in Address, NEW size \in Nat, 20 + size \in WordSet
  PROVE  \E x \in Seq(Byte) :
            /\ Len(x) = 10 /\ x[10] = 17 /\ 256 * x[3] + x[4] = 20 + size
            /\ \A c : IpHeader(s, d, size, c) = ((x \o Store16(c)) \o s) \o d
  <1> DEFINE q1 == <<69, 0>>
             q2 == Store16(Htons(20 + size))
             q3 == Store16(9766)
             q4 == Store16(Htons(16384))
             q5 == <<128, 17>>
             x1 == q1 \o q2
             x2 == x1 \o q3
             x3 == x2 \o q4
             x4 == x3 \o q5
  <1>1. q1 \in Seq(Byte) /\ Len(q1) = 2 /\ q5 \in Seq(Byte) /\ Len(q5) = 2 /\ q5[2] = 17
    <2>1. 69 \in Byte /\ 0 \in Byte /\ 128 \in Byte /\ 17 \in Byte
      BY DEF Byte
    <2> QED BY ONLY <2>1, TwoBytes
  <1>2. q2 \in Seq(Byte) /\ Len(q2) = 2 /\ 256 * q2[1] + q2[2] = 20 + size
    BY ONLY 20 + size \in WordSet, FieldStored
  <1>3. q4 \in Seq(Byte) /\ Len(q4) = 2
    <2>1. PICK w \in Nat : w = 16384
      OBVIOUS
    <2>2. w \in WordSet
      BY <2>1, WordSetIs
    <2>3. Store16(Htons(w)) \in Seq(Byte) /\ Len(Store16(Htons(w))) = 2
      BY ONLY <2>2, FieldStored
    <2> QED BY ONLY <2>1, <2>3
  <1>4. q3 \in Seq(Byte) /\ Len(q3) = 2
    <2>1. PICK w \in Nat : w = 9766
      OBVIOUS
    <2>2. w \in WordSet
      BY <2>1, WordSetIs
    <2>3. Store16(w) = <<w % 256, w \div 256>> /\ w % 256 \in Byte /\ w \div 256 \in Byte
      BY ONLY <2>2, StoreIs
    <2>4. Store16(w) \in Seq(Byte) /\ Len(Store16(w)) = 2
      BY ONLY <2>3, TwoBytes
    <2> QED BY ONLY <2>1, <2>4
  <1>5. \A c : IpHeader(s, d, size, c) = ((x4 \o Store16(c)) \o s) \o d
    BY DEF IpHeader
  <1> HIDE DEF q1, q2, q3, q4, q5
  <1>6. x1 \in Seq(Byte) /\ Len(x1) = 4 /\ x1[3] = q2[1] /\ x1[4] = q2[2]
    <2>1. PICK m \in Nat : m = 2
      OBVIOUS
    <2>2. x1 \in Seq(Byte) /\ Len(x1) = m + 2 /\ x1[m + 1] = q2[1] /\ x1[m + 2] = q2[2]
      BY ONLY <1>1, <1>2, <2>1, m \in Nat, Extended
    <2> QED BY ONLY <2>1, <2>2
  <1> HIDE DEF x1
  <1>7. x2 \in Seq(Byte) /\ Len(x2) = 6 /\ x2[3] = x1[3] /\ x2[4] = x1[4]
    <2>1. PICK m \in Nat : m = 4
      OBVIOUS
    <2>0. x1 \in Seq(Byte) /\ Len(x1) = m /\ q3 \in Seq(Byte) /\ Len(q3) = 2
      BY ONLY <1>4, <1>6, <2>1
    <2>2. x2 \in Seq(Byte) /\ Len(x2) = m + 2 /\ \A i \in 1 .. m : x2[i] = x1[i]
      BY ONLY <2>0, m \in Nat, Extended
    <2> HIDE DEF x2
    <2> QED BY ONLY <2>1, <2>2
  <1> HIDE DEF x2
  <1>8. x3 \in Seq(Byte) /\ Len(x3) = 8 /\ x3[3] = x2[3] /\ x3[4] = x2[4]
    <2>1. PICK m \in Nat : m = 6
      OBVIOUS
    <2>0. x2 \in Seq(Byte) /\ Len(x2) = m /\ q4 \in Seq(Byte) /\ Len(q4) = 2
      BY ONLY <1>3, <1>7, <2>1
    <2>2. x3 \in Seq(Byte) /\ Len(x3) = m + 2 /\ \A i \in 1 .. m : x3[i] = x2[i]
      BY ONLY <2>0, m \in Nat, Extended
    <2> HIDE DEF x3
    <2> QED BY ONLY <2>1, <2>2
  <1> HIDE DEF x3
  <1>9. x4 \in Seq(Byte) /\ Len(x4) = 10 /\ x4[3] = x3[3] /\ x4[4] = x3[4] /\ x4[10] = q5[2]
    <2>1. PICK m \in Nat : m = 8
      OBVIOUS
    <2>0. x3 \in Seq(Byte) /\ Len(x3) = m /\ q5 \in Seq(Byte) /\ Len(q5) = 2
      BY ONLY <1>1, <1>8, <2>1
    <2>2. x4 \in Seq(Byte) /\ Len(x4) = m + 2 /\ x4[m + 2] = q5[2] /\ \A i \in 1 .. m : x4[i] = x3[i]
      BY ONLY <2>0, m \in Nat, Extended
    <2> HIDE DEF x4
    <2> QED BY ONLY <2>1, <2>2
  <1>10. x4[10] = 17 /\ 256 * x4[3] + x4[4] = 20 + size
    BY ONLY <1>1, <1>2, <1>6, <1>7, <1>8, <1>9
  <1> HIDE DEF x4
  <1> QED BY ONLY <1>5, <1>9, <1>10

\* The UDP header: six bytes and the checksum.
LEMMA DatagramParts ==
  ASSUME NEW sp \in WordSet, NEW dp \in WordSet, NEW size \in Nat, size + 8 \in WordSet
  PROVE  \E F \in Seq(Byte) :
            /\ Len(F) = 6 /\ F[5] = Store16(Htons(size + 8))[1] /\ F[6] = Store16(Htons(size + 8))[2]
            /\ \A c : UdpHeader(sp, dp, size, c) = F \o Store16(c)
  <1> DEFINE q1 == Store16(Htons(sp))
             q2 == Store16(Htons(dp))
             q3 == Store16(Htons(size + 8))
             x1 == q1 \o q2
             x2 == x1 \o q3
  <1>1. q1 \in Seq(Byte) /\ Len(q1) = 2
    BY ONLY sp \in WordSet, FieldStored
  <1>2. q2 \in Seq(Byte) /\ Len(q2) = 2
    BY ONLY dp \in WordSet, FieldStored
  <1>3. q3 \in Seq(Byte) /\ Len(q3) = 2
    BY ONLY size + 8 \in WordSet, FieldStored
  <1>4. \A c : UdpHeader(sp, dp, size, c) = x2 \o Store16(c)
    BY DEF UdpHeader
  <1>5. q3 = Store16(Htons(size + 8))
    OBVIOUS
  <1> HIDE DEF q1, q2, q3
  <1>6. x1 \in Seq(Byte) /\ Len(x1) = 4
    <2>1. PICK m \in Nat : m = 2
      OBVIOUS
    <2>2. x1 \in Seq(Byte) /\ Len(x1) = m + 2
      BY ONLY <1>1, <1>2, <2>1, m \in Nat, Extended
    <2> QED BY ONLY <2>1, <2>2
  <1> HIDE DEF x1
  <1>7. x2 \in Seq(Byte) /\ Len(x2) = 6 /\ x2[5] = q3[1] /\ x2[6] = q3[2]
    <2>1. PICK m \in Nat : m = 4
      OBVIOUS
    <2>0. x1 \in Seq(Byte) /\ Len(x1) = m /\ q3 \in Seq(Byte) /\ Len(q3) = 2
      BY ONLY <1>3, <1>6, <2>1
    <2>2. x2 \in Seq(Byte) /\ Len(x2) = m + 2 /\ x2[m + 1] = q3[1] /\ x2[m + 2] = q3[2]
      BY ONLY <2>0, m \in Nat, Extended
    <2> HIDE DEF x2
    <2> QED BY ONLY <2>1, <2>2
  <1> HIDE DEF x2
  <1> QED BY ONLY <1>4, <1>5, <1>7

\* The first and the last bytes of a packet.
LEMMA FrontIs ==
  ASSUME NEW s \in Seq(Byte), NEW t \in Seq(Byte)
  PROVE  SubSeq(s \o t, 1, Len(s)) = s /\ SubSeq(s \o t, Len(s) + 1, Len(s \o t)) = t
  <1> DEFINE e == << >>
  <1>1. e \in Seq(Byte) /\ Len(e) = 0
    OBVIOUS
  <1>2. e \o s = s /\ (s \o t) \o e = s \o t
    <2>1. s \o t \in Seq(Byte)
      BY ConcatProperties
    <2> QED BY <2>1, ConcatEmptySeq
  <1>3. Len(s) \in Nat /\ Len(s \o t) = Len(s) + Len(t)
    BY Joined
  <1> HIDE DEF e
  <1>4. SubSeq((e \o s) \o t, Len(e) + 1, Len(e) + Len(s)) = s
    BY <1>1, MiddleIs
  <1>5. SubSeq((s \o t) \o e, Len(s) + 1, Len(s) + Len(t)) = t
    BY <1>1, MiddleIs
  <1>6. 0 + 1 = 1 /\ 0 + Len(s) = Len(s)
    BY <1>3
  <1> QED BY ONLY <1>1, <1>2, <1>3, <1>4, <1>5, <1>6

\* The checksum of UDP is a word, whatever the last byte is.
LEMMA UdpChecksumWord ==
  ASSUME NEW X \in Seq(Byte), NEW H \in Seq(Byte), NEW b \in Seq(Byte)
  PROVE  UdpChecksum(X, H, b) \in WordSet
  <1> DEFINE P == Words(X)
             Q == Words(H)
             S == Words(b)
             l == OddWord(b)
  <1>1. P \in Seq(WordSet) /\ Q \in Seq(WordSet) /\ S \in Seq(WordSet)
    BY WordsAre
  <1>2. l \in Seq(WordSet)
    <2>1. CASE Len(b) % 2 = 1
      <3>1. PICK n \in Nat : n = Len(b)
        OBVIOUS
      <3>2. n \in 1 .. Len(b)
        BY <2>1, <3>1
      <3>3. PICK w \in Byte : w = b[Len(b)]
        BY <3>1, <3>2
      <3>4. w \in Nat /\ w <= 255
        BY DEF Byte
      <3>5. w * 256 \in Nat /\ w * 256 <= 65535
        BY ONLY <3>4
      <3>6. w * 256 \in WordSet
        BY ONLY <3>5, WordSetIs
      <3>7. l = <<w * 256>>
        BY <2>1, <3>3 DEF OddWord
      <3> QED BY ONLY <3>6, <3>7
    <2>2. CASE Len(b) % 2 # 1
      <3>1. l = << >>
        BY <2>2 DEF OddWord
      <3> QED BY ONLY <3>1
    <2> QED BY <2>1, <2>2
  <1>3. UdpChecksum(X, H, b) = 65535 - AddAll(((P \o Q) \o S) \o l)
    BY DEF UdpChecksum, OddWord
  <1> HIDE DEF P, Q, S, l
  <1>4. P \o Q \in Seq(WordSet)
    BY ONLY <1>1, ConcatProperties
  <1>5. (P \o Q) \o S \in Seq(WordSet)
    BY ONLY <1>1, <1>4, ConcatProperties
  <1>6. ((P \o Q) \o S) \o l \in Seq(WordSet)
    BY ONLY <1>2, <1>5, ConcatProperties
  <1>7. AddAll(((P \o Q) \o S) \o l) \in WordSet
    BY ONLY <1>6, AddAllWord
  <1> QED BY ONLY <1>3, <1>7, ComplementWord

\* A word in memory is two bytes.
LEMMA WordStored == ASSUME NEW w \in WordSet PROVE Store16(w) \in Seq(Byte) /\ Len(Store16(w)) = 2
  <1>1. Store16(w) = <<w % 256, w \div 256>> /\ w % 256 \in Byte /\ w \div 256 \in Byte
    BY ONLY w \in WordSet, StoreIs
  <1> QED BY ONLY <1>1, TwoBytes

\* The checksum field while the checksum is computed.
LEMMA ZeroStored == Store16(0) = <<0, 0>>
  BY DEF Store16

\* The datagram: its parts, its lengths and its checksum.
Datagram(s, sp, d, dp, b, u) ==
    LET n == Len(b)
        q == Store16(Htons(n + 8))
    IN  /\ u \in Seq(Byte) /\ Len(u) = n + 8 /\ SubSeq(u, 5, 6) = q /\ 256 * u[5] + u[6] = n + 8
        /\ n > 0 => u[n + 8] = b[n]
        /\ n = 0 \/ n % 2 = 0 \/ b[n] = 0 => SumBE(UdpPseudoheader(s, d, n) \o u) % 65535 = 0

\* udp::send builds such a datagram.
LEMMA DatagramBuilt ==
  ASSUME NEW s \in Address, NEW d \in Address, NEW sp \in WordSet, NEW dp \in WordSet,
         NEW b \in Seq(Byte), Len(b) + 8 \in WordSet
  PROVE  Datagram(s, sp, d, dp, b, UdpPacket(s, sp, d, dp, b))
  <1>0. PICK n \in Nat : n = Len(b)
    OBVIOUS
  <1> DEFINE q == Store16(Htons(n + 8))
             a == s \o d
             z == <<0, 17>>
             y == a \o z
             X == UdpPseudoheader(s, d, n)
  <1>1. q \in Seq(Byte) /\ Len(q) = 2 /\ 256 * q[1] + q[2] = n + 8
    <2>1. n + 8 \in WordSet
      BY <1>0
    <2> QED BY ONLY <2>1, FieldStored
  <1>2. X \in Seq(Byte) /\ Len(X) = 12
    <2>1. s \in Seq(Byte) /\ d \in Seq(Byte) /\ Len(s) = 4 /\ Len(d) = 4
      BY AddressBytes
    <2>2. a \in Seq(Byte) /\ Len(a) = Len(s) + Len(d)
      BY ONLY <2>1, Joined
    <2>3. z \in Seq(Byte) /\ Len(z) = 2
      <3>1. 0 \in Byte /\ 17 \in Byte
        BY DEF Byte
      <3> QED BY ONLY <3>1, TwoBytes
    <2>4. X = y \o q
      BY DEF UdpPseudoheader
    <2> HIDE DEF a, z, q, X
    <2>5. y \in Seq(Byte) /\ Len(y) = Len(a) + Len(z)
      BY ONLY <2>2, <2>3, Joined
    <2> HIDE DEF y
    <2>6. y \o q \in Seq(Byte) /\ Len(y \o q) = Len(y) + Len(q)
      BY ONLY <1>1, <2>5, Joined
    <2> QED BY ONLY <1>1, <2>1, <2>2, <2>3, <2>4, <2>5, <2>6
  <1>3. PICK F \in Seq(Byte) : /\ Len(F) = 6 /\ F[5] = q[1] /\ F[6] = q[2]
                               /\ \A c : UdpHeader(sp, dp, n, c) = F \o Store16(c)
    <2>1. n + 8 \in WordSet
      BY <1>0
    <2> QED BY ONLY <2>1, n \in Nat, sp \in WordSet, dp \in WordSet, DatagramParts
  <1> DEFINE c == UdpChecksum(X, F \o <<0, 0>>, b)
             C == Store16(c)
             H == F \o C
             u == H \o b
  <1>4. UdpPacket(s, sp, d, dp, b) = u
    <2>1. UdpHeader(sp, dp, n, 0) = F \o <<0, 0>>
      BY ONLY <1>3, ZeroStored
    <2>2. UdpHeader(sp, dp, n, c) = H
      BY ONLY <1>3
    <2>3. UdpPacket(s, sp, d, dp, b)
              = UdpHeader(sp, dp, n, UdpChecksum(X, UdpHeader(sp, dp, n, 0), b)) \o b
      BY <1>0 DEF UdpPacket
    <2> HIDE DEF X
    <2> QED BY ONLY <2>1, <2>2, <2>3
  <1>5. c \in WordSet
    <2>1. <<0, 0>> \in Seq(Byte)
      <3>1. 0 \in Byte
        BY DEF Byte
      <3> QED BY ONLY <3>1, TwoBytes
    <2>2. F \o <<0, 0>> \in Seq(Byte)
      BY ONLY F \in Seq(Byte), <2>1, ConcatProperties
    <2> HIDE DEF X
    <2> QED BY ONLY <1>2, <2>2, b \in Seq(Byte), UdpChecksumWord
  <1>6. n = 0 \/ n % 2 = 0 \/ b[n] = 0 => SumBE(X \o u) % 65535 = 0
    <2>1. SUFFICES ASSUME n = 0 \/ n % 2 = 0 \/ b[n] = 0 PROVE SumBE(X \o u) % 65535 = 0
      OBVIOUS
    <2>2. b = << >> \/ Len(b) % 2 = 0 \/ b[Len(b)] = 0
      BY <1>0, <2>1
    <2>3. PICK k : k = c
      OBVIOUS
    <2> HIDE DEF X
    <2>4. SumBE(X \o ((F \o Store16(k)) \o b)) % 65535 = 0
      BY ONLY <1>2, F \in Seq(Byte), <1>3, b \in Seq(Byte), <2>2, <2>3, DatagramVerifies
    <2> QED BY ONLY <2>3, <2>4
  <1> HIDE DEF c, X
  <1>7. C \in Seq(Byte) /\ Len(C) = 2
    BY ONLY <1>5, WordStored
  <1> HIDE DEF C
  <1>8. H \in Seq(Byte) /\ Len(H) = 8 /\ H[5] = F[5] /\ H[6] = F[6]
    <2>1. PICK m \in Nat : m = 6
      OBVIOUS
    <2>2. Len(F) = m
      BY ONLY <1>3, <2>1
    <2>3. H \in Seq(Byte) /\ Len(H) = m + 2 /\ \A i \in 1 .. m : H[i] = F[i]
      BY ONLY F \in Seq(Byte), m \in Nat, <1>7, <2>2, Extended
    <2> HIDE DEF H
    <2> QED BY ONLY <2>1, <2>3
  <1> HIDE DEF H
  <1>9. /\ u \in Seq(Byte) /\ Len(u) = Len(H) + Len(b) /\ \A i \in 1 .. Len(H) : u[i] = H[i]
        /\ \A i \in 1 .. Len(b) : u[Len(H) + i] = b[i]
    BY ONLY <1>8, b \in Seq(Byte), Joined
  <1> HIDE DEF u
  <1>10. Len(u) = n + 8 /\ u[5] = q[1] /\ u[6] = q[2] /\ (n > 0 => u[n + 8] = b[n])
    <2>1. Len(u) = n + 8
      BY ONLY <1>0, <1>8, <1>9, n \in Nat
    <2>2. 5 \in 1 .. Len(H) /\ 6 \in 1 .. Len(H)
      BY ONLY <1>8
    <2>3. u[5] = q[1] /\ u[6] = q[2]
      BY ONLY <1>3, <1>8, <1>9, <2>2
    <2>4. ASSUME n > 0 PROVE u[n + 8] = b[n]
      <3>1. n \in 1 .. Len(b) /\ Len(H) + n = n + 8
        BY ONLY <1>0, <1>8, <2>4, n \in Nat
      <3> QED BY ONLY <1>9, <3>1
    <2> QED BY ONLY <2>1, <2>3, <2>4
  <1>11. SubSeq(u, 5, 6) = q
    <2> DEFINE v == SubSeq(u, 5, 6)
    <2>1. \A i \in 5 .. 6 : u[i] \in Byte
      BY ONLY <1>9, <1>10, n \in Nat
    <2>2. /\ v \in Seq(Byte) /\ Len(v) = IF 5 <= 6 THEN 6 - 5 + 1 ELSE 0
          /\ \A i \in 1 .. 6 - 5 + 1 : v[i] = u[5 + i - 1]
      BY ONLY <2>1, 5 \in Int, 6 \in Int, SubSeqProperties
    <2> HIDE DEF v, q
    <2>3. Len(v) = 2 /\ v[1] = u[5] /\ v[2] = u[6]
      BY ONLY <2>2
    <2>4. \A i \in 1 .. Len(v) : v[i] = q[i]
      BY ONLY <1>10, <2>3
    <2>5. Len(v) = Len(q)
      BY ONLY <1>1, <2>3
    <2> QED BY ONLY <1>1, <2>2, <2>4, <2>5, SeqEqual DEF v
  <1>12. 256 * u[5] + u[6] = n + 8
    BY ONLY <1>1, <1>10
  <1>13. Datagram(s, sp, d, dp, b, u)
    BY ONLY <1>0, <1>6, <1>9, <1>10, <1>11, <1>12 DEF Datagram, X, q
  <1> QED BY ONLY <1>4, <1>13

\* A buffer's bytes, and words.
LEMMA Given ==
  /\ Addresses \subseteq Address /\ Ports \subseteq WordSet
  /\ \A peer \in Peers : peer[1] \in Address /\ peer[2] \in WordSet
  /\ \A b \in Buffers : b \in Seq(Byte) /\ Len(b) + 28 \in WordSet
  <1>1. ASSUME NEW w \in Word PROVE w \in WordSet
    <2>1. w \in Nat /\ w <= 65535
      BY DEF Word
    <2> QED BY <2>1, WordSetIs
  <1>2. Addresses \subseteq Address /\ Ports \subseteq WordSet
    BY <1>1, SendAssumption
  <1>3. ASSUME NEW peer \in Peers PROVE peer[1] \in Address /\ peer[2] \in WordSet
    <2>1. peer \in Address \X Word
      BY SendAssumption
    <2> QED BY <1>1, <2>1
  <1>4. ASSUME NEW b \in Buffers PROVE b \in Seq(Byte) /\ Len(b) + 28 \in WordSet
    BY <1>1, SendAssumption
  <1> QED BY <1>2, <1>3, <1>4

\* Every packet is accepted.
LEMMA PacketAccepted ==
  ASSUME NEW s \in Address, NEW d \in Address, NEW sp \in WordSet, NEW dp \in WordSet,
         NEW b \in Seq(Byte), Len(b) + 28 \in WordSet
  PROVE  Accepted(IpPacket(s, d, UdpPacket(s, sp, d, dp, b)))
  <1>0. PICK n \in Nat : n = Len(b)
    OBVIOUS
  <1>1. Len(b) + 8 \in WordSet /\ 20 + (n + 8) \in WordSet
    <2>1. n + 8 \in Nat /\ n + 8 <= 65535 /\ 20 + (n + 8) \in Nat /\ 20 + (n + 8) <= 65535
      <3>1. n + 28 \in Nat /\ n + 28 <= 65535
        BY <1>0, WordSetIs
      <3> QED BY ONLY <3>1, n \in Nat
    <2> QED BY ONLY <1>0, <2>1, WordSetIs
  <1>2. PICK u : u = UdpPacket(s, sp, d, dp, b)
    OBVIOUS
  <1>3. Datagram(s, sp, d, dp, b, u)
    BY <1>1, <1>2, DatagramBuilt
  <1>4. /\ u \in Seq(Byte) /\ Len(u) = n + 8 /\ SubSeq(u, 5, 6) = Store16(Htons(n + 8))
        /\ 256 * u[5] + u[6] = n + 8 /\ (n > 0 => u[n + 8] = b[n])
        /\ (n = 0 \/ n % 2 = 0 \/ b[n] = 0 => SumBE(UdpPseudoheader(s, d, n) \o u) % 65535 = 0)
    BY ONLY <1>0, <1>3 DEF Datagram
  <1>5. PICK x \in Seq(Byte) : /\ Len(x) = 10 /\ x[10] = 17 /\ 256 * x[3] + x[4] = 20 + (n + 8)
                               /\ \A c : IpHeader(s, d, n + 8, c) = ((x \o Store16(c)) \o s) \o d
    <2>1. PICK z \in Nat : z = n + 8
      OBVIOUS
    <2>2. 20 + z \in WordSet
      BY ONLY <1>1, <2>1
    <2>3. \E x \in Seq(Byte) :
            /\ Len(x) = 10 /\ x[10] = 17 /\ 256 * x[3] + x[4] = 20 + z
            /\ \A c : IpHeader(s, d, z, c) = ((x \o Store16(c)) \o s) \o d
      BY ONLY z \in Nat, <2>2, s \in Address, d \in Address, HeaderParts
    <2> QED BY ONLY <2>1, <2>3
  <1>6. s \in Seq(Byte) /\ d \in Seq(Byte) /\ Len(s) = 4 /\ Len(d) = 4
    BY AddressBytes
  <1> DEFINE a == s \o d
  <1>7. a \in Seq(Byte) /\ Len(a) = 8
    <2>1. a \in Seq(Byte) /\ Len(a) = Len(s) + Len(d)
      BY ONLY <1>6, Joined
    <2> QED BY ONLY <1>6, <2>1
  <1>8. ASSUME NEW c, Store16(c) \in Seq(Byte)
        PROVE  IpHeader(s, d, n + 8, c) = (x \o Store16(c)) \o a
    <2> DEFINE g == x \o Store16(c)
    <2>1. g \in Seq(Byte)
      BY ONLY x \in Seq(Byte), <1>8, ConcatProperties
    <2> HIDE DEF g
    <2>2. (g \o s) \o d = g \o (s \o d)
      <3>1. s \in Seq(Byte) /\ d \in Seq(Byte)
        BY ONLY <1>6
      <3> QED BY ONLY <2>1, <3>1, BytesAssociative
    <2> QED BY ONLY <1>5, <2>2 DEF g
  <1> DEFINE c == IpChecksum((x \o <<0, 0>>) \o a)
             C == Store16(Htons(c))
             h == (x \o C) \o a
  <1>9. c \in WordSet /\ SumBE(h) % 65535 = 0
    <2>1. PICK k : k = c
      OBVIOUS
    <2> HIDE DEF a
    <2>2. k \in WordSet /\ SumBE((x \o Store16(Htons(k))) \o a) % 65535 = 0
      BY ONLY x \in Seq(Byte), <1>5, <1>7, <2>1, HeaderVerifies
    <2> QED BY ONLY <2>1, <2>2
  <1>10. C \in Seq(Byte) /\ Len(C) = 2
    BY ONLY <1>9, FieldStored
  <1> DEFINE p == h \o u
  <1>11. IpPacket(s, d, u) = p
    <2>1. Store16(0) \in Seq(Byte)
      <3>1. 0 \in Byte
        BY DEF Byte
      <3> QED BY ONLY <3>1, ZeroStored, TwoBytes
    <2>2. IpHeader(s, d, n + 8, 0) = (x \o <<0, 0>>) \o a
      BY ONLY <1>8, <2>1, ZeroStored
    <2>3. IpHeader(s, d, n + 8, Htons(c)) = h
      BY ONLY <1>8, <1>10
    <2>4. IpPacket(s, d, u) = IpHeader(s, d, n + 8, Htons(IpChecksum(IpHeader(s, d, n + 8, 0)))) \o u
      BY ONLY <1>4 DEF IpPacket
    <2> QED BY ONLY <2>2, <2>3, <2>4
  <1> HIDE DEF c, C, a
  <1> DEFINE y == x \o C
  <1>12. u \in Seq(Byte) /\ SubSeq(u, 5, 6) = Store16(Htons(n + 8))
    BY ONLY <1>4
  <1>13. y \in Seq(Byte) /\ Len(y) = 12 /\ \A i \in 1 .. 10 : y[i] = x[i]
    <2>1. PICK m \in Nat : m = 10
      OBVIOUS
    <2>2. Len(x) = m
      BY ONLY <1>5, <2>1
    <2>3. y \in Seq(Byte) /\ Len(y) = m + 2 /\ \A i \in 1 .. m : y[i] = x[i]
      BY ONLY x \in Seq(Byte), m \in Nat, <1>10, <2>2, Extended
    <2> HIDE DEF y
    <2> QED BY ONLY <2>1, <2>3
  <1>14. h = y \o a
    OBVIOUS
  <1> HIDE DEF y, h
  <1>15. h \in Seq(Byte) /\ Len(h) = 20 /\ \A i \in 1 .. 12 : h[i] = y[i]
    <2>1. y \in Seq(Byte) /\ a \in Seq(Byte)
      BY ONLY <1>7, <1>13
    <2>2. y \o a \in Seq(Byte) /\ Len(y \o a) = Len(y) + Len(a) /\ \A i \in 1 .. Len(y) : (y \o a)[i] = y[i]
      BY ONLY <2>1, Joined
    <2>3. h \in Seq(Byte) /\ Len(h) = Len(y) + Len(a) /\ \A i \in 1 .. Len(y) : h[i] = y[i]
      BY ONLY <1>14, <2>2
    <2> QED BY ONLY <1>7, <1>13, <2>3
  <1>16. /\ p \in Seq(Byte) /\ Len(p) = Len(h) + Len(u) /\ \A i \in 1 .. Len(h) : p[i] = h[i]
    BY ONLY <1>12, <1>15, Joined
  <1>17. /\ SubSeq(p, 1, Len(h)) = h /\ SubSeq(p, Len(h) + 1, Len(p)) = u
    BY ONLY <1>12, <1>15, FrontIs
  <1>18. SubSeq(p, Len(y) + 1, Len(y) + Len(a)) = a
    <2>1. y \in Seq(Byte) /\ a \in Seq(Byte) /\ u \in Seq(Byte)
      BY ONLY <1>7, <1>12, <1>13
    <2>2. SubSeq((y \o a) \o u, Len(y) + 1, Len(y) + Len(a)) = a
      BY ONLY <2>1, MiddleIs
    <2> QED BY ONLY <1>14, <2>2
  <1> HIDE DEF p
  <1>19. Len(p) = 20 + (n + 8) /\ p[10] = 17 /\ p[3] = x[3] /\ p[4] = x[4]
    <2>1. ASSUME NEW i \in 1 .. 10 PROVE p[i] = x[i]
      <3>1. i \in 1 .. 12 /\ i \in 1 .. Len(h)
        BY ONLY <1>15
      <3> QED BY ONLY <1>13, <1>15, <1>16, <3>1
    <2>2. Len(p) = 20 + (n + 8)
      BY ONLY <1>4, <1>15, <1>16
    <2> QED BY ONLY <1>5, <2>1, <2>2
  <1>20. SubSeq(p, 1, 20) = h /\ SubSeq(p, 21, Len(p)) = u /\ SubSeq(p, 13, 20) = a
    <2>1. Len(h) = 20 /\ Len(h) + 1 = 21 /\ Len(y) + 1 = 13 /\ Len(y) + Len(a) = 20
      BY ONLY <1>7, <1>13, <1>15
    <2> QED BY ONLY <1>17, <1>18, <2>1
  <1>21. FieldBE(p, 3) = Len(p) /\ FieldBE(u, 5) = Len(u)
    BY ONLY <1>4, <1>5, <1>19 DEF FieldBE
  <1>22. SubSeq(p, 13, 20) \o <<0, p[10]>> \o SubSeq(u, 5, 6) = UdpPseudoheader(s, d, n)
    BY ONLY <1>12, <1>19, <1>20 DEF UdpPseudoheader, a
  <1>23. \/ Len(u) % 2 = 1 /\ u[Len(u)] # 0
         \/ SumBE(UdpPseudoheader(s, d, n) \o u) % 65535 = 0
    <2>1. CASE n = 0 \/ n % 2 = 0 \/ b[n] = 0
      BY ONLY <1>4, <2>1
    <2>2. CASE n > 0 /\ n % 2 # 0 /\ b[n] # 0
      <3>1. n % 2 = 1 /\ (n + 8) % 2 = 1
        BY ONLY <2>2, n \in Nat
      <3> QED BY ONLY <1>4, <2>2, <3>1
    <2> QED BY ONLY <2>1, <2>2, n \in Nat
  <1>24. Accepted(p)
    <2> DEFINE v == UdpPseudoheader(s, d, n)
    <2>1. HeaderAccepted(p)
      <3>1. SumBE(SubSeq(p, 1, 20)) = SumBE(h)
        BY ONLY <1>20
      <3>2. SumBE(SubSeq(p, 1, 20)) % 65535 = 0
        BY ONLY <1>9, <3>1
      <3> QED BY ONLY <1>21, <3>2 DEF HeaderAccepted
    <2>2. DatagramAccepted(v, u)
      BY ONLY <1>21, <1>23 DEF DatagramAccepted
    <2> HIDE DEF v
    <2>3. v = SubSeq(p, 13, 20) \o <<0, p[10]>> \o SubSeq(u, 5, 6)
      BY ONLY <1>22 DEF v
    <2> DEFINE w == SubSeq(p, 21, Len(p))
    <2>5. w = u
      BY ONLY <1>20
    <2> HIDE DEF w
    <2>6. DatagramAccepted(SubSeq(p, 13, 20) \o <<0, p[10]>> \o SubSeq(w, 5, 6), w)
      BY ONLY <2>2, <2>3, <2>5
    <2> QED BY ONLY <2>1, <2>6 DEF Accepted, w
  <1> QED BY ONLY <1>2, <1>11, <1>24

----------------------------------------------------------------------------
\* What the network code hands down is built from addresses and buffers it has.
Sent(frame) ==
    \E s \in Address, port \in Ports, peer \in Peers, buffer \in Buffers :
        /\ frame.ether_type = Htons(2048)
        /\ frame.payload = IpPacket(s, peer[1], UdpPacket(s, port, peer[1], peer[2], buffer))

WireInv == ip_addr \in Address /\ (wire # None => Sent(wire))

\* The invariant holds at first,
LEMMA WireInit == SendInit => WireInv
  <1>1. <<0, 0, 0, 0>> \in Address
    BY DEF Address, Byte
  <1> QED BY <1>1 DEF SendInit, WireInv

\* every step keeps it,
LEMMA WireStep == ASSUME WireInv, [Next]_vars PROVE WireInv'
  <1>1. CASE ip_addr' = ip_addr /\ wire' = wire
    BY <1>1 DEF WireInv, Sent
  <1>2. ASSUME NEW ip \in Addresses, SetIp(ip) PROVE WireInv'
    <2>1. ip_addr' \in Address /\ wire' = wire
      BY <1>2, Given DEF SetIp
    <2> QED BY <2>1 DEF WireInv, Sent
  <1>3. ASSUME NEW port \in Ports, NEW peer \in Peers, NEW buffer \in Buffers, Sendto(port, peer, buffer)
        PROVE  WireInv'
    <2>1. ip_addr' = ip_addr /\ ip_addr \in Address
      BY <1>3 DEF Sendto, WireInv
    <2>2. Sent(wire')
      <3> DEFINE pay == IpPacket(ip_addr, peer[1], UdpPacket(ip_addr, port, peer[1], peer[2], buffer))
      <3>1. EthernetSend(2048, pay)
        BY <1>3 DEF Sendto
      <3> HIDE DEF pay
      <3>2. wire'.ether_type = Htons(2048) /\ wire'.payload = pay
        BY <3>1 DEF EthernetSend
      <3> QED BY <2>1, <3>2 DEF Sent, pay
    <2> QED BY <2>1, <2>2 DEF WireInv, Sent
  <1>4. CASE NetInit
    BY <1>1, <1>4 DEF NetInit
  <1>5. CASE (Pci \/ Hardware \/ Interrupts) /\ UNCHANGED netVars
    BY <1>1, <1>5 DEF netVars
  <1>6. CASE UNCHANGED vars
    BY <1>1, <1>6 DEF vars, netVars
  <1> QED BY <1>2, <1>3, <1>4, <1>5, <1>6 DEF Next, Thread

\* and a frame it describes is accepted.
LEMMA WireVerifies == ASSUME WireInv PROVE FramesVerify
  <1>1. SUFFICES ASSUME wire # None PROVE wire.ether_type = 8 /\ Accepted(wire.payload)
    BY DEF FramesVerify
  <1>2. PICK s \in Address, port \in Ports, peer \in Peers, buffer \in Buffers :
            /\ wire.ether_type = Htons(2048)
            /\ wire.payload = IpPacket(s, peer[1], UdpPacket(s, port, peer[1], peer[2], buffer))
    BY <1>1 DEF WireInv, Sent
  <1>3. Htons(2048) = 8
    BY DEF Htons
  <1>4. /\ port \in WordSet /\ peer[1] \in Address /\ peer[2] \in WordSet
        /\ buffer \in Seq(Byte) /\ Len(buffer) + 28 \in WordSet
    BY Given
  <1>5. Accepted(IpPacket(s, peer[1], UdpPacket(s, port, peer[1], peer[2], buffer)))
    BY <1>4, PacketAccepted
  <1> QED BY <1>2, <1>3, <1>5

\* A receiver accepts every frame (FramesVerify), for all addresses, ports and
\* buffers, of any length that fits an IP packet.
THEOREM FramesSafe == Spec => []FramesVerify
  <1>1. Spec => []WireInv
    BY WireInit, WireStep, PTL DEF Spec
  <1> QED BY <1>1, WireVerifies, PTL
=============================================================================
