------------------------------- MODULE Pcnet -------------------------------
(***************************************************************************)
(* The PCnet-PCI II driver of drivers/net/pcnet.cpp with the card it       *)
(* drives: two descriptor rings shared with the card's DMA, init() with    *)
(* its CSR accesses, send_packet() on a thread and from inside irq(), and  *)
(* irq() step by step while the card keeps receiving and transmitting.     *)
(*                                                                         *)
(* The card is external: what is modelled of it is the ownership bit, the  *)
(* order in which it walks the rings, the write-one-to-clear status bits   *)
(* of CSR0, and an interrupt line that is asserted while INEA and a status *)
(* bit are set. Frames are numbered: the k-th frame received is k. The     *)
(* thread is taken to keep its registers over an interrupt, though the     *)
(* stub saves none (interrupts.asm:10-14): module Tasks is about that.     *)
(***************************************************************************)
EXTENDS Integers, Sequences

CONSTANTS N,          \* descriptors per ring (8 in the code)
          MaxRx,      \* bound: frames the network delivers
          MaxTx       \* bound: calls of send_packet

ASSUME PcnetAssumption == N \in Nat \ {0} /\ MaxRx \in Nat /\ MaxTx \in Nat

VARIABLES
    t, t_n, t_frame,              \* the thread: where it is, its tx_n, its frame
    rap, inea, csr0, started,     \* the card's registers
    rx_own, rx_buf, drx,          \* receive ring and the card's place in it
    tx_own, tx_buf, dtx,          \* transmit ring and the card's place in it
    init_done, rx_n, tx_n,        \* fields of class PCNET
    h, status,                    \* irq(): where it is, the CSR0 it read
    received, handled,            \* frames put into the ring; handle_packet calls
    calls, accepted, wire,        \* send_packet calls; frames given away; sent
    raced                         \* a send found a completed, unserved descriptor

thread == <<t, t_n, t_frame>>
regs   == <<rap, inea, csr0, started>>
rxCard == <<rx_buf, drx, received>>
rx     == <<rx_own, rx_n, handled, rxCard>>
tx     == <<tx_own, tx_buf, dtx, tx_n, calls, accepted, wire, raced>>
irq    == <<h, status, init_done>>
vars   == <<thread, regs, rx, tx, irq>>

Slots == 0 .. N - 1
Bits  == {"IDON", "RINT", "TINT", "ERR"}
\* x++; if (x > 7) x = 0
Step(x) == IF x + 1 > N - 1 THEN 0 ELSE x + 1

\* init() up to line 175: reset, rings and init block prepared with INEA off,
\* all receive descriptors given to the card, then INIT and INEA are set.
Init ==
    /\ t = "rap3r" /\ t_n = 0 /\ t_frame = 0
    /\ rap = 0 /\ inea = TRUE /\ csr0 = {} /\ started = FALSE
    /\ rx_own = [i \in Slots |-> TRUE] /\ rx_buf = [i \in Slots |-> 0] /\ drx = 0
    /\ tx_own = [i \in Slots |-> FALSE] /\ tx_buf = [i \in Slots |-> 0] /\ dtx = 0
    /\ init_done = FALSE /\ rx_n = 0 /\ tx_n = 0
    /\ h = "idle" /\ status = {}
    /\ received = 0 /\ handled = << >>
    /\ calls = 0 /\ accepted = << >> /\ wire = << >> /\ raced = FALSE

----------------------------------------------------------------------------
(* The thread. It runs while no interrupt is being served.                 *)

Goto(from, to) == h = "idle" /\ t = from /\ t' = to

\* write_rap32(3) of read_csr32 and of write_csr32 (lines 177, 179).
SelectCsr3 ==
    /\ Goto("rap3r", "rdp3r") \/ Goto("rap3w", "rdp3w")
    /\ rap' = 3
    /\ UNCHANGED <<t_n, t_frame, inea, csr0, started, rx, tx, irq>>

ReadCsr3 ==
    /\ Goto("rdp3r", "rap3w")
    /\ UNCHANGED <<t_n, t_frame, regs, rx, tx, irq>>

\* CSR3 holds zeros after reset, and so does the value written. In CSR0 the
\* write would clear INEA.
WriteCsr3 ==
    /\ Goto("rdp3w", "spin")
    /\ inea' = (rap = 3 /\ inea)
    /\ UNCHANGED <<t_n, t_frame, rap, csr0, started, rx, tx, irq>>

\* Lines 181-186: wait for init_done, then STRT. init_done is not volatile, and
\* at -O2 the compiler may drop the loop: then the card may still be busy (IDON
\* comes after STRT), or the write of what was read acknowledges IDON.
Start ==
    /\ Goto("spin", "ready")
    /\ rap' = 0 /\ started' = TRUE
    /\ csr0' \in IF init_done THEN {csr0} ELSE {csr0 \ {"IDON"}, csr0 \cup {"IDON"}}
    /\ UNCHANGED <<t_n, t_frame, inea, rx, tx, irq>>

----------------------------------------------------------------------------
(* send_packet.                                                            *)

\* The card has finished descriptor tx_n and irq() has not stepped over it.
TxUnserved == "TINT" \in csr0 /\ ~(h = "ack" /\ "TINT" \in status)

\* The descriptor is filled and given to the card; own is written last.
Give(i, frame) ==
    /\ tx_buf' = [tx_buf EXCEPT ![i] = frame]
    /\ tx_own' = [tx_own EXCEPT ![i] = TRUE]
    /\ accepted' = Append(accepted, frame)

\* Mutant: the own bit is not looked at.
SendUnchecked ==
    /\ calls < MaxTx /\ calls' = calls + 1
    /\ Goto("ready", "fill")
    /\ t_n' = tx_n /\ t_frame' = calls'
    /\ raced' = (raced \/ TxUnserved)
    /\ UNCHANGED <<regs, rx, tx_own, tx_buf, dtx, tx_n, accepted, wire, irq>>

\* Line 190: a busy descriptor drops the frame without a word.
SendCheck ==
    /\ calls < MaxTx /\ calls' = calls + 1
    /\ IF tx_own[tx_n]
       THEN Goto("ready", "ready") /\ UNCHANGED <<t_n, t_frame, raced>>
       ELSE /\ Goto("ready", "fill")
            /\ t_n' = tx_n /\ t_frame' = calls'
            /\ raced' = (raced \/ TxUnserved)
    /\ UNCHANGED <<regs, rx, tx_own, tx_buf, dtx, tx_n, accepted, wire, irq>>

\* Lines 192-202. tx_n is not volatile: the compiler may have kept the value
\* the check used or read the field again.
SendGive ==
    /\ Goto("fill", "ready")
    /\ \E i \in {t_n, tx_n} : Give(i, t_frame)
    /\ UNCHANGED <<t_n, t_frame, regs, rx, dtx, tx_n, calls, wire, raced, irq>>

\* The same call from handle_packet (an ARP reply), inside irq().
Reply ==
    /\ calls < MaxTx /\ calls' = calls + 1
    /\ IF tx_own[tx_n]
       THEN UNCHANGED <<tx_own, tx_buf, accepted, raced>>
       ELSE /\ Give(tx_n, calls')
            /\ raced' = (raced \/ TxUnserved \/ t = "fill")
    /\ UNCHANGED <<dtx, tx_n, wire>>

----------------------------------------------------------------------------
(* irq().                                                                  *)

\* The CPU takes the interrupt and irq() reads CSR0 (line 12).
IrqRead ==
    /\ h = "idle" /\ inea /\ csr0 # {}
    /\ h' = "rx" /\ status' = csr0 /\ rap' = 0
    /\ init_done' = (init_done \/ "IDON" \in csr0)
    /\ UNCHANGED <<thread, inea, csr0, started, rx, tx>>

\* Mutant: every interrupt is taken for a receive interrupt.
IrqHandleAlways ==
    /\ h = "rx"
    /\ handled' = Append(handled, rx_buf[rx_n])
    /\ Reply \/ UNCHANGED tx
    /\ h' = "own"
    /\ UNCHANGED <<thread, regs, rx_own, rx_n, rxCard, status, init_done>>

\* Line 19: one frame per interrupt, whatever the card has delivered.
IrqHandle ==
    /\ h = "rx" /\ "RINT" \in status
    /\ handled' = Append(handled, rx_buf[rx_n])
    /\ Reply \/ UNCHANGED tx
    /\ h' = "own"
    /\ UNCHANGED <<thread, regs, rx_own, rx_n, rxCard, status, init_done>>

\* Mutant: rx_n is not advanced.
IrqReturnSameSlot ==
    /\ h = "own"
    /\ rx_own' = [rx_own EXCEPT ![rx_n] = TRUE]
    /\ h' = "tx"
    /\ UNCHANGED <<thread, regs, rx_n, handled, rxCard, tx, status, init_done>>

\* Lines 21-23: the descriptor goes back to the card.
IrqReturnSlot ==
    /\ h = "own"
    /\ rx_own' = [rx_own EXCEPT ![rx_n] = TRUE]
    /\ rx_n' = Step(rx_n)
    /\ h' = "tx"
    /\ UNCHANGED <<thread, regs, handled, rxCard, tx, status, init_done>>

IrqNoRx ==
    /\ h = "rx" /\ "RINT" \notin status
    /\ h' = "tx"
    /\ UNCHANGED <<thread, regs, rx, tx, status, init_done>>

\* Mutant: the transmit branch is an else of the receive branch.
IrqTxElse ==
    /\ h = "tx"
    /\ tx_n' = IF "TINT" \in status /\ "RINT" \notin status THEN Step(tx_n) ELSE tx_n
    /\ h' = "ack"
    /\ UNCHANGED <<thread, regs, rx, tx_own, tx_buf, dtx, calls, accepted, wire,
                   raced, status, init_done>>

\* Lines 26-33; the error line is only printed.
IrqTx ==
    /\ h = "tx"
    /\ tx_n' = IF "TINT" \in status THEN Step(tx_n) ELSE tx_n
    /\ h' = "ack"
    /\ UNCHANGED <<thread, regs, rx, tx_own, tx_buf, dtx, calls, accepted, wire,
                   raced, status, init_done>>

\* Mutant: all status bits are acknowledged, seen or not.
IrqAckAll ==
    /\ h = "ack"
    /\ csr0' = {}
    /\ h' = "idle"
    /\ UNCHANGED <<thread, rap, inea, started, rx, tx, status, init_done>>

\* Line 35 clears every bit that was read, and RINT in any case.
IrqAck ==
    /\ h = "ack"
    /\ csr0' = csr0 \ (status \cup {"RINT"})
    /\ h' = "idle"
    /\ UNCHANGED <<thread, rap, inea, started, rx, tx, status, init_done>>

----------------------------------------------------------------------------
(* The card.                                                               *)

CardInit ==
    /\ ~started /\ ~init_done /\ csr0' = csr0 \cup {"IDON"} /\ csr0' # csr0
    /\ UNCHANGED <<thread, rap, inea, started, rx, tx, irq>>

\* A frame arrives; without a free descriptor it is missed (MISS, ERR).
CardReceive ==
    /\ started /\ received < MaxRx
    /\ IF rx_own[drx]
       THEN /\ received' = received + 1
            /\ rx_buf' = [rx_buf EXCEPT ![drx] = received']
            /\ rx_own' = [rx_own EXCEPT ![drx] = FALSE]
            /\ drx' = Step(drx)
            /\ csr0' = csr0 \cup {"RINT"}
       ELSE csr0' = csr0 \cup {"ERR"} /\ UNCHANGED <<received, rx_buf, rx_own, drx>>
    /\ UNCHANGED <<thread, rap, inea, started, rx_n, handled, tx, irq>>

\* The card polls the descriptor it stands on, sends it and moves on.
CardTransmit ==
    /\ started /\ tx_own[dtx]
    /\ wire' = Append(wire, tx_buf[dtx])
    /\ tx_own' = [tx_own EXCEPT ![dtx] = FALSE]
    /\ dtx' = Step(dtx)
    /\ csr0' = csr0 \cup {"TINT"}
    /\ UNCHANGED <<thread, rap, inea, started, rx, tx_buf, tx_n, calls, accepted,
                   raced, irq>>

----------------------------------------------------------------------------
Thread == SelectCsr3 \/ ReadCsr3 \/ WriteCsr3 \/ Start \/ SendCheck \/ SendGive
Irq    == IrqRead \/ IrqHandle \/ IrqReturnSlot \/ IrqNoRx \/ IrqTx \/ IrqAck
Card   == CardInit \/ CardReceive \/ CardTransmit

Next == Thread \/ Irq \/ Card

Spec == Init /\ [][Next]_vars

\* A pending interrupt is taken and served, and the card polls its transmit
\* ring. Nothing is assumed of the network or of the callers of send_packet.
Fairness == WF_vars(Irq) /\ WF_vars(CardTransmit)

FairSpec == Spec /\ Fairness

----------------------------------------------------------------------------
\* The ranges of the variables, the bounds of every table index included.
TypeOK ==
    /\ t \in {"rap3r", "rdp3r", "rap3w", "rdp3w", "spin", "ready", "fill"}
    /\ t_n \in Slots /\ t_frame \in 0 .. MaxTx
    /\ rap \in {0, 3} /\ inea \in BOOLEAN /\ csr0 \subseteq Bits /\ started \in BOOLEAN
    /\ rx_own \in [Slots -> BOOLEAN] /\ rx_buf \in [Slots -> 0 .. MaxRx] /\ drx \in Slots
    /\ tx_own \in [Slots -> BOOLEAN] /\ tx_buf \in [Slots -> 0 .. MaxTx] /\ dtx \in Slots
    /\ init_done \in BOOLEAN /\ rx_n \in Slots /\ tx_n \in Slots
    /\ h \in {"idle", "rx", "own", "tx", "ack"} /\ status \subseteq Bits
    /\ received \in 0 .. MaxRx /\ handled \in Seq(0 .. MaxRx)
    /\ calls \in 0 .. MaxTx /\ accepted \in Seq(0 .. MaxTx) /\ wire \in Seq(0 .. MaxTx)
    /\ raced \in BOOLEAN

\* irq() only ever reads and gives back a receive descriptor the card has
\* filled, although one RINT may stand for several frames and line 35 throws
\* away a RINT that came after the read.
SlotIsDrivers ==
    (h = "rx" /\ "RINT" \in status) \/ h = "own" => ~rx_own[rx_n]

\* handle_packet sees the received frames in order, none twice, none skipped:
\* coalesced interrupts make the driver late, never wrong.
HandledInOrder ==
    /\ Len(handled) <= received
    /\ \A k \in 1 .. Len(handled) : handled[k] = k

\* Unless a send met a completed but unserved descriptor, tx_n is the
\* descriptor the card looks at next, or irq() is about to make it so. Out of
\* step, the card would never see the frames again.
TxInStep == ~raced => dtx = IF TxUnserved THEN Step(tx_n) ELSE tx_n

\* Under the same condition frames leave in the order send_packet took them,
\* each exactly once.
SentInOrder ==
    ~raced => /\ Len(wire) <= Len(accepted)
              /\ \A k \in 1 .. Len(wire) : wire[k] = accepted[k]

\* The transmitter always comes back: a busy descriptor is sent and stepped
\* over, unless the race happened or init() has switched interrupts off.
TxRecovers ==
    tx_own[tx_n] ~> (~tx_own[tx_n] /\ ~TxUnserved) \/ raced \/ ~inea

\* pcnet.cpp:46 calls these functions access to a CSR: what is read or written
\* through RDP is the register the caller named. An interrupt between the RAP
\* write and the RDP access of init() selects CSR0 instead.
CsrAccessIsNamed == t \in {"rdp3r", "rdp3w"} => rap = 3

----------------------------------------------------------------------------
(* Why the rings stay in step. The frame in slot rx_n is First, and the    *)
(* card has delivered Lag frames the driver has not given back: they lie   *)
(* in the Lag slots from rx_n on, wrapping round, and the card owns the    *)
(* rest. A pending RINT that is still to be served means Lag > 0.          *)

First   == IF h = "own" THEN Len(handled) ELSE Len(handled) + 1
Lag     == received + 1 - First
Slot(j) == IF rx_n + j < N THEN rx_n + j ELSE rx_n + j - N

RxWindow ==
    /\ Lag \in 0 .. N
    /\ drx = Slot(Lag)
    /\ \A j \in 0 .. N - 1 :
          IF j < Lag THEN ~rx_own[Slot(j)] /\ rx_buf[Slot(j)] = First + j
                     ELSE rx_own[Slot(j)]

RxPending ==
    /\ h = "own" => First >= 1 /\ Lag >= 1
    /\ h = "rx" /\ "RINT" \in status => Lag >= 1
    /\ h \in {"idle", "rx"} /\ "RINT" \in csr0 => Lag >= 1

\* Without a race at most one descriptor is with the card, it is tx_n, and it
\* holds the one accepted frame that is not on the wire yet.
TxOutstanding ==
    /\ \A i \in Slots : tx_own[i] => i = tx_n /\ "TINT" \notin csr0
    /\ h # "idle" /\ "TINT" \in status => "TINT" \in csr0
    /\ t = "fill" => t_n = tx_n /\ ~tx_own[tx_n] /\ "TINT" \notin csr0
    /\ Len(accepted) = IF tx_own[tx_n] THEN Len(wire) + 1 ELSE Len(wire)
    /\ tx_own[tx_n] => tx_buf[tx_n] = accepted[Len(accepted)]

PcnetInv ==
    /\ TypeOK /\ RxWindow /\ RxPending /\ HandledInOrder
    /\ ~raced => TxOutstanding
    /\ TxInStep /\ SentInOrder
============================================================================
