---------------------------- MODULE PcnetProofs ----------------------------
(***************************************************************************)
(* The PCnet driver keeps its rings in step with the card, for every ring  *)
(* size and every number of frames.                                        *)
(***************************************************************************)
EXTENDS Pcnet, TLAPS

\* What the receive side and the transmit side of the invariant say.
RxInv == RxWindow /\ RxPending /\ HandledInOrder
TxInv == (~raced => TxOutstanding) /\ TxInStep /\ SentInOrder

\* The wrapped increment of rx_n and tx_n stays in the ring.
LEMMA StepType == ASSUME NEW x \in Slots PROVE Step(x) \in Slots
  BY PcnetAssumption DEF Step, Slots

\* init() leaves the driver and the card in step.
LEMMA InitHolds == Init => PcnetInv
  <1> SUFFICES ASSUME Init PROVE PcnetInv
    OBVIOUS
  <1> USE PcnetAssumption DEF Init
  <1>1. TypeOK
    BY DEF TypeOK, Slots, Bits
  <1>2. First = 1 /\ Lag = 0
    <2>1. Len(handled) = 0
      OBVIOUS
    <2>2. First = 1
      BY <2>1 DEF First
    <2> QED BY <2>2 DEF Lag
  <1>3. RxWindow /\ RxPending /\ HandledInOrder
    BY <1>2 DEF RxWindow, RxPending, HandledInOrder, Slot, Slots
  <1>4. TxOutstanding /\ TxInStep /\ SentInOrder
    BY DEF TxOutstanding, TxInStep, SentInOrder, TxUnserved, Slots
  <1> QED
    BY <1>1, <1>3, <1>4 DEF PcnetInv

\* Every step of the thread keeps every variable in its range.
LEMMA ThreadType == ASSUME TypeOK, Thread PROVE TypeOK'
  <1> USE PcnetAssumption DEF TypeOK, thread, regs, rxCard, rx, tx, irq, Goto
  <1>1. CASE SelectCsr3
    BY <1>1 DEF SelectCsr3
  <1>2. CASE ReadCsr3
    BY <1>2 DEF ReadCsr3
  <1>3. CASE WriteCsr3
    BY <1>3 DEF WriteCsr3
  <1>4. CASE Start
    <2>1. csr0' \subseteq Bits
      BY <1>4 DEF Start, Bits
    <2> QED BY <1>4, <2>1 DEF Start
  <1>5. CASE SendCheck
    <2>1. CASE tx_own[tx_n]
      BY <1>5, <2>1 DEF SendCheck
    <2>2. CASE ~tx_own[tx_n]
      <3>1. t' = "fill" /\ t_n' = tx_n /\ t_frame' = calls + 1
        BY <1>5, <2>2 DEF SendCheck
      <3>2. calls' \in 0 .. MaxTx /\ t_frame' \in 0 .. MaxTx
        BY <1>5, <3>1 DEF SendCheck
      <3>3. raced' \in BOOLEAN
        BY <1>5, <2>2, Zenon DEF SendCheck
      <3>4. UNCHANGED <<regs, rx, tx_own, tx_buf, dtx, tx_n, accepted, wire, irq>>
        BY <1>5 DEF SendCheck
      <3> QED BY <3>1, <3>2, <3>3, <3>4
    <2> QED BY <2>1, <2>2
  <1>6. CASE SendGive
    <2>1. PICK i \in {t_n, tx_n} : Give(i, t_frame)
      BY <1>6 DEF SendGive
    <2>2. tx_buf' \in [Slots -> 0 .. MaxTx] /\ tx_own' \in [Slots -> BOOLEAN]
      BY <2>1 DEF Give
    <2>3. accepted' \in Seq(0 .. MaxTx)
      BY <2>1 DEF Give
    <2> QED BY <1>6, <2>2, <2>3 DEF SendGive
  <1> QED
    BY <1>1, <1>2, <1>3, <1>4, <1>5, <1>6 DEF Thread

\* A reply sent from inside irq() does too.
LEMMA ReplyType ==
  ASSUME TypeOK, Reply \/ UNCHANGED tx
  PROVE  /\ tx_own' \in [Slots -> BOOLEAN] /\ tx_buf' \in [Slots -> 0 .. MaxTx]
         /\ dtx' \in Slots /\ tx_n' \in Slots /\ calls' \in 0 .. MaxTx
         /\ accepted' \in Seq(0 .. MaxTx) /\ wire' \in Seq(0 .. MaxTx)
         /\ raced' \in BOOLEAN
  <1> USE PcnetAssumption DEF TypeOK, tx
  <1>1. CASE UNCHANGED tx
    BY <1>1
  <1>2. CASE Reply /\ tx_own[tx_n]
    BY <1>2 DEF Reply
  <1>3. CASE Reply /\ ~tx_own[tx_n]
    <2>1. Give(tx_n, calls')
      BY <1>3 DEF Reply
    <2>2. calls' \in 0 .. MaxTx /\ raced' \in BOOLEAN
      BY <1>3 DEF Reply, TxUnserved
    <2>3. tx_own' \in [Slots -> BOOLEAN] /\ tx_buf' \in [Slots -> 0 .. MaxTx]
      BY <2>1, <2>2 DEF Give
    <2>4. accepted' \in Seq(0 .. MaxTx)
      BY <2>1, <2>2 DEF Give
    <2> QED BY <1>3, <2>2, <2>3, <2>4 DEF Reply
  <1> QED
    BY <1>1, <1>2, <1>3

\* Every step of irq() keeps every variable in its range.
LEMMA IrqType == ASSUME TypeOK, Irq PROVE TypeOK'
  <1> USE PcnetAssumption DEF TypeOK, thread, regs, rxCard, rx
  <1>1. CASE IrqRead
    BY <1>1 DEF IrqRead, tx
  <1>2. CASE IrqHandle
    <2>1. handled' \in Seq(0 .. MaxRx)
      BY <1>2 DEF IrqHandle
    <2> QED BY <1>2, <2>1, ReplyType DEF IrqHandle
  <1>3. CASE IrqReturnSlot
    BY <1>3, StepType DEF IrqReturnSlot, tx
  <1>4. CASE IrqNoRx
    BY <1>4 DEF IrqNoRx, tx
  <1>5. CASE IrqTx
    BY <1>5, StepType DEF IrqTx
  <1>6. CASE IrqAck
    BY <1>6 DEF IrqAck, tx
  <1> QED
    BY <1>1, <1>2, <1>3, <1>4, <1>5, <1>6 DEF Irq

\* And every step of the card.
LEMMA CardType == ASSUME TypeOK, Card PROVE TypeOK'
  <1> USE PcnetAssumption DEF TypeOK, thread, rxCard, irq
  <1>1. CASE CardInit
    BY <1>1 DEF CardInit, rx, tx, Bits
  <1>2. CASE CardReceive
    <2>1. CASE rx_own[drx]
      <3>1. received' \in 0 .. MaxRx /\ drx' \in Slots /\ csr0' \subseteq Bits
        <4>1. received' \in 0 .. MaxRx
          BY <1>2, <2>1 DEF CardReceive
        <4>2. drx' \in Slots
          BY <1>2, <2>1, StepType DEF CardReceive
        <4>3. csr0' \subseteq Bits
          BY <1>2, <2>1 DEF CardReceive, Bits
        <4> QED BY <4>1, <4>2, <4>3
      <3>2. rx_own' \in [Slots -> BOOLEAN] /\ rx_buf' \in [Slots -> 0 .. MaxRx]
        BY <1>2, <2>1, <3>1 DEF CardReceive
      <3> QED BY <1>2, <3>1, <3>2 DEF CardReceive, tx
    <2>2. CASE ~rx_own[drx]
      BY <1>2, <2>2 DEF CardReceive, tx, Bits
    <2> QED BY <2>1, <2>2
  <1>3. CASE CardTransmit
    <2>1. dtx' \in Slots /\ csr0' \subseteq Bits
      BY <1>3, StepType DEF CardTransmit, Bits
    <2>2. tx_own' \in [Slots -> BOOLEAN] /\ wire' \in Seq(0 .. MaxTx)
      BY <1>3 DEF CardTransmit
    <2> QED BY <1>3, <2>1, <2>2 DEF CardTransmit, rx
  <1> QED
    BY <1>1, <1>2, <1>3 DEF Card

\* No step of the thread, of irq() or of the card leaves the ranges.
LEMMA TypeStep == ASSUME TypeOK, [Next]_vars PROVE TypeOK'
  <1>1. CASE UNCHANGED vars
    BY <1>1 DEF TypeOK, vars, thread, regs, rxCard, rx, tx, irq
  <1> QED
    BY <1>1, ThreadType, IrqType, CardType DEF Next

----------------------------------------------------------------------------
(* The receive ring.                                                       *)

\* Slots are counted from rx_n without a modulus: what the provers need.
LEMMA SlotFacts ==
  ASSUME TypeOK
  PROVE  /\ \A j \in 0 .. N : Slot(j) \in Slots
         /\ \A i, j \in 0 .. N - 1 : Slot(i) = Slot(j) => i = j
         /\ \A j \in 0 .. N - 1 : Step(Slot(j)) = Slot(j + 1)
         /\ Slot(0) = rx_n /\ Slot(N) = rx_n
  <1> USE PcnetAssumption
  <1>0. rx_n \in 0 .. N - 1
    BY DEF TypeOK, Slots
  <1>1. ASSUME NEW j \in 0 .. N PROVE Slot(j) \in Slots
    BY <1>0 DEF Slot, Slots
  <1>2. ASSUME NEW i \in 0 .. N - 1, NEW j \in 0 .. N - 1, Slot(i) = Slot(j) PROVE i = j
    BY <1>0, <1>2 DEF Slot
  <1>3. ASSUME NEW j \in 0 .. N - 1 PROVE Step(Slot(j)) = Slot(j + 1)
    BY <1>0 DEF Slot, Step
  <1>4. Slot(0) = rx_n /\ Slot(N) = rx_n
    BY <1>0 DEF Slot
  <1> QED
    BY <1>1, <1>2, <1>3, <1>4

\* Lag and First are integers, First at least 1 outside the middle of irq().
LEMMA LagFacts ==
  ASSUME TypeOK
  PROVE  /\ Len(handled) \in Nat /\ received \in Nat
         /\ First \in Nat /\ Lag \in Int
         /\ Lag = received + 1 - First
  BY PcnetAssumption DEF TypeOK, First, Lag

\* A pending receive interrupt means that slot rx_n is filled, with First.
LEMMA FilledSlot ==
  ASSUME TypeOK, RxWindow, Lag >= 1
  PROVE  ~rx_own[rx_n] /\ rx_buf[rx_n] = First
  BY PcnetAssumption, SlotFacts, LagFacts DEF RxWindow

\* Steps that touch neither the ring nor the receive bookkeeping.
LEMMA RxUntouched ==
  ASSUME TypeOK, RxInv, UNCHANGED rx,
         h' = h \/ (h \notin {"own"} /\ h' \notin {"idle", "rx", "own"}),
         status' = status, "RINT" \in csr0' => "RINT" \in csr0
  PROVE  RxInv'
  <1>1. First' = First /\ Lag' = Lag
    BY DEF First, Lag, rx, rxCard
  <1>2. RxWindow'
    BY <1>1 DEF RxInv, RxWindow, Slot, rx, rxCard
  <1>3. RxPending'
    BY <1>1 DEF RxInv, RxPending
  <1>4. HandledInOrder'
    BY DEF RxInv, HandledInOrder, rx, rxCard
  <1> QED
    BY <1>2, <1>3, <1>4 DEF RxInv

\* irq() enters with RINT only when a frame is there.
LEMMA RxRead == ASSUME TypeOK, RxInv, IrqRead PROVE RxInv'
  <1>1. First' = First /\ Lag' = Lag
    BY DEF First, Lag, rx, rxCard, IrqRead
  <1>2. RxWindow'
    BY <1>1 DEF RxInv, RxWindow, Slot, rx, rxCard, IrqRead
  <1>3. RxPending'
    BY <1>1 DEF RxInv, RxPending, IrqRead
  <1>4. HandledInOrder'
    BY DEF RxInv, HandledInOrder, rx, rxCard, IrqRead
  <1> QED
    BY <1>2, <1>3, <1>4 DEF RxInv

\* The frame handled is the next one; its slot is still the driver's.
LEMMA RxHandle == ASSUME TypeOK, RxInv, IrqHandle PROVE RxInv'
  <1>1. Lag >= 1 /\ h = "rx"
    BY DEF RxInv, RxPending, IrqHandle
  <1>2. rx_buf[rx_n] = First /\ First = Len(handled) + 1
    BY <1>1, FilledSlot DEF RxInv, First
  <1>3. handled' = Append(handled, Len(handled) + 1)
    BY <1>2 DEF IrqHandle
  <1>4. Len(handled') = Len(handled) + 1 /\ h' = "own"
    BY <1>3 DEF TypeOK, IrqHandle
  <1>5. First' = First /\ Lag' = Lag
    BY <1>2, <1>4 DEF First, Lag, IrqHandle, rxCard
  <1>6. RxWindow'
    BY <1>5 DEF RxInv, RxWindow, Slot, rxCard, IrqHandle
  <1>7. RxPending'
    BY <1>1, <1>2, <1>4, <1>5, LagFacts DEF RxPending
  <1>8. HandledInOrder'
    <2>1. Len(handled') <= received'
      BY <1>1, <1>2, <1>4, LagFacts DEF IrqHandle, rxCard
    <2>2. ASSUME NEW k \in 1 .. Len(handled') PROVE handled'[k] = k
      BY <1>3, <1>4 DEF RxInv, HandledInOrder, TypeOK
    <2> QED BY <2>1, <2>2 DEF HandledInOrder
  <1> QED
    BY <1>6, <1>7, <1>8 DEF RxInv

\* Giving the slot back moves the window on by one.
LEMMA RxReturn == ASSUME TypeOK, RxInv, IrqReturnSlot PROVE RxInv'
  <1>1. h = "own" /\ h' = "tx" /\ First = Len(handled) /\ Lag >= 1
    BY DEF RxInv, RxPending, IrqReturnSlot, First
  <1>2. First' = First + 1 /\ Lag' = Lag - 1
    BY <1>1, LagFacts DEF First, Lag, IrqReturnSlot, rxCard
  <1>3. \A j \in 0 .. N - 1 : Slot(j)' = Slot(j + 1)
    BY PcnetAssumption DEF TypeOK, Slots, Slot, Step, IrqReturnSlot
  <1>4. RxWindow'
    <2>1. Lag' \in 0 .. N /\ drx' = Slot(Lag)'
      <3>1. Lag' \in 0 .. N /\ drx' = drx
        BY <1>1, <1>2, LagFacts, PcnetAssumption DEF RxInv, RxWindow, IrqReturnSlot, rxCard
      <3>2. drx = Slot(Lag) /\ rx_n' = Step(rx_n)
        BY DEF RxInv, RxWindow, IrqReturnSlot
      <3>3. Slot(Lag)' = Slot(Lag)
        <4>1. rx_n \in 0 .. N - 1 /\ Lag \in 1 .. N /\ Lag' = Lag - 1
          BY <1>1, <1>2, LagFacts, PcnetAssumption DEF RxInv, RxWindow, TypeOK, Slots
        <4> QED BY <3>2, <4>1, PcnetAssumption DEF Slot, Step
      <3> QED BY <3>1, <3>2, <3>3
    <2>2. ASSUME NEW j \in 0 .. N - 1
          PROVE  IF j < Lag' THEN ~rx_own'[Slot(j)'] /\ rx_buf'[Slot(j)'] = First' + j
                             ELSE rx_own'[Slot(j)']
      <3>1. CASE j = N - 1
        <4>1. Slot(j)' = rx_n /\ ~(j < Lag')
          BY <1>2, <1>3, <3>1, SlotFacts, LagFacts, PcnetAssumption DEF RxInv, RxWindow
        <4> QED BY <4>1 DEF IrqReturnSlot, TypeOK
      <3>2. CASE j + 1 \in 0 .. N - 1
        <4>1. Slot(j + 1) # rx_n
          <5>1. 0 \in 0 .. N - 1 /\ j + 1 # 0
            BY PcnetAssumption
          <5> QED BY <3>2, <5>1, SlotFacts
        <4>2. rx_own'[Slot(j)'] = rx_own[Slot(j + 1)] /\ rx_buf'[Slot(j)'] = rx_buf[Slot(j + 1)]
          <5>1. Slot(j)' = Slot(j + 1) /\ Slot(j + 1) \in Slots
            <6>1. j + 1 \in 0 .. N
              BY PcnetAssumption
            <6>2. Slot(j + 1) \in Slots
              BY <6>1, SlotFacts
            <6>3. Slot(j)' = Slot(j + 1)
              BY <1>3
            <6> QED BY <6>2, <6>3
          <5>2. rx_own'[Slot(j + 1)] = rx_own[Slot(j + 1)] /\ rx_buf' = rx_buf
            BY <4>1, <5>1 DEF IrqReturnSlot, TypeOK, rxCard
          <5> QED BY <5>1, <5>2
        <4>3. j < Lag' <=> j + 1 < Lag
          BY <1>2, LagFacts
        <4>4. First' + j = First + (j + 1)
          BY <1>2, LagFacts
        <4>5. IF j + 1 < Lag
              THEN ~rx_own[Slot(j + 1)] /\ rx_buf[Slot(j + 1)] = First + (j + 1)
              ELSE rx_own[Slot(j + 1)]
          BY <3>2 DEF RxInv, RxWindow
        <4> QED BY <4>2, <4>3, <4>4, <4>5
      <3> QED BY <3>1, <3>2, PcnetAssumption
    <2> QED BY <2>1, <2>2 DEF RxWindow
  <1>5. RxPending'
    BY <1>1 DEF RxPending
  <1>6. HandledInOrder'
    BY DEF RxInv, HandledInOrder, IrqReturnSlot, rxCard
  <1> QED
    BY <1>4, <1>5, <1>6 DEF RxInv

\* The acknowledgement drops RINT whatever has arrived since: no RINT is left
\* that no frame stands behind.
LEMMA RxAck == ASSUME TypeOK, RxInv, IrqAck PROVE RxInv'
  <1>1. First' = First /\ Lag' = Lag
    BY DEF First, Lag, rx, rxCard, IrqAck
  <1>2. RxWindow'
    BY <1>1 DEF RxInv, RxWindow, Slot, rx, rxCard, IrqAck
  <1>3. RxPending'
    BY <1>1 DEF RxInv, RxPending, IrqAck
  <1>4. HandledInOrder'
    BY DEF RxInv, HandledInOrder, rx, rxCard, IrqAck
  <1> QED
    BY <1>2, <1>3, <1>4 DEF RxInv

\* A frame arrives in the first slot after the window, or is missed.
LEMMA RxReceive == ASSUME TypeOK, RxInv, CardReceive PROVE RxInv'
  <1>0. h' = h /\ status' = status /\ UNCHANGED <<rx_n, handled>>
    BY DEF CardReceive, irq
  <1>1. CASE ~rx_own[drx]
    BY <1>0, <1>1, RxUntouched DEF CardReceive, rx, rxCard
  <1>2. CASE rx_own[drx]
    <2>1. Lag \in 0 .. N - 1
      <3>1. Lag # N
        BY <1>2, SlotFacts, LagFacts, FilledSlot, PcnetAssumption DEF RxInv, RxWindow
      <3> QED BY <3>1, PcnetAssumption DEF RxInv, RxWindow
    <2>2. received' = received + 1 /\ drx' = Step(drx)
      BY <1>2 DEF CardReceive
    <2>3. First' = First /\ Lag' = Lag + 1
      BY <1>0, <2>2, LagFacts DEF First, Lag
    <2>4. \A j \in 0 .. N : Slot(j)' = Slot(j)
      BY <1>0 DEF Slot
    <2>5. RxWindow'
      <3>1. Lag' \in 0 .. N /\ drx' = Slot(Lag)'
        BY <2>1, <2>2, <2>3, <2>4, SlotFacts, PcnetAssumption DEF RxInv, RxWindow
      <3>2. ASSUME NEW j \in 0 .. N - 1
            PROVE  IF j < Lag' THEN ~rx_own'[Slot(j)'] /\ rx_buf'[Slot(j)'] = First' + j
                               ELSE rx_own'[Slot(j)']
        <4>1. CASE j = Lag
          <5>1. Slot(j)' = drx /\ First' + j = received'
            BY <2>2, <2>3, <2>4, <4>1, LagFacts DEF RxInv, RxWindow
          <5> QED BY <1>2, <2>1, <2>3, <4>1, <5>1 DEF CardReceive, TypeOK
        <4>2. CASE j # Lag
          <5>1. Slot(j) # drx
            BY <2>1, <4>2, SlotFacts DEF RxInv, RxWindow
          <5>2. rx_own'[Slot(j)'] = rx_own[Slot(j)] /\ rx_buf'[Slot(j)'] = rx_buf[Slot(j)]
            <6>1. Slot(j)' = Slot(j) /\ Slot(j) \in Slots
              BY <2>4, SlotFacts, PcnetAssumption
            <6>2. rx_own'[Slot(j)] = rx_own[Slot(j)] /\ rx_buf'[Slot(j)] = rx_buf[Slot(j)]
              BY <1>2, <5>1, <6>1 DEF CardReceive, TypeOK
            <6> QED BY <6>1, <6>2
          <5> QED BY <2>1, <2>3, <4>2, <5>2 DEF RxInv, RxWindow
        <4> QED BY <4>1, <4>2
      <3> QED BY <3>1, <3>2 DEF RxWindow
    <2>6. RxPending'
      BY <1>0, <2>1, <2>3, LagFacts DEF RxInv, RxPending
    <2>7. HandledInOrder'
      BY <1>0, <2>2, LagFacts DEF RxInv, HandledInOrder
    <2> QED BY <2>5, <2>6, <2>7 DEF RxInv
  <1> QED
    BY <1>1, <1>2

\* Every step keeps the receive side in order.
LEMMA RxStep == ASSUME TypeOK, RxInv, [Next]_vars PROVE RxInv'
  <1>1. CASE UNCHANGED vars
    BY <1>1, RxUntouched DEF vars, regs, irq
  <1>2. CASE Thread
    <2>1. UNCHANGED <<rx, irq>> /\ ("RINT" \in csr0' => "RINT" \in csr0)
      BY <1>2 DEF Thread, SelectCsr3, ReadCsr3, WriteCsr3, Start, SendCheck, SendGive, regs
    <2> QED BY <2>1, RxUntouched DEF irq
  <1>3. CASE IrqNoRx \/ IrqTx
    BY <1>3, RxUntouched DEF IrqNoRx, IrqTx, regs
  <1>4. CASE CardInit \/ CardTransmit
    BY <1>4, RxUntouched DEF CardInit, CardTransmit, irq
  <1> QED
    BY <1>1, <1>2, <1>3, <1>4, RxRead, RxHandle, RxReturn, RxAck, RxReceive
       DEF Next, Irq, Card

----------------------------------------------------------------------------
(* The transmit ring. Once raced is set nothing more is claimed of it.     *)

\* raced is never taken back.
LEMMA RacedStays == ASSUME TypeOK, [Next]_vars, ~raced' PROVE ~raced
  <1>1. CASE UNCHANGED vars
    BY <1>1 DEF vars, tx
  <1>2. CASE Thread
    BY <1>2 DEF Thread, SelectCsr3, ReadCsr3, WriteCsr3, Start, SendCheck, SendGive, tx
  <1>3. CASE Irq
    BY <1>3 DEF Irq, IrqRead, IrqHandle, IrqReturnSlot, IrqNoRx, IrqTx, IrqAck, Reply, tx
  <1>4. CASE Card
    BY <1>4 DEF Card, CardInit, CardReceive, CardTransmit, tx
  <1> QED
    BY <1>1, <1>2, <1>3, <1>4 DEF Next

\* What the invariant says of the transmit ring while no race has happened.
TxCalm ==
    /\ TxOutstanding
    /\ dtx = IF TxUnserved THEN Step(tx_n) ELSE tx_n
    /\ Len(wire) <= Len(accepted)
    /\ \A k \in 1 .. Len(wire) : wire[k] = accepted[k]

\* The transmit part of the invariant, unfolded.
LEMMA TxCalmIs == TxInv <=> (~raced => TxCalm)
  BY DEF TxInv, TxCalm, TxInStep, SentInOrder

\* Steps that change no descriptor, no sequence and neither TINT nor the
\* service of it.
LEMMA TxUntouched ==
  ASSUME TxCalm, UNCHANGED <<tx_own, tx_buf, dtx, tx_n, accepted, wire>>,
         "TINT" \in csr0' <=> "TINT" \in csr0,
         t' = "fill" => t = "fill" /\ t_n' = t_n,
         h' # "idle" /\ "TINT" \in status' => "TINT" \in csr0',
         h' = "ack" /\ "TINT" \in status' <=> h = "ack" /\ "TINT" \in status
  PROVE  TxCalm'
  <1>1. TxUnserved' = TxUnserved
    BY DEF TxUnserved
  <1>2. TxOutstanding'
    BY DEF TxCalm, TxOutstanding
  <1> QED
    BY <1>1, <1>2 DEF TxCalm, Step

\* A frame given to a free descriptor tx_n while nothing is outstanding.
LEMMA TxGive ==
  ASSUME TypeOK, TxCalm, NEW f \in 0 .. MaxTx, Give(tx_n, f), ~tx_own[tx_n],
         "TINT" \notin csr0, UNCHANGED <<dtx, tx_n, wire, csr0>>,
         t' # "fill", h' # "idle" /\ "TINT" \in status' => "TINT" \in csr0'
  PROVE  TxCalm'
  <1>1. /\ tx_own' = [tx_own EXCEPT ![tx_n] = TRUE]
        /\ tx_buf' = [tx_buf EXCEPT ![tx_n] = f]
        /\ accepted' = Append(accepted, f)
    BY DEF Give
  <1>2. /\ Len(accepted') = Len(accepted) + 1 /\ accepted'[Len(accepted) + 1] = f
        /\ \A k \in 1 .. Len(accepted) : accepted'[k] = accepted[k]
    BY <1>1 DEF TypeOK
  <1>3. Len(accepted) = Len(wire) /\ Len(wire) \in Nat
    BY DEF TxCalm, TxOutstanding, TypeOK
  <1>4. tx_own'[tx_n] /\ tx_buf'[tx_n] = f /\ \A i \in Slots : tx_own'[i] => i = tx_n
    BY <1>1 DEF TxCalm, TxOutstanding, TypeOK
  <1>5. TxOutstanding'
    BY <1>2, <1>3, <1>4 DEF TxOutstanding
  <1>6. ~TxUnserved /\ ~TxUnserved'
    BY DEF TxUnserved
  <1> QED
    BY <1>2, <1>3, <1>5, <1>6 DEF TxCalm

\* Steps of the thread.
LEMMA TxThread == ASSUME TypeOK, TxCalm, Thread, ~raced' PROVE TxCalm'
  <1>1. CASE SelectCsr3 \/ ReadCsr3 \/ WriteCsr3 \/ Start
    BY <1>1, TxUntouched DEF SelectCsr3, ReadCsr3, WriteCsr3, Start, Goto, regs, tx, irq,
                             TxCalm, TxOutstanding
  <1>2. CASE SendCheck
    <2>1. CASE tx_own[tx_n]
      BY <1>2, <2>1, TxUntouched DEF SendCheck, Goto, regs, irq, TxCalm, TxOutstanding
    <2>2. CASE ~tx_own[tx_n]
      <3>1. h = "idle" /\ ~TxUnserved /\ t_n' = tx_n /\ tx_n' = tx_n
        BY <1>2, <2>2 DEF SendCheck, Goto
      <3>2. "TINT" \notin csr0 /\ csr0' = csr0 /\ h' = h /\ status' = status
        BY <1>2, <3>1 DEF TxUnserved, SendCheck, regs, irq
      <3>3. UNCHANGED <<tx_own, tx_buf, dtx, tx_n, accepted, wire>>
        BY <1>2 DEF SendCheck
      <3>4. TxOutstanding'
        BY <2>2, <3>1, <3>2, <3>3 DEF TxCalm, TxOutstanding
      <3>5. TxUnserved' = TxUnserved
        BY <3>2 DEF TxUnserved
      <3> QED BY <3>3, <3>4, <3>5 DEF TxCalm, Step
    <2> QED BY <2>1, <2>2
  <1>3. CASE SendGive
    <2>1. t = "fill" /\ t_n = tx_n /\ ~tx_own[tx_n] /\ "TINT" \notin csr0 /\ t' # "fill"
      BY <1>3 DEF SendGive, Goto, TxCalm, TxOutstanding
    <2>2. Give(tx_n, t_frame) /\ t_frame \in 0 .. MaxTx
      BY <1>3, <2>1 DEF SendGive, TypeOK
    <2>3. UNCHANGED <<dtx, tx_n, wire, csr0, h, status>> /\ h = "idle"
      BY <1>3 DEF SendGive, Goto, regs, irq
    <2> QED BY <2>1, <2>2, <2>3, TxGive
  <1> QED
    BY <1>1, <1>2, <1>3 DEF Thread

\* Steps of irq(). A reply that is not a race finds the ring as the thread
\* would.
LEMMA TxIrq == ASSUME TypeOK, TxCalm, Irq, ~raced' PROVE TxCalm'
  <1>1. CASE IrqRead
    BY <1>1, TxUntouched DEF IrqRead, thread, tx
  <1>2. CASE IrqReturnSlot \/ IrqNoRx
    BY <1>2, TxUntouched DEF IrqReturnSlot, IrqNoRx, thread, regs, tx, TxCalm, TxOutstanding
  <1>3. CASE IrqHandle
    <2>1. /\ h = "rx" /\ h' = "own" /\ status' = status /\ UNCHANGED <<t, t_n, csr0>>
          /\ ("TINT" \in status => "TINT" \in csr0)
      BY <1>3 DEF IrqHandle, thread, regs, TxCalm, TxOutstanding
    <2>2. CASE UNCHANGED tx
      BY <2>1, <2>2, TxUntouched DEF tx
    <2>3. CASE Reply /\ tx_own[tx_n]
      BY <2>1, <2>3, TxUntouched DEF Reply
    <2>4. CASE Reply /\ ~tx_own[tx_n]
      <3>1. t # "fill" /\ ~TxUnserved /\ Give(tx_n, calls')
        BY <2>4 DEF Reply
      <3>2. calls' \in 0 .. MaxTx /\ UNCHANGED <<dtx, tx_n, wire>>
        BY <2>4, PcnetAssumption DEF Reply, TypeOK
      <3>3. "TINT" \notin csr0
        BY <2>1, <3>1 DEF TxUnserved
      <3> QED BY <2>1, <2>4, <3>1, <3>2, <3>3, TxGive
    <2> QED BY <1>3, <2>2, <2>3, <2>4 DEF IrqHandle
  <1>4. CASE IrqTx
    <2>1. /\ h = "tx" /\ h' = "ack" /\ status' = status /\ UNCHANGED <<t, t_n, csr0>>
          /\ UNCHANGED <<tx_own, tx_buf, dtx, accepted, wire>>
          /\ ("TINT" \in status => "TINT" \in csr0)
      BY <1>4 DEF IrqTx, thread, regs, TxCalm, TxOutstanding
    <2>2. CASE "TINT" \notin status
      <3>1. tx_n' = tx_n
        BY <1>4, <2>2 DEF IrqTx
      <3> QED BY <2>1, <2>2, <3>1, TxUntouched
    <2>3. CASE "TINT" \in status
      <3>1. tx_n' = Step(tx_n) /\ tx_n' \in Slots /\ tx_n \in Slots
        BY <1>4, <2>3, StepType DEF IrqTx, TypeOK
      <3>2. (\A i \in Slots : ~tx_own[i]) /\ t # "fill" /\ "TINT" \in csr0
        BY <2>1, <2>3 DEF TxCalm, TxOutstanding
      <3>3. TxUnserved /\ ~TxUnserved'
        BY <2>1, <2>3, <3>2 DEF TxUnserved
      <3>4. TxOutstanding'
        BY <2>1, <3>1, <3>2 DEF TxCalm, TxOutstanding
      <3> QED BY <2>1, <3>1, <3>3, <3>4 DEF TxCalm
    <2> QED BY <2>2, <2>3
  <1>5. CASE IrqAck
    <2>1. /\ h = "ack" /\ h' = "idle" /\ status' = status /\ UNCHANGED <<t, t_n>>
          /\ UNCHANGED <<tx_own, tx_buf, dtx, tx_n, accepted, wire>>
          /\ "TINT" \in csr0' <=> ("TINT" \in csr0 /\ "TINT" \notin status)
      BY <1>5 DEF IrqAck, thread, tx
    <2>2. TxUnserved' = TxUnserved
      BY <2>1 DEF TxUnserved
    <2>3. TxOutstanding'
      BY <2>1 DEF TxCalm, TxOutstanding
    <2> QED BY <2>1, <2>2, <2>3 DEF TxCalm, Step
  <1> QED
    BY <1>1, <1>2, <1>3, <1>4, <1>5 DEF Irq

\* Steps of the card: it sends the one descriptor it was given.
LEMMA TxCard == ASSUME TypeOK, TxCalm, Card, ~raced' PROVE TxCalm'
  <1>1. CASE CardInit \/ CardReceive
    BY <1>1, TxUntouched DEF CardInit, CardReceive, thread, tx, irq, TxCalm, TxOutstanding
  <1>2. CASE CardTransmit
    <2>1. /\ tx_own[dtx] /\ tx_own' = [tx_own EXCEPT ![dtx] = FALSE] /\ dtx' = Step(dtx)
          /\ wire' = Append(wire, tx_buf[dtx]) /\ "TINT" \in csr0'
          /\ UNCHANGED <<t, t_n, h, status, tx_buf, tx_n, accepted>>
      BY <1>2 DEF CardTransmit, thread, irq
    <2>2. dtx = tx_n /\ "TINT" \notin csr0 /\ tx_n \in Slots
      BY <2>1 DEF TxCalm, TxOutstanding, TypeOK
    <2>3. t # "fill" /\ (h # "idle" => "TINT" \notin status)
      BY <2>1, <2>2 DEF TxCalm, TxOutstanding
    <2>4. \A i \in Slots : ~tx_own'[i]
      BY <2>1, <2>2 DEF TxCalm, TxOutstanding, TypeOK
    <2>5. Len(accepted) = Len(wire) + 1 /\ tx_buf[dtx] = accepted[Len(wire) + 1]
      BY <2>1, <2>2 DEF TxCalm, TxOutstanding
    <2>6. /\ Len(wire') = Len(wire) + 1 /\ wire'[Len(wire) + 1] = tx_buf[dtx]
          /\ \A k \in 1 .. Len(wire) : wire'[k] = wire[k]
          /\ Len(wire) \in Nat
      BY <2>1 DEF TypeOK
    <2>7. TxOutstanding'
      BY <2>1, <2>2, <2>3, <2>4, <2>5, <2>6 DEF TxOutstanding
    <2>8. TxUnserved'
      BY <2>1, <2>3 DEF TxUnserved
    <2>9. \A k \in 1 .. Len(wire') : wire'[k] = accepted'[k]
      BY <2>1, <2>5, <2>6 DEF TxCalm
    <2> QED BY <2>1, <2>2, <2>5, <2>6, <2>7, <2>8, <2>9 DEF TxCalm
  <1> QED
    BY <1>1, <1>2 DEF Card

\* Every step keeps the transmit side in order.
LEMMA TxStep == ASSUME TypeOK, TxInv, [Next]_vars PROVE TxInv'
  <1> SUFFICES ASSUME ~raced' PROVE TxCalm'
    BY DEF TxInv, TxCalm, TxInStep, SentInOrder
  <1>1. TxCalm
    BY RacedStays, TxCalmIs
  <1>2. CASE UNCHANGED vars
    BY <1>1, <1>2, TxUntouched DEF vars, thread, regs, tx, irq, TxCalm, TxOutstanding
  <1> QED
    BY <1>1, <1>2, TxThread, TxIrq, TxCard DEF Next

----------------------------------------------------------------------------
(* The theorems.                                                           *)

\* The invariant behind the ring protocol holds in every reachable state.
THEOREM PcnetInvariant == Spec => []PcnetInv
  <1>1. PcnetInv /\ [Next]_vars => PcnetInv'
    BY TypeStep, RxStep, TxStep DEF PcnetInv, RxInv, TxInv
  <1> QED
    BY InitHolds, <1>1, PTL DEF Spec

\* Every variable keeps its range.
THEOREM TypeCorrect == Spec => []TypeOK
  <1>1. PcnetInv => TypeOK
    BY DEF PcnetInv
  <1> QED
    BY PcnetInvariant, <1>1, PTL

\* irq() never touches a receive descriptor that the card owns.
THEOREM SlotsSafe == Spec => []SlotIsDrivers
  <1>1. PcnetInv => SlotIsDrivers
    BY FilledSlot DEF PcnetInv, RxPending, SlotIsDrivers
  <1> QED
    BY PcnetInvariant, <1>1, PTL

\* handle_packet sees the received frames in order, each once.
THEOREM ReceiveOrder == Spec => []HandledInOrder
  <1>1. PcnetInv => HandledInOrder
    BY DEF PcnetInv
  <1> QED
    BY PcnetInvariant, <1>1, PTL

\* Without a race the driver and the card agree on the next descriptor.
THEOREM TransmitInStep == Spec => []TxInStep
  <1>1. PcnetInv => TxInStep
    BY DEF PcnetInv
  <1> QED
    BY PcnetInvariant, <1>1, PTL

\* Without a race frames leave in the order they were accepted, each once.
THEOREM TransmitOrder == Spec => []SentInOrder
  <1>1. PcnetInv => SentInOrder
    BY DEF PcnetInv
  <1> QED
    BY PcnetInvariant, <1>1, PTL
============================================================================
