----------------------------- MODULE DhcpProofs -----------------------------
(***************************************************************************)
(* Proofs about module Dhcp, for every ring size, every set of addresses   *)
(* and any amount of traffic: what dhcp::init asks for and takes, and when *)
(* the ARP responder in the interrupt may answer.                          *)
(***************************************************************************)
EXTENDS Dhcp, TLAPS

Reading == {"store", "again", "take"}
Parsing == {"check_op", "options", "request", "set_ip"}
Setup   == {"register", "clear", "discover"}
Points  == Setup \cup Reading \cup Parsing \cup
           {"recv", "load", "hlt", "asleep", "gave_up", "fault", "new_entry", "link", "done"}

\* Where everything is, and that a RINT stands for a frame not yet handled.
DhcpTypes ==
    /\ pc \in Points /\ call \in {1, 2} /\ got_packet \in BOOLEAN
    /\ pc \in Setup \cup {"check_op", "options", "request"} => call = 1
    /\ pc \in {"set_ip", "new_entry", "link", "done"} => call = 2
    /\ data \in 0 .. N - 1 /\ recv_buffer \in 0 .. N - 1
    /\ DOMAIN slots = 0 .. N - 1
    /\ handled \in Nat /\ arrived \in Nat /\ handled <= arrived /\ arrived - handled <= N
    /\ h \in {"idle", "irq"}
    /\ "RINT" \in csr0 \/ (h = "irq" /\ "RINT" \in status) => handled < arrived

\* The cache gets its entry in dhcp::init's last step, and the entry is complete.
ArpInv ==
    /\ cache => pc = "done"
    /\ pc \in {"link", "done"} => entry_ip = ip_addr
    /\ claimed # {} => pc = "done" /\ claimed \subseteq {ip_addr}

\* The frames that wait in the ring, by the number of their arrival.
Waiting == handled .. arrived - 1
Slot(k) == slots[k % N]
\* None of them is for port 68.
Quiet == \A k \in Waiting : Slot(k).kind \notin Bootp

\* The frame that the current call of recv is for.
Expected(f) ==
    IF call = 1 THEN f.kind = "offer" /\ f.addr \in offered
    ELSE \/ f.kind = "ack" /\ f.addr \in leased
         \/ f.kind = "nak" /\ f.addr = NoAddr

\* The socket holds a packet; before ClearFlag the flag means nothing.
Got  == got_packet /\ pc \notin {"register", "clear"}
Held == Got \/ pc \in Reading \cup Parsing

\* The conversation with the server: at any time there is at most one of the
\* message on its way out, the answer in the ring and the answer in dhcp::init's
\* hands, and it belongs to the current call of recv.
Conversation ==
    /\ outbox # << >> =>
        /\ \E m : outbox = <<m>> /\ m.kind = IF call = 1 THEN "discover" ELSE "request"
        /\ Quiet /\ ~Held
    /\ Held => Quiet
    /\ \A k \in Waiting : Slot(k).kind \in Bootp => Expected(Slot(k))
    /\ \A j, k \in Waiting : Slot(j).kind \in Bootp /\ Slot(k).kind \in Bootp => j = k
    /\ Got \/ pc \in Reading => Expected(slots[recv_buffer])
    /\ pc \in Parsing => Expected(slots[data])
    /\ pc \in Setup => outbox = << >> /\ Quiet /\ ~Got
    /\ pc \in {"again", "take"} \cup Parsing => ~got_packet
    /\ pc # "fault" /\ asked \subseteq offered
    /\ ip_addr \in leased \cup {NoAddr}

CalmInv == Calm => Conversation

DhcpInv == DhcpTypes /\ ArpInv /\ CalmInv

----------------------------------------------------------------------------
LEMMA Initially == Init => DhcpInv
  <1> SUFFICES ASSUME Init PROVE DhcpInv
    OBVIOUS
  <1>1. DhcpTypes
    BY DhcpAssumption DEF Init, DhcpTypes, Points, Setup, Reading, Parsing
  <1>2. ArpInv
    BY DEF Init, ArpInv
  <1>3. Waiting = {}
    BY DEF Init, Waiting
  <1>4. Conversation
    BY <1>3 DEF Init, Conversation, Quiet, Held, Got, Reading, Parsing, Setup
  <1> QED BY <1>1, <1>2, <1>4 DEF DhcpInv, CalmInv

----------------------------------------------------------------------------
(* Where things are: types.                                                *)

LEMMA KmainTypes == ASSUME DhcpTypes, Kmain PROVE DhcpTypes'
  <1> USE DEF DhcpTypes, Points, Setup, Reading, Parsing, Goto, sock, arp, nic, world
  <1>1. CASE RegisterSocket
    BY <1>1 DEF RegisterSocket
  <1>2. CASE ClearFlag
    BY <1>2 DEF ClearFlag
  <1>3. CASE DoDiscover
    BY <1>3 DEF DoDiscover, Send
  <1>4. CASE RecvEnter
    BY <1>4 DEF RecvEnter
  <1>5. CASE RecvLoad
    BY <1>5 DEF RecvLoad
  <1>6. CASE RecvHlt
    BY <1>6 DEF RecvHlt
  <1>7. CASE RecvStore
    BY <1>7 DEF RecvStore
  <1>8. CASE RecvTake
    BY <1>8 DEF RecvTake
  <1>9. CASE CheckOp
    BY <1>9 DEF CheckOp
  <1>10. CASE ReadOptions
    BY <1>10 DEF ReadOptions
  <1>11. CASE DoRequest
    BY <1>11 DEF DoRequest, Send
  <1>12. CASE SetIp
    BY <1>12 DEF SetIp
  <1>13. CASE FillEntry
    BY <1>13 DEF FillEntry
  <1>14. CASE LinkEntry
    BY <1>14 DEF LinkEntry
  <1> QED BY <1>1, <1>2, <1>3, <1>4, <1>5, <1>6, <1>7, <1>8, <1>9, <1>10, <1>11, <1>12,
             <1>13, <1>14 DEF Kmain

LEMMA IrqTypes == ASSUME DhcpTypes, Irq PROVE DhcpTypes'
  <1>1. CASE IrqEnter
    BY <1>1 DEF IrqEnter, DhcpTypes, main, sock, arp, world
  <1>2. CASE IrqLeave
    <2>1. handled % N \in 0 .. N - 1
      BY DhcpAssumption DEF DhcpTypes
    <2>2. /\ pc' \in Points /\ call' = call /\ h' = "idle"
          /\ pc' \in Setup \cup {"check_op", "options", "request"} => call = 1
          /\ pc' \in {"set_ip", "new_entry", "link", "done"} => call = 2
      BY <1>2 DEF IrqLeave, DhcpTypes, Points, Setup
    <2>3. got_packet' \in BOOLEAN /\ recv_buffer' \in 0 .. N - 1
      BY <1>2, <2>1 DEF IrqLeave, DhcpTypes, HandlePacket, UdpHandle
    <2>4. "RINT" \notin csr0'
      BY <1>2 DEF IrqLeave, HandlePacket
    <2>5. handled' \in Nat /\ handled' <= arrived /\ arrived - handled' <= N
      BY <1>2, DhcpAssumption DEF IrqLeave, DhcpTypes
    <2> QED BY <1>2, <2>2, <2>3, <2>4, <2>5 DEF IrqLeave, DhcpTypes
  <1> QED BY <1>1, <1>2 DEF Irq

LEMMA ArriveTypes == ASSUME DhcpTypes, NEW f, Arrive(f) PROVE DhcpTypes'
  <1>1. CASE arrived - handled < N
    BY <1>1, DhcpAssumption DEF Arrive, DhcpTypes, main, sock, arp
  <1>2. CASE ~(arrived - handled < N)
    BY <1>2 DEF Arrive, DhcpTypes, main, sock, arp
  <1> QED BY <1>1, <1>2

LEMMA WorldTypes == ASSUME DhcpTypes, Answer \/ Lose \/ Traffic PROVE DhcpTypes'
  <1>1. CASE Answer
    BY <1>1, ArriveTypes DEF Answer
  <1>2. CASE Lose
    BY <1>2 DEF Lose, DhcpTypes, main, sock, arp, nic
  <1>3. CASE Traffic
    BY <1>3, ArriveTypes DEF Traffic
  <1> QED BY <1>1, <1>2, <1>3

----------------------------------------------------------------------------
(* The ARP responder.                                                      *)

LEMMA KmainArp == ASSUME DhcpTypes, ArpInv, Kmain PROVE ArpInv'
  <1> USE DEF ArpInv, Goto, sock, arp, nic, world
  <1>1. CASE FillEntry
    BY <1>1 DEF FillEntry
  <1>2. CASE LinkEntry
    BY <1>2 DEF LinkEntry
  <1>3. CASE SetIp
    BY <1>3 DEF SetIp
  <1>4. CASE DoDiscover \/ DoRequest
    BY <1>4 DEF DoDiscover, DoRequest, Send
  <1>5. CASE RegisterSocket \/ ClearFlag \/ RecvEnter \/ RecvLoad \/ RecvHlt \/ RecvStore
             \/ RecvTake \/ CheckOp \/ ReadOptions
    BY <1>5 DEF RegisterSocket, ClearFlag, RecvEnter, RecvLoad, RecvHlt, RecvStore,
                RecvTake, CheckOp, ReadOptions
  <1> QED BY <1>1, <1>2, <1>3, <1>4, <1>5 DEF Kmain

LEMMA OthersArp == ASSUME DhcpTypes, ArpInv, Irq \/ Answer \/ Lose \/ Traffic PROVE ArpInv'
  <1> USE DEF ArpInv, main, sock, arp, nic, world
  <1>1. CASE IrqEnter
    BY <1>1 DEF IrqEnter
  <1>2. CASE IrqLeave
    BY <1>2 DEF IrqLeave, HandlePacket, UdpHandle, ArpMatches
  <1>3. ASSUME NEW f, Arrive(f) PROVE ArpInv'
    BY <1>3 DEF Arrive
  <1>4. CASE Answer
    BY <1>3, <1>4 DEF Answer
  <1>5. CASE Lose
    BY <1>5 DEF Lose
  <1>6. CASE Traffic
    BY <1>3, <1>6 DEF Traffic
  <1> QED BY <1>1, <1>2, <1>4, <1>5, <1>6 DEF Irq

----------------------------------------------------------------------------
(* The conversation with the server.                                       *)

\* kmain leaves the ring and the server's books alone.
LEMMA RingStays ==
  ASSUME UNCHANGED <<slots, handled, arrived>>
  PROVE  Waiting' = Waiting /\ Quiet' = Quiet /\ \A k \in Waiting : Slot(k)' = Slot(k)
  BY DEF Waiting, Quiet, Slot

LEMMA KmainConversation ==
  ASSUME DhcpTypes, Conversation, ~lapped, Kmain PROVE Conversation'
  <1> USE DEF Goto, sock, arp, nic, world
  <1>0. UNCHANGED <<slots, handled, arrived, offered, leased>>
    BY DEF Kmain, RegisterSocket, ClearFlag, DoDiscover, RecvEnter, RecvLoad, RecvHlt,
           RecvStore, RecvTake, CheckOp, ReadOptions, DoRequest, SetIp, FillEntry, LinkEntry
  <1> USE <1>0, RingStays DEF Conversation, DhcpTypes, Held, Got, Reading, Parsing, Setup, Expected
  <1>1. CASE RegisterSocket
    BY <1>1 DEF RegisterSocket
  <1>2. CASE ClearFlag
    BY <1>2 DEF ClearFlag
  <1>3. CASE DoDiscover
    BY <1>3 DEF DoDiscover, Send
  <1>4. CASE RecvEnter
    BY <1>4 DEF RecvEnter
  <1>5. CASE RecvLoad
    BY <1>5 DEF RecvLoad
  <1>6. CASE RecvHlt
    BY <1>6 DEF RecvHlt
  <1>7. CASE RecvStore
    BY <1>7 DEF RecvStore
  <1>8. CASE RecvTake
    BY <1>8 DEF RecvTake
  <1>9. CASE CheckOp
    BY <1>9 DEF CheckOp
  <1>10. CASE ReadOptions
    <2>1. slots[data].kind = "offer" /\ pc' # "fault"
      BY <1>10 DEF ReadOptions, Replies
    <2> QED BY <1>10, <2>1 DEF ReadOptions
  <1>11. CASE DoRequest
    <2>1. /\ outbox = << >> /\ Quiet /\ ~got_packet
          /\ slots[data].kind = "offer" /\ slots[data].addr \in offered
      BY <1>11 DEF DoRequest
    <2>2. asked' \subseteq offered' /\ ip_addr' = ip_addr /\ leased' = leased
      BY <1>11, <2>1 DEF DoRequest, Yiaddr, Bootp, Replies
    <2>3. \E m : outbox' = <<m>> /\ m.kind = "request"
      BY <1>11, <2>1 DEF DoRequest, Send
    <2>4. call' = 2 /\ pc' = "recv" /\ got_packet' = FALSE
      BY <1>11, <2>1 DEF DoRequest
    <2>5. Quiet' /\ \A k \in Waiting' : Slot(k)'.kind \notin Bootp
      BY <2>1 DEF Quiet
    <2> QED BY <2>2, <2>3, <2>4, <2>5
  <1>12. CASE SetIp
    BY <1>12 DEF SetIp, Yiaddr, Bootp, Replies
  <1>13. CASE FillEntry
    BY <1>13 DEF FillEntry
  <1>14. CASE LinkEntry
    BY <1>14 DEF LinkEntry
  <1> QED BY <1>1, <1>2, <1>3, <1>4, <1>5, <1>6, <1>7, <1>8, <1>9, <1>10, <1>11, <1>12,
             <1>13, <1>14 DEF Kmain

LEMMA IrqConversation ==
  ASSUME DhcpTypes, Conversation, Irq PROVE Conversation'
  <1> USE DEF Expected, Got, Held
  <1>1. CASE IrqEnter
    <2>1. UNCHANGED <<main, sock, slots, arrived, handled, world>>
      BY <1>1 DEF IrqEnter
    <2> QED BY <2>1, RingStays DEF Conversation, main, sock, world
  <1>2. CASE IrqLeave
    <2>1. /\ UNCHANGED <<call, data, ip_addr, asked, slots, arrived, outbox, offered, leased>>
          /\ pc' = IF pc = "asleep" THEN "load" ELSE pc
      BY <1>2 DEF IrqLeave
    <2>2. CASE "RINT" \notin status
      <3>1. UNCHANGED <<got_packet, recv_buffer, handled>>
        BY <1>2, <2>2 DEF IrqLeave
      <3> QED BY <2>1, <3>1, RingStays DEF Conversation, Reading, Parsing, Setup
    <2>3. CASE "RINT" \in status
      <3>1. handled \in Waiting /\ handled' = handled + 1
        BY <1>2, <2>3 DEF IrqLeave, DhcpTypes, Waiting
      <3>2. Waiting' = Waiting \ {handled} /\ \A k \in Waiting : Slot(k)' = Slot(k)
        BY <2>1, <3>1 DEF Waiting, DhcpTypes, Slot
      <3>3. CASE Slot(handled).kind \notin Bootp
        <4>1. UNCHANGED <<got_packet, recv_buffer>>
          BY <1>2, <2>3, <3>3 DEF IrqLeave, HandlePacket, UdpHandle, ToSocket, Slot
        <4>2. Quiet => Quiet'
          BY <3>2 DEF Quiet
        <4> QED BY <2>1, <3>2, <4>1, <4>2 DEF Conversation, Reading, Parsing, Setup
      <3>4. CASE Slot(handled).kind \in Bootp
        <4>1. ~Quiet
          BY <3>1, <3>4 DEF Quiet
        <4>2. outbox = << >> /\ ~Held /\ pc \notin Setup
          BY <4>1 DEF Conversation
        <4>3. Quiet' /\ \A k \in Waiting' : Slot(k)'.kind \notin Bootp
          BY <3>1, <3>2, <3>4 DEF Conversation, Quiet
        <4>4. Expected(Slot(handled))
          BY <3>1, <3>4 DEF Conversation
        <4>5. \/ got_packet' = TRUE /\ recv_buffer' = handled % N
              \/ UNCHANGED <<got_packet, recv_buffer>>
          BY <1>2, <2>3 DEF IrqLeave, HandlePacket, UdpHandle
        <4>6. Got' => Expected(slots[recv_buffer])'
          BY <2>1, <4>2, <4>4, <4>5 DEF Slot, Setup
        <4>7. pc' \notin Reading \cup Parsing \cup Setup
          BY <2>1, <4>2 DEF Reading, Parsing, Setup
        <4> QED BY <2>1, <4>2, <4>3, <4>6, <4>7 DEF Conversation, Reading, Parsing
      <3> QED BY <3>3, <3>4
    <2> QED BY <2>2, <2>3
  <1> QED BY <1>1, <1>2 DEF Irq

----------------------------------------------------------------------------
(* A frame arrives.                                                        *)

\* Numbers less than N apart have different remainders.
LEMMA DifferentSlots ==
  ASSUME NEW j \in Nat, NEW k \in Nat, j < k, k - j < N PROVE j % N # k % N
  <1>1. N \in Nat \ {0}
    BY DhcpAssumption
  <1>2. /\ j = N * (j \div N) + (j % N) /\ k = N * (k \div N) + (k % N)
        /\ j \div N \in Int /\ k \div N \in Int
    BY <1>1
  <1> SUFFICES ASSUME j % N = k % N PROVE FALSE
    OBVIOUS
  <1>3. k - j = N * (k \div N) - N * (j \div N)
    BY <1>1, <1>2
  <1> DEFINE q == (k \div N) - (j \div N)
  <1>4. q \in Int /\ k - j = N * q
    BY <1>1, <1>2, <1>3
  <1> HIDE DEF q
  <1>5. q <= 0 => N * q <= 0
    BY <1>1, <1>4
  <1>6. q >= 1 => N * q >= N
    BY <1>1, <1>4
  <1> QED BY <1>1, <1>4, <1>5, <1>6

\* The new frame is behind the ones that wait, in a slot of its own, and no
\* buffer that is still read is overwritten unless lapped says so.
LEMMA ArriveEffect ==
  ASSUME DhcpTypes, NEW f, Arrive(f), ~lapped'
  PROVE  /\ UNCHANGED <<main, sock, handled>>
         /\ \/ UNCHANGED <<slots, arrived>>
            \/ /\ Waiting' = Waiting \cup {arrived}
               /\ slots'[arrived % N] = f
               /\ \A k \in Waiting : Slot(k)' = Slot(k)
               /\ got_packet \/ pc \in Reading => slots'[recv_buffer] = slots[recv_buffer]
               /\ pc \in Parsing => slots'[data] = slots[data]
  <1>1. UNCHANGED <<main, sock, handled>>
    BY DEF Arrive
  <1>2. CASE arrived - handled >= N
    BY <1>1, <1>2, DhcpAssumption DEF Arrive, DhcpTypes
  <1>3. CASE arrived - handled < N
    <2> DEFINE i == arrived % N
    <2>1. /\ slots' = [slots EXCEPT ![i] = f] /\ arrived' = arrived + 1 /\ ~InUse(i)
      BY <1>3 DEF Arrive
    <2>2. i \in 0 .. N - 1
      BY DhcpAssumption DEF DhcpTypes
    <2>3. \A k \in Waiting : k % N # i /\ k % N \in 0 .. N - 1
      <3> SUFFICES ASSUME NEW k \in Waiting PROVE k % N # i /\ k % N \in 0 .. N - 1
        OBVIOUS
      <3>1. k \in Nat /\ k < arrived /\ arrived - k < N /\ arrived \in Nat
        BY <1>3, DhcpAssumption DEF DhcpTypes, Waiting
      <3>2. k % N # i
        BY <3>1, DifferentSlots
      <3> QED BY <3>1, <3>2, DhcpAssumption
    <2>4. Waiting' = Waiting \cup {arrived}
      BY <1>1, <2>1 DEF Waiting, DhcpTypes
    <2> HIDE DEF i
    <2>5. \A j \in 0 .. N - 1 : slots'[j] = IF j = i THEN f ELSE slots[j]
      BY <2>1, <2>2 DEF DhcpTypes
    <2>6. slots'[arrived % N] = f
      BY <2>2, <2>5 DEF i
    <2>7. \A k \in Waiting : Slot(k)' = Slot(k)
      BY <2>3, <2>5 DEF Slot
    <2>8. got_packet \/ pc \in Reading => slots'[recv_buffer] = slots[recv_buffer]
      BY <2>1, <2>5 DEF InUse, Reading, DhcpTypes
    <2>9. pc \in Parsing => slots'[data] = slots[data]
      BY <2>1, <2>5 DEF InUse, Parsing, DhcpTypes
    <2> QED BY <1>1, <2>4, <2>6, <2>7, <2>8, <2>9
  <1> QED BY <1>2, <1>3, DhcpAssumption DEF DhcpTypes

LEMMA TrafficConversation ==
  ASSUME DhcpTypes, Conversation, Traffic, ~lapped', ~stray' PROVE Conversation'
  <1> USE DEF Got, Held
  <1>1. PICK f \in Frame : Arrive(f) /\ f.kind \notin Bootp /\ UNCHANGED <<outbox, offered, leased>>
    BY DEF Traffic
  <1>2. CASE UNCHANGED <<slots, arrived>>
    BY <1>1, <1>2, ArriveEffect, RingStays DEF Conversation, Expected, main, sock
  <1>3. CASE ~UNCHANGED <<slots, arrived>>
    <2>1. /\ UNCHANGED <<main, sock>> /\ Waiting' = Waiting \cup {arrived}
          /\ slots'[arrived % N] = f /\ \A k \in Waiting : Slot(k)' = Slot(k)
          /\ got_packet \/ pc \in Reading => slots'[recv_buffer] = slots[recv_buffer]
          /\ pc \in Parsing => slots'[data] = slots[data]
      BY <1>1, <1>3, ArriveEffect
    <2>2. Quiet => Quiet'
      BY <1>1, <2>1 DEF Quiet, Slot
    <2>3. \A x : Expected(x)' = Expected(x)
      BY <1>1, <2>1 DEF Expected, main
    <2>4. \A k \in Waiting' : Slot(k)'.kind \in Bootp => k \in Waiting /\ Slot(k)' = Slot(k)
      BY <1>1, <2>1 DEF Slot
    <2> QED BY <1>1, <2>1, <2>2, <2>3, <2>4 DEF Conversation, main, sock
  <1> QED BY <1>2, <1>3

LEMMA LoseConversation == ASSUME Conversation, DhcpTypes, Lose PROVE Conversation'
  <1>1. /\ UNCHANGED <<main, sock, slots, handled, arrived, offered, leased>>
        /\ outbox # << >> /\ outbox' = Tail(outbox)
    BY DEF Lose, nic
  <1>2. outbox' = << >>
    <2>1. \E m : outbox = <<m>>
      BY <1>1 DEF Conversation
    <2>2. PICK m : outbox = <<m>>
      BY <2>1
    <2>3. Tail(<<m>>) = << >>
      OBVIOUS
    <2> QED BY ONLY <1>1, <2>2, <2>3
  <1> QED BY <1>1, <1>2, RingStays DEF Conversation, Expected, Got, Held, main, sock

\* The answer goes to the ring and the message is gone.
LEMMA AnswerConversation ==
  ASSUME DhcpTypes, Conversation, Answer, ~lapped' PROVE Conversation'
  <1> USE DEF Got, Held
  <1>1. PICK m : outbox = <<m>> /\ m.kind = IF call = 1 THEN "discover" ELSE "request"
    BY DEF Conversation, Answer
  <1>2. outbox # << >> /\ outbox' = << >> /\ Head(outbox) = m /\ Quiet /\ ~Held
    BY <1>1 DEF Conversation, Answer
  <1>3. PICK f : /\ Arrive(f) /\ offered \subseteq offered' /\ leased \subseteq leased'
                 /\ Expected(f)'
    <2>1. ASSUME NEW f, Arrive(f) PROVE call' = call
      BY <2>1 DEF Arrive, main
    <2>2. CASE call = 1
      <3>1. m.kind = "discover"
        BY <1>1, <2>2
      <3>2. PICK a \in Addrs : /\ Arrive([kind |-> "offer", addr |-> a])
                               /\ offered' = offered \cup {a} /\ leased' = leased
        BY <1>2, <3>1 DEF Answer
      <3> QED BY <2>1, <2>2, <3>2 DEF Expected
    <2>3. CASE call = 2
      <3>1. m.kind = "request"
        BY <1>1, <2>3
      <3>2. CASE /\ Arrive([kind |-> "ack", addr |-> m.addr])
                 /\ leased' = leased \cup {m.addr} /\ offered' = offered
        BY <2>1, <2>3, <3>2 DEF Expected
      <3>3. CASE /\ Arrive([kind |-> "nak", addr |-> NoAddr])
                 /\ leased' = leased /\ offered' = offered
        BY <2>1, <2>3, <3>3 DEF Expected
      <3> QED BY <1>2, <3>1, <3>2, <3>3 DEF Answer
    <2> QED BY <2>2, <2>3 DEF DhcpTypes
  <1>4. UNCHANGED <<main, sock>>
    BY <1>3 DEF Arrive
  <1>5. pc \notin Setup /\ ~Held' /\ pc' \notin Reading \cup Parsing
    BY <1>2, <1>4 DEF Conversation, main, sock
  <1>6. \A k \in Waiting' : Slot(k)'.kind \in Bootp => k = arrived /\ Slot(k)' = f
    <2>1. CASE UNCHANGED <<slots, arrived>>
      BY <1>2, <1>3, <2>1, ArriveEffect, RingStays DEF Quiet
    <2>2. CASE ~UNCHANGED <<slots, arrived>>
      BY <1>2, <1>3, <2>2, ArriveEffect DEF Quiet, Slot
    <2> QED BY <2>1, <2>2
  <1>7. \A k \in Waiting' : Slot(k)'.kind \in Bootp => Expected(Slot(k))'
    BY <1>3, <1>6
  <1> QED BY <1>2, <1>3, <1>4, <1>5, <1>6, <1>7 DEF Conversation, main, sock

----------------------------------------------------------------------------
(* The theorems.                                                           *)

LEMMA CalmStays == ASSUME [Next]_vars, Calm' PROVE Calm
  <1> USE DEF Calm, world
  <1>1. CASE Kmain
    BY <1>1 DEF Kmain, RegisterSocket, ClearFlag, DoDiscover, RecvEnter, RecvLoad, RecvHlt,
           RecvStore, RecvTake, CheckOp, ReadOptions, DoRequest, SetIp, FillEntry, LinkEntry
  <1>2. CASE Irq
    BY <1>2 DEF Irq, IrqEnter, IrqLeave
  <1>3. ASSUME NEW f, Arrive(f) PROVE ~lapped
    BY <1>3 DEF Arrive
  <1>4. CASE Answer
    <2>1. stray' = stray /\ ~lapped
      BY <1>3, <1>4 DEF Answer
    <2> QED BY <2>1
  <1>5. CASE Lose
    BY <1>5 DEF Lose
  <1>6. CASE Traffic
    <2>1. ~lapped
      BY <1>3, <1>6 DEF Traffic
    <2>2. ~stray
      BY <1>6 DEF Traffic
    <2> QED BY <2>1, <2>2
  <1>7. CASE UNCHANGED vars
    BY <1>7 DEF vars
  <1> QED BY <1>1, <1>2, <1>4, <1>5, <1>6, <1>7 DEF Next

\* The inductive invariant of dhcp::init: the ARP cache is empty until its last
\* step, and as long as the environment is calm there is one message or answer
\* under way at a time, the one that the current recv waits for.
THEOREM DhcpInvariant == Spec => []DhcpInv
  <1>1. DhcpInv /\ UNCHANGED vars => DhcpInv'
    <2> SUFFICES ASSUME DhcpInv, UNCHANGED vars PROVE DhcpInv'
      OBVIOUS
    <2> USE DEF vars, main, sock, arp, nic, world
    <2>1. DhcpTypes'
      BY DEF DhcpInv, DhcpTypes
    <2>2. ArpInv'
      BY DEF DhcpInv, ArpInv
    <2>3. CalmInv'
      BY RingStays DEF DhcpInv, CalmInv, Calm, Conversation, Expected, Got, Held
    <2> QED BY <2>1, <2>2, <2>3 DEF DhcpInv
  <1>2. DhcpInv /\ Next => DhcpInv'
    <2> SUFFICES ASSUME DhcpInv, Next PROVE DhcpInv'
      OBVIOUS
    <2>1. DhcpTypes'
      BY KmainTypes, IrqTypes, WorldTypes DEF DhcpInv, Next
    <2>2. ArpInv'
      BY KmainArp, OthersArp DEF DhcpInv, Next
    <2>3. ASSUME Calm' PROVE Conversation'
      <3>1. Conversation /\ DhcpTypes /\ ~lapped /\ ~lapped' /\ ~stray'
        BY <2>3, CalmStays DEF DhcpInv, CalmInv, Calm
      <3> QED BY <3>1, KmainConversation, IrqConversation, AnswerConversation,
                 LoseConversation, TrafficConversation DEF Next
    <2> QED BY <2>1, <2>2, <2>3 DEF DhcpInv, CalmInv
  <1> QED BY Initially, <1>1, <1>2, PTL DEF Spec

\* dhcp::init requests only an address that the server has offered.
THEOREM RequestsSafe == Spec => []AsksForOffer
  <1>1. DhcpInv => AsksForOffer
    BY DEF DhcpInv, CalmInv, Conversation, AsksForOffer
  <1> QED BY DhcpInvariant, <1>1, PTL

\* The address handed to set_ip is one the server has confirmed, or 0.0.0.0:
\* the second recv does not return the offer again, for every ring size.
THEOREM LeaseSafe == Spec => []IpIsLeased
  <1>1. DhcpInv => IpIsLeased
    BY DEF DhcpInv, CalmInv, Conversation, IpIsLeased
  <1> QED BY DhcpInvariant, <1>1, PTL

\* The walk over the options ends inside the reply: as long as only the server's
\* answers reach port 68 and no buffer is overwritten, it does not run into
\* memory that is not mapped.
THEOREM WalkEnds == Spec => [](Calm => pc # "fault")
  <1>1. DhcpInv => (Calm => pc # "fault")
    BY DEF DhcpInv, CalmInv, Conversation
  <1> QED BY DhcpInvariant, <1>1, PTL

\* Whatever arrives and whenever, the ARP responder answers for no address but
\* the client's own.
THEOREM ClaimsSafe == Spec => []ClaimsOwnAddress
  <1>1. DhcpInv => ClaimsOwnAddress
    BY DEF DhcpInv, ArpInv, ClaimsOwnAddress
  <1> QED BY DhcpInvariant, <1>1, PTL

\* The allocation that an ARP reply makes in the interrupt never meets one of
\* dhcp::init: the heap needs no lock there.
THEOREM HeapSafe == Spec => []HeapNotReentered
  <1>1. DhcpInv => HeapNotReentered
    BY DEF DhcpInv, ArpInv, ArpMatches, HeapNotReentered
  <1> QED BY DhcpInvariant, <1>1, PTL
=============================================================================
