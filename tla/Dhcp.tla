-------------------------------- MODULE Dhcp --------------------------------
(***************************************************************************)
(* dhcp::init (net/dhcp.cpp) on kmain's thread, on top of UDPSocket and    *)
(* its one-flag hand-over (net/udp.cpp), the demultiplexing of received    *)
(* frames (net/ethernet.cpp, net/ip.cpp) and the ARP responder and cache   *)
(* (net/arp.cpp), which run inside the network card's interrupt.           *)
(*                                                                         *)
(* Received frames are never copied: recv_buffer points into the driver's  *)
(* receive ring, whose slot is the card's again when the interrupt ends.   *)
(* IRQ0 is masked until dhcp::init has returned, so only the card wakes a  *)
(* CPU that has executed hlt. The card serves one frame per RINT, as in    *)
(* module Pcnet. The DHCP server and the network are external. kmain is    *)
(* taken to keep its registers over an interrupt, though the stub of a     *)
(* device IRQ saves none (interrupts.asm:10-14): module Tasks is about it. *)
(***************************************************************************)
EXTENDS Integers, Sequences

CONSTANTS N,            \* receive descriptors (8 in the code)
          MaxFrames,    \* bound: frames the card receives
          Addrs         \* the addresses the server hands out

ASSUME DhcpAssumption == N \in Nat \ {0} /\ MaxFrames \in Nat /\ 0 \notin Addrs

VARIABLES
    pc,                     \* where kmain is
    call,                   \* 1: recv of the offer, 2: recv of the answer
    socket,                 \* sockets[68] is set
    got_packet, recv_buffer,
    data,                   \* what recv returned
    ip_addr,
    cache, entry_ip,        \* the ARP cache is not empty; ip of its entry
    h, status, csr0,        \* irq(): running, what it read; the card's bits
    slots, arrived, handled,\* receive buffers; frames written, frames handled
    outbox,                 \* messages on their way to the server
    offered, leased,        \* what the server has offered and confirmed
    asked,                  \* addresses dhcp::init has requested
    claimed,                \* addresses ARP replies have claimed
    lost, stray, lapped     \* what the environment has done

sock  == <<socket, got_packet, recv_buffer>>
arp   == <<cache, entry_ip>>
nic   == <<h, status, csr0, slots, arrived, handled>>
world == <<outbox, offered, leased, claimed, lost, stray, lapped>>
main  == <<pc, call, data, ip_addr, asked>>
vars  == <<main, sock, arp, nic, world>>

NoAddr == 0                     \* 0.0.0.0
Garbage == -1                   \* the bytes of some other frame
AnyAddr == Addrs \cup {NoAddr, Garbage}
Replies == {"offer", "ack", "nak"}              \* options 53 and 255 are there
Bootp   == Replies \cup {"bootrequest", "bootp"} \* bootp: a reply without options
Frame   == [kind : Bootp \cup {"arp", "other"}, addr : AnyAddr]

\* The fields of bootp_message as they are read from whatever is in the slot.
Yiaddr(f) == IF f.kind \in Bootp THEN f.addr ELSE Garbage

Init ==
    /\ pc = "register" /\ call = 1 /\ data = 0 /\ ip_addr = NoAddr /\ asked = {}
    /\ socket = FALSE /\ got_packet \in BOOLEAN /\ recv_buffer = 0
    /\ cache = FALSE /\ entry_ip \in Addrs \cup {NoAddr}
    /\ h = "idle" /\ status = {} /\ csr0 = {} /\ arrived = 0 /\ handled = 0
    /\ slots = [i \in 0 .. N - 1 |-> [kind |-> "other", addr |-> NoAddr]]
    /\ outbox = << >> /\ offered = {} /\ leased = {} /\ claimed = {}
    /\ lost = FALSE /\ stray = FALSE /\ lapped = FALSE

----------------------------------------------------------------------------
(* kmain. It runs while the card's interrupt is not being served.          *)

Goto(from, to) == h = "idle" /\ pc = from /\ pc' = to

\* new UDPSocket(68): the socket is reachable before its flag is set.
RegisterSocket ==
    /\ Goto("register", "clear")
    /\ socket' = TRUE
    /\ UNCHANGED <<call, data, ip_addr, asked, got_packet, recv_buffer, arp, nic, world>>

ClearFlag ==
    /\ Goto("clear", "discover")
    /\ got_packet' = FALSE
    /\ UNCHANGED <<call, data, ip_addr, asked, socket, recv_buffer, arp, nic, world>>

\* sendto, udp::send, ip::send_packet, net::send and the card: one message.
Send(m) == outbox' = Append(outbox, m) /\ csr0' = csr0 \cup {"TINT"}

DoDiscover ==
    /\ Goto("discover", "recv")
    /\ Send([kind |-> "discover", addr |-> NoAddr])
    /\ UNCHANGED <<call, data, ip_addr, asked, sock, arp, h, status, slots, arrived,
                   handled, offered, leased, claimed, lost, stray, lapped>>

\* Mutant: recv forgets a packet that came before it was called.
RecvEnterClears ==
    /\ Goto("recv", "load")
    /\ got_packet' = FALSE
    /\ UNCHANGED <<call, data, ip_addr, asked, socket, recv_buffer, arp, nic, world>>

\* Line 43 of udp.cpp only prints the flag.
RecvEnter ==
    /\ Goto("recv", "load")
    /\ UNCHANGED <<call, data, ip_addr, asked, sock, arp, nic, world>>

RecvLoad ==
    /\ Goto("load", IF got_packet THEN "store" ELSE "hlt")
    /\ UNCHANGED <<call, data, ip_addr, asked, sock, arp, nic, world>>

\* An interrupt that comes before this instruction wakes nobody.
RecvHlt ==
    /\ Goto("hlt", "asleep")
    /\ UNCHANGED <<call, data, ip_addr, asked, sock, arp, nic, world>>

\* Lines 49 and 51 both clear the flag.
RecvStore ==
    /\ Goto("store", "again") \/ Goto("again", "take")
    /\ got_packet' = FALSE
    /\ UNCHANGED <<call, data, ip_addr, asked, socket, recv_buffer, arp, nic, world>>

RecvTake ==
    /\ Goto("take", IF call = 1 THEN "check_op" ELSE "set_ip")
    /\ data' = recv_buffer
    /\ UNCHANGED <<call, ip_addr, asked, sock, arp, nic, world>>

\* header->op must be BOOTREPLY. Another frame's bytes may hold anything.
CheckOp ==
    /\ \/ slots[data].kind # "bootrequest" /\ Goto("check_op", "options")
       \/ slots[data].kind \notin Bootp \ {"bootrequest"} /\ Goto("check_op", "gave_up")
    /\ UNCHANGED <<call, data, ip_addr, asked, sock, arp, nic, world>>

\* The loop over the options: option 53 must say DHCPOFFER. Only option 255
\* ends it. Without one it reads on behind the frame, until the memory there
\* holds one at the right place, or it holds a 53, or a page is not mapped:
\* isr_handler stops the machine. So may a walk whose buffer is overwritten.
\* The replies of a DHCP server are taken to have no pad option before the end.
ReadOptions ==
    /\ LET kind == slots[data].kind
       IN  \/ (kind \notin {"ack", "nak"} \/ lapped) /\ Goto("options", "request")
           \/ (kind # "offer" \/ lapped) /\ Goto("options", "gave_up")
           \/ (kind \notin Replies \/ lapped) /\ Goto("options", "fault")
    /\ UNCHANGED <<call, data, ip_addr, asked, sock, arp, nic, world>>

\* Mutant: the address is used without waiting for the server.
RequestNoWait ==
    /\ Goto("request", "set_ip")
    /\ call' = 2
    /\ asked' = asked \cup {Yiaddr(slots[data])}
    /\ Send([kind |-> "request", addr |-> Yiaddr(slots[data])])
    /\ UNCHANGED <<data, ip_addr, sock, arp, h, status, slots, arrived, handled,
                   offered, leased, claimed, lost, stray, lapped>>

DoRequest ==
    /\ Goto("request", "recv")
    /\ call' = 2
    /\ asked' = asked \cup {Yiaddr(slots[data])}
    /\ Send([kind |-> "request", addr |-> Yiaddr(slots[data])])
    /\ UNCHANGED <<data, ip_addr, sock, arp, h, status, slots, arrived, handled,
                   offered, leased, claimed, lost, stray, lapped>>

\* Mutant: the address is published before the entry is allocated.
SetIpCached ==
    /\ Goto("set_ip", "new_entry")
    /\ ip_addr' = Yiaddr(slots[data])
    /\ cache' = TRUE /\ entry_ip' = ip_addr'
    /\ UNCHANGED <<call, data, asked, sock, nic, world>>

\* Neither the type of the second answer nor its xid is looked at.
SetIp ==
    /\ Goto("set_ip", "new_entry")
    /\ ip_addr' = Yiaddr(slots[data])
    /\ UNCHANGED <<call, data, asked, sock, arp, nic, world>>

\* Mutant: the entry is linked before its fields are copied.
LinkUnfilled ==
    /\ Goto("new_entry", "link")
    /\ cache' = TRUE
    /\ UNCHANGED <<call, data, ip_addr, asked, sock, entry_ip, nic, world>>

\* add_cache_entry: the entry is complete before it is linked.
FillEntry ==
    /\ Goto("new_entry", "link")
    /\ entry_ip' = ip_addr
    /\ UNCHANGED <<call, data, ip_addr, asked, sock, cache, nic, world>>

LinkEntry ==
    /\ Goto("link", "done")
    /\ cache' = TRUE
    /\ UNCHANGED <<call, data, ip_addr, asked, sock, entry_ip, nic, world>>

----------------------------------------------------------------------------
(* The card and its interrupt.                                             *)

\* A buffer that kmain has been told about and has not finished with.
InUse(i) ==
    \/ i = data /\ pc \in {"check_op", "options", "request", "set_ip"}
    \/ i = recv_buffer /\ (got_packet \/ pc \in {"store", "again", "take"})

\* The card writes frame f into its next slot; a full ring misses it.
Arrive(f) ==
    /\ arrived < MaxFrames
    /\ IF arrived - handled < N
       THEN LET i == arrived % N
            IN  /\ slots' = [slots EXCEPT ![i] = f]
                /\ arrived' = arrived + 1
                /\ csr0' = csr0 \cup {"RINT"}
                /\ lapped' = (lapped \/ InUse(i))
                /\ UNCHANGED lost
       ELSE lost' = TRUE /\ UNCHANGED <<slots, arrived, csr0, lapped>>
    /\ UNCHANGED <<main, sock, arp, h, status, handled, claimed>>

IrqEnter ==
    /\ h = "idle" /\ csr0 # {} /\ pc # "fault"
    /\ h' = "irq" /\ status' = csr0
    /\ UNCHANGED <<main, sock, arp, csr0, slots, arrived, handled, world>>

\* Mutant: the destination port is not looked at.
ToSocketAnyPort(f) == f.kind # "arp" /\ socket

\* protocol 17 and a socket on the destination port.
ToSocket(f) == f.kind \in Bootp /\ socket

\* The socket learns of the packet and where in the ring it lies.
UdpHandle(i) ==
    IF ToSocket(slots[i]) THEN got_packet' = TRUE /\ recv_buffer' = i
                          ELSE UNCHANGED <<got_packet, recv_buffer>>

\* get_by_ip finds the address asked for; the opcode is not looked at.
ArpMatches(f) == f.kind = "arp" /\ cache /\ entry_ip = f.addr

\* ether_type selects IP or ARP; the acknowledgement of irq() follows. A reply
\* is sent after it.
HandlePacket(i) ==
    /\ UdpHandle(i)
    /\ IF ArpMatches(slots[i])
       THEN /\ claimed' = claimed \cup {entry_ip}
            /\ csr0' = (csr0 \ (status \cup {"RINT"})) \cup {"TINT"}
       ELSE /\ csr0' = csr0 \ (status \cup {"RINT"})
            /\ UNCHANGED claimed

\* The rest of irq(), the acknowledgement and the iret: hlt is left.
IrqLeave ==
    /\ h = "irq" /\ h' = "idle"
    /\ IF "RINT" \in status
       THEN HandlePacket(handled % N) /\ handled' = handled + 1
       ELSE /\ csr0' = csr0 \ (status \cup {"RINT"})
            /\ UNCHANGED <<got_packet, recv_buffer, claimed, handled>>
    /\ pc' = IF pc = "asleep" THEN "load" ELSE pc
    /\ UNCHANGED <<call, data, ip_addr, asked, socket, arp, status, slots, arrived,
                   outbox, offered, leased, lost, stray, lapped>>

----------------------------------------------------------------------------
(* The server and the network.                                             *)

\* The server answers the oldest message, with at most one frame.
Answer ==
    /\ outbox # << >> /\ outbox' = Tail(outbox)
    /\ LET m == Head(outbox)
       IN  \/ /\ m.kind = "discover"
              /\ \E a \in Addrs : /\ Arrive([kind |-> "offer", addr |-> a])
                                  /\ offered' = offered \cup {a}
              /\ UNCHANGED leased
           \/ /\ m.kind = "request" /\ m.addr \in offered
              /\ Arrive([kind |-> "ack", addr |-> m.addr])
              /\ leased' = leased \cup {m.addr}
              /\ UNCHANGED offered
           \/ /\ m.kind = "request"
              /\ Arrive([kind |-> "nak", addr |-> NoAddr])
              /\ UNCHANGED <<offered, leased>>
    /\ UNCHANGED stray

\* A message or its answer is lost; dhcp::init sends nothing twice.
Lose ==
    /\ outbox # << >> /\ outbox' = Tail(outbox)
    /\ lost' = TRUE
    /\ UNCHANGED <<main, sock, arp, nic, offered, leased, claimed, stray, lapped>>

\* Other traffic: ARP requests, frames for nobody here, and frames for port
\* 68 that are no answer (a second server, a duplicate, another client's, a
\* server that speaks plain BOOTP).
Traffic ==
    \E f \in Frame :
        /\ f.addr # Garbage
        /\ f.kind \in {"other", "bootrequest", "nak"} => f.addr = NoAddr
        /\ f.kind \in {"offer", "ack", "bootp"} => f.addr # NoAddr
        /\ Arrive(f)
        /\ stray' = (stray \/ f.kind \in Bootp)
        /\ UNCHANGED <<outbox, offered, leased>>

----------------------------------------------------------------------------
Kmain == \/ RegisterSocket \/ ClearFlag \/ DoDiscover \/ RecvEnter \/ RecvLoad
         \/ RecvHlt \/ RecvStore \/ RecvTake \/ CheckOp \/ ReadOptions
         \/ DoRequest \/ SetIp \/ FillEntry \/ LinkEntry

Irq == IrqEnter \/ IrqLeave

Next == Kmain \/ Irq \/ Answer \/ Lose \/ Traffic

Spec == Init /\ [][Next]_vars

\* The CPU runs and takes pending interrupts; a server that got a message
\* answers it or the message is lost.
Fairness == WF_vars(Kmain) /\ WF_vars(Irq) /\ WF_vars(Answer \/ Lose)

FairSpec == Spec /\ Fairness

----------------------------------------------------------------------------
\* What dhcp::init relies on: only answers to its own messages reach port 68,
\* and the card does not come round to a buffer that is still being read.
Calm == ~stray /\ ~lapped

\* The address requested is one the server offered.
AsksForOffer == Calm => asked \subseteq offered

\* The address taken is one the server confirmed, or 0.0.0.0 after a DHCPNAK:
\* the second recv never returns the offer again.
IpIsLeased == Calm => ip_addr \in leased \cup {NoAddr}

\* The ARP responder claims no address but the one set_ip has stored, though
\* it runs while add_cache_entry builds the list.
ClaimsOwnAddress == claimed \subseteq {ip_addr}

\* The heap has no lock, and arp::handle_packet allocates the frame of its reply
\* inside the interrupt. It never does so while kmain is at one of its own
\* allocations: dhcp::init makes its last one before the cache has an entry.
HeapNotReentered ==
    h = "irq" /\ "RINT" \in status /\ ArpMatches(slots[handled % N]) =>
        pc \notin {"register", "discover", "request", "new_entry"}

\* The ways dhcp::init can hang: a message was lost, the answer's interrupt
\* came between the load and the hlt of recv, the frame waits in the ring
\* behind a RINT that has been served, or the walk over the options of what is
\* no answer of the server has left the mapped memory.
Stuck ==
    \/ lost
    \/ pc = "asleep" /\ got_packet
    \/ handled < arrived /\ "RINT" \notin csr0
    \/ pc = "fault" /\ ~Calm

\* There is no other: dhcp::init returns, with or without an address, unless
\* it stays in one of those four for good.
InitReturns == <>(pc \in {"done", "gave_up"}) \/ <>[]Stuck
============================================================================
