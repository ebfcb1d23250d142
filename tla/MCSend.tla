------------------------------- MODULE MCSend -------------------------------
(* Two buses of two devices with two functions; cards in two of the slots. *)
EXTENDS Send, TLC

\* Configuration space of a card. BAR0 is an I/O address (bit 0 set).
Config(vendor, device, class, type, bar0, line) ==
    (0 :> <<vendor, device>>) @@ (4 :> <<0, 0>>) @@ (8 :> <<class[3] * 256 + 2, class[1] * 256 + class[2]>>)
    @@ (12 :> <<8, type>>) @@ (16 :> <<bar0 + 1, 0>>) @@ (36 :> <<0, 65200>>)
    @@ (60 :> <<256 + line, 0>>)

Card(kind, n, line, single) ==
    [kind |-> kind, line |-> line, base |-> 49152 + 32 * n, mac |-> n, single |-> single,
     config |-> LET type == IF single THEN 0 ELSE 128
                IN  CASE kind = "pcnet" -> Config(4130, 8192, <<2, 0, 0>>, type, 49152 + 32 * n, line)
                      [] kind = "ahci"  -> Config(32902, 10530, <<1, 6, 1>>, type, 49152 + 32 * n, line)
                      [] OTHER          -> Config(4130, 8193, <<1, 6, 0>>, type, 49152 + 32 * n, line)]

\* Cards 1 and 2 are two functions of one device, or one card of one function
\* that answers once or twice; card 3 is alone on the second bus.
Where(alias, multi) ==
    [s \in Slots |->
        CASE s.bus = 0 /\ s.device = 1 /\ s.function = 0 -> 1
          [] s.bus = 0 /\ s.device = 1 /\ s.function = 1 ->
                IF multi THEN 2 ELSE IF alias THEN 1 ELSE 0
          [] s.bus = 1 /\ s.device = 0 /\ s.function = 0 -> IF multi THEN 3 ELSE 2
          [] OTHER -> 0]

Kinds == {"pcnet", "ahci", "other"}
Lines == {5, 11}
MCMachines ==
    {[at |-> Where(alias, FALSE), cards |-> <<Card(k, 1, l, TRUE), Card(j, 2, n, TRUE)>>] :
        alias \in BOOLEAN, k \in Kinds, j \in Kinds, l \in {11}, n \in Lines \cup {255}}
    \cup {[at |-> Where(FALSE, TRUE),
           cards |-> <<Card(k, 1, 11, FALSE), Card(j, 2, l, TRUE), Card("pcnet", 3, 5, TRUE)>>] :
        k \in Kinds, j \in Kinds, l \in {10, 11}}

MCAddresses == {<<10, 0, 2, 15>>}
MCPeers == {<<<<255, 255, 255, 255>>, 67>>}
\* With <<255, 83>> the words add up to 65535 and the checksum reads 0.
MCBuffers == UNION {[1 .. n -> {0, 255}] : n \in 0 .. 3} \cup {<<255, 83>>, <<128, 1, 128, 7>>}
=============================================================================
