------------------------------ MODULE Upstream ------------------------------
(***************************************************************************)
(* What a node tells the controller: reports of its neighbours and requests *)
(* for packets that no rule matched, byte by byte, from the node's memory   *)
(* over some radio hops to the sink's UART (neighbor-table.c,              *)
(* packet-creator.c, packet-buffer.c, sdn-wise.c).                         *)
(*                                                                         *)
(* A packet in memory is a header of PLD_INDEX bytes, a payload of          *)
(* MaxPayload bytes, the rssi it was received with, and a pointer.  The     *)
(* payload's accessors bound their index by the length of header and       *)
(* payload together, so the cells behind the payload can be written, and   *)
(* the length counts them.  Below, cell i of a packet is what payload[i]   *)
(* names: cell MaxPayload is the rssi.                                     *)
(*                                                                         *)
(***************************************************************************)
EXTENDS Naturals, Sequences, FiniteSets

CONSTANTS
  PLD_INDEX,    \* the length of a header, 10 in the code
  MaxPayload,   \* MAX_PAYLOAD_LENGTH, 106 in the code
  Neighbors,    \* the addresses that beacons come from
  Rssi,         \* the strengths packets are received with
  Hops,         \* radio hops between the node and the sink
  CountMod      \* requests_count is counted modulo this (256)

VARIABLES
  neighbors,    \* the list neighbor_table
  count,        \* conf.requests_count
  wire,         \* the packets on their way
  printed,      \* the payloads the sink printed
  origin,       \* history: the neighbours reported, or the length of the packet asked for
  heard         \* history: neighbours heard since the last report, with their last rssi

vars == <<neighbors, count, wire, printed, origin, heard>>
-----------------------------------------------------------------------------
MaxPacket == MaxPayload + PLD_INDEX
NeighborLength == 3
NumNeighbors == MaxPayload \div NeighborLength
ReportInit == 2         \* REPORT_INIT_INDEX, after hops and battery
PartInit == 3           \* count, part and number of parts come before a packet

(* The payload, the rssi and a pointer of two bytes. *)
Cells == 0 .. MaxPayload + 2

Stale == 999            \* what a block holds before it is written

Byte == 0 .. 255
Address == 0 .. 65535

ASSUME UpstreamAssumption ==
  /\ PLD_INDEX \in Nat
  /\ MaxPayload \in Nat /\ MaxPayload >= PLD_INDEX + PartInit
  /\ Neighbors \subseteq Address
  /\ Rssi \subseteq Byte
  /\ Hops \in Nat
  /\ CountMod \in Nat \ {0}

Neighbor == [address : Neighbors, rssi : Rssi]

(* Bound: a node waits for its packets to arrive or get lost.  (They are     *)
(* copies: what happens at the node cannot change them.)                     *)
Quiet == wire = {}
-----------------------------------------------------------------------------
(* The neighbour table. *)

(* Mutant: a neighbour that is known is added again. *)
AddUnlooked(table, n, r) ==
  IF Len(table) < NumNeighbors THEN Append(table, [address |-> n, rssi |-> r]) ELSE table

(* add_neighbor: a known neighbour's rssi is refreshed, a new one takes a    *)
(* block if there is one.                                                    *)
AddNeighbor(table, n, r) ==
  IF \E i \in DOMAIN table : table[i].address = n
    THEN [i \in DOMAIN table |->
            IF table[i].address = n THEN [address |-> n, rssi |-> r] ELSE table[i]]
    ELSE IF Len(table) < NumNeighbors
      THEN Append(table, [address |-> n, rssi |-> r])
      ELSE table

(* What was printed is of no further interest then. *)
HearBeacon(n, r) ==
  /\ Quiet
  /\ neighbors' = AddNeighbor(neighbors, n, r)
  /\ heard' = [m \in DOMAIN heard \cup {n} |-> IF m = n THEN r ELSE heard[m]]
  /\ printed' = {}
  /\ origin' = [table |-> << >>]
  /\ UNCHANGED <<count, wire>>
-----------------------------------------------------------------------------
(* Packets. *)

(* create_packet_empty clears the rssi but not the payload. *)
EmptyPacket ==
  [len |-> 0, hops |-> Hops, cells |-> [i \in Cells |-> IF i = MaxPayload THEN 0 ELSE Stale]]

(* Mutant: bytes behind the payload are refused. *)
SetPayloadBounded(p, start, bytes) ==
  LET end == IF start + Len(bytes) < MaxPayload THEN start + Len(bytes) ELSE MaxPayload
  IN  [p EXCEPT
         !.len = IF end + PLD_INDEX > @ THEN end + PLD_INDEX ELSE @,
         !.cells = [i \in Cells |->
                      IF i \in start .. end - 1 THEN bytes[i - start + 1] ELSE @[i]]]

(* set_payload_at, of several bytes from index start on: those from MaxPacket *)
(* on would be refused, but no caller gets that far.                         *)
SetPayload(p, start, bytes) ==
  LET end == start + Len(bytes)
  IN  [p EXCEPT
         !.len = IF end + PLD_INDEX > @ THEN end + PLD_INDEX ELSE @,
         !.cells = [i \in Cells |->
                      IF i \in start .. end - 1 THEN bytes[i - start + 1] ELSE @[i]]]

(* create_report up to the neighbours: hops and battery are any two bytes. *)
ReportHead == SetPayload(EmptyPacket, 0, <<1, 255>>)

NeighborByte(table, j) ==
  LET n == table[j \div NeighborLength + 1]
  IN  CASE j % NeighborLength = 0 -> n.address \div 256
        [] j % NeighborLength = 1 -> n.address % 256
        [] j % NeighborLength = 2 -> n.rssi

(* fill_payload_with_neighbors, before it purges the table. *)
Report(table) ==
  SetPayload(ReportHead, ReportInit,
    <<Len(table)>> \o [j \in 1 .. NeighborLength * Len(table) |-> NeighborByte(table, j - 1)])

(* The packet no rule matched: any bytes, told apart by their place. *)
ByteOf(i) == 1000 + i

(* Bytes from to to - 1 of it. *)
Slice(from, to) == [i \in 1 .. to - from |-> ByteOf(from + i - 1)]

(* Mutant: the second part starts a byte late. *)
RequestPartSkips(part, parts, length) ==
  SetPayload(SetPayload(EmptyPacket, 0, <<count, part, parts>>), PartInit,
    IF parts = 1 THEN Slice(0, length)
    ELSE IF part = 0 THEN Slice(0, MaxPayload) ELSE Slice(MaxPayload + 1, length))

(* create_and_send_request: a packet as long as the payload, or longer, is    *)
(* sent in two parts, of which the first holds MaxPayload bytes.              *)
RequestPart(part, parts, length) ==
  SetPayload(SetPayload(EmptyPacket, 0, <<count, part, parts>>), PartInit,
    IF parts = 1 THEN Slice(0, length)
    ELSE IF part = 0 THEN Slice(0, MaxPayload) ELSE Slice(MaxPayload, length))

Requests(length) ==
  IF length < MaxPayload
    THEN {RequestPart(0, 1, length)}
    ELSE {RequestPart(0, 2, length), RequestPart(1, 2, length)}

(* A copy received into another block: len bytes of the packet, and then the *)
(* rssi measured by the receiver.                                            *)
Received(p, r) ==
  [len |-> p.len, hops |-> p.hops - 1,
   cells |-> [i \in Cells |->
                IF i = MaxPayload THEN r
                ELSE IF i + PLD_INDEX < p.len THEN p.cells[i] ELSE Stale]]

(* What print_packet_uart prints of a packet, after the header. *)
Payload(p) == [i \in 0 .. p.len - PLD_INDEX - 1 |-> p.cells[i]]
-----------------------------------------------------------------------------
(* Actions. *)

(* Mutant: the table is not purged once it is reported. *)
ReportKeepsTable ==
  /\ Quiet
  /\ wire' \in {{}, {Report(neighbors)}}
  /\ printed' = {}
  /\ origin' = [table |-> neighbors]
  /\ heard' = [n \in {} |-> 0]
  /\ UNCHANGED <<neighbors, count>>

(* create_report and its post, which may be refused: the table is purged all  *)
(* the same.  (Without a block for it nothing happens at all.)               *)
SendReport ==
  /\ Quiet
  /\ wire' \in {{}, {Report(neighbors)}}
  /\ printed' = {}
  /\ origin' = [table |-> neighbors]
  /\ neighbors' = << >>
  /\ heard' = [n \in {} |-> 0]
  /\ UNCHANGED count

(* A miss: either post may be refused.  (Without blocks nothing happens.) *)
SendRequest(length) ==
  /\ Quiet
  /\ wire' \in SUBSET Requests(length)
  /\ printed' = {}
  /\ origin' = [length |-> length]
  /\ count' = (count + 1) % CountMod
  /\ UNCHANGED <<neighbors, heard>>

(* A hop: a relay's handle_report sends it on. *)
Hop(p, r) ==
  /\ p.hops > 0
  /\ wire' = (wire \ {p}) \cup {Received(p, r)}
  /\ UNCHANGED <<neighbors, count, printed, origin, heard>>

(* At the sink: handle_report, or rf_u_send_proc for the sink's own packets. *)
PrintPacket(p) ==
  /\ p.hops = 0
  /\ wire' = wire \ {p}
  /\ printed' = printed \cup {Payload(p)}
  /\ UNCHANGED <<neighbors, count, origin, heard>>

Lose(p) ==
  /\ wire' = wire \ {p}
  /\ UNCHANGED <<neighbors, count, printed, origin, heard>>

Init ==
  /\ neighbors = << >>
  /\ count = 0
  /\ Quiet
  /\ printed = {}
  /\ origin = [table |-> << >>]
  /\ heard = [n \in {} |-> 0]

Next ==
  \/ \E n \in Neighbors, r \in Rssi : HearBeacon(n, r)
  \/ SendReport
  \/ \E length \in PLD_INDEX .. MaxPacket : SendRequest(length)
  \/ \E p \in wire : PrintPacket(p) \/ Lose(p) \/ \E r \in Rssi : Hop(p, r)

Spec == Init /\ [][Next]_vars
-----------------------------------------------------------------------------
(* Properties. *)

(* The table holds neighbours heard since the last report, each once and     *)
(* with the rssi heard last; one is missing only if the table is full.  What *)
(* a lost report told is thus told again by the neighbour's next beacon.     *)
TableIsHeard ==
  /\ Len(neighbors) <= NumNeighbors
  /\ \A i \in DOMAIN neighbors :
       /\ neighbors[i].address \in DOMAIN heard
       /\ neighbors[i].rssi = heard[neighbors[i].address]
       /\ \A j \in DOMAIN neighbors : neighbors[i].address = neighbors[j].address => i = j
  /\ Len(neighbors) < NumNeighbors =>
       \A n \in DOMAIN heard : \E i \in DOMAIN neighbors : neighbors[i].address = n

(* The neighbours a printed report tells of. *)
Told(b) ==
  [k \in 1 .. b[ReportInit] |->
     LET i == ReportInit + 1 + NeighborLength * (k - 1)
     IN  [address |-> 256 * b[i] + b[i + 1], rssi |-> b[i + 2]]]

IsReport == "table" \in DOMAIN origin

(* A report arrives as it was sent, except that the last neighbour of a full *)
(* table, whose bytes lie behind the payload, gets the rssi of the last hop  *)
(* into its address.                                                         *)
ReportHonest ==
  IsReport => \A b \in printed :
    /\ DOMAIN b = 0 .. ReportInit + NeighborLength * Len(origin.table)
    /\ b[ReportInit] = Len(origin.table)
    /\ \A k \in 1 .. Len(origin.table) :
         \/ Told(b)[k] = origin.table[k]
         \/ /\ k = NumNeighbors /\ Hops > 0
            /\ Told(b)[k].rssi = origin.table[k].rssi

(* The parts the controller has of a request, and the packet it gets.        *)
Parts(k) == {b \in printed : b[1] = k}

Complete == \A k \in 0 .. (IF origin.length < MaxPayload THEN 0 ELSE 1) : Parts(k) # {}

Carried(k) ==
  LET b == CHOOSE b \in Parts(k) : TRUE
  IN  [i \in 0 .. Cardinality(DOMAIN b) - PartInit - 1 |-> b[i + PartInit]]

Asked(i) == IF i < MaxPayload THEN Carried(0)[i] ELSE Carried(1)[i - MaxPayload]

(* A request that arrives in full has every byte of the packet in its place, *)
(* but for the one that lies right behind the payload of the request: after  *)
(* a hop it is an rssi.                                                      *)
RequestWhole ==
  ~ IsReport /\ Complete =>
    /\ \A b, c \in printed : b[0] = c[0] /\ b[2] = c[2]
    /\ DOMAIN Carried(0) =
         0 .. (IF origin.length < MaxPayload THEN origin.length ELSE MaxPayload) - 1
    /\ origin.length >= MaxPayload => DOMAIN Carried(1) = 0 .. origin.length - MaxPayload - 1
    /\ \A i \in 0 .. origin.length - 1 :
         \/ Asked(i) = ByteOf(i)
         \/ i = MaxPayload - PartInit /\ Hops > 0 /\ Asked(i) \in Rssi
=============================================================================
