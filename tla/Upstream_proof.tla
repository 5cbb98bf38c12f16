--------------------------- MODULE Upstream_proof ---------------------------
(***************************************************************************)
(* The neighbour table holds what was heard, and what arrives of reports    *)
(* and requests is what was sent, for every set of neighbours, every length *)
(* of payload and header, and any number of hops.                          *)
(***************************************************************************)
EXTENDS Upstream, FiniteSetTheorems, TLAPS

(* A table of neighbours that is what was heard.                            *)
Kept ==
  /\ neighbors \in Seq(Neighbor)
  /\ TableIsHeard

(* A table with room for n more entries is a natural number long. *)
LEMMA RoomIsNat == NumNeighbors \in Nat
<1>1. MaxPayload \in Nat
  BY UpstreamAssumption
<1>2. \A m \in Nat : m \div 3 \in Nat
  BY ONLY SMT
<1> QED
  BY <1>1, <1>2 DEF NumNeighbors, NeighborLength

(* add_neighbor keeps the table a table. *)
LEMMA AddNeighborType ==
  ASSUME NEW table \in Seq(Neighbor), NEW n \in Neighbors, NEW r \in Rssi
  PROVE  AddNeighbor(table, n, r) \in Seq(Neighbor)
<1>1. [address |-> n, rssi |-> r] \in Neighbor
  BY DEF Neighbor
<1>2. CASE \E i \in DOMAIN table : table[i].address = n
  <2>1. AddNeighbor(table, n, r) =
          [i \in DOMAIN table |->
             IF table[i].address = n THEN [address |-> n, rssi |-> r] ELSE table[i]]
    BY <1>2 DEF AddNeighbor
  <2>2. DOMAIN table = 1 .. Len(table) /\ Len(table) \in Nat
    OBVIOUS
  <2> QED
    BY <1>1, <2>1, <2>2
<1>3. CASE ~ \E i \in DOMAIN table : table[i].address = n
  BY <1>1, <1>3 DEF AddNeighbor
<1> QED
  BY <1>2, <1>3

(* A beacon: a known neighbour is refreshed in its place, a new one goes      *)
(* behind the others or, in a full table, nowhere.                           *)
LEMMA BeaconKeeps ==
  ASSUME Kept, NEW n \in Neighbors, NEW r \in Rssi, HearBeacon(n, r)
  PROVE  Kept'
<1> USE DEF Kept
<1> DEFINE new == [address |-> n, rssi |-> r]
<1>1. neighbors' \in Seq(Neighbor)
  BY AddNeighborType DEF HearBeacon
<1>2. /\ DOMAIN heard' = DOMAIN heard \cup {n}
      /\ heard'[n] = r
      /\ \A m \in DOMAIN heard : m # n => heard'[m] = heard[m]
  BY DEF HearBeacon
<1>3. DOMAIN neighbors = 1 .. Len(neighbors) /\ Len(neighbors) \in Nat
  OBVIOUS
<1>4. CASE \E i \in DOMAIN neighbors : neighbors[i].address = n
  <2>1. neighbors' = [i \in DOMAIN neighbors |->
                        IF neighbors[i].address = n THEN new ELSE neighbors[i]]
    BY <1>4 DEF HearBeacon, AddNeighbor
  <2>2. DOMAIN neighbors' = DOMAIN neighbors /\ Len(neighbors') = Len(neighbors)
    BY <1>1, <1>3, <2>1
  <2>3. \A i \in DOMAIN neighbors : neighbors'[i].address = neighbors[i].address
    BY <2>1
  <2>4. \A i \in DOMAIN neighbors :
          neighbors'[i].rssi = IF neighbors[i].address = n THEN r ELSE neighbors[i].rssi
    BY <2>1
  <2>5. n \in DOMAIN heard
    BY <1>4 DEF TableIsHeard
  <2>6. Len(neighbors') <= NumNeighbors
    BY <2>2 DEF TableIsHeard
  <2>7. ASSUME NEW i \in DOMAIN neighbors
        PROVE  /\ neighbors'[i].address \in DOMAIN heard'
               /\ neighbors'[i].rssi = heard'[neighbors'[i].address]
               /\ \A j \in DOMAIN neighbors :
                    neighbors'[i].address = neighbors'[j].address => i = j
    BY <1>2, <2>3, <2>4, <2>7 DEF TableIsHeard
  <2>8. Len(neighbors) < NumNeighbors =>
          \A m \in DOMAIN heard' : \E i \in DOMAIN neighbors : neighbors'[i].address = m
    BY <1>2, <2>3, <2>5 DEF TableIsHeard
  <2> QED
    BY <1>1, <2>2, <2>6, <2>7, <2>8 DEF TableIsHeard
<1>5. CASE /\ ~ \E i \in DOMAIN neighbors : neighbors[i].address = n
           /\ Len(neighbors) < NumNeighbors
  <2>1. neighbors' = Append(neighbors, new)
    BY <1>5 DEF HearBeacon, AddNeighbor
  <2>2. new \in Neighbor
    BY DEF Neighbor
  <2>3. /\ Len(neighbors') = Len(neighbors) + 1
        /\ DOMAIN neighbors' = 1 .. Len(neighbors) + 1
        /\ \A i \in 1 .. Len(neighbors) : neighbors'[i] = neighbors[i]
        /\ neighbors'[Len(neighbors) + 1] = new
    BY <2>1, <2>2
  <2>4. new.address = n /\ new.rssi = r
    OBVIOUS
  <2> HIDE DEF new
  <2>5. Len(neighbors') <= NumNeighbors
    BY <1>3, <1>5, <2>3, RoomIsNat
  <2>6. ASSUME NEW i \in DOMAIN neighbors'
        PROVE  /\ neighbors'[i].address \in DOMAIN heard'
               /\ neighbors'[i].rssi = heard'[neighbors'[i].address]
               /\ \A j \in DOMAIN neighbors' :
                    neighbors'[i].address = neighbors'[j].address => i = j
    BY <1>2, <1>3, <1>5, <2>3, <2>4, <2>6 DEF TableIsHeard
  <2>7. Len(neighbors) < NumNeighbors =>
          \A m \in DOMAIN heard' : \E i \in DOMAIN neighbors' : neighbors'[i].address = m
    BY <1>2, <1>3, <2>3, <2>4 DEF TableIsHeard
  <2> QED
    BY <1>1, <1>5, <2>5, <2>6, <2>7 DEF TableIsHeard
<1>6. CASE /\ ~ \E i \in DOMAIN neighbors : neighbors[i].address = n
           /\ ~ Len(neighbors) < NumNeighbors
  <2>1. neighbors' = neighbors
    BY <1>6 DEF HearBeacon, AddNeighbor
  <2> QED
    BY <1>1, <1>2, <1>6, <2>1 DEF TableIsHeard
<1> QED
  BY <1>4, <1>5, <1>6

(* A report empties the table and the controller starts again from nothing. *)
LEMMA ReportKeeps ==
  ASSUME SendReport
  PROVE  Kept'
  BY RoomIsNat DEF SendReport, Kept, TableIsHeard

(* Requests and packets on their way do not touch the table. *)
LEMMA OthersKeep ==
  ASSUME Kept, UNCHANGED <<neighbors, heard>>
  PROVE  Kept'
  BY DEF Kept, TableIsHeard

(* Between two reports the table is the neighbours heard, with the strength   *)
(* heard last: none twice, none older, and none missing while there is room. *)
THEOREM TableTrue == Spec => []TableIsHeard
<1>1. Init => Kept
  BY RoomIsNat DEF Init, Kept, TableIsHeard
<1>2. Kept /\ [Next]_vars => Kept'
  <2> SUFFICES ASSUME Kept, [Next]_vars PROVE Kept'
    OBVIOUS
  <2>1. CASE \E n \in Neighbors, r \in Rssi : HearBeacon(n, r)
    BY <2>1, BeaconKeeps
  <2>2. CASE SendReport
    BY <2>2, ReportKeeps
  <2>3. CASE \E length \in PLD_INDEX .. MaxPacket : SendRequest(length)
    BY <2>3, OthersKeep DEF SendRequest
  <2>4. CASE \E p \in wire : PrintPacket(p) \/ Lose(p) \/ \E r \in Rssi : Hop(p, r)
    BY <2>4, OthersKeep DEF PrintPacket, Lose, Hop
  <2>5. CASE UNCHANGED vars
    BY <2>5, OthersKeep DEF vars
  <2> QED
    BY <2>1, <2>2, <2>3, <2>4, <2>5 DEF Next
<1>3. Kept => TableIsHeard
  BY DEF Kept
<1> QED
  BY <1>1, <1>2, <1>3, PTL DEF Spec
-----------------------------------------------------------------------------
(* What a packet on its way, or printed, is a copy of. *)

(* Byte i of a copy may be the rssi of a hop instead. *)
SameByte(x, y, i) == x = y \/ (i = MaxPayload /\ Hops > 0 /\ x \in Rssi)

Sized(q) == q.len \in Nat /\ PLD_INDEX <= q.len /\ q.len <= MaxPacket + PartInit

CopyOf(q, p) ==
  /\ p.len = q.len /\ p.hops \in 0 .. Hops
  /\ \A i \in Cells : i + PLD_INDEX < q.len => SameByte(p.cells[i], q.cells[i], i)

PrintOf(q, b) ==
  /\ DOMAIN b = 0 .. q.len - PLD_INDEX - 1
  /\ \A i \in DOMAIN b : SameByte(b[i], q.cells[i], i)

LEMMA Sizes ==
  /\ PLD_INDEX \in Nat /\ MaxPayload \in Nat /\ MaxPayload >= PLD_INDEX + 3
  /\ Hops \in Nat /\ PartInit = 3 /\ MaxPacket = MaxPayload + PLD_INDEX
  /\ Cells = 0 .. MaxPayload + 2
  BY UpstreamAssumption DEF PartInit, MaxPacket, Cells

(* A hop makes a copy of a copy. *)
LEMMA HopCopies ==
  ASSUME NEW q, NEW p, Sized(q), CopyOf(q, p), p.hops > 0, NEW r \in Rssi
  PROVE  CopyOf(q, Received(p, r))
<1> DEFINE c == Received(p, r)
<1>1. c.len = p.len /\ c.hops = p.hops - 1
  BY DEF Received
<1>2. ASSUME NEW i \in Cells
      PROVE  c.cells[i] = IF i = MaxPayload THEN r
                          ELSE IF i + PLD_INDEX < p.len THEN p.cells[i] ELSE Stale
  BY <1>2 DEF Received
<1> HIDE DEF c
<1>3. Hops > 0 /\ c.hops \in 0 .. Hops
  BY <1>1, Sizes DEF CopyOf
<1>4. ASSUME NEW i \in Cells, i + PLD_INDEX < q.len
      PROVE  SameByte(c.cells[i], q.cells[i], i)
  <2>1. CASE i = MaxPayload
    BY <1>2, <1>3, <2>1 DEF SameByte
  <2>2. CASE i # MaxPayload
    <3>1. c.cells[i] = p.cells[i]
      BY <1>2, <1>4, <2>2 DEF CopyOf
    <3> QED
      BY <1>4, <3>1 DEF CopyOf
  <2> QED
    BY <2>1, <2>2
<1>5. c.len = q.len
  BY <1>1 DEF CopyOf
<1>6. CopyOf(q, c)
  BY ONLY <1>3, <1>4, <1>5 DEF CopyOf
<1> QED
  BY <1>6 DEF c

(* What is printed has the bytes of the copy. *)
LEMMA PrintCopies ==
  ASSUME NEW q, NEW p, Sized(q), CopyOf(q, p)
  PROVE  PrintOf(q, Payload(p))
<1>1. DOMAIN Payload(p) = 0 .. q.len - PLD_INDEX - 1
      /\ \A i \in 0 .. q.len - PLD_INDEX - 1 : Payload(p)[i] = p.cells[i]
  BY DEF Payload, CopyOf
<1>2. ASSUME NEW i \in 0 .. q.len - PLD_INDEX - 1
      PROVE  i \in Cells /\ i + PLD_INDEX < q.len
  BY <1>2, Sizes DEF Sized
<1>3. \A i \in 0 .. q.len - PLD_INDEX - 1 : SameByte(p.cells[i], q.cells[i], i)
  BY <1>2 DEF CopyOf
<1> QED
  BY <1>1, <1>3 DEF PrintOf

(* A packet just created is a copy of itself. *)
LEMMA NewCopies ==
  ASSUME NEW q, q.hops = Hops
  PROVE  CopyOf(q, q)
  BY Sizes DEF CopyOf, SameByte
-----------------------------------------------------------------------------
(* What was sent. *)

(* Part `part` of `parts` of request c. *)
PartOf(c, part, parts, from, to) ==
  SetPayload(SetPayload(EmptyPacket, 0, <<c, part, parts>>), PartInit, Slice(from, to))

PartsOf(c, length) ==
  IF length < MaxPayload
    THEN {PartOf(c, 0, 1, 0, length)}
    ELSE {PartOf(c, 0, 2, 0, MaxPayload), PartOf(c, 1, 2, MaxPayload, length)}

Sent(c) == IF IsReport THEN {Report(origin.table)} ELSE PartsOf(c, origin.length)

(* All that is on its way or printed is a copy of what was sent. *)
Copies(c) ==
  /\ \A p \in wire : \E q \in Sent(c) : CopyOf(q, p)
  /\ \A b \in printed : \E q \in Sent(c) : PrintOf(q, b)

LEMMA RequestsAreParts ==
  ASSUME NEW length
  PROVE  Requests(length) = PartsOf(count, length)
  BY DEF Requests, PartsOf, RequestPart, PartOf

IsPacket(p) == p = [len |-> p.len, hops |-> p.hops, cells |-> p.cells] /\ p.len \in Nat

(* s is p with bytes in its payload from start on. *)
Filled(s, p, start, bytes) ==
  /\ IsPacket(s) /\ s.hops = p.hops
  /\ s.len = IF start + Len(bytes) + PLD_INDEX > p.len
             THEN start + Len(bytes) + PLD_INDEX ELSE p.len
  /\ \A i \in Cells : start <= i /\ i < start + Len(bytes) => s.cells[i] = bytes[i - start + 1]
  /\ \A i \in Cells : ~ (start <= i /\ i < start + Len(bytes)) => s.cells[i] = p.cells[i]

LEMMA SetPayloadFacts ==
  ASSUME NEW p, IsPacket(p), NEW start \in Nat, NEW bytes \in Seq(Int),
         start + Len(bytes) <= MaxPayload + 3
  PROVE  Filled(SetPayload(p, start, bytes), p, start, bytes)
<1> DEFINE end == start + Len(bytes)
           s == SetPayload(p, start, bytes)
           length == IF end + PLD_INDEX > p.len THEN end + PLD_INDEX ELSE p.len
           cells == [i \in Cells |-> IF i \in start .. end - 1 THEN bytes[i - start + 1] ELSE p.cells[i]]
<1>1. s = [p EXCEPT !.len = length, !.cells = cells]
  BY DEF SetPayload
<1>2. end \in Nat /\ length \in Nat
  BY Sizes DEF IsPacket
<1>3. \A i \in Cells : i \in start .. end - 1 <=> start <= i /\ i < end
  BY <1>2, Sizes
<1>4. \A i \in Cells : cells[i] = IF start <= i /\ i < end THEN bytes[i - start + 1] ELSE p.cells[i]
  BY <1>3
<1> HIDE DEF end, length, cells
<1>5. s = [len |-> length, hops |-> p.hops, cells |-> cells]
  BY <1>1 DEF IsPacket
<1> HIDE DEF s
<1>6. IsPacket(s) /\ s.len = length /\ s.hops = p.hops /\ s.cells = cells
  BY <1>2, <1>5 DEF IsPacket
<1> QED
  BY <1>4, <1>6 DEF s, length, end, Filled

LEMMA EmptyFacts ==
  IsPacket(EmptyPacket) /\ EmptyPacket.len = 0 /\ EmptyPacket.hops = Hops
  BY DEF EmptyPacket, IsPacket

LEMMA SliceFacts ==
  ASSUME NEW from \in Nat, NEW to \in Nat, from <= to
  PROVE  /\ to - from \in Nat
         /\ Slice(from, to) \in Seq(Int) /\ Len(Slice(from, to)) = to - from
         /\ \A i \in 1 .. to - from : Slice(from, to)[i] = ByteOf(from + i - 1)
<1>1. \A i \in 1 .. to - from : ByteOf(from + i - 1) \in Int
  BY DEF ByteOf
<1>2. to - from \in Nat
  OBVIOUS
<1> QED
  BY <1>1, <1>2 DEF Slice

(* A part of a request: its number, its parts, and bytes of the packet. *)
IsPart(q, c, part, parts, from, to) ==
  /\ Sized(q) /\ q.hops = Hops
  /\ q.len = PLD_INDEX + 3 + (to - from)
  /\ q.cells[0] = c /\ q.cells[1] = part /\ q.cells[2] = parts
  /\ \A i \in 0 .. to - from - 1 : q.cells[3 + i] = ByteOf(from + i)

LEMMA PartFacts ==
  ASSUME NEW c \in Int, NEW part \in Int, NEW parts \in Int,
         NEW from \in Nat, NEW to \in Nat, from <= to, to - from <= MaxPayload
  PROVE  IsPart(PartOf(c, part, parts, from, to), c, part, parts, from, to)
<1> DEFINE head == <<c, part, parts>>
           h == SetPayload(EmptyPacket, 0, head)
           q == PartOf(c, part, parts, from, to)
<1>1. head \in Seq(Int) /\ Len(head) = 3 /\ head[1] = c /\ head[2] = part /\ head[3] = parts
  OBVIOUS
<1> HIDE DEF head
<1>2. IsPacket(h) /\ h.len = PLD_INDEX + 3 /\ h.hops = Hops
      /\ \A i \in Cells : 0 <= i /\ i < 3 => h.cells[i] = head[i + 1]
  <2>1. 0 + Len(head) <= MaxPayload + 3
    BY <1>1, Sizes
  <2>2. Filled(h, EmptyPacket, 0, head)
    <3>1. IsPacket(EmptyPacket) /\ head \in Seq(Int)
      BY <1>1, EmptyFacts
    <3> QED
      BY ONLY <2>1, <3>1, SetPayloadFacts
  <2> HIDE DEF h
  <2>3. /\ IsPacket(h) /\ h.hops = EmptyPacket.hops
        /\ h.len = IF 0 + Len(head) + PLD_INDEX > EmptyPacket.len
                   THEN 0 + Len(head) + PLD_INDEX ELSE EmptyPacket.len
        /\ \A i \in Cells : 0 <= i /\ i < 0 + Len(head) => h.cells[i] = head[i - 0 + 1]
    BY ONLY <2>2 DEF Filled
  <2>4. h.len = PLD_INDEX + 3 /\ h.hops = Hops
    BY <1>1, <2>3, EmptyFacts, Sizes
  <2>5. ASSUME NEW i \in Cells, 0 <= i, i < 3
        PROVE  h.cells[i] = head[i + 1]
    <3>1. i - 0 + 1 = i + 1 /\ i < 0 + Len(head)
      BY <1>1, <2>5, Sizes
    <3> QED
      BY <2>3, <2>5, <3>1
  <2> QED
    BY <2>3, <2>4, <2>5
<1>3. q = SetPayload(h, 3, Slice(from, to))
  BY Sizes DEF PartOf, head
<1> HIDE DEF h, q
<1> DEFINE n == to - from
           bytes == Slice(from, to)
<1>4. n \in Nat /\ n <= MaxPayload /\ bytes \in Seq(Int) /\ Len(bytes) = n
      /\ \A i \in 1 .. n : bytes[i] = ByteOf(from + i - 1)
  BY SliceFacts, Zenon
<1> HIDE DEF n, bytes
<1>5. Filled(q, h, 3, bytes)
  <2>1. 3 + Len(bytes) <= MaxPayload + 3
    BY <1>4, Sizes
  <2>2. q = SetPayload(h, 3, bytes)
    BY <1>3 DEF bytes
  <2> QED
    BY <1>2, <1>4, <2>1, <2>2, SetPayloadFacts
<1>6. /\ q.hops = Hops /\ q.len = PLD_INDEX + 3 + n
      /\ \A i \in Cells : 3 <= i /\ i < 3 + n => q.cells[i] = bytes[i - 3 + 1]
      /\ \A i \in Cells : ~ (3 <= i /\ i < 3 + n) => q.cells[i] = h.cells[i]
  BY <1>2, <1>4, <1>5, Sizes DEF Filled
<1>7. 0 \in Cells /\ 1 \in Cells /\ 2 \in Cells
  BY Sizes
<1>8. q.cells[0] = c /\ q.cells[1] = part /\ q.cells[2] = parts
  <2>1. h.cells[0] = c /\ h.cells[1] = part /\ h.cells[2] = parts
    BY <1>1, <1>2, <1>7
  <2>2. q.cells[0] = h.cells[0] /\ q.cells[1] = h.cells[1] /\ q.cells[2] = h.cells[2]
    BY <1>6, <1>7
  <2> QED
    BY <2>1, <2>2
<1>9. ASSUME NEW i \in 0 .. n - 1
      PROVE  q.cells[3 + i] = ByteOf(from + i)
  <2>1. 3 + i \in Cells /\ 3 <= 3 + i /\ 3 + i < 3 + n /\ (3 + i) - 3 + 1 = i + 1
    BY <1>4, Sizes
  <2>2. i + 1 \in 1 .. n /\ from + (i + 1) - 1 = from + i
    BY <1>4
  <2> QED
    BY <1>4, <1>6, <2>1, <2>2
<1>10. Sized(q)
  BY <1>4, <1>6, Sizes DEF Sized
<1> QED
  BY <1>6, <1>8, <1>9, <1>10 DEF n, q, IsPart

LEMMA BytesAreInt == (\A x \in Address : x \in Int) /\ (\A x \in Byte : x \in Int)
  BY DEF Address, Byte

(* create_report: how many neighbours, and three bytes of each. *)
IsReportOf(q, table) ==
  /\ Sized(q) /\ q.hops = Hops
  /\ q.len = PLD_INDEX + 3 + 3 * Len(table)
  /\ q.cells[2] = Len(table)
  /\ \A j \in 0 .. 3 * Len(table) - 1 : q.cells[3 + j] = NeighborByte(table, j)

LEMMA ReportFacts ==
  ASSUME NEW table \in Seq(Neighbor), Len(table) <= NumNeighbors
  PROVE  IsReportOf(Report(table), table)
<1> DEFINE n == 3 * Len(table)
           f == [j \in 1 .. n |-> NeighborByte(table, j - 1)]
           bytes == <<Len(table)>> \o f
           q == Report(table)
<1>1. Len(table) \in Nat /\ n \in Nat /\ n <= MaxPayload
  <2>1. \A m \in Nat : 3 * (m \div 3) <= m
    BY SMT
  <2>2. 3 * NumNeighbors <= MaxPayload
    BY <2>1, Sizes DEF NumNeighbors, NeighborLength
  <2>3. Len(table) \in Nat
    OBVIOUS
  <2> QED
    BY <2>2, <2>3, RoomIsNat, Sizes
<1>2. ASSUME NEW j \in 0 .. n - 1
      PROVE  NeighborByte(table, j) \in Int
  <2>1. j \div 3 + 1 \in 1 .. Len(table) /\ j % 3 \in 0 .. 2
    BY <1>1
  <2>2. table[j \div 3 + 1] \in Neighbor
    BY <2>1
  <2>3. table[j \div 3 + 1].address \in Int /\ table[j \div 3 + 1].rssi \in Int
    <3>1. table[j \div 3 + 1].address \in Address /\ table[j \div 3 + 1].rssi \in Byte
      BY <2>2, UpstreamAssumption DEF Neighbor
    <3> QED
      BY ONLY <3>1, BytesAreInt
  <2>4. \A x \in Int : x \div 256 \in Int /\ x % 256 \in Int
    BY SMT
  <2> QED
    BY <2>1, <2>3, <2>4 DEF NeighborByte, NeighborLength
<1>3. f \in Seq(Int) /\ Len(f) = n /\ \A j \in 1 .. n : f[j] = NeighborByte(table, j - 1)
  <2>1. \A j \in 1 .. n : NeighborByte(table, j - 1) \in Int
    BY <1>1, <1>2
  <2> HIDE DEF n
  <2> QED
    BY <1>1, <2>1
<1> HIDE DEF f
<1>4. /\ bytes \in Seq(Int) /\ Len(bytes) = n + 1 /\ bytes[1] = Len(table)
      /\ \A j \in 1 .. n : bytes[j + 1] = f[j]
  <2>1. <<Len(table)>> \in Seq(Int) /\ Len(<<Len(table)>>) = 1
    BY <1>1
  <2> HIDE DEF n
  <2> QED
    BY <1>1, <1>3, <2>1
<1> HIDE DEF bytes
<1> DEFINE h == ReportHead
<1>5. IsPacket(h) /\ h.len = PLD_INDEX + 2 /\ h.hops = Hops
  <2>1. <<1, 255>> \in Seq(Int) /\ Len(<<1, 255>>) = 2
    OBVIOUS
  <2>2. 0 + Len(<<1, 255>>) <= MaxPayload + 3
    BY <2>1, Sizes
  <2>3. Filled(h, EmptyPacket, 0, <<1, 255>>)
    <3> DEFINE two == <<1, 255>>
    <3>1. h = SetPayload(EmptyPacket, 0, two) /\ IsPacket(EmptyPacket)
          /\ two \in Seq(Int) /\ 0 + Len(two) <= MaxPayload + 3
      BY <2>1, <2>2, EmptyFacts DEF ReportHead
    <3> HIDE DEF two, h
    <3>2. Filled(h, EmptyPacket, 0, two)
      BY ONLY <3>1, SetPayloadFacts
    <3> QED
      BY <3>2 DEF two
  <2> HIDE DEF h
  <2> QED
    BY <2>1, <2>3, EmptyFacts, Sizes DEF Filled
<1>6. q = SetPayload(h, 2, bytes)
  BY DEF Report, ReportInit, NeighborLength, bytes, f
<1> HIDE DEF h, q, n
<1>7. /\ IsPacket(q) /\ q.hops = Hops /\ q.len = PLD_INDEX + 3 + n
      /\ \A i \in Cells : 2 <= i /\ i < 3 + n => q.cells[i] = bytes[i - 1]
  <2>1. 2 + Len(bytes) <= MaxPayload + 3
    BY <1>1, <1>4, Sizes
  <2>2. Filled(q, h, 2, bytes)
    BY <1>4, <1>5, <1>6, <2>1, SetPayloadFacts
  <2> QED
    BY <1>1, <1>4, <1>5, <2>2, Sizes DEF Filled
<1>8. q.cells[2] = Len(table)
  BY <1>1, <1>4, <1>7, Sizes
<1>9. ASSUME NEW j \in 0 .. n - 1
      PROVE  q.cells[3 + j] = NeighborByte(table, j)
  <2>1. 3 + j \in Cells /\ 2 <= 3 + j /\ 3 + j < 3 + n /\ (3 + j) - 1 = (j + 1) + 1
    BY <1>1, Sizes
  <2>2. j + 1 \in 1 .. n /\ (j + 1) - 1 = j
    BY <1>1
  <2> QED
    BY <1>3, <1>4, <1>7, <2>1, <2>2
<1>10. Sized(q)
  BY <1>1, <1>7, Sizes DEF Sized
<1> QED
  BY <1>7, <1>8, <1>9, <1>10 DEF n, q, IsReportOf

(* The history tells what was sent. *)
OriginOK ==
  /\ IsReport => origin.table \in Seq(Neighbor) /\ Len(origin.table) <= NumNeighbors
  /\ ~ IsReport => origin.length \in PLD_INDEX .. MaxPacket

(* A packet as long as the payload, or longer, is cut there. *)
LEMMA CutFacts ==
  ASSUME NEW length \in PLD_INDEX .. MaxPacket
  PROVE  /\ length \in Nat
         /\ length < MaxPayload => 0 <= length /\ length - 0 <= MaxPayload
         /\ ~ length < MaxPayload =>
              MaxPayload <= length /\ length - MaxPayload <= PLD_INDEX
              /\ length - MaxPayload <= MaxPayload
  BY Sizes

(* The parts of a request, one by one. *)
LEMMA PartsFacts ==
  ASSUME NEW c \in Nat, NEW length \in PLD_INDEX .. MaxPacket, NEW q \in PartsOf(c, length)
  PROVE  Sized(q) /\ q.hops = Hops
<1>1. MaxPayload \in Nat /\ 0 \in Nat /\ c \in Int /\ 0 \in Int /\ 1 \in Int /\ 2 \in Int
  BY Sizes
<1>2. CASE length < MaxPayload
  <2>1. q = PartOf(c, 0, 1, 0, length)
    BY <1>2 DEF PartsOf
  <2>2. length \in Nat /\ 0 <= length /\ length - 0 <= MaxPayload
    BY <1>2, CutFacts
  <2>3. IsPart(PartOf(c, 0, 1, 0, length), c, 0, 1, 0, length)
    BY ONLY <1>1, <2>2, PartFacts
  <2> QED
    BY <2>1, <2>3 DEF IsPart
<1>3. CASE ~ length < MaxPayload
  <2>1. length \in Nat /\ MaxPayload <= length /\ length - MaxPayload <= MaxPayload
    BY <1>3, CutFacts
  <2>2. 0 <= MaxPayload /\ MaxPayload - 0 <= MaxPayload
    BY <1>1
  <2>3. CASE q = PartOf(c, 0, 2, 0, MaxPayload)
    <3>1. IsPart(PartOf(c, 0, 2, 0, MaxPayload), c, 0, 2, 0, MaxPayload)
      BY ONLY <1>1, <2>2, PartFacts
    <3> QED
      BY <2>3, <3>1 DEF IsPart
  <2>4. CASE q = PartOf(c, 1, 2, MaxPayload, length)
    <3>1. IsPart(PartOf(c, 1, 2, MaxPayload, length), c, 1, 2, MaxPayload, length)
      BY ONLY <1>1, <2>1, PartFacts
    <3> QED
      BY <2>4, <3>1 DEF IsPart
  <2> QED
    BY <1>3, <2>3, <2>4 DEF PartsOf
<1> QED
  BY <1>2, <1>3

LEMMA SentFacts ==
  ASSUME OriginOK, NEW c \in Nat, NEW q \in Sent(c)
  PROVE  Sized(q) /\ q.hops = Hops
<1>1. CASE IsReport
  <2>1. q = Report(origin.table)
    BY <1>1 DEF Sent
  <2> QED
    BY <1>1, <2>1, ReportFacts DEF OriginOK, IsReportOf
<1>2. CASE ~ IsReport
  BY <1>2, PartsFacts DEF OriginOK, Sent
<1> QED
  BY <1>1, <1>2

Inv ==
  /\ Kept
  /\ count \in Nat
  /\ OriginOK
  /\ \E c \in Nat : Copies(c)

(* Nothing is on its way and nothing is printed. *)
LEMMA NothingToCopy ==
  ASSUME wire' = {}, printed' = {}, NEW c
  PROVE  Copies(c)'
  BY DEF Copies

LEMMA BeaconInv ==
  ASSUME Inv, NEW n \in Neighbors, NEW r \in Rssi, HearBeacon(n, r)
  PROVE  Inv'
<1>1. Kept'
  BY BeaconKeeps DEF Inv
<1>2. wire' = {} /\ printed' = {} /\ count' = count /\ origin' = [table |-> << >>]
  BY DEF HearBeacon, Quiet
<1>3. OriginOK'
  BY <1>2, RoomIsNat DEF OriginOK, IsReport
<1>4. Copies(0)'
  BY <1>2, NothingToCopy
<1> QED
  BY <1>1, <1>2, <1>3, <1>4 DEF Inv

LEMMA ReportInv ==
  ASSUME Inv, SendReport
  PROVE  Inv'
<1>1. Kept'
  BY ReportKeeps
<1>2. /\ wire' \subseteq {Report(neighbors)} /\ printed' = {} /\ count' = count
      /\ origin' = [table |-> neighbors]
  BY DEF SendReport
<1>3. neighbors \in Seq(Neighbor) /\ Len(neighbors) <= NumNeighbors
  BY DEF Inv, Kept, TableIsHeard
<1>4. OriginOK' /\ IsReport' /\ origin'.table = neighbors
  BY <1>2, <1>3 DEF OriginOK, IsReport
<1>5. Report(neighbors).hops = Hops
  BY <1>3, ReportFacts DEF IsReportOf
<1>6. CopyOf(Report(neighbors), Report(neighbors))
  BY <1>5, NewCopies
<1>7. Sent(0)' = {Report(neighbors)}
  BY <1>4 DEF Sent
<1>8. Copies(0)'
  BY <1>2, <1>6, <1>7 DEF Copies
<1> QED
  BY <1>1, <1>2, <1>4, <1>8 DEF Inv

LEMMA RequestInv ==
  ASSUME Inv, NEW length \in PLD_INDEX .. MaxPacket, SendRequest(length)
  PROVE  Inv'
<1>1. Kept'
  BY OthersKeep DEF Inv, SendRequest
<1>2. /\ wire' \subseteq PartsOf(count, length) /\ printed' = {}
      /\ count' = (count + 1) % CountMod /\ origin' = [length |-> length]
  BY RequestsAreParts DEF SendRequest
<1>3. count' \in Nat
  <2>1. \A x \in Nat, m \in Nat \ {0} : (x + 1) % m \in Nat
    BY SMT
  <2> QED
    BY <1>2, <2>1, UpstreamAssumption DEF Inv
<1>4. ~ IsReport' /\ origin'.length = length
  BY <1>2 DEF IsReport
<1>5. OriginOK'
  BY <1>4 DEF OriginOK
<1>6. PICK c \in Nat : c = count
  BY DEF Inv
<1>7. Sent(c)' = PartsOf(c, length)
  BY <1>4 DEF Sent
<1>8. \A q \in PartsOf(c, length) : CopyOf(q, q)
  BY PartsFacts, NewCopies
<1>9. Copies(c)'
  <2>1. wire' \subseteq PartsOf(c, length)
    BY <1>2, <1>6
  <2> QED
    BY <1>2, <1>7, <1>8, <2>1 DEF Copies
<1> QED
  BY <1>1, <1>3, <1>5, <1>9 DEF Inv

LEMMA WayInv ==
  ASSUME Inv, NEW p \in wire, PrintPacket(p) \/ Lose(p) \/ \E r \in Rssi : Hop(p, r)
  PROVE  Inv'
<1>1. UNCHANGED <<neighbors, heard, count, origin>>
  BY DEF PrintPacket, Lose, Hop
<1>2. Kept' /\ count' \in Nat /\ OriginOK'
  BY <1>1, OthersKeep DEF Inv, OriginOK, IsReport
<1>3. PICK c \in Nat : Copies(c)
  BY DEF Inv
<1>4. Sent(c)' = Sent(c)
  BY <1>1 DEF Sent, IsReport
<1>5. \A x \in Sent(c) : Sized(x)
  BY SentFacts DEF Inv
<1>6. PICK q \in Sent(c) : CopyOf(q, p)
  BY <1>3 DEF Copies
<1>7. Copies(c)'
  <2>1. CASE PrintPacket(p)
    <3>1. PrintOf(q, Payload(p))
      BY <1>5, <1>6, PrintCopies
    <3> QED
      BY <1>3, <1>4, <2>1, <3>1 DEF Copies, PrintPacket
  <2>2. CASE Lose(p)
    BY <1>3, <1>4, <2>2 DEF Copies, Lose
  <2>3. ASSUME NEW r \in Rssi, Hop(p, r)
        PROVE  Copies(c)'
    <3>1. CopyOf(q, Received(p, r))
      BY <1>5, <1>6, <2>3, HopCopies DEF Hop
    <3> QED
      BY <1>3, <1>4, <2>3, <3>1 DEF Copies, Hop
  <2> QED
    BY <2>1, <2>2, <2>3
<1> QED
  BY <1>2, <1>7 DEF Inv

LEMMA InvHolds == Spec => []Inv
<1>1. Init => Inv
  <2> SUFFICES ASSUME Init PROVE Inv
    OBVIOUS
  <2>1. Kept
    BY RoomIsNat DEF Init, Kept, TableIsHeard
  <2>2. OriginOK
    BY RoomIsNat DEF Init, OriginOK, IsReport
  <2>3. Copies(0)
    BY DEF Init, Quiet, Copies
  <2>4. count \in Nat
    BY DEF Init
  <2> QED
    BY <2>1, <2>2, <2>3, <2>4 DEF Inv
<1>2. Inv /\ [Next]_vars => Inv'
  <2> SUFFICES ASSUME Inv, [Next]_vars PROVE Inv'
    OBVIOUS
  <2>1. CASE UNCHANGED vars
    BY <2>1 DEF vars, Inv, Kept, TableIsHeard, OriginOK, IsReport, Copies, Sent
  <2>2. CASE \E n \in Neighbors, r \in Rssi : HearBeacon(n, r)
    BY <2>2, BeaconInv
  <2>3. CASE SendReport
    BY <2>3, ReportInv
  <2>4. CASE \E length \in PLD_INDEX .. MaxPacket : SendRequest(length)
    BY <2>4, RequestInv
  <2>5. CASE \E p \in wire : PrintPacket(p) \/ Lose(p) \/ \E r \in Rssi : Hop(p, r)
    BY <2>5, WayInv
  <2> QED
    BY <2>1, <2>2, <2>3, <2>4, <2>5 DEF Next
<1> QED
  BY <1>1, <1>2, PTL DEF Spec
-----------------------------------------------------------------------------
(* Requests. *)

(* A printed part of a request: byte 3 + i of it is byte from + i of the     *)
(* packet, unless it lies behind the payload.                                *)
Carries(x, i, from) ==
  x = ByteOf(from + i) \/ (i = MaxPayload - 3 /\ Hops > 0 /\ x \in Rssi)

IsPrinted(b, c, part, parts, from, to) ==
  /\ DOMAIN b = 0 .. 2 + (to - from)
  /\ b[0] = c /\ b[1] = part /\ b[2] = parts
  /\ \A i \in 0 .. to - from - 1 : Carries(b[i + 3], i, from)

LEMMA PartPrinted ==
  ASSUME NEW q, NEW b, NEW c, NEW part, NEW parts, NEW from \in Nat, NEW to \in Nat, from <= to,
         IsPart(q, c, part, parts, from, to), PrintOf(q, b)
  PROVE  IsPrinted(b, c, part, parts, from, to)
<1> DEFINE n == to - from
<1>1. n \in Nat
  OBVIOUS
<1>2. DOMAIN b = 0 .. 2 + n
  BY <1>1, Sizes DEF PrintOf, IsPart
<1>3. \A i \in 0 .. 2 + n : SameByte(b[i], q.cells[i], i)
  BY <1>2 DEF PrintOf
<1>4. /\ q.cells[0] = c /\ q.cells[1] = part /\ q.cells[2] = parts
      /\ \A i \in 0 .. n - 1 : q.cells[3 + i] = ByteOf(from + i)
  BY DEF IsPart
<1> HIDE DEF n
<1>5. b[0] = c /\ b[1] = part /\ b[2] = parts
  BY <1>1, <1>3, <1>4, Sizes DEF SameByte
<1>6. ASSUME NEW i \in 0 .. n - 1
      PROVE  Carries(b[i + 3], i, from)
  <2>1. i + 3 \in 0 .. 2 + n /\ i + 3 = 3 + i /\ (i + 3 = MaxPayload => i = MaxPayload - 3)
    BY <1>1, Sizes
  <2>2. SameByte(b[i + 3], ByteOf(from + i), i + 3)
    BY <1>3, <1>4, <2>1
  <2> QED
    BY <2>1, <2>2 DEF SameByte, Carries
<1> QED
  BY <1>2, <1>5, <1>6 DEF IsPrinted, n

(* What the controller puts together from the parts numbered k. *)
LEMMA CarriedFacts ==
  ASSUME NEW k, NEW c, NEW parts, NEW from \in Nat, NEW to \in Nat, from <= to, Parts(k) # {},
         \A b \in Parts(k) : IsPrinted(b, c, k, parts, from, to)
  PROVE  /\ DOMAIN Carried(k) = 0 .. to - from - 1
         /\ \A i \in 0 .. to - from - 1 : Carries(Carried(k)[i], i, from)
<1> DEFINE b == CHOOSE b \in Parts(k) : TRUE
           n == to - from
<1>1. IsPrinted(b, c, k, parts, from, to)
  OBVIOUS
<1>2. Carried(k) = [i \in 0 .. Cardinality(DOMAIN b) - 3 - 1 |-> b[i + 3]]
  BY DEF Carried, PartInit
<1> HIDE DEF b
<1>3. n \in Nat
  OBVIOUS
<1>4. /\ DOMAIN b = 0 .. 2 + n
      /\ \A i \in 0 .. n - 1 : Carries(b[i + 3], i, from)
  BY <1>1 DEF IsPrinted
<1> HIDE DEF n
<1>5. Cardinality(0 .. 2 + n) = 2 + n - 0 + 1
  BY <1>3, FS_Interval
<1>6. Cardinality(DOMAIN b) - 3 - 1 = n - 1
  BY <1>3, <1>4, <1>5
<1>7. Carried(k) = [i \in 0 .. n - 1 |-> b[i + 3]]
  BY <1>2, <1>6
<1>8. DOMAIN Carried(k) = 0 .. n - 1 /\ \A i \in 0 .. n - 1 : Carries(Carried(k)[i], i, from)
  BY <1>4, <1>7
<1> QED
  BY <1>8 DEF n

(* A request in one part. *)
LEMMA WholeInOne ==
  ASSUME Inv, ~ IsReport, Complete, origin.length < MaxPayload
  PROVE  RequestWhole
<1> DEFINE L == origin.length
<1>1. L \in Nat /\ L < MaxPayload
  BY CutFacts DEF Inv, OriginOK
<1>2. PICK c \in Nat : Copies(c)
  BY DEF Inv
<1>3. Sent(c) = {PartOf(c, 0, 1, 0, L)}
  BY DEF Sent, PartsOf
<1>4. IsPart(PartOf(c, 0, 1, 0, L), c, 0, 1, 0, L)
  <2>1. 0 \in Nat /\ 0 \in Int /\ 1 \in Int /\ c \in Int /\ 0 <= L /\ L - 0 <= MaxPayload
    BY <1>1, Sizes
  <2> HIDE DEF L
  <2> QED
    BY ONLY <1>1, <2>1, PartFacts
<1>5. ASSUME NEW b \in printed
      PROVE  IsPrinted(b, c, 0, 1, 0, L)
  <2>1. PrintOf(PartOf(c, 0, 1, 0, L), b)
    BY <1>2, <1>3 DEF Copies
  <2>2. 0 \in Nat /\ 0 <= L
    BY <1>1
  <2> HIDE DEF L
  <2> QED
    BY ONLY <1>1, <1>4, <2>1, <2>2, PartPrinted
<1>6. Parts(0) # {} /\ \A b \in Parts(0) : IsPrinted(b, c, 0, 1, 0, L)
  BY <1>5 DEF Complete, Parts
<1>7. /\ DOMAIN Carried(0) = 0 .. L - 1
      /\ \A i \in 0 .. L - 1 : Carries(Carried(0)[i], i, 0)
  <2>1. 0 \in Nat /\ 0 <= L /\ L - 0 = L
    BY <1>1
  <2>2. /\ DOMAIN Carried(0) = 0 .. L - 0 - 1
        /\ \A i \in 0 .. L - 0 - 1 : Carries(Carried(0)[i], i, 0)
    BY <1>1, <1>6, <2>1, CarriedFacts
  <2> QED
    BY <2>1, <2>2
<1>8. \A b, d \in printed : b[0] = d[0] /\ b[2] = d[2]
  BY <1>5 DEF IsPrinted
<1>9. ASSUME NEW i \in 0 .. L - 1
      PROVE  Asked(i) = ByteOf(i) \/ (i = MaxPayload - PartInit /\ Hops > 0 /\ Asked(i) \in Rssi)
  <2>1. i < MaxPayload /\ 0 + i = i
    BY <1>1, Sizes
  <2>2. Asked(i) = Carried(0)[i]
    BY <2>1 DEF Asked
  <2> QED
    BY <1>7, <2>1, <2>2, Sizes DEF Carries
<1>10. ~ L >= MaxPayload
  BY <1>1, Sizes
<1> QED
  BY <1>1, <1>7, <1>8, <1>9, <1>10 DEF RequestWhole

(* A request in two. *)
LEMMA WholeInTwo ==
  ASSUME Inv, ~ IsReport, Complete, ~ origin.length < MaxPayload
  PROVE  RequestWhole
<1> DEFINE L == origin.length
<1>1. /\ L \in Nat /\ MaxPayload <= L /\ L - MaxPayload <= PLD_INDEX
      /\ L - MaxPayload <= MaxPayload
  BY CutFacts DEF Inv, OriginOK
<1>2. PICK c \in Nat : Copies(c)
  BY DEF Inv
<1>3. Sent(c) = {PartOf(c, 0, 2, 0, MaxPayload), PartOf(c, 1, 2, MaxPayload, L)}
  BY DEF Sent, PartsOf
<1>4. /\ MaxPayload \in Nat /\ 0 \in Nat /\ 0 \in Int /\ 1 \in Int /\ 2 \in Int /\ c \in Int
      /\ 0 <= MaxPayload /\ MaxPayload - 0 <= MaxPayload /\ MaxPayload - 0 = MaxPayload
  BY Sizes
<1> HIDE DEF L
<1>5. IsPart(PartOf(c, 0, 2, 0, MaxPayload), c, 0, 2, 0, MaxPayload)
  BY ONLY <1>4, PartFacts
<1>6. IsPart(PartOf(c, 1, 2, MaxPayload, L), c, 1, 2, MaxPayload, L)
  BY ONLY <1>1, <1>4, PartFacts
<1>7. ASSUME NEW b \in printed
      PROVE  \/ IsPrinted(b, c, 0, 2, 0, MaxPayload)
             \/ IsPrinted(b, c, 1, 2, MaxPayload, L)
  <2>1. CASE PrintOf(PartOf(c, 0, 2, 0, MaxPayload), b)
    BY ONLY <1>4, <1>5, <2>1, PartPrinted
  <2>2. CASE PrintOf(PartOf(c, 1, 2, MaxPayload, L), b)
    BY ONLY <1>1, <1>4, <1>6, <2>2, PartPrinted
  <2> QED
    BY <1>2, <1>3, <1>7, <2>1, <2>2 DEF Copies
<1>8. /\ \A b \in Parts(0) : IsPrinted(b, c, 0, 2, 0, MaxPayload)
      /\ \A b \in Parts(1) : IsPrinted(b, c, 1, 2, MaxPayload, L)
  BY <1>7 DEF Parts, IsPrinted
<1>9. Parts(0) # {} /\ Parts(1) # {}
  BY DEF Complete
<1>10. /\ DOMAIN Carried(0) = 0 .. MaxPayload - 1
       /\ \A i \in 0 .. MaxPayload - 1 : Carries(Carried(0)[i], i, 0)
  <2>1. /\ DOMAIN Carried(0) = 0 .. MaxPayload - 0 - 1
        /\ \A i \in 0 .. MaxPayload - 0 - 1 : Carries(Carried(0)[i], i, 0)
    BY <1>4, <1>8, <1>9, CarriedFacts
  <2> QED
    BY <1>4, <2>1
<1>11. /\ DOMAIN Carried(1) = 0 .. L - MaxPayload - 1
       /\ \A i \in 0 .. L - MaxPayload - 1 : Carries(Carried(1)[i], i, MaxPayload)
  BY <1>1, <1>4, <1>8, <1>9, CarriedFacts
<1>12. \A b, d \in printed : b[0] = d[0] /\ b[2] = d[2]
  BY <1>7 DEF IsPrinted
<1>13. ASSUME NEW i \in 0 .. L - 1
       PROVE  Asked(i) = ByteOf(i) \/ (i = MaxPayload - PartInit /\ Hops > 0 /\ Asked(i) \in Rssi)
  <2>1. CASE i < MaxPayload
    <3>1. i \in 0 .. MaxPayload - 1 /\ 0 + i = i
      BY <1>4, <2>1
    <3>2. Asked(i) = Carried(0)[i]
      BY <2>1 DEF Asked
    <3> QED
      BY <1>10, <3>1, <3>2, Sizes DEF Carries
  <2>2. CASE ~ i < MaxPayload
    <3>1. /\ i - MaxPayload \in 0 .. L - MaxPayload - 1 /\ MaxPayload + (i - MaxPayload) = i
          /\ i - MaxPayload # MaxPayload - 3
      BY <1>1, <1>4, <2>2, Sizes
    <3>2. Asked(i) = Carried(1)[i - MaxPayload]
      BY <2>2 DEF Asked
    <3> QED
      BY <1>11, <3>1, <3>2 DEF Carries
  <2> QED
    BY <2>1, <2>2
<1> QED
  BY <1>10, <1>11, <1>12, <1>13, Sizes DEF RequestWhole, L

(* A request that arrives in full tells every byte of the packet it was made  *)
(* for, but for the one that lies behind the payload: for every length of     *)
(* packet, payload and header, and any number of hops.                       *)
THEOREM RequestsWhole == Spec => []RequestWhole
<1>1. Inv => RequestWhole
  BY WholeInOne, WholeInTwo DEF RequestWhole
<1> QED
  BY <1>1, InvHolds, PTL
-----------------------------------------------------------------------------
(* Reports. *)

(* A printed report has three bytes of every neighbour behind its length. *)
LEMMA ReportPrinted ==
  ASSUME NEW q, NEW b, NEW table \in Seq(Neighbor), IsReportOf(q, table), PrintOf(q, b)
  PROVE  /\ DOMAIN b = 0 .. 2 + 3 * Len(table)
         /\ b[2] = Len(table)
         /\ \A j \in 0 .. 3 * Len(table) - 1 :
              SameByte(b[3 + j], NeighborByte(table, j), 3 + j)
<1> DEFINE n == 3 * Len(table)
<1>1. n \in Nat /\ Len(table) \in Nat
  OBVIOUS
<1>2. DOMAIN b = 0 .. 2 + n
  BY <1>1, Sizes DEF PrintOf, IsReportOf
<1>3. \A i \in 0 .. 2 + n : SameByte(b[i], q.cells[i], i)
  BY <1>2 DEF PrintOf
<1>4. q.cells[2] = Len(table) /\ \A j \in 0 .. n - 1 : q.cells[3 + j] = NeighborByte(table, j)
  BY DEF IsReportOf
<1> HIDE DEF n
<1>5. b[2] = Len(table)
  BY <1>1, <1>3, <1>4, Sizes DEF SameByte
<1>6. ASSUME NEW j \in 0 .. n - 1
      PROVE  SameByte(b[3 + j], NeighborByte(table, j), 3 + j)
  <2>1. 3 + j \in 0 .. 2 + n
    BY <1>1
  <2> QED
    BY <1>3, <1>4, <2>1
<1> QED
  BY <1>2, <1>5, <1>6 DEF n

(* Two bytes and the number they were made of. *)
LEMMA SplitAndJoin ==
  ASSUME NEW x \in Int
  PROVE  \E y \in Int, z \in Int : y = x \div 256 /\ z = x % 256 /\ 256 * y + z = x
<1>1. PICK y \in Int : y = x \div 256
  OBVIOUS
<1>2. PICK z \in Int : z = x % 256
  OBVIOUS
<1>3. 256 * y + z = x
  BY <1>1, <1>2
<1> WITNESS y \in Int, z \in Int
<1> QED
  BY <1>1, <1>2, <1>3

(* The bytes of neighbour k. *)
LEMMA BytesOfNeighbor ==
  ASSUME NEW table \in Seq(Neighbor), NEW k \in 1 .. Len(table)
  PROVE  /\ NeighborByte(table, 3 * (k - 1)) = table[k].address \div 256
         /\ NeighborByte(table, 3 * (k - 1) + 1) = table[k].address % 256
         /\ NeighborByte(table, 3 * (k - 1) + 2) = table[k].rssi
<1>1. \A x \in Nat : /\ (3 * x) \div 3 = x /\ (3 * x) % 3 = 0
                     /\ (3 * x + 1) \div 3 = x /\ (3 * x + 1) % 3 = 1
                     /\ (3 * x + 2) \div 3 = x /\ (3 * x + 2) % 3 = 2
  BY SMT
<1>2. k - 1 \in Nat /\ (k - 1) + 1 = k
  OBVIOUS
<1> DEFINE x == 3 * (k - 1)
<1>3. /\ x \div 3 + 1 = k /\ x % 3 = 0
      /\ (x + 1) \div 3 + 1 = k /\ (x + 1) % 3 = 1
      /\ (x + 2) \div 3 + 1 = k /\ (x + 2) % 3 = 2
  BY <1>1, <1>2
<1> HIDE DEF x
<1>4. NeighborByte(table, x) = table[k].address \div 256
  BY <1>3 DEF NeighborByte, NeighborLength
<1>5. NeighborByte(table, x + 1) = table[k].address % 256
  BY <1>3 DEF NeighborByte, NeighborLength
<1>6. NeighborByte(table, x + 2) = table[k].rssi
  BY <1>3 DEF NeighborByte, NeighborLength
<1> QED
  BY <1>4, <1>5, <1>6 DEF x

(* The last neighbour of a full table: its address, and never its rssi, may   *)
(* lie behind the payload.                                                   *)
LEMMA LastNeighbor ==
  ASSUME NEW k \in Nat \ {0}
  PROVE  /\ 3 * k = MaxPayload => k = NumNeighbors
         /\ 3 * k + 1 = MaxPayload => k = NumNeighbors
         /\ 3 * k + 2 = MaxPayload => MaxPayload % 3 = 2
<1>1. \A x \in Nat : (3 * x) \div 3 = x /\ (3 * x + 1) \div 3 = x /\ (3 * x + 2) % 3 = 2
  BY SMT
<1> QED
  BY <1>1 DEF NumNeighbors, NeighborLength

LEMMA NeighborTold ==
  ASSUME MaxPayload % 3 # 2,
         NEW table \in Seq(Neighbor), NEW b, b[2] = Len(table), NEW k \in 1 .. Len(table),
         \A j \in 0 .. 3 * Len(table) - 1 : SameByte(b[3 + j], NeighborByte(table, j), 3 + j)
  PROVE  \/ Told(b)[k] = table[k]
         \/ k = NumNeighbors /\ Hops > 0 /\ Told(b)[k].rssi = table[k].rssi
<1> DEFINE i == 3 + 3 * (k - 1)
           t == table[k]
<1>1. /\ i \in Nat /\ i = 3 * k /\ k \in Nat \ {0}
      /\ 3 * (k - 1) \in 0 .. 3 * Len(table) - 1 /\ 3 + 3 * (k - 1) = i
      /\ 3 * (k - 1) + 1 \in 0 .. 3 * Len(table) - 1 /\ 3 + (3 * (k - 1) + 1) = i + 1
      /\ 3 * (k - 1) + 2 \in 0 .. 3 * Len(table) - 1 /\ 3 + (3 * (k - 1) + 2) = i + 2
  OBVIOUS
<1>2. Told(b)[k] = [address |-> 256 * b[i] + b[i + 1], rssi |-> b[i + 2]]
  BY DEF Told, ReportInit, NeighborLength
<1>3. /\ SameByte(b[i], t.address \div 256, i)
      /\ SameByte(b[i + 1], t.address % 256, i + 1)
      /\ SameByte(b[i + 2], t.rssi, i + 2)
  BY <1>1, BytesOfNeighbor
<1>4. t \in Neighbor
  OBVIOUS
<1>5. t = [address |-> t.address, rssi |-> t.rssi] /\ t.address \in Address
  BY <1>4, UpstreamAssumption DEF Neighbor
<1>6. PICK x \in Int : x = t.address
  BY ONLY <1>5, BytesAreInt
<1>7. PICK y \in Int, z \in Int : y = x \div 256 /\ z = x % 256 /\ 256 * y + z = x
  BY <1>6, SplitAndJoin
<1> HIDE DEF i, t
<1>10. b[i + 2] = t.rssi
  BY <1>1, <1>3, LastNeighbor DEF SameByte
<1>11. SameByte(b[i], y, i) /\ SameByte(b[i + 1], z, i + 1)
  BY <1>3, <1>6, <1>7
<1>12. CASE b[i] = y /\ b[i + 1] = z
  <2>1. Told(b)[k] = [address |-> x, rssi |-> t.rssi]
    BY ONLY <1>2, <1>7, <1>10, <1>12
  <2> QED
    BY <1>5, <1>6, <2>1 DEF t
<1>13. CASE ~ (b[i] = y /\ b[i + 1] = z)
  <2>1. Hops > 0 /\ (i = MaxPayload \/ i + 1 = MaxPayload)
    BY <1>11, <1>13 DEF SameByte
  <2>2. k = NumNeighbors
    BY <1>1, <2>1, LastNeighbor
  <2> QED
    BY <1>2, <1>10, <2>1, <2>2 DEF t
<1> QED
  BY <1>12, <1>13

LEMMA HonestNow ==
  ASSUME MaxPayload % 3 # 2, Inv
  PROVE  ReportHonest
<1> SUFFICES ASSUME IsReport, NEW b \in printed
             PROVE  /\ DOMAIN b = 0 .. 2 + 3 * Len(origin.table)
                    /\ b[2] = Len(origin.table)
                    /\ \A k \in 1 .. Len(origin.table) :
                         \/ Told(b)[k] = origin.table[k]
                         \/ k = NumNeighbors /\ Hops > 0
                            /\ Told(b)[k].rssi = origin.table[k].rssi
  BY DEF ReportHonest, ReportInit, NeighborLength
<1> DEFINE T == origin.table
<1>1. T \in Seq(Neighbor) /\ Len(T) <= NumNeighbors
  BY DEF Inv, OriginOK
<1>2. PrintOf(Report(T), b)
  BY DEF Inv, Copies, Sent
<1> HIDE DEF T
<1>3. IsReportOf(Report(T), T)
  BY <1>1, ReportFacts
<1>4. /\ DOMAIN b = 0 .. 2 + 3 * Len(T)
      /\ b[2] = Len(T)
      /\ \A j \in 0 .. 3 * Len(T) - 1 : SameByte(b[3 + j], NeighborByte(T, j), 3 + j)
  BY <1>1, <1>2, <1>3, ReportPrinted
<1>5. \A k \in 1 .. Len(T) :
        \/ Told(b)[k] = T[k]
        \/ k = NumNeighbors /\ Hops > 0 /\ Told(b)[k].rssi = T[k].rssi
  BY <1>1, <1>4, NeighborTold
<1> QED
  BY <1>4, <1>5 DEF T

(* A report is printed as the table was, but for the address of the last      *)
(* neighbour of a full table: for every set of neighbours, any number of      *)
(* hops, and every payload that does not end between an address and its rssi *)
(* (the code's, of 106 bytes, does not).                                     *)
THEOREM ReportsHonest == MaxPayload % 3 # 2 => (Spec => []ReportHonest)
<1> SUFFICES ASSUME MaxPayload % 3 # 2 PROVE Spec => []ReportHonest
  OBVIOUS
<1>1. Inv => ReportHonest
  BY HonestNow
<1> QED
  BY <1>1, InvHolds, PTL
=============================================================================
