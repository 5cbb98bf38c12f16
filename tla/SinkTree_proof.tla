--------------------------- MODULE SinkTree_proof ---------------------------
(***************************************************************************)
(* What SinkTree promises for every network: types always, and, as long as *)
(* no node has rebooted, that the parents form a tree rooted at the sink.  *)
(*                                                                         *)
(* ParentNearer is not inductive: a node follows its parent's beacon       *)
(* without comparing it with what it knows, so the beacons still in the    *)
(* air matter.  Since each channel is first in first out and hop counts    *)
(* only go down, a beacon of s is worth no less than s is now, beacons of  *)
(* s reach n in an order that never goes up, and those of n's parent that  *)
(* are still to be handled are all below n's own count.                    *)
(***************************************************************************)
EXTENDS SinkTree, FiniteSetTheorems, WellFoundedInduction, TLAPS

SinkFixed == parent[Sink] = Sink /\ hops[Sink] = 0 /\ sink[Sink] = Sink

Attached(n) ==
  \/ parent[n] = Broadcast /\ sink[n] = Broadcast /\ hops[n] = PacketTTL
  \/ /\ parent[n] \in Nodes /\ sink[n] = Sink
     /\ hops[n] \in 1 .. PacketTTL
     /\ parent[parent[n]] # Broadcast

(* A beacon of s that is still in the air. *)
Honest(s, b) ==
  /\ hops[s] <= b.hops /\ b.hops <= PacketTTL
  /\ b.hops < PacketTTL => b.sink = Sink /\ parent[s] # Broadcast

Airborne == \A s, n \in Nodes : \A i \in 1 .. Len(air[s][n]) : Honest(s, air[s][n][i])

Ordered ==
  \A s, n \in Nodes : \A i, j \in 1 .. Len(air[s][n]) :
    i <= j => air[s][n][j].hops <= air[s][n][i].hops

Nearer(n) ==
  parent[n] # Broadcast =>
    /\ hops[parent[n]] < hops[n]
    /\ \A i \in 1 .. Len(air[parent[n]][n]) : air[parent[n]][n][i].hops < hops[n]

Shape ==
  /\ SinkFixed
  /\ \A n \in Others : Attached(n)
  /\ Airborne
  /\ Ordered
  /\ \A n \in Others : Nearer(n)

TtlLeft == report # NoReport => hops[report.to] <= report.ttl

Tree == reboots = 0 => Shape /\ TtlLeft

IInv == TypeOK /\ Tree

(* Throughout, a byte is the interval it stands for. *)
USE DEF Byte
-----------------------------------------------------------------------------
(* Types. *)

LEMMA Constants ==
  /\ Sink \in Nodes /\ Sink \in Addresses /\ Broadcast \in Addresses
  /\ PacketTTL \in Byte /\ MaxDistance \in Byte /\ MaxTTL \in Byte
  /\ 0 \in Byte /\ ResetPeriod \in 0 .. ResetPeriod /\ 0 \in 0 .. MaxReboots
  /\ ResetPeriod \in Nat /\ Rssi \subseteq Byte
BY TreeAssumption DEF Addresses

LEMMA ByteSize == ByteMod \in Nat \ {0, 1}
BY TreeAssumption

(* Arithmetic on a byte. *)
LEMMA ByteArithmetic ==
  /\ ByteMod \in Nat \ {0, 1}
  /\ \A k \in Int : k % ByteMod \in Byte /\ (k \in Byte => k % ByteMod = k)
<1>1. ByteMod \in Nat \ {0, 1}
  BY ByteSize
<1> QED
  BY <1>1

LEMMA InitType == Init => TypeOK
<1> SUFFICES ASSUME Init PROVE TypeOK
  OBVIOUS
<1>1. parent \in [Nodes -> Addresses] /\ sink \in [Nodes -> Addresses]
  BY Constants DEF Init, InitConf
<1>2. hops \in [Nodes -> Byte]
  BY Constants DEF Init, InitConf
<1>3. distance \in [Nodes -> Byte]
  BY Constants DEF Init, InitConf
<1>4. period \in [Nodes -> 0 .. ResetPeriod]
  BY Constants DEF Init
<1>5. active \in [Nodes -> BOOLEAN]
  BY DEF Init
<1>6. air \in [Nodes -> [Nodes -> Seq(Beacon)]]
  BY DEF Init
<1> QED
  BY <1>1, <1>2, <1>3, <1>4, <1>5, <1>6, Constants DEF Init, TypeOK

LEMMA TransmitType ==
  ASSUME TypeOK, NEW to \in Addresses, NEW ttl \in Byte, Transmit(to, ttl)
  PROVE  report' \in {NoReport} \cup [to : Nodes, ttl : Byte]
<1>1. (ttl - 1) % ByteMod \in Byte
  <2>1. ttl - 1 \in Int
    BY ByteSize
  <2> QED
    BY <2>1, ByteArithmetic
<1> QED
  BY <1>1 DEF Transmit, Addresses

LEMMA SendBeaconType ==
  ASSUME TypeOK, NEW s \in Nodes, NEW heard \in SUBSET Neighbours(s), SendBeacon(s, heard)
  PROVE  TypeOK'
<1>1. [hops |-> hops[s], sink |-> sink[s]] \in Beacon
  BY DEF TypeOK, Beacon
<1>2. air' \in [Nodes -> [Nodes -> Seq(Beacon)]]
  BY <1>1 DEF SendBeacon, TypeOK
<1> QED
  BY <1>2 DEF SendBeacon, TypeOK, conf

LEMMA HandleBeaconType ==
  ASSUME TypeOK, NEW n \in Nodes, NEW s \in Nodes, HandleBeacon(n, s)
  PROVE  TypeOK'
<1> DEFINE b == Head(air[s][n])
<1>1. b \in Beacon /\ air' \in [Nodes -> [Nodes -> Seq(Beacon)]]
  BY DEF HandleBeacon, TypeOK
<1>2. b.hops \in Byte /\ b.sink \in Addresses
  BY <1>1 DEF Beacon
<1>3. active' \in [Nodes -> BOOLEAN] /\ wrapped' \in BOOLEAN
  <2>1. wrapped' = wrapped \/ wrapped' = (wrapped \/ b.hops = ByteMod - 1)
    BY DEF HandleBeacon
  <2>2. wrapped' \in BOOLEAN
    BY <2>1, Zenon DEF TypeOK
  <2> QED
    BY <2>2 DEF HandleBeacon, TypeOK
<1>4. PICK r \in Rssi : \/ n # Sink /\ Follows(n, s, b, r) /\ Adopt(n, s, b, r)
                        \/ UNCHANGED conf
  BY DEF HandleBeacon
<1>5. CASE Adopt(n, s, b, r)
  <2>1. (b.hops + 1) % ByteMod \in Byte
    <3>1. \A k \in Byte : (k + 1) % ByteMod \in Byte
      BY ByteArithmetic
    <3> QED
      BY <1>2, <3>1, Zenon
  <2>5. r \in Byte
    BY Constants
  <2>2. hops' \in [Nodes -> Byte]
    BY <1>5, <2>1 DEF Adopt, TypeOK
  <2>4. distance' \in [Nodes -> Byte]
    BY <1>5, <2>5 DEF Adopt, TypeOK
  <2>3. parent' \in [Nodes -> Addresses] /\ sink' \in [Nodes -> Addresses]
    BY <1>5, <1>2 DEF Adopt, TypeOK, Addresses
  <2> QED
    BY <1>1, <1>3, <2>2, <2>3, <2>4 DEF HandleBeacon, TypeOK
<1>6. CASE UNCHANGED conf
  BY <1>1, <1>3, <1>6 DEF HandleBeacon, TypeOK, conf
<1> QED
  BY <1>4, <1>5, <1>6

LEMMA SendReportType ==
  ASSUME TypeOK, NEW n \in Nodes, SendReport(n)
  PROVE  TypeOK'
<1>1. parent[n] \in Addresses
  BY DEF TypeOK
<1>2. report' \in {NoReport} \cup [to : Nodes, ttl : Byte]
  <2>1. CASE Transmit(parent[n], MaxTTL)
    BY <1>1, <2>1, Constants, TransmitType
  <2>2. CASE UNCHANGED report
    BY <2>2 DEF TypeOK
  <2> QED
    BY <2>1, <2>2 DEF SendReport
<1>3. ResetDistance(n)
  BY DEF SendReport
<1>4. CASE period[n] = 0
  <2>1. /\ distance' = [distance EXCEPT ![n] = MaxDistance]
        /\ period' = [period EXCEPT ![n] = ResetPeriod]
    BY <1>3, <1>4 DEF ResetDistance
  <2>2. distance' \in [Nodes -> Byte]
    BY <2>1, Constants DEF TypeOK
  <2>3. period' \in [Nodes -> 0 .. ResetPeriod]
    BY <2>1, Constants DEF TypeOK
  <2> QED
    BY <1>2, <2>2, <2>3 DEF SendReport, TypeOK
<1>5. CASE period[n] # 0
  <2>1. period' = [period EXCEPT ![n] = @ - 1] /\ UNCHANGED distance
    BY <1>3, <1>5 DEF ResetDistance
  <2>2. period[n] - 1 \in 0 .. ResetPeriod
    <3>1. period[n] \in 0 .. ResetPeriod
      BY DEF TypeOK
    <3> QED
      BY <1>5, <3>1, Constants
  <2>3. period' \in [Nodes -> 0 .. ResetPeriod]
    BY <2>1, <2>2 DEF TypeOK
  <2> QED
    BY <1>2, <2>1, <2>3 DEF SendReport, TypeOK
<1> QED
  BY <1>4, <1>5

LEMMA ForwardReportType ==
  ASSUME TypeOK, NEW n \in Nodes, ForwardReport(n)
  PROVE  TypeOK'
<1>1. parent[n] \in Addresses /\ report.ttl \in Byte
  BY DEF TypeOK, ForwardReport
<1>2. report' \in {NoReport} \cup [to : Nodes, ttl : Byte]
  BY <1>1, TransmitType DEF ForwardReport
<1> QED
  BY <1>2 DEF ForwardReport, TypeOK, conf

LEMMA RebootType ==
  ASSUME TypeOK, NEW n \in Nodes, Reboot(n)
  PROVE  TypeOK'
<1>1. air' \in [Nodes -> [Nodes -> Seq(Beacon)]]
  BY DEF Reboot, TypeOK
<1>2. hops' \in [Nodes -> Byte]
  BY Constants DEF Reboot, TypeOK
<1>3. distance' \in [Nodes -> Byte]
  BY Constants DEF Reboot, TypeOK
<1>4. parent' \in [Nodes -> Addresses] /\ sink' \in [Nodes -> Addresses]
  BY Constants DEF Reboot, TypeOK
<1>5. period' \in [Nodes -> 0 .. ResetPeriod]
  BY Constants DEF Reboot, TypeOK
<1>6. active' \in [Nodes -> BOOLEAN]
  BY DEF Reboot, TypeOK
<1>7. report' \in {NoReport} \cup [to : Nodes, ttl : Byte]
  BY DEF Reboot, TypeOK
<1>8. reboots' \in 0 .. MaxReboots /\ wrapped' \in BOOLEAN
  BY TreeAssumption DEF Reboot, TypeOK
<1> QED
  BY <1>1, <1>2, <1>3, <1>4, <1>5, <1>6, <1>7, <1>8 DEF TypeOK

LEMMA NextType == TypeOK /\ [Next]_vars => TypeOK'
<1> SUFFICES ASSUME TypeOK, [Next]_vars PROVE TypeOK'
  OBVIOUS
<1>1. CASE \E s \in Nodes : \E heard \in SUBSET Neighbours(s) : SendBeacon(s, heard)
  BY <1>1, SendBeaconType
<1>2. ASSUME NEW n \in Nodes, HearBroadcast(n) PROVE TypeOK'
  BY <1>2 DEF HearBroadcast, TypeOK, conf
<1>3. CASE \E n \in Nodes : SendReport(n)
  BY <1>3, SendReportType
<1>4. CASE \E n \in Nodes : ForwardReport(n)
  BY <1>4, ForwardReportType
<1>5. CASE \E n \in Nodes : Reboot(n)
  BY <1>5, RebootType
<1>6. CASE \E n, s \in Nodes : HandleBeacon(n, s)
  BY <1>6, HandleBeaconType
<1>7. CASE DeliverReport
  BY <1>7 DEF DeliverReport, TypeOK, conf
<1>8. CASE LoseReport
  BY <1>8 DEF LoseReport, TypeOK, conf
<1>9. CASE UNCHANGED vars
  BY <1>9 DEF vars, TypeOK
<1> QED
  BY <1>1, <1>2, <1>3, <1>4, <1>5, <1>6, <1>7, <1>8, <1>9 DEF Next

(* Every variable keeps its type; in particular hop counts and ttls stay    *)
(* within a byte, in every network.                                         *)
THEOREM TypeCorrect == Spec => []TypeOK
<1>1. Init => TypeOK
  BY InitType
<1>2. TypeOK /\ [Next]_vars => TypeOK'
  BY NextType
<1> QED
  BY <1>1, <1>2, PTL DEF Spec
-----------------------------------------------------------------------------
(* The tree. *)

LEMMA HeadTail ==
  ASSUME NEW S, NEW q \in Seq(S), q # << >>
  PROVE  /\ 1 \in 1 .. Len(q) /\ Head(q) = q[1]
         /\ \A i \in 1 .. Len(Tail(q)) : i + 1 \in 1 .. Len(q) /\ Tail(q)[i] = q[i + 1]
OBVIOUS

LEMMA Appended ==
  ASSUME NEW S, NEW q \in Seq(S), NEW e \in S, NEW i \in 1 .. Len(Append(q, e))
  PROVE  \/ i \in 1 .. Len(q) /\ Append(q, e)[i] = q[i]
         \/ i = Len(q) + 1 /\ Append(q, e)[i] = e
OBVIOUS

(* What is in the air are beacons. *)
LEMMA AirType ==
  ASSUME TypeOK, NEW s \in Nodes, NEW n \in Nodes
  PROVE  /\ air[s][n] \in Seq(Beacon)
         /\ Len(air[s][n]) \in Nat
         /\ \A i \in 1 .. Len(air[s][n]) :
               air[s][n][i] \in Beacon /\ air[s][n][i].hops \in Byte
<1>1. air[s][n] \in Seq(Beacon)
  BY DEF TypeOK
<1>2. Len(air[s][n]) \in Nat /\ \A i \in 1 .. Len(air[s][n]) : air[s][n][i] \in Beacon
  BY <1>1
<1> QED
  BY <1>1, <1>2 DEF Beacon

(* In the tree every hop count is at most PacketTTL. *)
LEMMA HopsSmall ==
  ASSUME TypeOK, Shape, NEW n \in Nodes
  PROVE  /\ hops[n] \in 0 .. PacketTTL
         /\ hops[n] < PacketTTL => sink[n] = Sink /\ parent[n] # Broadcast
<1>1. CASE n = Sink
  BY <1>1, TreeAssumption DEF Shape, SinkFixed
<1>2. CASE n \in Others
  <2>1. Attached(n)
    BY <1>2 DEF Shape
  <2>2. PacketTTL \in 1 .. ByteMod - 1 /\ Broadcast \notin Nodes
    BY TreeAssumption
  <2> QED
    BY <2>1, <2>2 DEF Attached
<1> QED
  BY <1>1, <1>2 DEF Others

LEMMA InitShape == Init => Shape /\ TtlLeft
<1> SUFFICES ASSUME Init PROVE Shape /\ TtlLeft
  OBVIOUS
<1>1. SinkFixed
  BY TreeAssumption DEF Init, InitConf, SinkFixed
<1>2. ASSUME NEW n \in Others
      PROVE  parent[n] = Broadcast /\ sink[n] = Broadcast /\ hops[n] = PacketTTL
  BY DEF Init, InitConf, Others
<1>3. ASSUME NEW s \in Nodes, NEW n \in Nodes PROVE Len(air[s][n]) = 0
  BY DEF Init
<1>4. Airborne /\ Ordered
  BY <1>3 DEF Airborne, Ordered
<1> QED
  BY <1>1, <1>2, <1>4 DEF Init, Shape, Attached, Nearer, TtlLeft

(* A step that leaves hop counts, parents, sinks and the air alone. *)
LEMMA ShapeKept ==
  ASSUME Shape, UNCHANGED <<parent, hops, sink, air>>
  PROVE  Shape'
BY DEF Shape, SinkFixed, Attached, Airborne, Honest, Ordered, Nearer

LEMMA SendBeaconShape ==
  ASSUME TypeOK, Shape, NEW s \in Nodes, NEW heard \in SUBSET Neighbours(s),
         SendBeacon(s, heard)
  PROVE  Shape'
<1> DEFINE b == [hops |-> hops[s], sink |-> sink[s]]
<1>1. /\ b \in Beacon /\ b.hops = hops[s] /\ b.sink = sink[s]
      /\ hops[s] \in 0 .. PacketTTL
      /\ hops[s] < PacketTTL => sink[s] = Sink /\ parent[s] # Broadcast
  BY HopsSmall DEF TypeOK, Beacon
<1>2. UNCHANGED <<parent, hops, sink>>
  BY DEF SendBeacon, conf
<1>3. Honest(s, b)
  BY <1>1 DEF Honest
<1>4. ASSUME NEW x \in Nodes, NEW n \in Nodes
      PROVE  \/ air'[x][n] = air[x][n]
             \/ x = s /\ air'[x][n] = Append(air[x][n], b)
  BY DEF SendBeacon, TypeOK
<1> HIDE DEF b
<1>5. ASSUME NEW x \in Nodes, NEW n \in Nodes, NEW i \in 1 .. Len(air'[x][n])
      PROVE  \/ i \in 1 .. Len(air[x][n]) /\ air'[x][n][i] = air[x][n][i]
             \/ x = s /\ i = Len(air[x][n]) + 1 /\ air'[x][n][i] = b
  <2>1. air[x][n] \in Seq(Beacon)
    BY AirType
  <2>2. CASE air'[x][n] = air[x][n]
    BY <1>5, <2>2
  <2>3. CASE x = s /\ air'[x][n] = Append(air[x][n], b)
    <3>1. i \in 1 .. Len(Append(air[x][n], b))
      BY <1>5, <2>3
    <3> QED
      BY <2>1, <2>3, <3>1, <1>1, Appended
  <2> QED
    BY <1>4, <2>2, <2>3
<1>6. Airborne'
  <2> SUFFICES ASSUME NEW x \in Nodes, NEW n \in Nodes, NEW i \in 1 .. Len(air'[x][n])
               PROVE  Honest(x, air'[x][n][i])
    BY <1>2 DEF Airborne, Honest
  <2> QED
    BY <1>3, <1>5 DEF Shape, Airborne
<1>7. Ordered'
  <2> SUFFICES ASSUME NEW x \in Nodes, NEW n \in Nodes,
                      NEW i \in 1 .. Len(air'[x][n]), NEW j \in 1 .. Len(air'[x][n]), i <= j
               PROVE  air'[x][n][j].hops <= air'[x][n][i].hops
    BY DEF Ordered
  <2>1. Len(air[x][n]) \in Nat
    BY AirType
  <2>2. CASE i \in 1 .. Len(air[x][n]) /\ air'[x][n][i] = air[x][n][i]
    <3>1. CASE j \in 1 .. Len(air[x][n]) /\ air'[x][n][j] = air[x][n][j]
      BY <2>2, <3>1 DEF Shape, Ordered
    <3>2. CASE x = s /\ air'[x][n][j] = b
      <4>1. Honest(s, air[x][n][i])
        BY <2>2, <3>2 DEF Shape, Airborne
      <4> QED
        BY <4>1, <2>2, <3>2, <1>1 DEF Honest
    <3> QED
      BY <1>5, <3>1, <3>2
  <2>3. CASE x = s /\ i = Len(air[x][n]) + 1 /\ air'[x][n][i] = b
    <3>1. j = i
      BY <2>1, <2>3, <1>5
    <3>2. b.hops <= b.hops
      BY <1>1
    <3> QED
      BY <2>3, <3>1, <3>2
  <2> QED
    BY <1>5, <2>2, <2>3
<1>8. ASSUME NEW n \in Others PROVE Nearer(n)'
  <2> SUFFICES ASSUME parent[n] # Broadcast
               PROVE  /\ hops[parent[n]] < hops[n]
                      /\ \A i \in 1 .. Len(air'[parent[n]][n]) :
                           air'[parent[n]][n][i].hops < hops[n]
    BY <1>2 DEF Nearer
  <2>1. n \in Nodes /\ parent[n] \in Nodes
    BY DEF TypeOK, Others, Addresses
  <2>2. Nearer(n)
    BY DEF Shape
  <2>3. ASSUME NEW i \in 1 .. Len(air'[parent[n]][n])
        PROVE  air'[parent[n]][n][i].hops < hops[n]
    BY <1>1, <1>5, <2>1, <2>2 DEF Nearer
  <2> QED
    BY <2>2, <2>3 DEF Nearer
<1>9. SinkFixed' /\ \A n \in Others : Attached(n)'
  BY <1>2 DEF Shape, SinkFixed, Attached
<1> QED
  BY <1>6, <1>7, <1>8, <1>9 DEF Shape

(* Handling a beacon takes it out of the air, and nothing else.             *)
LEMMA Handled ==
  ASSUME TypeOK, NEW n \in Nodes, NEW s \in Nodes, HandleBeacon(n, s)
  PROVE  /\ 1 \in 1 .. Len(air[s][n]) /\ Head(air[s][n]) = air[s][n][1]
         /\ \A x, m \in Nodes : \A i \in 1 .. Len(air'[x][m]) :
              \/ /\ x = s /\ m = n
                 /\ i + 1 \in 1 .. Len(air[x][m]) /\ air'[x][m][i] = air[x][m][i + 1]
              \/ /\ ~ (x = s /\ m = n)
                 /\ i \in 1 .. Len(air[x][m]) /\ air'[x][m][i] = air[x][m][i]
<1>1. air[s][n] \in Seq(Beacon) /\ air[s][n] # << >>
  BY AirType DEF HandleBeacon
<1>2. air'[s][n] = Tail(air[s][n])
  BY DEF HandleBeacon, TypeOK
<1>3. \A x, m \in Nodes : ~ (x = s /\ m = n) => air'[x][m] = air[x][m]
  BY DEF HandleBeacon, TypeOK
<1>4. 1 \in 1 .. Len(air[s][n]) /\ Head(air[s][n]) = air[s][n][1]
  BY <1>1, HeadTail
<1>5. \A i \in 1 .. Len(air'[s][n]) :
         i + 1 \in 1 .. Len(air[s][n]) /\ air'[s][n][i] = air[s][n][i + 1]
  BY <1>1, <1>2, HeadTail
<1> QED
  BY <1>3, <1>4, <1>5

LEMMA HandledOld ==
  ASSUME TypeOK, NEW n \in Nodes, NEW s \in Nodes, HandleBeacon(n, s),
         NEW x \in Nodes, NEW m \in Nodes, NEW i \in 1 .. Len(air'[x][m])
  PROVE  \E j \in 1 .. Len(air[x][m]) : air'[x][m][i] = air[x][m][j]
<1>1. CASE x = s /\ m = n
  <2>1. i + 1 \in 1 .. Len(air[x][m]) /\ air'[x][m][i] = air[x][m][i + 1]
    BY <1>1, Handled
  <2> QED
    BY <2>1
<1>2. CASE ~ (x = s /\ m = n)
  <2>1. i \in 1 .. Len(air[x][m]) /\ air'[x][m][i] = air[x][m][i]
    BY <1>2, Handled
  <2> QED
    BY <2>1
<1> QED
  BY <1>1, <1>2

(* Whether it is followed or not, what stays in the air stays ordered.      *)
LEMMA HandledOrdered ==
  ASSUME TypeOK, Shape, NEW n \in Nodes, NEW s \in Nodes, HandleBeacon(n, s)
  PROVE  Ordered'
<1> SUFFICES ASSUME NEW x \in Nodes, NEW m \in Nodes,
                    NEW i \in 1 .. Len(air'[x][m]), NEW j \in 1 .. Len(air'[x][m]), i <= j
             PROVE  air'[x][m][j].hops <= air'[x][m][i].hops
  BY DEF Ordered
<1>1. Ordered
  BY DEF Shape
<1>2. CASE x = s /\ m = n
  <2>1. /\ i + 1 \in 1 .. Len(air[x][m]) /\ air'[x][m][i] = air[x][m][i + 1]
        /\ j + 1 \in 1 .. Len(air[x][m]) /\ air'[x][m][j] = air[x][m][j + 1]
    BY <1>2, Handled
  <2>2. i + 1 <= j + 1
    OBVIOUS
  <2> QED
    BY <1>1, <2>1, <2>2 DEF Ordered
<1>3. CASE ~ (x = s /\ m = n)
  <2>1. /\ i \in 1 .. Len(air[x][m]) /\ air'[x][m][i] = air[x][m][i]
        /\ j \in 1 .. Len(air[x][m]) /\ air'[x][m][j] = air[x][m][j]
    BY <1>3, Handled
  <2> QED
    BY <1>1, <2>1 DEF Ordered
<1> QED
  BY <1>2, <1>3

LEMMA IgnoredShape ==
  ASSUME TypeOK, Shape, NEW n \in Nodes, NEW s \in Nodes, HandleBeacon(n, s), UNCHANGED conf
  PROVE  Shape'
<1>1. UNCHANGED <<parent, hops, sink>>
  BY DEF conf
<1>2. ASSUME NEW x \in Nodes, NEW m \in Nodes, NEW i \in 1 .. Len(air'[x][m])
      PROVE  \E j \in 1 .. Len(air[x][m]) : air'[x][m][i] = air[x][m][j]
  BY HandledOld
<1>3. Airborne'
  <2> SUFFICES ASSUME NEW x \in Nodes, NEW m \in Nodes, NEW i \in 1 .. Len(air'[x][m])
               PROVE  Honest(x, air'[x][m][i])
    BY <1>1 DEF Airborne, Honest
  <2> QED
    BY <1>2 DEF Shape, Airborne
<1>4. ASSUME NEW m \in Others PROVE Nearer(m)'
  <2>1. m \in Nodes /\ (parent[m] # Broadcast => parent[m] \in Nodes)
    BY DEF TypeOK, Others, Addresses
  <2>2. Nearer(m)
    BY DEF Shape
  <2> QED
    BY <1>1, <1>2, <2>1, <2>2 DEF Nearer
<1>5. SinkFixed' /\ \A m \in Others : Attached(m)'
  BY <1>1 DEF Shape, SinkFixed, Attached
<1> QED
  BY <1>3, <1>4, <1>5, HandledOrdered DEF Shape

(* What a followed beacon says: its sender is attached, and nearer.         *)
LEMMA Followed ==
  ASSUME TypeOK, Shape, NEW n \in Others, NEW s \in Nodes, HandleBeacon(n, s),
         NEW r \in Rssi, Follows(n, s, Head(air[s][n]), r), Adopt(n, s, Head(air[s][n]), r)
  PROVE  /\ s # n /\ parent[s] # Broadcast
         /\ air[s][n][1].hops < hops[n] /\ hops[s] <= air[s][n][1].hops
         /\ parent' = [parent EXCEPT ![n] = s]
         /\ sink' = [sink EXCEPT ![n] = Sink]
         /\ hops' = [hops EXCEPT ![n] = air[s][n][1].hops + 1]
<1>1. n \in Nodes /\ PacketTTL \in 1 .. ByteMod - 1 /\ Broadcast \notin Nodes
  BY TreeAssumption DEF Others
<1>2. 1 \in 1 .. Len(air[s][n]) /\ Head(air[s][n]) = air[s][n][1]
  BY <1>1, Handled
<1>3. PICK h \in Int : h = air[s][n][1].hops
  <2>1. air[s][n][1].hops \in Byte
    BY <1>1, <1>2, AirType
  <2>2. Byte \subseteq Int
    OBVIOUS
  <2> QED
    BY <2>1, <2>2
<1>4. PICK own \in Int : own = hops[n] /\ own <= PacketTTL
  BY <1>1, HopsSmall
<1>5. PICK nearer \in Int : nearer = hops[s] /\ 0 <= nearer
  BY <1>1, HopsSmall
<1>6. h < own
  <2>1. CASE parent[n] = s
    BY <2>1, <1>1, <1>2, <1>3, <1>4 DEF Shape, Nearer
  <2>2. CASE h <= own - 1
    BY <2>2
  <2> QED
    BY <1>2, <1>3, <1>4, <2>1, <2>2 DEF Follows
<1>7. Honest(s, air[s][n][1])
  BY <1>1, <1>2 DEF Shape, Airborne
<1>8. nearer <= h
  BY <1>3, <1>5, <1>7 DEF Honest
<1>9. h < PacketTTL /\ h + 1 \in Byte
  BY <1>1, <1>4, <1>5, <1>6, <1>8, ByteSize
<1>10. air[s][n][1].sink = Sink /\ parent[s] # Broadcast
  BY <1>3, <1>7, <1>9 DEF Honest
<1>11. s # n
  BY <1>4, <1>5, <1>6, <1>8
<1>12. (h + 1) % ByteMod = h + 1
  BY <1>9, ByteArithmetic
<1>13. hops' = [hops EXCEPT ![n] = h + 1]
  BY <1>2, <1>3, <1>12 DEF Adopt
<1>14. sink' = [sink EXCEPT ![n] = Sink] /\ parent' = [parent EXCEPT ![n] = s]
  BY <1>2, <1>10 DEF Adopt
<1> QED
  BY <1>3, <1>4, <1>5, <1>6, <1>8, <1>10, <1>11, <1>13, <1>14

LEMMA FollowedShape ==
  ASSUME TypeOK, Shape, NEW n \in Others, NEW s \in Nodes, HandleBeacon(n, s),
         NEW r \in Rssi, Follows(n, s, Head(air[s][n]), r), Adopt(n, s, Head(air[s][n]), r)
  PROVE  Shape' /\ \A m \in Nodes : hops'[m] <= hops[m]
<1>1. /\ n \in Nodes /\ n # Sink
      /\ PacketTTL \in 1 .. ByteMod - 1 /\ Sink \in Nodes /\ Broadcast \notin Nodes
  BY TreeAssumption DEF Others
<1>2. PICK h \in Int : h = air[s][n][1].hops
  <2>1. air[s][n][1].hops \in Byte
    BY <1>1, Handled, AirType
  <2>2. Byte \subseteq Int
    OBVIOUS
  <2> QED
    BY <2>1, <2>2
<1>3. /\ s # n /\ parent[s] # Broadcast
      /\ h < hops[n] /\ hops[s] <= h
      /\ parent' = [parent EXCEPT ![n] = s]
      /\ sink' = [sink EXCEPT ![n] = Sink]
      /\ hops' = [hops EXCEPT ![n] = h + 1]
  BY <1>2, Followed
<1>4. /\ parent'[n] = s /\ sink'[n] = Sink /\ hops'[n] = h + 1
      /\ \A m \in Nodes \ {n} :
            parent'[m] = parent[m] /\ sink'[m] = sink[m] /\ hops'[m] = hops[m]
  BY <1>1, <1>3 DEF TypeOK
<1>5. \A m \in Nodes : hops[m] \in Int /\ 0 <= hops[m] /\ hops[m] <= PacketTTL
  BY <1>1, HopsSmall
<1>6. h + 1 <= hops[n] /\ h + 1 \in 1 .. PacketTTL
  BY <1>1, <1>3, <1>5
<1>7. \A m \in Nodes : hops'[m] <= hops[m]
  BY <1>4, <1>5, <1>6
<1>8. \A m \in Nodes : parent[m] # Broadcast => parent'[m] # Broadcast
  BY <1>1, <1>4
<1>9. SinkFixed'
  BY <1>1, <1>4 DEF Shape, SinkFixed
<1>10. ASSUME NEW m \in Others PROVE Attached(m)'
  <2>1. m \in Nodes /\ Attached(m)
    BY DEF Shape, Others
  <2>2. CASE m = n
    BY <2>2, <1>3, <1>4, <1>6 DEF Attached
  <2>3. CASE m # n
    BY <2>1, <2>3, <1>4, <1>8 DEF Attached
  <2> QED
    BY <2>2, <2>3
<1>11. Airborne'
  <2> SUFFICES ASSUME NEW x \in Nodes, NEW m \in Nodes, NEW i \in 1 .. Len(air'[x][m])
               PROVE  Honest(x, air[x][m][i])'
    BY DEF Airborne, Honest
  <2>1. PICK j \in 1 .. Len(air[x][m]) : air'[x][m][i] = air[x][m][j]
    BY <1>1, HandledOld
  <2>2. Honest(x, air[x][m][j])
    BY DEF Shape, Airborne
  <2>3. PICK k \in Int : k = air[x][m][j].hops
    <3>1. air[x][m][j].hops \in Byte
      BY AirType
    <3>2. Byte \subseteq Int
      OBVIOUS
    <3> QED
      BY <3>1, <3>2
  <2>4. hops'[x] <= k
    <3>1. hops[x] <= k /\ hops[x] \in Int /\ hops'[x] <= hops[x] /\ hops'[x] \in Int
      BY <1>1, <1>4, <1>5, <1>7, <2>2, <2>3 DEF Honest
    <3> QED
      BY <3>1
  <2> QED
    BY <1>8, <2>1, <2>2, <2>3, <2>4 DEF Honest
<1>12. ASSUME NEW m \in Others PROVE Nearer(m)'
  <2>1. m \in Nodes /\ (parent[m] # Broadcast => parent[m] \in Nodes)
    BY DEF TypeOK, Others, Addresses
  <2>2. CASE m = n
    <3>1. hops'[s] <= h /\ hops'[s] \in Int
      BY <1>3, <1>4, <1>5
    <3>2. hops'[s] < hops'[n]
      BY <3>1, <1>4
    <3>3. ASSUME NEW i \in 1 .. Len(air'[s][n]) PROVE air'[s][n][i].hops < hops'[n]
      <4>1. i + 1 \in 1 .. Len(air[s][n]) /\ air'[s][n][i] = air[s][n][i + 1]
        BY <1>1, Handled
      <4>2. 1 \in 1 .. Len(air[s][n]) /\ 1 <= i + 1
        BY <1>1, Handled
      <4>3. air[s][n][i + 1].hops <= h
        BY <1>1, <1>2, <4>1, <4>2 DEF Shape, Ordered
      <4>4. air[s][n][i + 1].hops \in Byte
        BY <1>1, <4>1, AirType
      <4>5. \A k \in Byte : k <= h => k < h + 1
        OBVIOUS
      <4> QED
        BY <1>4, <4>1, <4>3, <4>4, <4>5
    <3> QED
      BY <2>2, <1>4, <3>2, <3>3 DEF Nearer
  <2>3. CASE m # n
    <3> SUFFICES ASSUME parent[m] # Broadcast
                 PROVE  /\ hops'[parent[m]] < hops[m]
                        /\ \A i \in 1 .. Len(air'[parent[m]][m]) :
                              air'[parent[m]][m][i].hops < hops[m]
      BY <1>4, <2>1, <2>3 DEF Nearer
    <3>1. Nearer(m)
      BY DEF Shape
    <3>2. hops[parent[m]] < hops[m] /\ hops'[parent[m]] <= hops[parent[m]]
      BY <2>1, <3>1, <1>7 DEF Nearer
    <3>3. hops'[parent[m]] < hops[m]
      <4>1. hops[parent[m]] \in Int /\ hops[m] \in Int /\ hops'[parent[m]] \in Int
        BY <1>4, <1>5, <1>6, <2>1
      <4> QED
        BY <3>2, <4>1
    <3>4. ASSUME NEW i \in 1 .. Len(air'[parent[m]][m])
          PROVE  air'[parent[m]][m][i].hops < hops[m]
      <4>1. i \in 1 .. Len(air[parent[m]][m]) /\ air'[parent[m]][m][i] = air[parent[m]][m][i]
        BY <1>1, <2>1, <2>3, Handled
      <4> QED
        BY <3>1, <4>1 DEF Nearer
    <3> QED
      BY <3>3, <3>4
  <2> QED
    BY <2>2, <2>3
<1> QED
  BY <1>1, <1>7, <1>9, <1>10, <1>11, <1>12, HandledOrdered DEF Shape
-----------------------------------------------------------------------------
(* Every step. *)

LEMMA HandleBeaconTree ==
  ASSUME TypeOK, Shape, NEW n \in Nodes, NEW s \in Nodes, HandleBeacon(n, s)
  PROVE  Shape' /\ (\A m \in Nodes : hops'[m] <= hops[m]) /\ UNCHANGED report
<1>1. PICK r \in Rssi : \/ /\ n # Sink /\ Follows(n, s, Head(air[s][n]), r)
                           /\ Adopt(n, s, Head(air[s][n]), r)
                        \/ UNCHANGED conf
  BY DEF HandleBeacon
<1>2. CASE n # Sink /\ Follows(n, s, Head(air[s][n]), r) /\ Adopt(n, s, Head(air[s][n]), r)
  BY <1>2, FollowedShape DEF HandleBeacon, Others
<1>3. CASE UNCHANGED conf
  <2>1. \A m \in Nodes : hops[m] \in Byte
    BY DEF TypeOK
  <2>2. \A m \in Nodes : hops'[m] <= hops[m]
    BY <1>3, <2>1 DEF conf
  <2> QED
    BY <1>3, <2>2, IgnoredShape DEF HandleBeacon
<1> QED
  BY <1>1, <1>2, <1>3

(* A report moving from n to n's parent loses one ttl and one hop.          *)
LEMMA TransmitTtl ==
  ASSUME TypeOK, Shape, NEW n \in Others, NEW ttl \in Byte, hops[n] <= ttl,
         Transmit(parent[n], ttl), UNCHANGED hops
  PROVE  TtlLeft'
<1>1. n \in Nodes /\ Attached(n) /\ Nearer(n) /\ Broadcast \notin Nodes
  BY TreeAssumption DEF Shape, Others
<1>2. CASE parent[n] = Broadcast
  BY <1>2 DEF Transmit, TtlLeft
<1>3. CASE parent[n] # Broadcast
  <2>1. parent[n] \in Nodes
    BY <1>1, <1>3 DEF Attached
  <2>2. PICK own \in Int : own = hops[n]
    BY <1>1, HopsSmall
  <2>3. PICK nearer \in Int : nearer = hops[parent[n]] /\ 0 <= nearer
    BY <2>1, HopsSmall
  <2>4. nearer < own
    BY <1>1, <1>3, <2>2, <2>3 DEF Nearer
  <2>5. nearer <= ttl - 1 /\ ttl - 1 \in Byte
    BY <2>2, <2>3, <2>4, ByteSize
  <2>6. (ttl - 1) % ByteMod = ttl - 1
    <3>1. ttl - 1 \in Int
      BY <2>5
    <3> QED
      BY <2>5, <3>1, ByteArithmetic, Zenon
  <2>7. report'.to = parent[n] /\ report'.ttl = ttl - 1
    BY <1>3, <2>6 DEF Transmit
  <2> QED
    BY <2>3, <2>5, <2>7 DEF TtlLeft
<1> QED
  BY <1>2, <1>3

LEMMA SendReportTree ==
  ASSUME TypeOK, Shape, TtlLeft, NEW n \in Nodes, SendReport(n)
  PROVE  Shape' /\ TtlLeft'
<1>1. UNCHANGED <<parent, hops, sink, air>> /\ n \in Others
  BY DEF SendReport, Others
<1>2. CASE Transmit(parent[n], MaxTTL)
  <2>1. hops[n] <= MaxTTL
    <3>1. PICK own \in Int : own = hops[n] /\ own <= PacketTTL
      BY HopsSmall, TreeAssumption
    <3>2. PacketTTL <= MaxTTL /\ PacketTTL \in Int /\ MaxTTL \in Int
      BY TreeAssumption
    <3> QED
      BY <3>1, <3>2
  <2> QED
    BY <1>1, <1>2, <2>1, Constants, ShapeKept, TransmitTtl
<1>3. CASE UNCHANGED report
  BY <1>1, <1>3, ShapeKept DEF TtlLeft
<1> QED
  BY <1>2, <1>3 DEF SendReport

LEMMA ForwardReportTree ==
  ASSUME TypeOK, Shape, TtlLeft, NEW n \in Nodes, ForwardReport(n)
  PROVE  Shape' /\ TtlLeft'
<1>1. UNCHANGED <<parent, hops, sink, air>> /\ n \in Others
  BY DEF ForwardReport, Others, conf
<1>2. Transmit(parent[n], report.ttl) /\ report.ttl \in Byte /\ hops[n] <= report.ttl
  BY DEF ForwardReport, TypeOK, TtlLeft
<1> QED
  BY <1>1, <1>2, ShapeKept, TransmitTtl

(* As long as no node reboots, a step keeps the tree and no hop count grows. *)
LEMMA NextTree ==
  ASSUME TypeOK, Tree, [Next]_vars, reboots' = 0
  PROVE  Shape' /\ TtlLeft' /\ \A n \in Nodes : hops'[n] <= hops[n]
<1>1. \A n \in Nodes : hops[n] \in Byte
  BY DEF TypeOK
<1>2. UNCHANGED hops => \A n \in Nodes : hops'[n] <= hops[n]
  BY <1>1
<1>3. reboots \in Nat
  BY DEF TypeOK
<1>4. ASSUME NEW n \in Nodes, Reboot(n) PROVE FALSE
  BY <1>3, <1>4 DEF Reboot
<1>5. reboots = 0 => Shape /\ TtlLeft
  BY DEF Tree
<1>6. CASE \E s \in Nodes : \E heard \in SUBSET Neighbours(s) : SendBeacon(s, heard)
  BY <1>2, <1>5, <1>6, SendBeaconShape DEF SendBeacon, TtlLeft, conf
<1>7. CASE \E n \in Nodes : HearBroadcast(n)
  BY <1>2, <1>5, <1>7, ShapeKept DEF HearBroadcast, TtlLeft, conf
<1>8. CASE \E n \in Nodes : SendReport(n)
  BY <1>2, <1>5, <1>8, SendReportTree DEF SendReport
<1>9. CASE \E n \in Nodes : ForwardReport(n)
  BY <1>2, <1>5, <1>9, ForwardReportTree DEF ForwardReport, conf
<1>10. ASSUME NEW n \in Nodes, NEW s \in Nodes, HandleBeacon(n, s)
       PROVE  Shape' /\ TtlLeft' /\ \A m \in Nodes : hops'[m] <= hops[m]
  <2>1. reboots = 0
    BY <1>10 DEF HandleBeacon
  <2>2. Shape' /\ (\A m \in Nodes : hops'[m] <= hops[m]) /\ UNCHANGED report
    BY <1>5, <1>10, <2>1, HandleBeaconTree
  <2>3. TtlLeft'
    <3> SUFFICES ASSUME report # NoReport PROVE hops'[report.to] <= report.ttl
      BY <2>2 DEF TtlLeft
    <3>1. report.to \in Nodes /\ report.ttl \in Byte /\ hops[report.to] <= report.ttl
      BY <1>5, <2>1 DEF TypeOK, TtlLeft
    <3>2. hops'[report.to] \in Byte /\ hops[report.to] \in Byte
      BY <1>1, <3>1, NextType DEF TypeOK
    <3>3. PICK old \in Int : old = hops[report.to] /\ old <= report.ttl
      BY <3>1, <3>2
    <3>4. PICK new \in Int : new = hops'[report.to]
      BY <3>2
    <3>5. new <= old
      BY <2>2, <3>1, <3>3, <3>4
    <3> QED
      BY <3>1, <3>3, <3>4, <3>5
  <2> QED
    BY <2>2, <2>3
<1>11. CASE DeliverReport
  BY <1>2, <1>5, <1>11, ShapeKept DEF DeliverReport, TtlLeft, conf
<1>12. CASE LoseReport
  BY <1>2, <1>5, <1>12, ShapeKept DEF LoseReport, TtlLeft, conf
<1>13. CASE UNCHANGED vars
  BY <1>2, <1>5, <1>13, ShapeKept DEF vars, TtlLeft
<1> QED
  BY <1>4, <1>6, <1>7, <1>8, <1>9, <1>10, <1>11, <1>12, <1>13 DEF Next

LEMMA Inductive == Spec => []IInv
<1>1. Init => IInv
  BY InitType, InitShape DEF IInv, Tree
<1>2. IInv /\ [Next]_vars => IInv'
  BY NextType, NextTree DEF IInv, Tree
<1> QED
  BY <1>1, <1>2, PTL DEF Spec

(* Each parent is strictly nearer to the sink than its child, whatever      *)
(* beacons are still under way, as long as no node reboots.                 *)
THEOREM TreeCorrect == Spec => []ParentNearer
<1>1. IInv => ParentNearer
  BY DEF IInv, Tree, Shape, Nearer, ParentNearer
<1> QED
  BY <1>1, Inductive, PTL

(* Every set of natural numbers that is not empty has a least element. *)
LEMMA Least ==
  ASSUME NEW T, T \subseteq Nat, T # {}
  PROVE  \E x \in T : \A y \in T : x <= y
<1>1. PICK x \in T : \A y \in T : ~ (<<y, x>> \in OpToRel(<, Nat))
  BY NatLessThanWellFounded, WFMin
<1>2. \A y \in T : ~ (y < x)
  BY <1>1 DEF OpToRel
<1> QED
  BY <1>2

(* No group of nodes follows only itself: the nearest of the group has its  *)
(* parent elsewhere.                                                        *)
THEOREM TreeAcyclic == Spec => []NoCycle
<1>1. IInv => NoCycle
  <2> SUFFICES ASSUME IInv, reboots = 0, NEW group \in SUBSET Others, group # {}
               PROVE  \E n \in group : parent[n] \notin group
    BY DEF NoCycle
  <2> DEFINE T == {hops[n] : n \in group}
  <2>1. T \subseteq Nat /\ T # {}
    <3>1. hops \in [Nodes -> Byte] /\ group \subseteq Nodes
      BY DEF IInv, TypeOK, Others
    <3>2. \A n \in group : hops[n] \in Nat
      BY <3>1
    <3> QED
      BY <3>2
  <2>2. PICK x \in T : \A y \in T : x <= y
    <3> HIDE DEF T
    <3> QED
      BY <2>1, Least
  <2>3. PICK n \in group : hops[n] = x
    BY <2>2
  <2>4. \A m \in group : hops[n] <= hops[m] /\ hops[m] \in Nat /\ hops[n] \in Nat
    BY <2>1, <2>2, <2>3
  <2>5. parent[n] # Broadcast => hops[parent[n]] < hops[n]
    BY DEF IInv, Tree, Shape, Nearer
  <2>6. Broadcast \notin group
    BY TreeAssumption DEF Others
  <2> QED
    BY <2>4, <2>5, <2>6
<1> QED
  BY <1>1, Inductive, PTL

(* A node with a parent knows the sink, and its parent is the sink or has a *)
(* parent too.                                                              *)
THEOREM TreeRooted == Spec => []Rooted
<1>1. IInv => Rooted
  <2> SUFFICES ASSUME IInv, reboots = 0, NEW n \in Others
               PROVE  /\ parent[n] # Broadcast <=> sink[n] = Sink
                      /\ parent[n] # Broadcast => parent[n] = Sink \/ parent[parent[n]] # Broadcast
    BY DEF Rooted
  <2>1. Attached(n)
    BY DEF IInv, Tree, Shape
  <2>2. Sink # Broadcast /\ Broadcast \notin Nodes
    BY TreeAssumption
  <2> QED
    BY <2>1, <2>2 DEF Attached
<1> QED
  BY <1>1, Inductive, PTL

(* No report runs out of ttl before the sink. *)
THEOREM TtlCorrect == Spec => []TtlSuffices
<1>1. IInv => TtlSuffices
  <2> SUFFICES ASSUME IInv, reboots = 0, report # NoReport
               PROVE  report.ttl >= hops[report.to]
    BY DEF TtlSuffices
  <2>1. hops[report.to] <= report.ttl
    BY DEF IInv, Tree, TtlLeft
  <2>2. report.ttl \in Byte /\ hops[report.to] \in Byte
    BY DEF IInv, TypeOK
  <2> QED
    BY <2>1, <2>2
<1> QED
  BY <1>1, Inductive, PTL

(* No hop count ever grows, as long as no node reboots. *)
THEOREM HopsFall == Spec => HopsNeverGrow
<1>1. IInv /\ [Next]_vars => [reboots' = 0 => \A n \in Nodes : hops'[n] <= hops[n]]_vars
  BY NextTree DEF IInv
<1> QED
  BY <1>1, Inductive, PTL DEF Spec, HopsNeverGrow
-----------------------------------------------------------------------------
(* Hop counts against distances.  A distance is any count that is 0 at the  *)
(* sink, grows by at most one along a link, and that no new node exceeds.   *)

Distances ==
  {d \in [Nodes -> 0 .. PacketTTL] :
     d[Sink] = 0 /\ \A l \in Links : d[l[2]] <= d[l[1]] + 1}

AirAtLeast(d) ==
  \A s, n \in Nodes : \A i \in 1 .. Len(air[s][n]) :
     <<s, n>> \in Links /\ air[s][n][i].hops >= d[s]

LEMMA DistanceType ==
  ASSUME NEW d \in Distances, NEW n \in Nodes
  PROVE  d[n] \in Int /\ d[n] <= PacketTTL /\ PacketTTL \in Int /\ d[Sink] = 0
BY TreeAssumption DEF Distances

LEMMA SendBeaconAtLeast ==
  ASSUME NEW d \in Distances, TypeOK, AtLeast(d), AirAtLeast(d),
         NEW s \in Nodes, NEW heard \in SUBSET Neighbours(s), SendBeacon(s, heard)
  PROVE  AtLeast(d)' /\ AirAtLeast(d)'
<1> DEFINE b == [hops |-> hops[s], sink |-> sink[s]]
<1>1. b \in Beacon /\ b.hops >= d[s]
  BY DEF AtLeast, TypeOK, Beacon
<1>2. ASSUME NEW x \in Nodes, NEW n \in Nodes
      PROVE  \/ air'[x][n] = air[x][n]
             \/ x = s /\ <<s, n>> \in Links /\ air'[x][n] = Append(air[x][n], b)
  BY DEF SendBeacon, TypeOK, Neighbours
<1> HIDE DEF b
<1>3. ASSUME NEW x \in Nodes, NEW n \in Nodes, NEW i \in 1 .. Len(air'[x][n])
      PROVE  <<x, n>> \in Links /\ air'[x][n][i].hops >= d[x]
  <2>1. air[x][n] \in Seq(Beacon)
    BY AirType
  <2>2. CASE air'[x][n] = air[x][n]
    BY <1>3, <2>2 DEF AirAtLeast
  <2>3. CASE x = s /\ <<s, n>> \in Links /\ air'[x][n] = Append(air[x][n], b)
    <3>1. i \in 1 .. Len(Append(air[x][n], b))
      BY <1>3, <2>3
    <3>2. \/ i \in 1 .. Len(air[x][n]) /\ air'[x][n][i] = air[x][n][i]
          \/ air'[x][n][i] = b
      BY <2>1, <2>3, <3>1, <1>1, Appended
    <3> QED
      BY <1>1, <2>3, <3>2 DEF AirAtLeast
  <2> QED
    BY <1>2, <2>2, <2>3
<1> QED
  BY <1>3 DEF SendBeacon, conf, AtLeast, AirAtLeast

LEMMA HandleBeaconAtLeast ==
  ASSUME NEW d \in Distances, TypeOK, AtLeast(d), AirAtLeast(d),
         NEW n \in Nodes, NEW s \in Nodes, HandleBeacon(n, s), ~ wrapped'
  PROVE  AtLeast(d)' /\ AirAtLeast(d)'
<1>1. AirAtLeast(d)'
  <2> SUFFICES ASSUME NEW x \in Nodes, NEW m \in Nodes, NEW i \in 1 .. Len(air'[x][m])
               PROVE  <<x, m>> \in Links /\ air'[x][m][i].hops >= d[x]
    BY DEF AirAtLeast
  <2>1. PICK j \in 1 .. Len(air[x][m]) : air'[x][m][i] = air[x][m][j]
    BY Handled
  <2> QED
    BY <2>1 DEF AirAtLeast
<1>2. PICK h \in Int : h = air[s][n][1].hops
  <2>1. air[s][n][1].hops \in Byte
    BY Handled, AirType
  <2>2. Byte \subseteq Int
    OBVIOUS
  <2> QED
    BY <2>1, <2>2
<1>3. <<s, n>> \in Links /\ d[s] <= h
  BY <1>2, Handled, DistanceType DEF AirAtLeast
<1>4. d[n] <= h + 1
  <2>1. d[n] <= d[s] + 1
    BY <1>3 DEF Distances
  <2> QED
    BY <1>3, <2>1, DistanceType
<1>5. PICK r \in Rssi : \/ /\ Adopt(n, s, Head(air[s][n]), r)
                           /\ wrapped' = (wrapped \/ Head(air[s][n]).hops = ByteMod - 1)
                        \/ UNCHANGED conf
  BY DEF HandleBeacon
<1>6. CASE /\ Adopt(n, s, Head(air[s][n]), r)
           /\ wrapped' = (wrapped \/ Head(air[s][n]).hops = ByteMod - 1)
  <2>1. h \in Byte /\ h # ByteMod - 1
    BY <1>2, <1>6, Handled, AirType
  <2>2. h + 1 \in Byte /\ h + 1 \in Int
    BY <2>1, ByteSize
  <2>3. (h + 1) % ByteMod = h + 1
    BY <2>2, ByteArithmetic, Zenon
  <2>4. hops' = [hops EXCEPT ![n] = h + 1]
    BY <1>2, <1>6, <2>3, Handled DEF Adopt
  <2>5. AtLeast(d)'
    BY <1>4, <2>4, DistanceType DEF AtLeast, TypeOK
  <2> QED
    BY <1>1, <2>5
<1>7. CASE UNCHANGED conf
  BY <1>1, <1>7 DEF AtLeast, conf
<1> QED
  BY <1>5, <1>6, <1>7

LEMMA RebootAtLeast ==
  ASSUME NEW d \in Distances, TypeOK, AtLeast(d), AirAtLeast(d), NEW n \in Nodes, Reboot(n)
  PROVE  AtLeast(d)' /\ AirAtLeast(d)'
<1>1. hops' = [hops EXCEPT ![n] = PacketTTL]
  BY DEF Reboot
<1>2. AtLeast(d)'
  BY <1>1, DistanceType DEF AtLeast, TypeOK
<1>3. ASSUME NEW x \in Nodes, NEW m \in Nodes
      PROVE  air'[x][m] = air[x][m] \/ air'[x][m] = << >>
  BY DEF Reboot, TypeOK
<1>4. AirAtLeast(d)'
  <2> SUFFICES ASSUME NEW x \in Nodes, NEW m \in Nodes, NEW i \in 1 .. Len(air'[x][m])
               PROVE  <<x, m>> \in Links /\ air'[x][m][i].hops >= d[x]
    BY DEF AirAtLeast
  <2>1. air'[x][m] = air[x][m]
    BY <1>3
  <2> QED
    BY <2>1 DEF AirAtLeast
<1> QED
  BY <1>2, <1>4

Far(d) == TypeOK /\ (~ wrapped => AtLeast(d) /\ AirAtLeast(d))

LEMMA FarInit == ASSUME NEW d \in Distances PROVE Init => Far(d)
<1> SUFFICES ASSUME Init PROVE AtLeast(d) /\ AirAtLeast(d)
  BY InitType DEF Far
<1>1. AtLeast(d)
  <2>1. \A n \in Nodes : hops[n] = IF n = Sink THEN 0 ELSE PacketTTL
    BY DEF Init, InitConf
  <2> QED
    BY <2>1, DistanceType DEF AtLeast
<1>2. \A s, n \in Nodes : Len(air[s][n]) = 0
  BY DEF Init
<1> QED
  BY <1>1, <1>2 DEF AirAtLeast

(* A count that has wrapped is never forgotten. *)
LEMMA WrappedStays == [Next]_vars /\ wrapped => wrapped'
<1> SUFFICES ASSUME [Next]_vars, wrapped PROVE wrapped'
  OBVIOUS
<1>1. ASSUME NEW n \in Nodes, NEW s \in Nodes, HandleBeacon(n, s) PROVE wrapped'
  BY <1>1 DEF HandleBeacon
<1>2. ASSUME UNCHANGED wrapped PROVE wrapped'
  BY <1>2
<1> QED
  BY <1>1, <1>2 DEF Next, SendBeacon, HearBroadcast, SendReport, ForwardReport, Reboot,
                    DeliverReport, LoseReport, vars

LEMMA FarNext == ASSUME NEW d \in Distances PROVE Far(d) /\ [Next]_vars => Far(d)'
<1> SUFFICES ASSUME Far(d), [Next]_vars, ~ wrapped' PROVE AtLeast(d)' /\ AirAtLeast(d)'
  BY NextType DEF Far
<1>1. TypeOK /\ AtLeast(d) /\ AirAtLeast(d)
  BY WrappedStays DEF Far
<1>2. CASE UNCHANGED <<hops, air>>
  BY <1>1, <1>2 DEF AtLeast, AirAtLeast
<1>3. CASE \E s \in Nodes : \E heard \in SUBSET Neighbours(s) : SendBeacon(s, heard)
  BY <1>1, <1>3, SendBeaconAtLeast
<1>4. CASE \E n, s \in Nodes : HandleBeacon(n, s)
  BY <1>1, <1>4, HandleBeaconAtLeast
<1>5. CASE \E n \in Nodes : Reboot(n)
  BY <1>1, <1>5, RebootAtLeast
<1>6. CASE \E n \in Nodes : HearBroadcast(n) \/ SendReport(n) \/ ForwardReport(n)
  BY <1>2, <1>6 DEF HearBroadcast, SendReport, ForwardReport, conf
<1>7. CASE DeliverReport \/ LoseReport
  BY <1>2, <1>7 DEF DeliverReport, LoseReport, conf
<1>8. CASE UNCHANGED vars
  BY <1>2, <1>8 DEF vars
<1> QED
  BY <1>3, <1>4, <1>5, <1>6, <1>7, <1>8 DEF Next

(* Until a hop count has gone past 255, no node believes itself nearer to    *)
(* the sink than it is, old beacons, lost ones and reboots included, in       *)
(* every network in which no node is further away than a new node's count.  *)
THEOREM HopsNeverBelow ==
  ASSUME NEW d \in Distances
  PROVE  Spec => [](~ wrapped => AtLeast(d))
<1>1. Far(d) => (~ wrapped => AtLeast(d))
  BY DEF Far
<1>2. Init => Far(d)
  BY FarInit
<1>3. Far(d) /\ [Next]_vars => Far(d)'
  BY FarNext
<1> QED
  BY <1>1, <1>2, <1>3, PTL DEF Spec

Wrapless == reboots = 0 => ~ wrapped

(* In the tree, a beacon that is followed counts less than a new node.      *)
LEMMA WraplessNext == IInv /\ Wrapless /\ [Next]_vars => Wrapless'
<1> SUFFICES ASSUME IInv, Wrapless, [Next]_vars, reboots' = 0 PROVE ~ wrapped'
  BY DEF Wrapless
<1>1. reboots = 0 \/ \E n \in Nodes : Reboot(n)
  BY DEF Next, SendBeacon, HandleBeacon, HearBroadcast, SendReport, ForwardReport,
         DeliverReport, LoseReport, vars
<1>2. ASSUME NEW n \in Nodes, Reboot(n) PROVE FALSE
  BY <1>2 DEF Reboot, IInv, TypeOK
<1>3. reboots = 0 /\ ~ wrapped /\ TypeOK /\ Shape
  BY <1>1, <1>2 DEF Wrapless, IInv, Tree
<1>4. ASSUME NEW n \in Nodes, NEW s \in Nodes, HandleBeacon(n, s) PROVE ~ wrapped'
  <2> DEFINE b == Head(air[s][n])
  <2>1. PICK r \in Rssi : \/ /\ n # Sink /\ Follows(n, s, b, r) /\ Adopt(n, s, b, r)
                             /\ wrapped' = (wrapped \/ b.hops = ByteMod - 1)
                          \/ UNCHANGED wrapped
    BY <1>4 DEF HandleBeacon
  <2>2. CASE /\ n # Sink /\ Follows(n, s, b, r) /\ Adopt(n, s, b, r)
             /\ wrapped' = (wrapped \/ b.hops = ByteMod - 1)
    <3>1. air[s][n][1].hops < hops[n]
      BY <1>3, <1>4, <2>2, Followed DEF Others
    <3>2. b = air[s][n][1] /\ air[s][n][1].hops \in Byte
      BY <1>3, <1>4, Handled, AirType
    <3>3. hops[n] \in 0 .. PacketTTL /\ PacketTTL \in Byte
      BY <1>3, HopsSmall, TreeAssumption
    <3>4. b.hops # ByteMod - 1
      BY <3>1, <3>2, <3>3, TreeAssumption
    <3> QED
      BY <1>3, <2>2, <3>4
  <2>3. CASE UNCHANGED wrapped
    BY <1>3, <2>3
  <2> QED
    BY <2>1, <2>2, <2>3
<1>5. ASSUME UNCHANGED wrapped PROVE ~ wrapped'
  BY <1>3, <1>5
<1> QED
  BY <1>2, <1>4, <1>5 DEF Next, SendBeacon, HearBroadcast, SendReport, ForwardReport,
                          DeliverReport, LoseReport, vars
-----------------------------------------------------------------------------
(* The distances that HopsHonest counts are such a d.  Reach is a recursive *)
(* function: that it is what it says is proved by induction, in the form of *)
(* least elements.                                                          *)

LEMMA Induction ==
  ASSUME NEW S, 0 \in S, \A n \in Nat : n \in S => n + 1 \in S
  PROVE  Nat \subseteq S
<1> DEFINE T == Nat \ S
<1> SUFFICES ASSUME T # {} PROVE FALSE
  OBVIOUS
<1>1. PICK x \in T : \A y \in T : x <= y
  BY Least
<1>2. x # 0 /\ x - 1 \in Nat /\ x - 1 + 1 = x
  BY <1>1
<1>3. x - 1 \notin T
  BY <1>1, <1>2
<1> QED
  BY <1>1, <1>2, <1>3

Around(S) == S \cup UNION {Neighbours(s) : s \in S}

Reaches(f, k) == f[0] = {Sink} /\ \A i \in 1 .. k : f[i] = Around(f[i - 1])

LEMMA ReachExists ==
  ASSUME NEW m \in Nat
  PROVE  \E f \in [0 .. m -> SUBSET Nodes] : Reaches(f, m)
<1> DEFINE Has(k) == \E f \in [0 .. k -> SUBSET Nodes] : Reaches(f, k)
           S == {k \in Nat : Has(k)}
<1>1. Has(0)
  <2> DEFINE f == [i \in 0 .. 0 |-> {Sink}]
  <2>1. f \in [0 .. 0 -> SUBSET Nodes] /\ f[0] = {Sink}
    BY TreeAssumption
  <2> HIDE DEF f
  <2>2. Reaches(f, 0)
    BY <2>1 DEF Reaches
  <2> QED
    BY <2>1, <2>2
<1>2. ASSUME NEW k \in Nat, Has(k) PROVE Has(k + 1)
  <2>1. PICK f \in [0 .. k -> SUBSET Nodes] : Reaches(f, k)
    BY <1>2
  <2> DEFINE g == [i \in 0 .. k + 1 |-> IF i <= k THEN f[i] ELSE Around(f[k])]
  <2>2. Around(f[k]) \in SUBSET Nodes
    <3>1. f[k] \subseteq Nodes
      OBVIOUS
    <3>2. \A s \in f[k] : Neighbours(s) \subseteq Nodes
      BY DEF Neighbours
    <3> QED
      BY <3>1, <3>2, Zenon DEF Around
  <2>3. \A i \in 0 .. k : g[i] = f[i]
    OBVIOUS
  <2>4. g[k + 1] = Around(f[k])
    OBVIOUS
  <2>5. g \in [0 .. k + 1 -> SUBSET Nodes]
    BY <2>2
  <2> HIDE DEF g
  <2>6. \A i \in 1 .. k + 1 : i = k + 1 \/ (i \in 1 .. k /\ i - 1 \in 0 .. k /\ i \in 0 .. k)
    OBVIOUS
  <2>7. g[0] = {Sink}
    BY <2>1, <2>3 DEF Reaches
  <2>8. ASSUME NEW i \in 1 .. k + 1 PROVE g[i] = Around(g[i - 1])
    <3>1. CASE i = k + 1
      <4>1. i - 1 = k /\ k \in 0 .. k
        BY <3>1
      <4> QED
        BY <2>3, <2>4, <3>1, <4>1
    <3>2. CASE i \in 1 .. k /\ i - 1 \in 0 .. k /\ i \in 0 .. k
      BY <2>1, <2>3, <3>2 DEF Reaches
    <3> QED
      BY <2>6, <3>1, <3>2
  <2>9. Reaches(g, k + 1)
    BY <2>7, <2>8 DEF Reaches
  <2> QED
    BY <2>5, <2>9
<1> HIDE DEF Has
<1>3. \A k \in Nat : k \in S => k + 1 \in S
  BY <1>2
<1>4. Nat \subseteq S
  BY <1>1, <1>3, Induction
<1> QED
  BY <1>4 DEF Has

LEMMA ReachDef ==
  ASSUME Cardinality(Nodes) \in Nat
  PROVE  Reaches(Reach, Cardinality(Nodes))
<1> DEFINE C == Cardinality(Nodes)
           Is(g) == g = [k \in 0 .. C |->
                           IF k = 0 THEN {Sink}
                           ELSE g[k - 1] \cup UNION {Neighbours(s) : s \in g[k - 1]}]
<1>1. C \in Nat
  OBVIOUS
<1>2. Reach = CHOOSE g : Is(g)
  BY DEF Reach
<1> HIDE DEF C
<1>3. PICK f \in [0 .. C -> SUBSET Nodes] : Reaches(f, C)
  BY <1>1, ReachExists
<1>4. \A k \in 0 .. C : f[k] = IF k = 0 THEN {Sink}
                               ELSE f[k - 1] \cup UNION {Neighbours(s) : s \in f[k - 1]}
  <2> SUFFICES ASSUME NEW k \in 0 .. C, k # 0
               PROVE  f[k] = f[k - 1] \cup UNION {Neighbours(s) : s \in f[k - 1]}
    BY <1>3 DEF Reaches
  <2>1. k \in 1 .. C
    OBVIOUS
  <2> QED
    BY <1>3, <2>1 DEF Reaches, Around
<1>5. Is(f)
  BY <1>4
<1>6. Is(Reach)
  BY <1>2, <1>5
<1> DEFINE r == Reach
<1> HIDE DEF r
<1>7. r = [k \in 0 .. C |-> IF k = 0 THEN {Sink}
                           ELSE r[k - 1] \cup UNION {Neighbours(s) : s \in r[k - 1]}]
  BY <1>6 DEF r
<1>8. r[0] = {Sink}
  BY <1>1, <1>7
<1>9. \A i \in 1 .. C : r[i] = Around(r[i - 1])
  <2> SUFFICES ASSUME NEW i \in 1 .. C PROVE r[i] = Around(r[i - 1])
    OBVIOUS
  <2>1. i \in 0 .. C /\ i # 0
    OBVIOUS
  <2> QED
    BY <1>7, <2>1 DEF Around
<1> QED
  BY <1>8, <1>9 DEF Reaches, r, C

LEMMA DistIs ==
  ASSUME Cardinality(Nodes) \in Nat, NEW n \in Nodes
  PROVE  /\ Dist[n] \in 0 .. Cardinality(Nodes)
         /\ n \in Reach[Dist[n]] \/ Dist[n] = Cardinality(Nodes)
         /\ \A j \in 0 .. Dist[n] - 1 : n \notin Reach[j]
<1> DEFINE C == Cardinality(Nodes)
           P(k) == /\ n \in Reach[k] \/ k = C
                   /\ \A j \in 0 .. k - 1 : n \notin Reach[j]
           T == {k \in 0 .. C : n \in Reach[k] \/ k = C}
<1>1. C \in T /\ T \subseteq Nat
  OBVIOUS
<1>2. PICK x \in T : \A y \in T : x <= y
  BY <1>1, Least
<1>3. x \in 0 .. C /\ P(x)
  <2> SUFFICES ASSUME NEW j \in 0 .. x - 1 PROVE n \notin Reach[j]
    OBVIOUS
  <2>1. j \in 0 .. C /\ ~ (x <= j)
    OBVIOUS
  <2> QED
    BY <1>2, <2>1
<1>4. Dist[n] = CHOOSE k \in 0 .. C : P(k)
  BY DEF Dist
<1> HIDE DEF P
<1>5. Dist[n] \in 0 .. C /\ P(Dist[n])
  BY <1>3, <1>4
<1> QED
  BY <1>5 DEF P

LEMMA DistIsDistance ==
  ASSUME Cardinality(Nodes) \in Nat, \A n \in Nodes : Dist[n] <= PacketTTL
  PROVE  Dist \in Distances
<1> DEFINE C == Cardinality(Nodes)
<1> HIDE DEF C
<1>1. C \in Nat /\ PacketTTL \in Nat /\ Sink \in Nodes
  BY TreeAssumption DEF C
<1>2. \A n \in Nodes : /\ Dist[n] \in 0 .. C
                       /\ n \in Reach[Dist[n]] \/ Dist[n] = C
                       /\ \A j \in 0 .. Dist[n] - 1 : n \notin Reach[j]
  BY DistIs DEF C
<1>3. Reach[0] = {Sink} /\ \A i \in 1 .. C : Reach[i] = Around(Reach[i - 1])
  BY ReachDef DEF C, Reaches
<1>4. Dist \in [Nodes -> 0 .. PacketTTL]
  <2>1. Dist = [n \in Nodes |-> Dist[n]]
    BY DEF Dist
  <2>2. \A n \in Nodes : Dist[n] \in 0 .. PacketTTL
    BY <1>1, <1>2
  <2> QED
    BY <2>1, <2>2
<1> DEFINE d == Dist
<1> HIDE DEF d
<1>5. d[Sink] = 0
  <2>1. d[Sink] \in 0 .. C /\ \A j \in 0 .. d[Sink] - 1 : Sink \notin Reach[j]
    BY <1>1, <1>2 DEF d
  <2>2. d[Sink] # 0 => 0 \in 0 .. d[Sink] - 1
    BY <2>1
  <2> QED
    BY <1>3, <2>1, <2>2
<1>6. ASSUME NEW l \in Links PROVE d[l[2]] <= d[l[1]] + 1
  <2>1. l[1] \in Nodes /\ l[2] \in Nodes /\ <<l[1], l[2]>> \in Links
    BY TreeAssumption
  <2> DEFINE k == d[l[1]]
             h == d[l[2]]
  <2>2. k \in 0 .. C /\ h \in 0 .. C
    BY <1>2, <2>1 DEF d
  <2>3. l[1] \in Reach[k] \/ k = C
    BY <1>2, <2>1 DEF d
  <2>4. \A j \in 0 .. h - 1 : l[2] \notin Reach[j]
    BY <1>2, <2>1 DEF d
  <2> HIDE DEF k, h
  <2>5. CASE k = C
    BY <1>1, <2>2, <2>5 DEF k, h
  <2>6. CASE k # C
    <3>1. k + 1 \in 1 .. C /\ (k + 1) - 1 = k
      BY <1>1, <2>2, <2>6
    <3>2. Reach[k + 1] = Around(Reach[k])
      <4>1. Reach[k + 1] = Around(Reach[(k + 1) - 1])
        BY <1>3, <3>1, Zenon
      <4> QED
        BY <3>1, <4>1, Zenon
    <3>3. l[2] \in Reach[k + 1]
      BY <2>1, <2>3, <2>6, <3>2 DEF Around, Neighbours
    <3>4. ~ (k + 1 \in 0 .. h - 1)
      BY <2>4, <3>3
    <3>5. h <= k + 1
      BY <1>1, <2>2, <3>4
    <3> QED
      BY <3>5 DEF k, h
  <2> QED
    BY <2>5, <2>6
<1> QED
  BY <1>4, <1>5, <1>6 DEF Distances, d

(* Until a hop count has gone past 255, none is below the node's distance   *)
(* from the sink in links, and without reboots none goes past 255, in every  *)
(* finite network without nodes further away than a new node's count.       *)
THEOREM HopsAreHonest ==
  /\ IsFiniteSet(Nodes)
  /\ \A n \in Nodes : Dist[n] <= PacketTTL
  => (Spec => []HopsHonest)
<1> SUFFICES ASSUME IsFiniteSet(Nodes), \A n \in Nodes : Dist[n] <= PacketTTL
             PROVE  Spec => []HopsHonest
  OBVIOUS
<1>1. Cardinality(Nodes) \in Nat
  BY FS_CardinalityType
<1>2. Dist \in Distances
  BY <1>1, DistIsDistance
<1>3. Init => Far(Dist) /\ Wrapless
  BY <1>2, FarInit DEF Init, Wrapless
<1>4. Far(Dist) /\ [Next]_vars => Far(Dist)'
  BY <1>2, FarNext
<1>5. Far(Dist) /\ Wrapless => HopsHonest
  BY DEF Far, Wrapless, HopsHonest
<1> QED
  BY <1>3, <1>4, <1>5, Inductive, WraplessNext, PTL DEF Spec
=============================================================================
