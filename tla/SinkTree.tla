------------------------------ MODULE SinkTree ------------------------------
(***************************************************************************)
(* The tree the nodes build towards the sink, and the reports that climb   *)
(* it.  Each node beacons its hop count; a node adopts the sender of a     *)
(* beacon as its parent when the sender is at least one hop nearer and     *)
(* closer than the parent it has, and follows its parent's count whatever  *)
(* it says (handle_beacon).  Every conf.reset_period reports a node        *)
(* forgets its parent's distance, but not its own hop count.               *)
(*                                                                         *)
(* A broadcast reaches any subset of the neighbours; what lies between     *)
(* sender and receiver (send queue, radio, event queue) is one FIFO        *)
(* channel per pair, so a beacon may be old when it is handled.            *)
(***************************************************************************)
EXTENDS Integers, Sequences, FiniteSets

CONSTANTS
  Nodes,        \* the nodes, the sink among them
  Sink,
  Links,        \* <<s, n>>: n may hear s
  Rssi,         \* the distances a reception may measure
  MaxDistance,  \* _MAX_DISTANCE
  PacketTTL,    \* _PACKET_TTL: the hop count of a node without parent
  MaxTTL,       \* MAX_TTL: the ttl of a new packet
  ResetPeriod,  \* _RESET_PERIOD
  ByteMod,      \* what a uint8_t is counted modulo: 256
  Broadcast,    \* the address of a parent or sink not known yet
  NoReport,
  \* bounds of the model
  MaxInFlight,  \* beacons between two nodes
  MaxReboots    \* reboots of nodes other than the sink

VARIABLES
  parent,       \* conf.nxh_vs_sink of each node
  hops,         \* conf.hops_from_sink
  distance,     \* conf.distance_from_sink
  sink,         \* conf.sink_address
  period,       \* conf.reset_period
  active,       \* conf.is_active
  air,          \* air[s][n]: the beacons of s that n has still to handle
  report,       \* the report being watched: its next hop and its ttl
  reboots,
  wrapped       \* history: some hop count has gone past 255 and become 0

vars == <<parent, hops, distance, sink, period, active, air, report, reboots, wrapped>>
conf == <<parent, hops, distance, sink>>
-----------------------------------------------------------------------------
Byte == 0 .. ByteMod - 1

ASSUME TreeAssumption ==
  /\ ByteMod \in Nat
  /\ Sink \in Nodes
  /\ Broadcast \notin Nodes
  /\ Links \subseteq Nodes \X Nodes
  /\ \A n \in Nodes : <<n, n>> \notin Links
  /\ Rssi \subseteq Byte
  /\ MaxDistance \in Byte
  /\ PacketTTL \in Byte \ {0}
  /\ MaxTTL \in PacketTTL .. ByteMod - 1
  /\ ResetPeriod \in Nat
  /\ NoReport \notin [to : Nodes \cup {Broadcast}, ttl : Byte]
  /\ MaxInFlight \in Nat
  /\ MaxReboots \in Nat

Others == Nodes \ {Sink}

Addresses == Nodes \cup {Broadcast}

Beacon == [hops : Byte, sink : Addresses]

Neighbours(s) == {n \in Nodes : <<s, n>> \in Links}

(* Mutant: every node starts with the sink's distance of zero. *)
InitDistanceZero ==
  /\ parent = [n \in Nodes |-> IF n = Sink THEN Sink ELSE Broadcast]
  /\ hops = [n \in Nodes |-> IF n = Sink THEN 0 ELSE PacketTTL]
  /\ distance = [n \in Nodes |-> 0]
  /\ sink = [n \in Nodes |-> IF n = Sink THEN Sink ELSE Broadcast]

(* node_conf_init. *)
InitConf ==
  /\ parent = [n \in Nodes |-> IF n = Sink THEN Sink ELSE Broadcast]
  /\ hops = [n \in Nodes |-> IF n = Sink THEN 0 ELSE PacketTTL]
  /\ distance = [n \in Nodes |-> IF n = Sink THEN 0 ELSE MaxDistance]
  /\ sink = [n \in Nodes |-> IF n = Sink THEN Sink ELSE Broadcast]

Init ==
  /\ InitConf
  /\ period = [n \in Nodes |-> ResetPeriod]
  /\ active = [n \in Nodes |-> n = Sink]
  /\ air = [s \in Nodes |-> [n \in Nodes |-> << >>]]
  /\ report = NoReport
  /\ reboots = 0
  /\ wrapped = FALSE
-----------------------------------------------------------------------------
(* create_beacon and its broadcast: those in heard get it. *)
SendBeacon(s, heard) ==
  /\ active[s]
  /\ air' = [air EXCEPT ![s] = [n \in Nodes |->
               IF n \in heard /\ Len(@[n]) < MaxInFlight
                 THEN Append(@[n], [hops |-> hops[s], sink |-> sink[s]])
                 ELSE @[n]]]
  /\ UNCHANGED <<conf, period, active, report, reboots, wrapped>>

(* A broadcast that is no beacon (a FORWARD_B rule's) activates a node too. *)
HearBroadcast(n) ==
  /\ ~ active[n]
  /\ active' = [active EXCEPT ![n] = TRUE]
  /\ UNCHANGED <<conf, period, air, report, reboots, wrapped>>

(* Mutants of the condition under which a beacon is followed: the MOBILE    *)
(* build's, which looks at the distance alone, and an off-by-one.           *)
AnyCloserNode(n, s, b, r) == parent[n] = s \/ r < distance[n]

AsManyHops(n, s, b, r) == parent[n] = s \/ (b.hops <= hops[n] /\ r < distance[n])

Follows(n, s, b, r) ==
  \/ parent[n] = s
  \/ b.hops <= hops[n] - 1 /\ r < distance[n]

(* Mutants: the sender's own hop count is taken; the sink is not learnt. *)
AdoptSameHops(n, s, b, r) ==
  /\ parent' = [parent EXCEPT ![n] = s]
  /\ distance' = [distance EXCEPT ![n] = r]
  /\ sink' = [sink EXCEPT ![n] = b.sink]
  /\ hops' = [hops EXCEPT ![n] = b.hops]

AdoptKeepsSink(n, s, b, r) ==
  /\ parent' = [parent EXCEPT ![n] = s]
  /\ distance' = [distance EXCEPT ![n] = r]
  /\ hops' = [hops EXCEPT ![n] = (b.hops + 1) % ByteMod]
  /\ UNCHANGED sink

Adopt(n, s, b, r) ==
  /\ parent' = [parent EXCEPT ![n] = s]
  /\ distance' = [distance EXCEPT ![n] = r]
  /\ sink' = [sink EXCEPT ![n] = b.sink]
  /\ hops' = [hops EXCEPT ![n] = (b.hops + 1) % ByteMod]

(* The broadcast activates the node, then handle_beacon runs; a sink does   *)
(* nothing with a beacon.  The hop count is a byte: after a reboot two nodes *)
(* can follow each other, count upwards, and start again from 0.            *)
HandleBeacon(n, s) ==
  /\ air[s][n] # << >>
  /\ air' = [air EXCEPT ![s][n] = Tail(@)]
  /\ active' = [active EXCEPT ![n] = TRUE]
  /\ LET b == Head(air[s][n])
     IN  \E r \in Rssi :
           \/ /\ n # Sink /\ Follows(n, s, b, r)
              /\ Adopt(n, s, b, r)
              /\ wrapped' = (wrapped \/ b.hops = ByteMod - 1)
           \/ /\ n = Sink \/ ~ Follows(n, s, b, r)
              /\ UNCHANGED <<conf, wrapped>>
  /\ UNCHANGED <<period, report, reboots>>
-----------------------------------------------------------------------------
(* Mutant: the ttl goes down when the packet is queued and when it is sent. *)
TtlDownTwice(to, ttl) ==
  report' = IF to = Broadcast THEN NoReport ELSE [to |-> to, ttl |-> (ttl - 2) % ByteMod]

(* A packet leaves a node: its ttl, an unsigned byte nobody looks at, goes  *)
(* down, and a packet to the broadcast address reaches no one.              *)
Transmit(to, ttl) ==
  report' = IF to = Broadcast THEN NoReport ELSE [to |-> to, ttl |-> (ttl - 1) % ByteMod]

(* Mutant: the countdown is never compared with zero. *)
CountdownRunsOn(n) ==
  /\ period' = [period EXCEPT ![n] = @ - 1]
  /\ UNCHANGED distance

(* RF_SEND_REPORT: the report goes to the parent, and every so many reports *)
(* the parent's distance is forgotten.  When the pool is empty (or another  *)
(* report is watched) there is no new report to watch.                      *)
ResetDistance(n) ==
  IF period[n] = 0
    THEN /\ distance' = [distance EXCEPT ![n] = MaxDistance]
         /\ period' = [period EXCEPT ![n] = ResetPeriod]
    ELSE /\ period' = [period EXCEPT ![n] = @ - 1]
         /\ UNCHANGED distance

SendReport(n) ==
  /\ active[n] /\ n # Sink
  /\ \/ report = NoReport /\ Transmit(parent[n], MaxTTL)
     \/ UNCHANGED report
  /\ ResetDistance(n)
  /\ UNCHANGED <<parent, hops, sink, active, air, reboots, wrapped>>

(* Mutant: a node whose parent's distance is forgotten keeps the report. *)
ForwardsWhenFresh(n) ==
  /\ report # NoReport /\ report.to = n /\ n # Sink
  /\ distance[n] < MaxDistance
  /\ Transmit(parent[n], report.ttl)
  /\ UNCHANGED <<conf, period, active, air, reboots, wrapped>>

(* handle_report: on towards this node's own parent.  The ttl of a report    *)
(* that circles after a reboot wraps, and it goes on.                       *)
ForwardReport(n) ==
  /\ report # NoReport /\ report.to = n /\ n # Sink
  /\ Transmit(parent[n], report.ttl)
  /\ UNCHANGED <<conf, period, active, air, reboots, wrapped>>

(* The sink prints a report on its UART. *)
DeliverReport ==
  /\ report # NoReport /\ report.to = Sink
  /\ report' = NoReport
  /\ UNCHANGED <<conf, period, active, air, reboots, wrapped>>

LoseReport ==
  /\ report # NoReport
  /\ report' = NoReport
  /\ UNCHANGED <<conf, period, active, air, reboots, wrapped>>
-----------------------------------------------------------------------------
(* A watchdog reboot: the configuration starts again and what waited in the *)
(* node's queues is gone; its beacons that are already out are not.         *)
Reboot(n) ==
  /\ n # Sink /\ reboots < MaxReboots
  /\ reboots' = reboots + 1
  /\ parent' = [parent EXCEPT ![n] = Broadcast]
  /\ hops' = [hops EXCEPT ![n] = PacketTTL]
  /\ distance' = [distance EXCEPT ![n] = MaxDistance]
  /\ sink' = [sink EXCEPT ![n] = Broadcast]
  /\ period' = [period EXCEPT ![n] = ResetPeriod]
  /\ active' = [active EXCEPT ![n] = FALSE]
  /\ air' = [s \in Nodes |-> [air[s] EXCEPT ![n] = << >>]]
  /\ report' = IF report # NoReport /\ report.to = n THEN NoReport ELSE report
  /\ UNCHANGED wrapped

Next ==
  \/ \E s \in Nodes : \E heard \in SUBSET Neighbours(s) : SendBeacon(s, heard)
  \/ \E n \in Nodes : HearBroadcast(n) \/ SendReport(n) \/ ForwardReport(n) \/ Reboot(n)
  \/ \E n, s \in Nodes : HandleBeacon(n, s)
  \/ DeliverReport
  \/ LoseReport

Spec == Init /\ [][Next]_vars

(* Beacon timers keep running, queues are served, a node that keeps being   *)
(* sent beacons hears one in the end, and a report in transit moves on.     *)
Fairness ==
  /\ \A n, s \in Nodes : WF_vars(HandleBeacon(n, s))
  /\ \A l \in Links : SF_vars(\E heard \in SUBSET Neighbours(l[1]) :
                                 l[2] \in heard /\ Len(air[l[1]][l[2]]) < MaxInFlight
                                 /\ SendBeacon(l[1], heard))
  /\ \A n \in Nodes : WF_vars(ForwardReport(n))
  /\ WF_vars(DeliverReport)

FairSpec == Spec /\ Fairness
-----------------------------------------------------------------------------
(* Properties. *)

(* Types; in particular hop counts stay within a byte.                      *)
TypeOK ==
  /\ parent \in [Nodes -> Addresses]
  /\ hops \in [Nodes -> Byte]
  /\ distance \in [Nodes -> Byte]
  /\ sink \in [Nodes -> Addresses]
  /\ period \in [Nodes -> 0 .. ResetPeriod]
  /\ active \in [Nodes -> BOOLEAN]
  /\ air \in [Nodes -> [Nodes -> Seq(Beacon)]]
  /\ report \in {NoReport} \cup [to : Nodes, ttl : Byte]
  /\ reboots \in 0 .. MaxReboots
  /\ wrapped \in BOOLEAN

(* As long as no node has rebooted, every parent is strictly nearer to the  *)
(* sink than its child, by the counts the two hold now: the parents form a  *)
(* tree, however old the beacons they were chosen from.                     *)
ParentNearer ==
  reboots = 0 =>
    \A n \in Others : parent[n] # Broadcast => hops[parent[n]] < hops[n]

(* No group of nodes has all its parents inside the group: the parents of   *)
(* no node lead back to it.                                                 *)
NoCycle ==
  reboots = 0 =>
    \A group \in SUBSET Others : group # {} => \E n \in group : parent[n] \notin group

(* A node has a parent exactly when it knows the sink, and the parent is the *)
(* sink or has a parent itself: with NoCycle, an attached node's whole path *)
(* leads to the sink it addresses its reports to.                           *)
Rooted ==
  reboots = 0 =>
    \A n \in Others :
      /\ parent[n] # Broadcast <=> sink[n] = Sink
      /\ parent[n] # Broadcast => parent[n] = Sink \/ parent[parent[n]] # Broadcast

(* The hop count of a node never grows unless a node reboots.               *)
HopsNeverGrow ==
  [][reboots' = 0 => \A n \in Nodes : hops'[n] <= hops[n]]_vars

(* The nodes within k links of the sink. *)
Reach[k \in 0 .. Cardinality(Nodes)] ==
  IF k = 0 THEN {Sink}
  ELSE Reach[k - 1] \cup UNION {Neighbours(s) : s \in Reach[k - 1]}

(* The distance of each node from the sink, in links; of a node that no path *)
(* joins to the sink, the number of nodes.                                  *)
Dist ==
  [n \in Nodes |->
     CHOOSE k \in 0 .. Cardinality(Nodes) :
        /\ n \in Reach[k] \/ k = Cardinality(Nodes)
        /\ \A j \in 0 .. k - 1 : n \notin Reach[j]]

AtLeast(d) == \A n \in Nodes : hops[n] >= d[n]

(* No node believes itself nearer to the sink than it is, not with old       *)
(* beacons in the air, not while two nodes that follow each other after a   *)
(* reboot count upwards: until a count passes 255 and starts again at 0,    *)
(* which no count does unless a node has rebooted.                          *)
HopsHonest ==
  /\ ~ wrapped => AtLeast(Dist)
  /\ reboots = 0 => ~ wrapped

(* A report has enough ttl left for the hops ahead: the byte never wraps,   *)
(* though no node ever looks at it.                                         *)
TtlSuffices ==
  reboots = 0 /\ report # NoReport => report.ttl >= hops[report.to]

(* A report on its way reaches the sink or is lost: it never circles.       *)
ReportEnds == report # NoReport ~> report = NoReport

(* Every node gets a parent, if its neighbours join it to the sink.         *)
EveryoneAttached == <>(\A n \in Others : parent[n] # Broadcast)
=============================================================================
