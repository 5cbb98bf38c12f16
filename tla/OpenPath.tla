------------------------------ MODULE OpenPath ------------------------------
(***************************************************************************)
(* OPEN_PATH packets and the data that follows them, in a network of flow  *)
(* tables (packet-handler.c, flowtable.c).                                 *)
(*                                                                         *)
(* The controller hands the sink a packet with a list of nodes.  A node in *)
(* the list stores a rule for the first address, by the node before it,    *)
(* and one for the last, by the node after it, and passes the packet on    *)
(* along the list; any other node treats it as data.  Packets get lost,    *)
(* several lists are on their way at once, a full table is purged before   *)
(* it takes a rule, and a node may restart with an empty one.              *)
(*                                                                         *)
(* Only the rules OPEN_PATH makes are in these tables, and without further *)
(* windows: a rule is a destination and the next hop towards it.           *)
(***************************************************************************)
EXTENDS Naturals, Sequences, FiniteSets

CONSTANTS
  Nodes,
  Sink,
  Paths,        \* the address lists the controller sends
  NumRules,     \* blocks of entries_memb (10 in the code)
  MaxOpens,     \* bound: OPEN_PATH packets on their way at once
  Cost,         \* Cost[d][n]: how far the controller takes n to be from d
  NoData

VARIABLES
  rules,        \* each node's flow table: a function from destinations
  opens,        \* the OPEN_PATH packets, each at the node that handles it next
  data,         \* the data packet being watched, or NoData
  forgot        \* history: some node has lost its rules

vars == <<rules, opens, data, forgot>>
-----------------------------------------------------------------------------
Last(path) == path[Len(path)]

(* The only thing assumed of the controller: each step of a path leads away  *)
(* from its first node and towards its last.                                 *)
Descends(path) ==
  \A i \in 2 .. Len(path) :
    /\ Cost[path[1]][path[i - 1]] < Cost[path[1]][path[i]]
    /\ Cost[Last(path)][path[i]] < Cost[Last(path)][path[i - 1]]

ASSUME PathAssumption ==
  /\ Sink \in Nodes
  /\ NoData \notin [dst : Nodes, at : Nodes]
  /\ NumRules \in Nat \ {0}
  /\ MaxOpens \in Nat
  /\ Cost \in [Nodes -> [Nodes -> Nat]]
  /\ \A path \in Paths : path \in Seq(Nodes) /\ path # << >> /\ Descends(path)

(* A sink in a path is its first node. *)
ASSUME SinkFirst ==
  \A path \in Paths : \A i \in 2 .. Len(path) : path[i] # Sink

NoRules == [d \in {} |-> Sink]

(* A rule is stored: entry_allocate purges a full table, add_entry replaces  *)
(* the rule with the same window.                                            *)
Install(t, d, m) ==
  LET room == IF Cardinality(DOMAIN t) < NumRules THEN DOMAIN t ELSE {}
  IN  [x \in room \cup {d} |-> IF x = d THEN m ELSE t[x]]

Purged(t, u) == ~ (DOMAIN t \subseteq DOMAIN u)

(* Mutant: the second node of a path does not store the way to the first.    *)
BackFromThird(t, path, i) ==
  IF i > 2 THEN Install(t, path[1], path[i - 1]) ELSE t

(* Mutant: an inner node takes the wrong neighbour for the way back. *)
BackPointsForth(t, path, i) ==
  IF i > 1 THEN Install(t, path[1], path[IF i < Len(path) THEN i + 1 ELSE i - 1]) ELSE t

(* What the i-th node of a path learns: the way to the first, then the way to *)
(* the last.                                                                 *)
Back(t, path, i) == IF i > 1 THEN Install(t, path[1], path[i - 1]) ELSE t

Forth(t, path, i) == IF i < Len(path) THEN Install(t, Last(path), path[i + 1]) ELSE t

(* Where a node stands in a list. *)
Position(n, path) == CHOOSE i \in 1 .. Len(path) : path[i] = n

Listed(n, path) == \E i \in 1 .. Len(path) : path[i] = n
-----------------------------------------------------------------------------
(* The controller's packet enters at the sink, addressed to the first node.  *)
SendOpenPath(path) ==
  /\ Cardinality(opens) < MaxOpens
  /\ opens' = opens \cup {[path |-> path, dst |-> path[1], at |-> Sink]}
  /\ UNCHANGED <<rules, data, forgot>>

(* handle_open_path at a node of the list. *)
LearnPath(o) ==
  /\ Listed(o.at, o.path)
  /\ LET i    == Position(o.at, o.path)
         t    == Back(rules[o.at], o.path, i)
         u    == Forth(t, o.path, i)
         next == o.path[i + 1]
     IN  /\ rules' = [rules EXCEPT ![o.at] = u]
         /\ forgot' = (forgot \/ Purged(rules[o.at], t) \/ Purged(t, u))
         /\ opens' = (opens \ {o}) \cup
              IF i < Len(o.path) THEN {[path |-> o.path, dst |-> next, at |-> next]} ELSE {}
  /\ UNCHANGED data

(* handle_open_path at any other node: match_packet.  On a miss the packet   *)
(* goes back to the controller in a request.                                 *)
PassOpenPath(o) ==
  /\ ~ Listed(o.at, o.path)
  /\ opens' = (opens \ {o}) \cup
       IF o.dst \in DOMAIN rules[o.at] THEN {[o EXCEPT !.at = rules[o.at][o.dst]]} ELSE {}
  /\ UNCHANGED <<rules, data, forgot>>

(* match_packet on a data packet for d at n. *)
Match(n, d) ==
  data' = IF d \in DOMAIN rules[n] THEN [dst |-> d, at |-> rules[n][d]] ELSE NoData

SendData(n, d) ==
  /\ data = NoData
  /\ d # n
  /\ Match(n, d)
  /\ UNCHANGED <<rules, opens, forgot>>

HandleData ==
  /\ data # NoData
  /\ IF data.at = data.dst THEN data' = NoData ELSE Match(data.at, data.dst)
  /\ UNCHANGED <<rules, opens, forgot>>

LoseOpenPath(o) ==
  /\ opens' = opens \ {o}
  /\ UNCHANGED <<rules, data, forgot>>

LoseData ==
  /\ data # NoData
  /\ data' = NoData
  /\ UNCHANGED <<rules, opens, forgot>>

(* A watchdog reboot: the table is empty again and what the node held is gone. *)
Reboot(n) ==
  /\ rules' = [rules EXCEPT ![n] = NoRules]
  /\ opens' = {o \in opens : o.at # n}
  /\ data' = IF data # NoData /\ data.at = n THEN NoData ELSE data
  /\ forgot' = (forgot \/ DOMAIN rules[n] # {})

Init ==
  /\ rules = [n \in Nodes |-> NoRules]
  /\ opens = {}
  /\ data = NoData
  /\ forgot = FALSE

Next ==
  \/ \E path \in Paths : SendOpenPath(path)
  \/ \E o \in opens : LearnPath(o) \/ PassOpenPath(o) \/ LoseOpenPath(o)
  \/ \E n, d \in Nodes : SendData(n, d)
  \/ HandleData
  \/ LoseData
  \/ \E n \in Nodes : Reboot(n)

Spec == Init /\ [][Next]_vars

(* A node handles the packets it has. *)
Fairness == WF_vars(HandleData)

FairSpec == Spec /\ Fairness
-----------------------------------------------------------------------------
(* Properties. *)

(* Rules lead from node to node, and packets are somewhere.                  *)
TypeOK ==
  /\ DOMAIN rules = Nodes
  /\ \A n \in Nodes :
       /\ DOMAIN rules[n] \subseteq Nodes
       /\ \A d \in DOMAIN rules[n] : rules[n][d] \in Nodes
  /\ opens \subseteq [path : Paths, dst : Nodes, at : Nodes]
  /\ data \in [dst : Nodes, at : Nodes] \cup {NoData}
  /\ forgot \in BOOLEAN

(* No group of nodes passes packets for one destination round among itself,  *)
(* whichever of the paths were walked to their end, in whatever order their   *)
(* packets passed, and whatever was replaced, purged or lost.  (Nothing else *)
(* would stop such a packet: handlers never look at its ttl.)                *)
NoLoop ==
  \A d \in Nodes : \A group \in SUBSET Nodes :
    group # {} => \E n \in group : d \notin DOMAIN rules[n] \/ rules[n][d] \notin group

(* A node that knows a way to the sink has a neighbour that does, unless a    *)
(* node has lost its rules: learning goes from the sink outwards, so the     *)
(* ways back have no holes, not while a path is half learnt or its packet    *)
(* lost.  (Ways out do.)  With NoLoop, such a node reaches the sink.         *)
WayToSink ==
  ~ forgot => \A n \in Nodes :
     Sink \in DOMAIN rules[n] =>
       \/ rules[n][Sink] = Sink
       \/ Sink \in DOMAIN rules[rules[n][Sink]]

(* A data packet that is not lost arrives or becomes a request, though rules *)
(* change under it on its way.                                               *)
DataEnds == data # NoData ~> data = NoData
=============================================================================
