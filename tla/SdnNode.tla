------------------------------ MODULE SdnNode ------------------------------
(***************************************************************************)
(* One SDN-WISE node: Contiki's event queue, the pool of packet blocks     *)
(* (packet-buffer.c), the protothreads of sdn-wise.c and the handlers they *)
(* run (packet-handler.c, packet-creator.c, the action loop of             *)
(* flowtable.c).                                                           *)
(*                                                                         *)
(* Protothreads are cooperative: a process runs until it waits again, and  *)
(* the radio callbacks run between two events.  So a step delivers one     *)
(* event to its process, or runs one action of a matched rule, or is a     *)
(* callback or a timer.  A post to a full queue fails, and the code never  *)
(* looks at the result: the packet the event carried is then lost.         *)
(*                                                                         *)
(* The flow table itself is abstracted: a lookup may miss, or may find any *)
(* of the action lists in Rules.                                           *)
(***************************************************************************)
EXTENDS Naturals, Sequences, FiniteSets

CONSTANTS
  NumPackets,   \* blocks of packets_memb (4 in the code)
  NumEvents,    \* slots of Contiki's event queue (PROCESS_CONF_NUMEVENTS)
  Build,        \* "sink", "node" or "mobile": the SINK and MOBILE switches
  TimerProcs,   \* the timer processes that run
  Frames,       \* the packets radio and UART may deliver
  Rules         \* the action lists the flow table may hold

VARIABLES
  mem,      \* the contents of every allocated block
  queue,    \* the event queue, oldest first
  active,   \* conf.is_active
  timer,    \* each timer process: waiting for ACTIVATE, armed or expired
  cur,      \* the packet match_entry is running actions on, or NULL
  rest      \* the actions that remain

vars == <<mem, queue, active, timer, cur, rest>>
-----------------------------------------------------------------------------
NULL == 0
Blocks == 1 .. NumPackets
Refs == Blocks \cup {NULL}
Peers == {"me", "other"}

PacketTypes == {"DATA", "BEACON", "REPORT", "REQUEST", "RESPONSE", "OPEN_PATH", "CONFIG",
                "REG_PROXY"}

(***************************************************************************)
(* What the handlers read of a packet: whether its network and rssi pass   *)
(* the filter, whose its three addresses are, whether it is long enough    *)
(* for a request to need two packets, and its command.  "open" is where    *)
(* this node stands in an OPEN_PATH address list: the list may be ragged,  *)
(* the node then being past the last whole address.                        *)
(***************************************************************************)
Bodies == {"none", "read", "write", "reset", "absent", "inner", "last", "ragged"}

Packet == [typ : PacketTypes, accepted : BOOLEAN, nxh : Peers, dst : Peers,
           src : Peers, long : BOOLEAN, body : Bodies]

ActionTypes == {"FORWARD_U", "FORWARD_B", "ASK", "MATCH", "FUNCTION", "SET_", "DROP"}

(* The actions after which the packet is no longer match_entry's to use. *)
Consuming == {"FORWARD_U", "FORWARD_B", "ASK", "MATCH", "DROP"}

(* beacon_timer_proc and report_timer_proc wait for ACTIVATE_EVENT. *)
Gated == {"beacon_timer_proc", "report_timer_proc"}
AllTimers == Gated \cup {"timer_proc", "data_timer_proc"}

Procs == AllTimers \cup {"main_proc", "packet_handler_proc", "rf_u_send_proc", "rf_b_send_proc"}

EventTypes == {"TIMER_EVENT", "RF_U_SEND", "RF_B_SEND", "RF_U_RECEIVE", "RF_B_RECEIVE",
               "UART_RECEIVE", "RF_SEND_BEACON", "RF_SEND_REPORT", "RF_SEND_DATA",
               "NEW_PACKET", "ACTIVATE", "PROCESS_EVENT_TIMER"}

(* Receipts carry a packet: their handlers use the pointer unchecked. *)
Receipts == {"RF_U_RECEIVE", "RF_B_RECEIVE", "UART_RECEIVE", "NEW_PACKET"}

Events == {e \in [to : Procs, ev : EventTypes, data : Refs] :
             e.ev \in Receipts => e.data # NULL}

ASSUME NodeAssumption ==
  /\ NumPackets \in Nat \ {0}
  /\ NumEvents \in Nat \ {0}
  /\ Build \in {"sink", "node", "mobile"}
  /\ Gated \subseteq TimerProcs
  /\ TimerProcs \subseteq AllTimers
  /\ Frames \subseteq Packet
  /\ Rules \subseteq Seq(ActionTypes)
-----------------------------------------------------------------------------
(* The pool: memb_alloc hands out some free block, memb_free takes one back *)
(* and ignores a pointer that is not an allocated block (NULL included).    *)

Allocated == DOMAIN mem

HasFree(m) == ~ (Blocks \subseteq DOMAIN m)

FreeBlock(m) == CHOOSE b \in Blocks \ DOMAIN m : TRUE

Alloc(m, p, f) == [b \in DOMAIN m \cup {p} |-> IF b = p THEN f ELSE m[b]]

Free(m, p) == [b \in DOMAIN m \ {p} |-> m[b]]

Rewrite(m, p, f) == [b \in DOMAIN m |-> IF b = p THEN f ELSE m[b]]

(* The packet a pointer reads: a block freed meanwhile may hold anything. *)
Contents(p) == IF p \in DOMAIN mem THEN {mem[p]} ELSE Frames

(* A packet this node creates: only a sink is the destination of its own. *)
Created(t) ==
  [typ |-> t, accepted |-> TRUE, nxh |-> "other",
   dst |-> IF Build = "sink" THEN "me" ELSE "other",
   src |-> "me", long |-> FALSE, body |-> "none"]
-----------------------------------------------------------------------------
(* The event queue: process_post drops the event when the queue is full. *)

Event(to, ev, p) == [to |-> to, ev |-> ev, data |-> p]

(* Mutant: the capacity is not checked. *)
PostUnchecked(q, e) == Append(q, e)

Post(q, e) == IF Len(q) < NumEvents THEN Append(q, e) ELSE q

UnicastSend(q, p) == Post(q, Event("rf_u_send_proc", "RF_U_SEND", p))

BroadcastSend(q, p) == Post(q, Event("rf_b_send_proc", "RF_B_SEND", p))

Idle == cur = NULL

(* The head event is taken off the queue before its process runs. *)
Delivers(proc, ev) ==
  /\ Idle
  /\ queue # << >>
  /\ Head(queue).to = proc
  /\ Head(queue).ev = ev

Return == cur' = NULL /\ rest' = << >>

(* Go on with the actions as, or return when there are none left. *)
Continue(p, as) ==
  IF as = << >> THEN Return ELSE cur' = p /\ rest' = as

-----------------------------------------------------------------------------
(* create_and_send_request: a REQUEST carries the packet to the controller, *)
(* in two parts when it is long.  With exactly one block left, r1 is        *)
(* allocated and the cleanup frees the NULL r2 instead of it.  The packet   *)
(* itself is freed in every case.                                           *)

(* Mutant: with no block left the packet itself is sent, and freed as usual. *)
RequestSendsItself(m, q, p, long) ==
  LET r == FreeBlock(m)
  IN  IF HasFree(m)
        THEN mem' = Free(Alloc(m, r, Created("REQUEST")), p) /\ queue' = UnicastSend(q, r)
        ELSE mem' = Free(m, p) /\ queue' = UnicastSend(q, p)

(* Mutant: the packet is not freed once its request is on its way. *)
RequestKeepsPacket(m, q, p, long) ==
  LET r == FreeBlock(m)
  IN  IF HasFree(m)
        THEN mem' = Alloc(m, r, Created("REQUEST")) /\ queue' = UnicastSend(q, r)
        ELSE mem' = m /\ queue' = q

CreateAndSendRequest(m, q, p, long) ==
  LET r1 == FreeBlock(m)
      m1 == Alloc(m, r1, Created("REQUEST"))
      r2 == FreeBlock(m1)
      m2 == Alloc(m1, r2, Created("REQUEST"))
  IN  \/ /\ ~ HasFree(m)
         /\ mem' = Free(m, p)
         /\ queue' = q
      \/ /\ HasFree(m) /\ ~ long
         /\ mem' = Free(m1, p)
         /\ queue' = UnicastSend(q, r1)
      \/ /\ HasFree(m) /\ long /\ ~ HasFree(m1)
         /\ mem' = Free(m1, p)
         /\ queue' = q
      \/ /\ HasFree(m) /\ long /\ HasFree(m1)
         /\ mem' = Free(m2, p)
         /\ queue' = UnicastSend(UnicastSend(q, r1), r2)

(* match_packet: the first matching rule's actions run, ahead of those that *)
(* remain of the rule that asked for the match; a miss becomes a request.   *)
MatchPacket(m, q, p, long, after) ==
  \/ /\ \E as \in Rules : Continue(p, as \o after)
     /\ mem' = m
     /\ queue' = q
  \/ /\ CreateAndSendRequest(m, q, p, long)
     /\ Continue(p, after)
-----------------------------------------------------------------------------
(* Callbacks.  A frame that finds no free block is dropped; a frame is taken *)
(* to say a length that it has, which get_packet_from_array does not check.  *)

Receive(ev, f) ==
  /\ Idle
  /\ HasFree(mem)
  /\ LET p == FreeBlock(mem)
     IN  /\ mem' = Alloc(mem, p, f)
         /\ queue' = Post(queue, Event("main_proc", ev, p))
  /\ UNCHANGED <<active, timer, cur, rest>>

UnicastRxCallback == \E f \in Frames : Receive("RF_U_RECEIVE", f)

BroadcastRxCallback == \E f \in Frames : Receive("RF_B_RECEIVE", f)

UartRxCallback == \E f \in Frames : Receive("UART_RECEIVE", f)
-----------------------------------------------------------------------------
(* main_proc. *)

NewPacket(q, p) == Post(q, Event("packet_handler_proc", "NEW_PACKET", p))

MainReceive ==
  /\ \E ev \in {"UART_RECEIVE", "RF_U_RECEIVE"} : Delivers("main_proc", ev)
  /\ queue' = NewPacket(Tail(queue), Head(queue).data)
  /\ UNCHANGED <<mem, active, timer, cur, rest>>

(* Mutant: the report timer is forgotten. *)
ActivatesBeaconsOnly ==
  /\ Delivers("main_proc", "RF_B_RECEIVE")
  /\ LET q  == Tail(queue)
         q1 == Post(q, Event("beacon_timer_proc", "ACTIVATE", NULL))
     IN  queue' = NewPacket(IF active THEN q ELSE q1, Head(queue).data)
  /\ active' = TRUE
  /\ UNCHANGED <<mem, timer, cur, rest>>

(* The first broadcast a node hears activates it, whatever the packet is. *)
MainReceiveBroadcast ==
  /\ Delivers("main_proc", "RF_B_RECEIVE")
  /\ LET q  == Tail(queue)
         q1 == Post(q, Event("beacon_timer_proc", "ACTIVATE", NULL))
         q2 == Post(q1, Event("report_timer_proc", "ACTIVATE", NULL))
     IN  queue' = NewPacket(IF active THEN q ELSE q2, Head(queue).data)
  /\ active' = TRUE
  /\ UNCHANGED <<mem, timer, cur, rest>>

(* create_beacon and create_report return NULL when the pool is empty, and *)
(* the NULL is posted all the same.                                        *)
MainSendBeacon ==
  /\ Delivers("main_proc", "RF_SEND_BEACON")
  /\ LET p == FreeBlock(mem)
     IN  \/ /\ HasFree(mem)
            /\ mem' = Alloc(mem, p, Created("BEACON"))
            /\ queue' = BroadcastSend(Tail(queue), p)
         \/ /\ ~ HasFree(mem)
            /\ mem' = mem
            /\ queue' = BroadcastSend(Tail(queue), NULL)
  /\ UNCHANGED <<active, timer, cur, rest>>

MainSendReport ==
  /\ Delivers("main_proc", "RF_SEND_REPORT")
  /\ LET p == FreeBlock(mem)
     IN  \/ /\ HasFree(mem)
            /\ mem' = Alloc(mem, p, Created("REPORT"))
            /\ queue' = UnicastSend(Tail(queue), p)
         \/ /\ ~ HasFree(mem)
            /\ mem' = mem
            /\ queue' = UnicastSend(Tail(queue), NULL)
  /\ UNCHANGED <<active, timer, cur, rest>>

(* A mobile node matches a data packet of its own: a block is taken for it  *)
(* and, on a miss, more for the request.                                    *)
MainSendData ==
  /\ Delivers("main_proc", "RF_SEND_DATA")
  /\ IF Build = "mobile" /\ active /\ HasFree(mem)
       THEN LET p == FreeBlock(mem)
            IN  MatchPacket(Alloc(mem, p, Created("DATA")), Tail(queue), p, FALSE, << >>)
       ELSE queue' = Tail(queue) /\ UNCHANGED <<mem, cur, rest>>
  /\ UNCHANGED <<active, timer>>

MainTimer ==
  /\ Delivers("main_proc", "TIMER_EVENT")
  /\ queue' = Tail(queue)
  /\ UNCHANGED <<mem, active, timer, cur, rest>>
-----------------------------------------------------------------------------
(* packet_handler_proc: handle_packet and the handlers it calls.  Each      *)
(* handler gets the packet p, its contents f and the queue q that is left.  *)

Quiet == UNCHANGED <<active, timer>>

Drop(p, q) == mem' = Free(mem, p) /\ queue' = q /\ Return /\ Quiet

Send(p, q) == queue' = UnicastSend(q, p) /\ UNCHANGED mem /\ Return /\ Quiet

Match(p, q, f) == MatchPacket(mem, q, p, f.long, << >>) /\ Quiet

(* The parent and the neighbour table a beacon updates are not kept here. *)
HandleBeacon(p, q) == Drop(p, q)

HandleData(p, q, f) ==
  \/ f.dst = "me" /\ Drop(p, q)
  \/ f.dst # "me" /\ Match(p, q, f)

(* Mutant: the UART print leaves the block allocated. *)
PrintedReportKept(p, q) ==
  \/ Build = "sink" /\ queue' = q /\ UNCHANGED mem /\ Return /\ Quiet
  \/ Build # "sink" /\ Send(p, q)

(* A report or a request climbs towards the sink, which prints it. *)
HandleReport(p, q) ==
  \/ Build = "sink" /\ Drop(p, q)
  \/ Build # "sink" /\ Send(p, q)

HandleResponse(p, q, f) ==
  \/ f.dst = "me" /\ Drop(p, q)
  \/ f.dst # "me" /\ Match(p, q, f)

(* A node in the list forwards the packet to its successor and the last one *)
(* frees it; past the end of a ragged list neither happens.                 *)
HandleOpenPath(p, q, f) ==
  \/ f.body = "absent" /\ Match(p, q, f)
  \/ f.body = "inner" /\ Send(p, q)
  \/ f.body = "last" /\ Drop(p, q)
  \/ f.body \notin {"absent", "inner", "last"} /\ queue' = q /\ UNCHANGED mem /\ Return /\ Quiet

(* watchdog_reboot: the node starts again from its initial state. *)
Reboot ==
  /\ mem' = << >>
  /\ queue' = << >>
  /\ active' = (Build = "sink")
  /\ timer' = [t \in TimerProcs |->
                 IF t \in Gated /\ Build # "sink" THEN "waiting" ELSE "armed"]
  /\ cur' = NULL
  /\ rest' = << >>

(* Commands that are neither written nor executed count as "read" here: an  *)
(* answer goes back, through the flow table of a node or the UART of a sink.*)
HandleConfig(p, q, f) ==
  \/ f.dst # "me" /\ Match(p, q, f)
  \/ /\ f.dst = "me"
     /\ \/ Build = "sink" /\ f.src # "me" /\ Drop(p, q)
        \/ /\ Build = "sink" => f.src = "me"
           /\ \/ f.body = "reset" /\ Reboot
              \/ f.body = "write" /\ Drop(p, q)
              \/ f.body \notin {"reset", "write"} /\ Build = "sink" /\ Drop(p, q)
              \/ /\ f.body \notin {"reset", "write"} /\ Build # "sink"
                 /\ \E l \in {f.long, TRUE} :       \* the answer may be longer
                       MatchPacket(Rewrite(mem, p, [f EXCEPT !.long = l]), q, p, l, << >>)
                 /\ Quiet

(* A packet for another next hop falls through every branch and keeps its   *)
(* block: nothing frees it.                                                 *)
Overhear(q) == queue' = q /\ UNCHANGED mem /\ Return /\ Quiet

HandlePacket ==
  /\ Delivers("packet_handler_proc", "NEW_PACKET")
  /\ LET p == Head(queue).data
         q == Tail(queue)
     IN  \E f \in Contents(p) :
           \/ ~ f.accepted /\ Drop(p, q)
           \/ f.accepted /\ f.typ = "BEACON" /\ HandleBeacon(p, q)
           \/ f.accepted /\ f.typ # "BEACON" /\ f.nxh # "me" /\ Overhear(q)
           \/ /\ f.accepted /\ f.nxh = "me"
              /\ \/ f.typ = "DATA" /\ HandleData(p, q, f)
                 \/ f.typ = "RESPONSE" /\ HandleResponse(p, q, f)
                 \/ f.typ = "OPEN_PATH" /\ HandleOpenPath(p, q, f)
                 \/ f.typ = "CONFIG" /\ HandleConfig(p, q, f)
                 \/ /\ f.typ \notin {"DATA", "RESPONSE", "OPEN_PATH", "CONFIG"}
                    /\ HandleReport(p, q)
-----------------------------------------------------------------------------
(* match_entry's loop, one run_action at a time; nothing else runs meanwhile. *)

RunAction ==
  /\ ~ Idle
  /\ LET a == Head(rest)
         as == Tail(rest)
     IN  \/ /\ a = "FORWARD_U"
            /\ queue' = UnicastSend(queue, cur) /\ UNCHANGED mem
            /\ Continue(cur, as)
         \/ /\ a = "FORWARD_B"
            /\ queue' = BroadcastSend(queue, cur) /\ UNCHANGED mem
            /\ Continue(cur, as)
         \/ /\ a = "ASK"
            /\ \E f \in Contents(cur) : CreateAndSendRequest(mem, queue, cur, f.long)
            /\ Continue(cur, as)
         \/ /\ a = "MATCH"
            /\ \E f \in Contents(cur) : MatchPacket(mem, queue, cur, f.long, as)
         \/ /\ a = "FUNCTION"
            /\ UNCHANGED <<mem, queue>>
            /\ Continue(cur, as)
         \/ /\ a = "SET_"      \* may write the packet's length
            /\ \E f \in Contents(cur), l \in BOOLEAN :
                  mem' = Rewrite(mem, cur, [f EXCEPT !.long = l])
            /\ UNCHANGED queue
            /\ Continue(cur, as)
         \/ /\ a = "DROP"
            /\ mem' = Free(mem, cur) /\ UNCHANGED queue
            /\ Continue(cur, as)
  /\ Quiet
-----------------------------------------------------------------------------
(* The send processes: the frame goes to the radio (at a sink, a packet for *)
(* itself to the UART, which frees it first) and the block is freed.        *)

(* Mutants: a packet is sent again without end; a block is not freed.       *)
ResentForever ==
  /\ Delivers("rf_u_send_proc", "RF_U_SEND")
  /\ queue' = UnicastSend(Tail(queue), Head(queue).data)
  /\ UNCHANGED <<mem, active, timer, cur, rest>>

UnicastKept ==
  /\ Delivers("rf_u_send_proc", "RF_U_SEND")
  /\ queue' = Tail(queue)
  /\ UNCHANGED <<mem, active, timer, cur, rest>>

BroadcastKept ==
  /\ Delivers("rf_b_send_proc", "RF_B_SEND")
  /\ queue' = Tail(queue)
  /\ UNCHANGED <<mem, active, timer, cur, rest>>

RfUSend ==
  /\ Delivers("rf_u_send_proc", "RF_U_SEND")
  /\ mem' = Free(mem, Head(queue).data)
  /\ queue' = Tail(queue)
  /\ UNCHANGED <<active, timer, cur, rest>>

RfBSend ==
  /\ Delivers("rf_b_send_proc", "RF_B_SEND")
  /\ mem' = Free(mem, Head(queue).data)
  /\ queue' = Tail(queue)
  /\ UNCHANGED <<active, timer, cur, rest>>
-----------------------------------------------------------------------------
(* The timer processes.  An expired etimer keeps trying until its event fits *)
(* in the queue.                                                             *)

TimerExpires(t) ==
  /\ Idle
  /\ timer[t] = "armed"
  /\ Len(queue) < NumEvents
  /\ queue' = Append(queue, Event(t, "PROCESS_EVENT_TIMER", NULL))
  /\ timer' = [timer EXCEPT ![t] = "expired"]
  /\ UNCHANGED <<mem, active, cur, rest>>

Tick(t) ==
  CASE t = "timer_proc"        -> "TIMER_EVENT"
    [] t = "beacon_timer_proc" -> "RF_SEND_BEACON"
    [] t = "report_timer_proc" -> "RF_SEND_REPORT"
    [] t = "data_timer_proc"   -> "RF_SEND_DATA"

(* Mutants: the timer is not set again; the tick is posted twice. *)
TimerNotSetAgain(t) ==
  /\ Delivers(t, "PROCESS_EVENT_TIMER")
  /\ queue' = Post(Tail(queue), Event("main_proc", Tick(t), NULL))
  /\ UNCHANGED <<mem, active, timer, cur, rest>>

TicksTwice(t) ==
  /\ Delivers(t, "PROCESS_EVENT_TIMER")
  /\ LET e == Event("main_proc", Tick(t), NULL)
     IN  queue' = Post(Post(Tail(queue), e), e)
  /\ timer' = [timer EXCEPT ![t] = "armed"]
  /\ UNCHANGED <<mem, active, cur, rest>>

TimerProc(t) ==
  /\ Delivers(t, "PROCESS_EVENT_TIMER")
  /\ queue' = Post(Tail(queue), Event("main_proc", Tick(t), NULL))
  /\ timer' = [timer EXCEPT ![t] = "armed"]
  /\ UNCHANGED <<mem, active, cur, rest>>

(* ACTIVATE arms a process that waits for it; an armed one ignores it. *)
Activate(t) ==
  /\ Delivers(t, "ACTIVATE")
  /\ queue' = Tail(queue)
  /\ timer' = [timer EXCEPT ![t] = IF @ = "waiting" THEN "armed" ELSE @]
  /\ UNCHANGED <<mem, active, cur, rest>>
-----------------------------------------------------------------------------
Init ==
  /\ mem = << >>
  /\ queue = << >>
  /\ active = (Build = "sink")
  /\ timer = [t \in TimerProcs |->
                IF t \in Gated /\ Build # "sink" THEN "waiting" ELSE "armed"]
  /\ cur = NULL
  /\ rest = << >>

Main == \/ MainReceive
        \/ MainReceiveBroadcast
        \/ MainSendBeacon
        \/ MainSendReport
        \/ MainSendData
        \/ MainTimer

Environment == \/ UnicastRxCallback
               \/ BroadcastRxCallback
               \/ UartRxCallback

Timers == \E t \in TimerProcs : TimerProc(t) \/ (t \in Gated /\ Activate(t))

Step == Main \/ HandlePacket \/ RunAction \/ RfUSend \/ RfBSend \/ Timers

Next == Environment \/ Step \/ \E t \in TimerProcs : TimerExpires(t)

Spec == Init /\ [][Next]_vars

(* The scheduler keeps running events and the clock keeps expiring timers. *)
Fairness == WF_vars(Step) /\ \A t \in TimerProcs : SF_vars(TimerExpires(t))

FairSpec == Spec /\ Fairness
-----------------------------------------------------------------------------
(* Properties. *)

Pointers(q) == {q[i].data : i \in DOMAIN q}

Referenced == (Pointers(queue) \cup {cur}) \ {NULL}

(* The blocks nothing will ever free. *)
Lost == Allocated \ Referenced

(* Every variable has its type, and no step overfills the event queue. *)
TypeOK ==
  /\ DOMAIN mem \subseteq Blocks
  /\ \A b \in DOMAIN mem : mem[b] \in Packet
  /\ queue \in Seq(Events)
  /\ Len(queue) <= NumEvents
  /\ active \in BOOLEAN
  /\ timer \in [TimerProcs -> {"waiting", "armed", "expired"}]
  /\ cur \in Refs
  /\ rest \in Seq(ActionTypes)
  /\ Idle <=> rest = << >>

(* The rules SingleOwner needs: an action after which the packet belongs to *)
(* someone else comes last in its list.                                     *)
WellFormedRules ==
  \A as \in Rules : \A i \in 1 .. Len(as) : as[i] \in Consuming => i = Len(as)

(* Of the pool m, the queue q and the packet c in the action loop: every      *)
(* pointer is to an allocated block, and no two are to the same one.         *)
Own(m, q, c) ==
  /\ Pointers(q) \cup {c} \subseteq DOMAIN m \cup {NULL}
  /\ \A i, j \in DOMAIN q : q[i].data = q[j].data /\ q[i].data # NULL => i = j
  /\ c # NULL => c \notin Pointers(q)

(* Each block has one owner: an event in the queue or the action loop, never *)
(* two, and no owner of a block that is free.  So no packet is sent twice,   *)
(* sent after it was freed, or freed under another process's hands.          *)
SingleOwner == Own(mem, queue, cur)

(* How a block can be lost in one step: a post found the queue full; the     *)
(* packet handled is one the code forgets (another next hop, past the end of *)
(* a ragged open path); a long request found exactly one block; or a rule's  *)
(* actions end without giving the packet away.                               *)
Forgets(f) ==
  /\ f.accepted
  /\ \/ f.typ # "BEACON" /\ f.nxh # "me"
     \/ f.typ = "OPEN_PATH" /\ f.body \notin {"absent", "inner", "last"}

Handles(b) == Delivers("packet_handler_proc", "NEW_PACKET") /\ b = Head(queue).data

Forgotten(b) == Handles(b) /\ Forgets(mem[b])

(* An answer of a node to its controller may be long, whatever it answers.   *)
Answered(f) ==
  f.typ = "CONFIG" /\ f.dst = "me" /\ f.body \notin {"reset", "write"} /\ Build # "sink"

AsksLong ==
  \/ ~ Idle /\ Head(rest) \in {"ASK", "MATCH"} /\ mem[cur].long
  \/ \E b \in Allocated : Handles(b) /\ (mem[b].long \/ Answered(mem[b]))

LastBlock(b) == AsksLong /\ b \notin Allocated /\ Blocks \ {b} \subseteq Allocated

RuleEnds(b) ==
  \/ b = cur /\ Len(rest) = 1 /\ Head(rest) \notin Consuming
  \/ /\ << >> \in Rules
     /\ \/ b = cur /\ Head(rest) = "MATCH"
        \/ Handles(b) /\ mem[b].typ \in {"DATA", "RESPONSE", "OPEN_PATH", "CONFIG"}
        \/ Delivers("main_proc", "RF_SEND_DATA") /\ b \notin Allocated

(* No block is ever lost for any other reason.                               *)
LeakOnlyKnown ==
  [][\A b \in Lost' \ Lost :
       \/ Len(queue') = NumEvents
       \/ Forgotten(b)
       \/ LastBlock(b)
       \/ RuleEnds(b)]_vars

(* Where packets come clean (a next hop that overhears nothing, whole open  *)
(* paths, no long packet) and rules give the packet away, no block is lost. *)
NoLeak == Lost = {}

(* What NoLeak asks of the packets that come: none is one the code forgets,  *)
(* none needs two blocks for its request.                                    *)
CleanFrames == \A f \in Frames : ~ Forgets(f) /\ ~ f.long /\ ~ Answered(f)

(* The actions as end by giving away a packet that is long or not; one that  *)
(* ends in a request is not long, and no action before makes it so.          *)
GivesAway(as, long) ==
  /\ as # << >>
  /\ as[Len(as)] \in Consuming
  /\ as[Len(as)] \in {"ASK", "MATCH"} => ~ long /\ \A i \in 1 .. Len(as) : as[i] # "SET_"

CleanRules == \A as \in Rules : GivesAway(as, FALSE)

(* However fast the timers run, the queue being first in first out leaves   *)
(* each at most one expiry (or ACTIVATE) and one tick in it, and beacons and *)
(* reports one empty send each: a queue with this many slots beside those    *)
(* that Contiki's own events take never refuses a post.                     *)
QueueNeed == NumPackets + 2 * Cardinality(TimerProcs) + Cardinality(Gated)

QueueBound == Len(queue) <= QueueNeed

(* The beacon and report timers of a node run exactly when it is active: the *)
(* first broadcast it hears starts them both, the ACTIVATE being lost nowhere *)
(* between is_active and the timer, and until then it sends nothing of its   *)
(* own.                                                                      *)
ActivationExact ==
  /\ active => \A t \in Gated :
       \/ timer[t] # "waiting"
       \/ \E i \in DOMAIN queue : queue[i].to = t /\ queue[i].ev = "ACTIVATE"
  /\ ~ active =>
       /\ \A t \in Gated : timer[t] = "waiting"
       /\ \A i \in DOMAIN queue :
            queue[i].ev \notin {"RF_SEND_BEACON", "RF_SEND_REPORT", "ACTIVATE"}

(* Every block that is taken is given back. *)
BlockReturns == \A b \in Blocks : []<>(b \notin Allocated)

(* A node once activated keeps asking itself for beacons and reports.       *)
KeepsTicking ==
  \A t \in Gated : active ~> \E i \in DOMAIN queue : queue[i].ev = Tick(t)
-----------------------------------------------------------------------------
(* The life of every block is the one PacketLife promises. *)

AtProcess(proc) ==
  CASE proc = "main_proc" -> "main"
    [] proc = "packet_handler_proc" -> "handler"
    [] proc = "rf_u_send_proc" -> "unicast"
    [] proc = "rf_b_send_proc" -> "broadcast"

Stage(m, q, c, b) ==
  IF b \notin DOMAIN m THEN "free"
  ELSE IF b = c THEN "handler"
  ELSE IF b \notin Pointers(q) THEN "lost"
  ELSE AtProcess(q[CHOOSE i \in DOMAIN q : q[i].data = b].to)

Life == INSTANCE PacketLife WITH stage <- [b \in Blocks |-> Stage(mem, queue, cur, b)]

LifeSpec == Life!Spec
=============================================================================
