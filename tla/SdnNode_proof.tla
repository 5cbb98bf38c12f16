--------------------------- MODULE SdnNode_proof ---------------------------
(***************************************************************************)
(* Theorems about SdnNode, for every pool size, queue size, build and      *)
(* environment: types and the ownership of packets; then, with what the    *)
(* event queue says of the timers, the bound of the queue, activation, the *)
(* life of a block, and how blocks are lost, or not.                       *)
(***************************************************************************)
EXTENDS SdnNode, SequenceTheorems, FiniteSetTheorems, TLAPS

(* The pool and the queue on their own: what every helper preserves. *)
PoolOK(m) == DOMAIN m \subseteq Blocks /\ \A b \in DOMAIN m : m[b] \in Packet

QueueOK(q) == q \in Seq(Events) /\ Len(q) <= NumEvents
-----------------------------------------------------------------------------
LEMMA PacketsTyped ==
  /\ \A t \in PacketTypes : Created(t) \in Packet
  /\ \A f \in Packet, l \in BOOLEAN : [f EXCEPT !.long = l] \in Packet
BY DEF Created, Packet, Peers, Bodies

(* A free block is a block, and not an allocated one. *)
LEMMA FreeBlockIsFree ==
  ASSUME NEW m, HasFree(m)
  PROVE  FreeBlock(m) \in Blocks /\ FreeBlock(m) \notin DOMAIN m
BY DEF HasFree, FreeBlock

LEMMA BlocksNotNull == NULL \notin Blocks /\ Blocks \subseteq Refs
BY NodeAssumption DEF Blocks, NULL, Refs

LEMMA AllocTyped ==
  ASSUME NEW m, PoolOK(m), NEW p \in Blocks, NEW f \in Packet
  PROVE  PoolOK(Alloc(m, p, f)) /\ DOMAIN Alloc(m, p, f) = DOMAIN m \cup {p}
BY DEF PoolOK, Alloc

LEMMA FreeTyped ==
  ASSUME NEW m, PoolOK(m), NEW p
  PROVE  PoolOK(Free(m, p)) /\ DOMAIN Free(m, p) = DOMAIN m \ {p}
BY DEF PoolOK, Free

LEMMA RewriteTyped ==
  ASSUME NEW m, PoolOK(m), NEW p, NEW f \in Packet
  PROVE  PoolOK(Rewrite(m, p, f)) /\ DOMAIN Rewrite(m, p, f) = DOMAIN m
BY DEF PoolOK, Rewrite

LEMMA PostTyped ==
  ASSUME NEW q, QueueOK(q), NEW e \in Events
  PROVE  QueueOK(Post(q, e))
BY NodeAssumption DEF QueueOK, Post

(* Taking the head off a queue. *)
LEMMA TailTyped ==
  ASSUME NEW q, QueueOK(q), q # << >>
  PROVE  /\ QueueOK(Tail(q))
         /\ Head(q) \in Events
         /\ Head(q).data \in Refs
         /\ Head(q).ev \in Receipts => Head(q).data \in Blocks
<1>1. q \in Seq(Events) /\ Len(q) \in Nat /\ Len(q) <= NumEvents
  BY DEF QueueOK
<1>2. Tail(q) \in Seq(Events) /\ Len(Tail(q)) = Len(q) - 1 /\ Head(q) \in Events
  BY <1>1, HeadTailProperties
<1>3. /\ Head(q).data \in Refs
      /\ Head(q).ev \in Receipts => Head(q).data \in Blocks
  BY <1>2 DEF Events, Refs
<1> QED
  BY <1>1, <1>2, <1>3, NodeAssumption DEF QueueOK

LEMMA EventsTyped ==
  /\ \A p \in Refs : /\ Event("rf_u_send_proc", "RF_U_SEND", p) \in Events
                     /\ Event("rf_b_send_proc", "RF_B_SEND", p) \in Events
  /\ \A p \in Blocks : /\ Event("packet_handler_proc", "NEW_PACKET", p) \in Events
                       /\ \A ev \in {"RF_U_RECEIVE", "RF_B_RECEIVE", "UART_RECEIVE"} :
                             Event("main_proc", ev, p) \in Events
  /\ \A t \in Gated : Event(t, "ACTIVATE", NULL) \in Events
  /\ \A t \in AllTimers : /\ Event(t, "PROCESS_EVENT_TIMER", NULL) \in Events
                          /\ Event("main_proc", Tick(t), NULL) \in Events
BY BlocksNotNull DEF Event, Events, Receipts, Procs, AllTimers, Gated, EventTypes, Tick, Refs

LEMMA SendTyped ==
  ASSUME NEW q, QueueOK(q), NEW p \in Refs
  PROVE  /\ QueueOK(UnicastSend(q, p)) /\ QueueOK(BroadcastSend(q, p))
         /\ p # NULL => QueueOK(NewPacket(q, p))
BY PostTyped, EventsTyped DEF UnicastSend, BroadcastSend, NewPacket, Refs

LEMMA ContentsTyped ==
  ASSUME PoolOK(mem), NEW p
  PROVE  Contents(p) \subseteq Packet
BY NodeAssumption DEF PoolOK, Contents
-----------------------------------------------------------------------------
(* What the steps of the pool and the queue do to ownership. *)

(* A new event without a packet changes no pointer. *)
LEMMA OwnPostNull ==
  ASSUME NEW m, NEW q, NEW c, Own(m, q, c), QueueOK(q), NEW e \in Events, e.data = NULL
  PROVE  Own(m, Post(q, e), c)
BY DEF Own, Post, Pointers, QueueOK

(* The holder of a packet hands it to an event (or the post fails). *)
LEMMA OwnPost ==
  ASSUME NEW m, NEW q, NEW c, Own(m, q, c), QueueOK(q), NEW e \in Events, e.data = c
  PROVE  Own(m, Post(q, e), NULL)
BY DEF Own, Post, Pointers, QueueOK

(* A fresh block goes to an event while c is still held. *)
LEMMA OwnPostFresh ==
  ASSUME NEW m, NEW q, NEW c, Own(m, q, c), QueueOK(q), PoolOK(m),
         NEW p \in Blocks, p \notin DOMAIN m, NEW f \in Packet,
         NEW e \in Events, e.data = p
  PROVE  Own(Alloc(m, p, f), Post(q, e), c)
<1>1. DOMAIN Alloc(m, p, f) = DOMAIN m \cup {p}
  BY AllocTyped
<1>2. p # NULL /\ p # c /\ p \notin Pointers(q)
  BY BlocksNotNull DEF Own
<1> QED
  BY <1>1, <1>2 DEF Own, Post, Pointers, QueueOK

LEMMA OwnAlloc ==
  ASSUME NEW m, NEW q, NEW c, Own(m, q, c), QueueOK(q), PoolOK(m),
         NEW p \in Blocks, p \notin DOMAIN m, NEW f \in Packet
  PROVE  Own(Alloc(m, p, f), q, c) /\ (c = NULL => Own(Alloc(m, p, f), q, p))
<1>1. DOMAIN Alloc(m, p, f) = DOMAIN m \cup {p}
  BY AllocTyped
<1>2. p # NULL /\ p # c /\ p \notin Pointers(q)
  BY BlocksNotNull DEF Own
<1> QED
  BY <1>1, <1>2 DEF Own

LEMMA OwnFree ==
  ASSUME NEW m, NEW q, NEW c, Own(m, q, c), PoolOK(m)
  PROVE  Own(Free(m, c), q, NULL)
<1>1. DOMAIN Free(m, c) = DOMAIN m \ {c}
  BY FreeTyped
<1> QED
  BY <1>1 DEF Own

LEMMA OwnForget ==
  ASSUME NEW m, NEW q, NEW c, Own(m, q, c)
  PROVE  Own(m, q, NULL)
BY DEF Own

(* The process that gets the head event becomes the owner of its packet. *)
LEMMA OwnTail ==
  ASSUME NEW m, NEW q, Own(m, q, NULL), QueueOK(q), q # << >>
  PROVE  Own(m, Tail(q), Head(q).data)
<1>1. /\ Len(Tail(q)) = Len(q) - 1
      /\ \A i \in DOMAIN Tail(q) : Tail(q)[i] = q[i + 1] /\ i + 1 \in DOMAIN q
      /\ 1 \in DOMAIN q /\ Head(q) = q[1]
  BY DEF QueueOK
<1>2. Pointers(Tail(q)) \subseteq Pointers(q) /\ Head(q).data \in Pointers(q)
  BY <1>1 DEF Pointers
<1>3. \A i, j \in DOMAIN Tail(q) :
         Tail(q)[i].data = Tail(q)[j].data /\ Tail(q)[i].data # NULL => i = j
  BY <1>1 DEF Own, QueueOK
<1>4. Head(q).data # NULL => Head(q).data \notin Pointers(Tail(q))
  BY <1>1 DEF Own, QueueOK, Pointers
<1> QED
  BY <1>2, <1>3, <1>4 DEF Own
-----------------------------------------------------------------------------
(* The inductive invariant: the type invariant, the ownership invariant, and *)
(* that of the actions still to run only the last may give the packet away.  *)

RestOK == \A i \in 1 .. Len(rest) : rest[i] \in Consuming => i = Len(rest)

IInv == TypeOK /\ SingleOwner /\ RestOK

(* What a handler needs to know when it is called with packet p, its content *)
(* f and the queue q that is left, and what it must establish.               *)
Holding(m, q, p) == PoolOK(m) /\ QueueOK(q) /\ p \in Refs /\ Own(m, q, p)

Done == PoolOK(mem') /\ QueueOK(queue') /\ Own(mem', queue', cur')
        /\ cur' \in Refs /\ rest' \in Seq(ActionTypes)
        /\ (cur' = NULL <=> rest' = << >>) /\ RestOK'

(* The packet is given away or forgotten, and no action remains. *)
LEMMA ReturnDone ==
  ASSUME PoolOK(mem'), QueueOK(queue'), Own(mem', queue', NULL), Return
  PROVE  Done
BY DEF Done, Return, RestOK, Refs

(* The packet is kept and the actions as remain. *)
LEMMA ContinueDone ==
  ASSUME NEW p \in Refs, p # NULL, NEW as \in Seq(ActionTypes),
         \A i \in 1 .. Len(as) : as[i] \in Consuming => i = Len(as),
         PoolOK(mem'), QueueOK(queue'), Own(mem', queue', p), Continue(p, as)
  PROVE  Done
<1>1. CASE as = << >>
  BY <1>1, OwnForget, ReturnDone DEF Continue
<1>2. CASE as # << >>
  BY <1>2 DEF Continue, Done, RestOK
<1> QED
  BY <1>1, <1>2

LEMMA RequestDone ==
  ASSUME NEW m, NEW q, NEW p, NEW long \in BOOLEAN, Holding(m, q, p), 
         CreateAndSendRequest(m, q, p, long)
  PROVE  PoolOK(mem') /\ QueueOK(queue') /\ Own(mem', queue', NULL)
<1> DEFINE r1 == FreeBlock(m)
           m1 == Alloc(m, r1, Created("REQUEST"))
           r2 == FreeBlock(m1)
           m2 == Alloc(m1, r2, Created("REQUEST"))
           q1 == UnicastSend(q, r1)
           q2 == UnicastSend(q1, r2)
<1>0. Created("REQUEST") \in Packet
  BY PacketsTyped DEF PacketTypes
<1>1. ASSUME HasFree(m)
      PROVE  /\ r1 \in Blocks /\ r1 \notin DOMAIN m
             /\ PoolOK(m1) /\ QueueOK(q1)
             /\ Own(m1, q, p) /\ Own(m1, q1, p)
  <2>1. r1 \in Blocks /\ r1 \notin DOMAIN m /\ r1 \in Refs
    BY <1>1, FreeBlockIsFree, BlocksNotNull
  <2>2. PoolOK(m1) /\ QueueOK(q1)
    BY <1>0, <2>1, AllocTyped, SendTyped DEF Holding
  <2>3. Own(m1, q, p)
    BY <1>0, <2>1, OwnAlloc DEF Holding
  <2>4. Own(m1, q1, p)
    <3>1. Event("rf_u_send_proc", "RF_U_SEND", r1) \in Events
      BY <2>1, EventsTyped
    <3>2. Event("rf_u_send_proc", "RF_U_SEND", r1).data = r1
      BY DEF Event
    <3> QED
      BY <1>0, <2>1, <3>1, <3>2, OwnPostFresh DEF Holding, UnicastSend
  <2> QED
    BY <2>1, <2>2, <2>3, <2>4
<1>2. ASSUME HasFree(m), HasFree(m1)
      PROVE  PoolOK(m2) /\ QueueOK(q2) /\ Own(m2, q2, p)
  <2>1. r2 \in Blocks /\ r2 \notin DOMAIN m1 /\ r2 \in Refs
    BY <1>2, FreeBlockIsFree, BlocksNotNull
  <2>2. PoolOK(m2) /\ QueueOK(q2)
    BY <1>0, <1>1, <1>2, <2>1, AllocTyped, SendTyped
  <2>3. Event("rf_u_send_proc", "RF_U_SEND", r2) \in Events
    BY <2>1, EventsTyped
  <2>4. Event("rf_u_send_proc", "RF_U_SEND", r2).data = r2
    BY DEF Event
  <2> HIDE DEF m1, q1
  <2>5. Own(m2, q2, p)
    BY <1>0, <1>1, <1>2, <2>1, <2>3, <2>4, OwnPostFresh DEF UnicastSend
  <2> QED
    BY <2>2, <2>5
<1>3. CASE ~ HasFree(m) /\ mem' = Free(m, p) /\ queue' = q
  BY <1>3, FreeTyped, OwnFree DEF Holding
<1>4. CASE HasFree(m) /\ mem' = Free(m1, p) /\ queue' = q1
  BY <1>1, <1>4, FreeTyped, OwnFree
<1>5. CASE HasFree(m) /\ mem' = Free(m1, p) /\ queue' = q
  BY <1>1, <1>5, FreeTyped, OwnFree DEF Holding
<1>6. CASE HasFree(m) /\ HasFree(m1) /\ mem' = Free(m2, p) /\ queue' = q2
  BY <1>2, <1>6, FreeTyped, OwnFree
<1> QED
  BY <1>3, <1>4, <1>5, <1>6 DEF CreateAndSendRequest

LEMMA MatchDone ==
  ASSUME WellFormedRules, NEW m, NEW q, NEW p \in Refs, p # NULL, NEW long \in BOOLEAN,
         Holding(m, q, p), MatchPacket(m, q, p, long, << >>)
  PROVE  Done
<1>1. ASSUME NEW as \in Rules, Continue(p, as \o << >>), mem' = m, queue' = q
      PROVE  Done
  <2>1. as \in Seq(ActionTypes) /\ as \o << >> = as
    BY NodeAssumption, ConcatEmptySeq
  <2>2. \A i \in 1 .. Len(as) : as[i] \in Consuming => i = Len(as)
    BY DEF WellFormedRules
  <2> QED
    BY <1>1, <2>1, <2>2, ContinueDone DEF Holding
<1>2. CASE CreateAndSendRequest(m, q, p, long) /\ Continue(p, << >>)
  BY <1>2, RequestDone, ReturnDone DEF Continue
<1> QED
  BY <1>1, <1>2 DEF MatchPacket
-----------------------------------------------------------------------------
(* The steps.  A process that gets an event owns the packet it carries.      *)

LEMMA Delivered ==
  ASSUME IInv, NEW proc, NEW ev, Delivers(proc, ev)
  PROVE  /\ Holding(mem, Tail(queue), Head(queue).data)
         /\ ev \in Receipts => Head(queue).data \in Blocks
         /\ cur = NULL /\ rest = << >>
<1>1. PoolOK(mem) /\ QueueOK(queue) /\ Own(mem, queue, NULL) /\ queue # << >>
  BY DEF IInv, TypeOK, SingleOwner, Delivers, Idle, PoolOK, QueueOK
<1> QED
  BY <1>1, TailTyped, OwnTail DEF Delivers, Idle, Holding, IInv, TypeOK

(* A step that leaves the action loop alone and leaves the queue and the pool *)
(* consistent.                                                                *)
LEMMA StepInv ==
  ASSUME IInv, Done, active' \in BOOLEAN,
         timer' \in [TimerProcs -> {"waiting", "armed", "expired"}]
  PROVE  IInv'
BY DEF IInv, TypeOK, SingleOwner, Done, PoolOK, QueueOK, Idle

LEMMA IdleDone ==
  ASSUME IInv, cur = NULL, UNCHANGED <<cur, rest>>,
         PoolOK(mem'), QueueOK(queue'), Own(mem', queue', NULL)
  PROVE  Done
BY DEF IInv, TypeOK, RestOK, Done, Idle

LEMMA QuietTyped ==
  ASSUME IInv, Quiet
  PROVE  active' \in BOOLEAN /\ timer' \in [TimerProcs -> {"waiting", "armed", "expired"}]
BY DEF IInv, TypeOK, Quiet

LEMMA ReceiveInv ==
  ASSUME IInv, NEW ev \in {"RF_U_RECEIVE", "RF_B_RECEIVE", "UART_RECEIVE"},
         NEW f \in Frames, Receive(ev, f)
  PROVE  IInv'
<1> DEFINE p == FreeBlock(mem)
           e == Event("main_proc", ev, p)
<1>1. PoolOK(mem) /\ QueueOK(queue) /\ Own(mem, queue, NULL) /\ cur = NULL
  BY DEF IInv, TypeOK, SingleOwner, Receive, Idle, PoolOK, QueueOK
<1>2. p \in Blocks /\ p \notin DOMAIN mem
  BY FreeBlockIsFree DEF Receive
<1>3. f \in Packet
  BY NodeAssumption
<1>4. e \in Events /\ e.data = p
  BY <1>2, EventsTyped DEF Event
<1>5. mem' = Alloc(mem, p, f) /\ queue' = Post(queue, e)
  BY DEF Receive
<1> HIDE DEF p, e
<1>6. PoolOK(mem') /\ QueueOK(queue') /\ Own(mem', queue', NULL)
  BY <1>1, <1>2, <1>3, <1>4, <1>5, AllocTyped, PostTyped, OwnPostFresh
<1>7. Done
  BY <1>1, <1>6, IdleDone DEF Receive
<1> QED
  BY <1>7, StepInv, QuietTyped DEF Receive, Quiet

LEMMA NewPacketOwn ==
  ASSUME NEW m, NEW q, NEW p \in Blocks, Own(m, q, p), QueueOK(q)
  PROVE  Own(m, NewPacket(q, p), NULL) /\ QueueOK(NewPacket(q, p))
<1> DEFINE e == Event("packet_handler_proc", "NEW_PACKET", p)
<1>1. e \in Events /\ e.data = p
  BY EventsTyped DEF Event
<1>2. NewPacket(q, p) = Post(q, e)
  BY DEF NewPacket
<1> HIDE DEF e
<1> QED
  BY <1>1, <1>2, OwnPost, PostTyped

LEMMA SendOwn ==
  ASSUME NEW m, NEW q, NEW p \in Refs, Own(m, q, p), QueueOK(q)
  PROVE  /\ Own(m, UnicastSend(q, p), NULL) /\ QueueOK(UnicastSend(q, p))
         /\ Own(m, BroadcastSend(q, p), NULL) /\ QueueOK(BroadcastSend(q, p))
<1> DEFINE u == Event("rf_u_send_proc", "RF_U_SEND", p)
           b == Event("rf_b_send_proc", "RF_B_SEND", p)
<1>1. u \in Events /\ u.data = p /\ b \in Events /\ b.data = p
  BY EventsTyped DEF Event
<1>2. UnicastSend(q, p) = Post(q, u) /\ BroadcastSend(q, p) = Post(q, b)
  BY DEF UnicastSend, BroadcastSend
<1> HIDE DEF u, b
<1> QED
  BY <1>1, <1>2, OwnPost, PostTyped

LEMMA MainReceiveInv ==
  ASSUME IInv, MainReceive
  PROVE  IInv'
<1> DEFINE p == Head(queue).data
           q == Tail(queue)
<1>1. Holding(mem, q, p) /\ p \in Blocks /\ cur = NULL
  BY Delivered DEF MainReceive, Receipts
<1>2. mem' = mem /\ queue' = NewPacket(q, p)
  BY DEF MainReceive
<1> HIDE DEF p, q
<1>3. PoolOK(mem') /\ QueueOK(queue') /\ Own(mem', queue', NULL)
  BY <1>1, <1>2, NewPacketOwn DEF Holding
<1>4. Done
  BY <1>1, <1>3, IdleDone DEF MainReceive
<1> QED
  BY <1>4, StepInv, QuietTyped DEF MainReceive, Quiet

LEMMA MainReceiveBroadcastInv ==
  ASSUME IInv, MainReceiveBroadcast
  PROVE  IInv'
<1> DEFINE p == Head(queue).data
           q == Tail(queue)
           e1 == Event("beacon_timer_proc", "ACTIVATE", NULL)
           e2 == Event("report_timer_proc", "ACTIVATE", NULL)
           q1 == Post(q, e1)
           q2 == Post(q1, e2)
<1>1. Holding(mem, q, p) /\ p \in Blocks /\ cur = NULL
  BY Delivered DEF MainReceiveBroadcast, Receipts
<1>2. mem' = mem /\ queue' = NewPacket(IF active THEN q ELSE q2, p)
  BY DEF MainReceiveBroadcast
<1>3. e1 \in Events /\ e1.data = NULL /\ e2 \in Events /\ e2.data = NULL
  BY EventsTyped DEF Event, Gated
<1> HIDE DEF p, q, e1, e2
<1>4. QueueOK(q1) /\ Own(mem, q1, p)
  BY <1>1, <1>3, PostTyped, OwnPostNull DEF Holding
<1> HIDE DEF q1
<1>5. QueueOK(q2) /\ Own(mem, q2, p)
  BY <1>3, <1>4, PostTyped, OwnPostNull
<1> HIDE DEF q2
<1>6. PoolOK(mem') /\ QueueOK(queue') /\ Own(mem', queue', NULL)
  BY <1>1, <1>2, <1>5, NewPacketOwn DEF Holding
<1>7. Done
  BY <1>1, <1>6, IdleDone DEF MainReceiveBroadcast
<1> QED
  BY <1>7, StepInv DEF MainReceiveBroadcast, IInv, TypeOK

(* Beacons and reports: a fresh block, or NULL, goes to a send process. *)
LEMMA SendCreatedInv ==
  ASSUME IInv, NEW ev, Delivers("main_proc", ev), UNCHANGED <<active, timer, cur, rest>>,
         NEW t \in PacketTypes,
         NEW r \in Refs, r = IF HasFree(mem) THEN FreeBlock(mem) ELSE NULL,
         mem' = IF HasFree(mem) THEN Alloc(mem, r, Created(t)) ELSE mem,
         queue' = UnicastSend(Tail(queue), r) \/ queue' = BroadcastSend(Tail(queue), r)
  PROVE  IInv'
<1> DEFINE q == Tail(queue)
<1>1. PoolOK(mem) /\ QueueOK(q) /\ Own(mem, q, NULL) /\ cur = NULL
  BY Delivered, OwnForget DEF Holding
<1>2. PoolOK(mem') /\ Own(mem', q, r)
  <2>1. CASE HasFree(mem)
    <3>1. r \in Blocks /\ r \notin DOMAIN mem /\ Created(t) \in Packet
      BY <2>1, FreeBlockIsFree, PacketsTyped
    <3> HIDE DEF q
    <3> QED
      BY <1>1, <2>1, <3>1, AllocTyped, OwnAlloc
  <2>2. CASE ~ HasFree(mem)
    BY <1>1, <2>2
  <2> QED
    BY <2>1, <2>2
<1>3. queue' = UnicastSend(q, r) \/ queue' = BroadcastSend(q, r)
  OBVIOUS
<1> HIDE DEF q
<1>4. QueueOK(queue') /\ Own(mem', queue', NULL)
  BY <1>1, <1>2, <1>3, SendOwn
<1>5. Done
  BY <1>1, <1>2, <1>4, IdleDone
<1> QED
  BY <1>5, StepInv, QuietTyped DEF Quiet

LEMMA MainSendInv ==
  ASSUME IInv, MainSendBeacon \/ MainSendReport
  PROVE  IInv'
<1> DEFINE r == IF HasFree(mem) THEN FreeBlock(mem) ELSE NULL
<1>1. r \in Refs
  BY FreeBlockIsFree, BlocksNotNull DEF Refs
<1>2. CASE MainSendBeacon
  <2>1. /\ Delivers("main_proc", "RF_SEND_BEACON") /\ UNCHANGED <<active, timer, cur, rest>>
        /\ mem' = IF HasFree(mem) THEN Alloc(mem, r, Created("BEACON")) ELSE mem
        /\ queue' = BroadcastSend(Tail(queue), r)
    BY <1>2 DEF MainSendBeacon
  <2> HIDE DEF r
  <2>2. r = IF HasFree(mem) THEN FreeBlock(mem) ELSE NULL
    BY DEF r
  <2> QED
    BY <1>1, <2>1, <2>2, SendCreatedInv DEF PacketTypes
<1>3. CASE MainSendReport
  <2>1. /\ Delivers("main_proc", "RF_SEND_REPORT") /\ UNCHANGED <<active, timer, cur, rest>>
        /\ mem' = IF HasFree(mem) THEN Alloc(mem, r, Created("REPORT")) ELSE mem
        /\ queue' = UnicastSend(Tail(queue), r)
    BY <1>3 DEF MainSendReport
  <2> HIDE DEF r
  <2>2. r = IF HasFree(mem) THEN FreeBlock(mem) ELSE NULL
    BY DEF r
  <2> QED
    BY <1>1, <2>1, <2>2, SendCreatedInv DEF PacketTypes
<1> QED
  BY <1>2, <1>3

LEMMA MainSendDataInv ==
  ASSUME WellFormedRules, IInv, MainSendData
  PROVE  IInv'
<1> DEFINE q == Tail(queue)
           p == FreeBlock(mem)
           m == Alloc(mem, p, Created("DATA"))
<1>1. PoolOK(mem) /\ QueueOK(q) /\ Own(mem, q, NULL) /\ cur = NULL
  BY Delivered, OwnForget DEF MainSendData, Holding
<1>2. CASE Build = "mobile" /\ active /\ HasFree(mem)
  <2>1. p \in Blocks /\ p \notin DOMAIN mem /\ p \in Refs /\ p # NULL
    BY <1>2, FreeBlockIsFree, BlocksNotNull
  <2>2. Created("DATA") \in Packet
    BY PacketsTyped DEF PacketTypes
  <2>3. MatchPacket(m, q, p, FALSE, << >>)
    BY <1>2 DEF MainSendData
  <2> HIDE DEF q, p
  <2>4. Holding(m, q, p)
    BY <1>1, <2>1, <2>2, AllocTyped, OwnAlloc DEF Holding
  <2> HIDE DEF m
  <2>5. Done
    BY <2>1, <2>3, <2>4, MatchDone
  <2> QED
    BY <2>5, StepInv, QuietTyped DEF MainSendData, Quiet
<1>3. CASE ~ (Build = "mobile" /\ active /\ HasFree(mem))
  <2>1. mem' = mem /\ queue' = q /\ UNCHANGED <<cur, rest>>
    BY <1>3 DEF MainSendData
  <2> HIDE DEF q
  <2>2. Done
    BY <1>1, <2>1, IdleDone
  <2> QED
    BY <2>2, StepInv, QuietTyped DEF MainSendData, Quiet
<1> QED
  BY <1>2, <1>3

LEMMA MainTimerInv ==
  ASSUME IInv, MainTimer
  PROVE  IInv'
<1>1. PoolOK(mem) /\ QueueOK(Tail(queue)) /\ Own(mem, Tail(queue), NULL) /\ cur = NULL
  BY Delivered, OwnForget DEF MainTimer, Holding
<1>2. Done
  BY <1>1, IdleDone DEF MainTimer
<1> QED
  BY <1>2, StepInv, QuietTyped DEF MainTimer, Quiet
-----------------------------------------------------------------------------
(* The packet handler: what each way of ending a handler establishes.        *)

LEMMA DropDone ==
  ASSUME NEW p, NEW q, Holding(mem, q, p), Drop(p, q)
  PROVE  Done
BY FreeTyped, OwnFree, ReturnDone DEF Holding, Drop

LEMMA SendDone ==
  ASSUME NEW p, NEW q, Holding(mem, q, p), Send(p, q)
  PROVE  Done
BY SendOwn, ReturnDone DEF Holding, Send

LEMMA KeepDone ==
  ASSUME NEW p, NEW q, Holding(mem, q, p), queue' = q, UNCHANGED mem, Return
  PROVE  Done
BY OwnForget, ReturnDone DEF Holding

LEMMA HandlerDone ==
  ASSUME WellFormedRules, NEW p \in Blocks, NEW q, Holding(mem, q, p), NEW f \in Packet
  PROVE  /\ Match(p, q, f) => Done
         /\ HandleBeacon(p, q) => Done
         /\ HandleData(p, q, f) => Done
         /\ HandleReport(p, q) => Done
         /\ HandleResponse(p, q, f) => Done
         /\ HandleOpenPath(p, q, f) => Done
         /\ Overhear(q) => Done
<1>1. Match(p, q, f) => Done
  <2>1. f.long \in BOOLEAN /\ p \in Refs /\ p # NULL
    BY BlocksNotNull DEF Packet
  <2> QED
    BY <2>1, MatchDone DEF Match
<1>2. Drop(p, q) => Done
  BY DropDone
<1>3. Send(p, q) => Done
  BY SendDone
<1>4. queue' = q /\ UNCHANGED mem /\ Return => Done
  BY KeepDone
<1> QED
  BY <1>1, <1>2, <1>3, <1>4
     DEF HandleBeacon, HandleData, HandleReport, HandleResponse, HandleOpenPath, Overhear

LEMMA ConfigDone ==
  ASSUME WellFormedRules, NEW p \in Blocks, NEW q, Holding(mem, q, p), NEW f \in Packet,
         HandleConfig(p, q, f)
  PROVE  (Done /\ Quiet) \/ Reboot
<1>1. ASSUME NEW l \in {f.long, TRUE}, Quiet,
             MatchPacket(Rewrite(mem, p, [f EXCEPT !.long = l]), q, p, l, << >>)
      PROVE  Done
  <2> DEFINE g == [f EXCEPT !.long = l]
             m == Rewrite(mem, p, g)
  <2>1. l \in BOOLEAN /\ p \in Refs /\ p # NULL
    BY BlocksNotNull DEF Packet
  <2>2. g \in Packet
    BY <2>1, PacketsTyped
  <2>3. MatchPacket(m, q, p, l, << >>)
    BY <1>1
  <2> HIDE DEF g
  <2>4. Holding(m, q, p)
    BY <2>2, RewriteTyped DEF Holding, Own
  <2> HIDE DEF m
  <2> QED
    BY <2>1, <2>3, <2>4, MatchDone
<1>2. Match(p, q, f) => Done /\ Quiet
  BY HandlerDone DEF Match
<1>3. Drop(p, q) => Done /\ Quiet
  BY DropDone DEF Drop
<1> QED
  BY <1>1, <1>2, <1>3 DEF HandleConfig

LEMMA RebootInv ==
  ASSUME Reboot
  PROVE  IInv'
<1>1. DOMAIN mem' = {} /\ queue' = << >> /\ cur' = NULL /\ rest' = << >>
  BY DEF Reboot
<1>2. active' \in BOOLEAN /\ timer' \in [TimerProcs -> {"waiting", "armed", "expired"}]
  BY DEF Reboot
<1>3. TypeOK'
  BY <1>1, <1>2, NodeAssumption DEF TypeOK, Refs, Idle
<1>4. SingleOwner'
  BY <1>1 DEF SingleOwner, Own, Pointers
<1>5. RestOK'
  BY <1>1 DEF RestOK
<1> QED
  BY <1>3, <1>4, <1>5 DEF IInv

LEMMA HandlePacketInv ==
  ASSUME WellFormedRules, IInv, HandlePacket
  PROVE  IInv'
<1> DEFINE p == Head(queue).data
           q == Tail(queue)
<1>1. Holding(mem, q, p) /\ p \in Blocks
  BY Delivered DEF HandlePacket, Receipts
<1>2. PICK f \in Contents(p) :
         \/ Drop(p, q) \/ HandleBeacon(p, q) \/ Overhear(q)
         \/ HandleData(p, q, f) \/ HandleResponse(p, q, f) \/ HandleOpenPath(p, q, f)
         \/ HandleConfig(p, q, f) \/ HandleReport(p, q)
  BY DEF HandlePacket
<1> HIDE DEF p, q
<1>3. f \in Packet
  BY <1>1, ContentsTyped DEF Holding
<1>4. (Done /\ Quiet) \/ Reboot
  <2>1. CASE HandleConfig(p, q, f)
    BY <1>1, <1>3, <2>1, ConfigDone
  <2>2. CASE ~ HandleConfig(p, q, f)
    <3>1. Done
      BY <1>1, <1>2, <1>3, <2>2, HandlerDone, DropDone
    <3>2. Quiet
      BY <1>2, <2>2 DEF HandleBeacon, HandleData, HandleReport, HandleResponse,
                        HandleOpenPath, Overhear, Drop, Send, Match
    <3> QED
      BY <3>1, <3>2
  <2> QED
    BY <2>1, <2>2
<1> QED
  BY <1>4, RebootInv, StepInv, QuietTyped
-----------------------------------------------------------------------------
(* The action loop.  The action about to run is the last one if it gives the *)
(* packet away, so nothing remains to use the packet afterwards.             *)

LEMMA Successor ==
  ASSUME NEW n \in Nat, n # 0, NEW i \in 1 .. (n - 1)
  PROVE  i + 1 \in 1 .. n /\ (i + 1 = n => i = n - 1)
OBVIOUS

LEMMA LastConsumes ==
  ASSUME NEW s \in Seq(ActionTypes), s # << >>,
         \A i \in 1 .. Len(s) : s[i] \in Consuming => i = Len(s)
  PROVE  /\ \A i \in 1 .. Len(Tail(s)) : Tail(s)[i] \in Consuming => i = Len(Tail(s))
         /\ Head(s) \in Consuming => Tail(s) = << >>
<1>1. /\ Tail(s) \in Seq(ActionTypes) /\ Len(Tail(s)) = Len(s) - 1 /\ Head(s) = s[1]
      /\ \A i \in 1 .. Len(Tail(s)) : Tail(s)[i] = s[i + 1]
  BY HeadTailProperties
<1>2. Len(s) \in Nat /\ Len(s) # 0
  BY EmptySeq
<1>3. ASSUME NEW i \in 1 .. Len(Tail(s)), Tail(s)[i] \in Consuming
      PROVE  i = Len(Tail(s))
  <2>0. i \in 1 .. (Len(s) - 1)
    BY <1>1
  <2>1. i + 1 \in 1 .. Len(s) /\ (i + 1 = Len(s) => i = Len(s) - 1)
    BY <1>2, <2>0, Successor, Zenon
  <2>2. s[i + 1] \in Consuming
    <3>1. Tail(s)[i] = s[i + 1]
      BY <1>1
    <3> QED
      BY <1>3, <3>1, Zenon
  <2>3. i + 1 = Len(s)
    BY <2>1, <2>2, Zenon
  <2> QED
    BY <1>1, <2>1, <2>3, Zenon
<1>4. ASSUME Head(s) \in Consuming PROVE Tail(s) = << >>
  <2>1. 1 \in 1 .. Len(s)
    BY <1>2
  <2>4. s[1] \in Consuming
    <3>1. Head(s) = s[1]
      BY <1>1
    <3> QED
      BY <1>4, <3>1, Zenon
  <2>2. Len(s) = 1
    BY <2>1, <2>4, Zenon
  <2>3. Len(Tail(s)) = 0
    BY <1>1, <2>2
  <2> QED
    BY <1>1, <2>3, EmptySeq
<1> QED
  BY <1>3, <1>4

LEMMA RunActionInv ==
  ASSUME WellFormedRules, IInv, RunAction
  PROVE  IInv'
<1> DEFINE a == Head(rest)
           as == Tail(rest)
<1>1. /\ PoolOK(mem) /\ QueueOK(queue) /\ Own(mem, queue, cur)
      /\ cur \in Refs /\ cur # NULL
      /\ rest \in Seq(ActionTypes) /\ rest # << >>
  BY DEF IInv, TypeOK, SingleOwner, RunAction, Idle, PoolOK, QueueOK
<1>2. as \in Seq(ActionTypes) /\ Len(as) = Len(rest) - 1 /\ a = rest[1] /\ a \in ActionTypes
  BY <1>1, HeadTailProperties
<1>3. \A i \in 1 .. Len(as) : as[i] \in Consuming => i = Len(as)
  BY <1>1, LastConsumes DEF IInv, RestOK
<1>4. a \in Consuming => as = << >>
  BY <1>1, LastConsumes DEF IInv, RestOK
<1>5. a \in Consuming /\ Continue(cur, as) => Return
  BY <1>4 DEF Continue
<1>6. Contents(cur) \subseteq Packet
  BY <1>1, ContentsTyped
<1>7. Holding(mem, queue, cur)
  BY <1>1 DEF Holding
<1>8. CASE a = "FORWARD_U" /\ queue' = UnicastSend(queue, cur) /\ UNCHANGED mem /\ Continue(cur, as)
  <2>1. Return
    BY <1>5, <1>8 DEF Consuming
  <2> QED
    BY <1>1, <1>8, <2>1, SendOwn, ReturnDone, StepInv, QuietTyped DEF RunAction
<1>9. CASE /\ a = "FORWARD_B" /\ queue' = BroadcastSend(queue, cur)
           /\ UNCHANGED mem /\ Continue(cur, as)
  <2>1. Return
    BY <1>5, <1>9 DEF Consuming
  <2> QED
    BY <1>1, <1>9, <2>1, SendOwn, ReturnDone, StepInv, QuietTyped DEF RunAction
<1>10. CASE /\ a = "ASK"
            /\ \E f \in Contents(cur) : CreateAndSendRequest(mem, queue, cur, f.long)
            /\ Continue(cur, as)
  <2>1. Return
    BY <1>5, <1>10 DEF Consuming
  <2>2. \E l \in BOOLEAN : CreateAndSendRequest(mem, queue, cur, l)
    BY <1>6, <1>10 DEF Packet
  <2> QED
    BY <1>7, <2>1, <2>2, RequestDone, ReturnDone, StepInv, QuietTyped DEF RunAction
<1>11. CASE a = "MATCH" /\ \E f \in Contents(cur) : MatchPacket(mem, queue, cur, f.long, as)
  <2>1. as = << >>
    BY <1>4, <1>11 DEF Consuming
  <2>2. \E l \in BOOLEAN : MatchPacket(mem, queue, cur, l, << >>)
    BY <1>6, <1>11, <2>1 DEF Packet
  <2>3. Done
    BY <1>1, <1>7, <2>2, MatchDone
  <2> QED
    BY <2>3, StepInv, QuietTyped DEF RunAction
<1>12. CASE a = "FUNCTION" /\ UNCHANGED <<mem, queue>> /\ Continue(cur, as)
  <2> HIDE DEF a, as
  <2>1. Done
    BY <1>1, <1>2, <1>3, <1>12, ContinueDone
  <2> QED
    BY <2>1, StepInv, QuietTyped DEF RunAction
<1>13. CASE /\ a = "SET_"
            /\ \E f \in Contents(cur), l \in BOOLEAN :
                   mem' = Rewrite(mem, cur, [f EXCEPT !.long = l])
            /\ UNCHANGED queue
            /\ Continue(cur, as)
  <2>1. PICK g \in Packet : mem' = Rewrite(mem, cur, g)
    BY <1>6, <1>13, PacketsTyped
  <2>a. PoolOK(mem') /\ DOMAIN mem' = DOMAIN mem /\ queue' = queue
    BY <1>1, <1>13, <2>1, RewriteTyped
  <2>2. PoolOK(mem') /\ Own(mem', queue', cur) /\ QueueOK(queue')
    BY <1>1, <2>a DEF Own
  <2> HIDE DEF a, as
  <2>3. Done
    BY <1>1, <1>2, <1>3, <1>13, <2>2, ContinueDone
  <2> QED
    BY <2>3, StepInv, QuietTyped DEF RunAction
<1>14. CASE a = "DROP" /\ mem' = Free(mem, cur) /\ UNCHANGED queue /\ Continue(cur, as)
  <2>1. Return
    BY <1>5, <1>14 DEF Consuming
  <2> QED
    BY <1>1, <1>14, <2>1, FreeTyped, OwnFree, ReturnDone, StepInv, QuietTyped DEF RunAction
<1> QED
  BY <1>8, <1>9, <1>10, <1>11, <1>12, <1>13, <1>14 DEF RunAction
-----------------------------------------------------------------------------
(* The send processes and the timers.                                        *)

LEMMA RfSendInv ==
  ASSUME IInv, RfUSend \/ RfBSend
  PROVE  IInv'
<1> DEFINE p == Head(queue).data
           q == Tail(queue)
<1>1. Holding(mem, q, p) /\ cur = NULL
  BY Delivered DEF RfUSend, RfBSend
<1>2. mem' = Free(mem, p) /\ queue' = q /\ UNCHANGED <<active, timer, cur, rest>>
  BY DEF RfUSend, RfBSend
<1> HIDE DEF p, q
<1>3. PoolOK(mem') /\ QueueOK(queue') /\ Own(mem', queue', NULL)
  BY <1>1, <1>2, FreeTyped, OwnFree DEF Holding
<1>4. Done
  BY <1>1, <1>2, <1>3, IdleDone
<1> QED
  BY <1>2, <1>4, StepInv, QuietTyped DEF Quiet

LEMMA TimerExpiresInv ==
  ASSUME IInv, NEW t \in TimerProcs, TimerExpires(t)
  PROVE  IInv'
<1> DEFINE e == Event(t, "PROCESS_EVENT_TIMER", NULL)
<1>1. PoolOK(mem) /\ QueueOK(queue) /\ Own(mem, queue, NULL) /\ cur = NULL
  BY DEF IInv, TypeOK, SingleOwner, TimerExpires, Idle, PoolOK, QueueOK
<1>2. e \in Events /\ e.data = NULL
  BY NodeAssumption, EventsTyped DEF Event
<1>3. queue' = Post(queue, e)
  BY DEF TimerExpires, Post
<1> HIDE DEF e
<1>4. PoolOK(mem') /\ QueueOK(queue') /\ Own(mem', queue', NULL)
  BY <1>1, <1>2, <1>3, PostTyped, OwnPostNull DEF TimerExpires
<1>5. Done
  BY <1>1, <1>4, IdleDone DEF TimerExpires
<1>6. timer' \in [TimerProcs -> {"waiting", "armed", "expired"}]
  BY DEF TimerExpires, IInv, TypeOK
<1> QED
  BY <1>5, <1>6, StepInv DEF TimerExpires, IInv, TypeOK

LEMMA TimerProcInv ==
  ASSUME IInv, NEW t \in TimerProcs, TimerProc(t)
  PROVE  IInv'
<1> DEFINE e == Event("main_proc", Tick(t), NULL)
           q == Tail(queue)
<1>1. PoolOK(mem) /\ QueueOK(q) /\ Own(mem, q, NULL) /\ cur = NULL
  BY Delivered, OwnForget DEF TimerProc, Holding
<1>2. e \in Events /\ e.data = NULL
  BY NodeAssumption, EventsTyped DEF Event
<1>3. queue' = Post(q, e)
  BY DEF TimerProc
<1> HIDE DEF e, q
<1>4. PoolOK(mem') /\ QueueOK(queue') /\ Own(mem', queue', NULL)
  BY <1>1, <1>2, <1>3, PostTyped, OwnPostNull DEF TimerProc
<1>5. Done
  BY <1>1, <1>4, IdleDone DEF TimerProc
<1>6. timer' \in [TimerProcs -> {"waiting", "armed", "expired"}]
  BY DEF TimerProc, IInv, TypeOK
<1> QED
  BY <1>5, <1>6, StepInv DEF TimerProc, IInv, TypeOK

LEMMA ActivateInv ==
  ASSUME IInv, NEW t \in TimerProcs, Activate(t)
  PROVE  IInv'
<1>1. PoolOK(mem) /\ QueueOK(Tail(queue)) /\ Own(mem, Tail(queue), NULL) /\ cur = NULL
  BY Delivered, OwnForget DEF Activate, Holding
<1>2. Done
  BY <1>1, IdleDone DEF Activate
<1>3. timer' \in [TimerProcs -> {"waiting", "armed", "expired"}]
  BY DEF Activate, IInv, TypeOK
<1> QED
  BY <1>2, <1>3, StepInv DEF Activate, IInv, TypeOK
-----------------------------------------------------------------------------
LEMMA InitInv == Init => IInv
<1> SUFFICES ASSUME Init PROVE IInv
  OBVIOUS
<1>1. DOMAIN mem = {} /\ queue = << >> /\ cur = NULL /\ rest = << >>
  BY DEF Init
<1>2. active \in BOOLEAN /\ timer \in [TimerProcs -> {"waiting", "armed", "expired"}]
  BY DEF Init
<1>3. TypeOK
  BY <1>1, <1>2, NodeAssumption DEF TypeOK, Refs, Idle
<1>4. SingleOwner
  BY <1>1 DEF SingleOwner, Own, Pointers
<1>5. RestOK
  BY <1>1 DEF RestOK
<1> QED
  BY <1>3, <1>4, <1>5 DEF IInv

LEMMA NextInv ==
  ASSUME WellFormedRules, IInv, [Next]_vars
  PROVE  IInv'
<1>1. CASE Environment
  BY <1>1, ReceiveInv DEF Environment, UnicastRxCallback, BroadcastRxCallback, UartRxCallback
<1>2. CASE Main
  BY <1>2, MainReceiveInv, MainReceiveBroadcastInv, MainSendInv, MainSendDataInv, MainTimerInv
     DEF Main
<1>3. CASE HandlePacket \/ RunAction
  BY <1>3, HandlePacketInv, RunActionInv
<1>4. CASE RfUSend \/ RfBSend
  BY <1>4, RfSendInv
<1>5. CASE Timers
  BY <1>5, TimerProcInv, ActivateInv DEF Timers
<1>6. CASE \E t \in TimerProcs : TimerExpires(t)
  BY <1>6, TimerExpiresInv
<1>7. CASE UNCHANGED vars
  BY <1>7 DEF vars, IInv, TypeOK, SingleOwner, RestOK, Idle, Own, Pointers
<1> QED
  BY <1>1, <1>2, <1>3, <1>4, <1>5, <1>6, <1>7 DEF Next, Step

(***************************************************************************)
(* Types: in particular the queue never overfills, only allocated blocks   *)
(* have contents, and the processes that use a received packet unchecked   *)
(* are never handed NULL.                                                  *)
(***************************************************************************)
THEOREM TypeCorrect == WellFormedRules => (Spec => []TypeOK)
<1> SUFFICES ASSUME WellFormedRules PROVE Spec => []TypeOK
  OBVIOUS
<1>1. IInv /\ [Next]_vars => IInv'
  BY NextInv
<1>2. IInv => TypeOK
  BY DEF IInv
<1> QED
  BY InitInv, <1>1, <1>2, PTL DEF Spec

(***************************************************************************)
(* Ownership: every allocated packet has at most one owner and no process  *)
(* holds a freed one, with a queue of any size, lost posts included.       *)
(***************************************************************************)
THEOREM Ownership == WellFormedRules => (Spec => []SingleOwner)
<1> SUFFICES ASSUME WellFormedRules PROVE Spec => []SingleOwner
  OBVIOUS
<1>1. IInv /\ [Next]_vars => IInv'
  BY NextInv
<1>2. IInv => SingleOwner
  BY DEF IInv
<1> QED
  BY InitInv, <1>1, <1>2, PTL DEF Spec
-----------------------------------------------------------------------------
(* The events that carry a packet, and those that do not: errands of a timer *)
(* process, which come in three turns.  (Its expiry or ACTIVATE, its tick,    *)
(* and the send without a packet that a tick without a block ends in.)       *)
Carriers ==
  {<<"main_proc", "RF_U_RECEIVE">>, <<"main_proc", "RF_B_RECEIVE">>,
   <<"main_proc", "UART_RECEIVE">>, <<"packet_handler_proc", "NEW_PACKET">>,
   <<"rf_u_send_proc", "RF_U_SEND">>, <<"rf_b_send_proc", "RF_B_SEND">>}

IsErrand(e, t, k) ==
  \/ k = 3 /\ e.to = t /\ e.ev = "PROCESS_EVENT_TIMER"
  \/ k = 3 /\ e.to = t /\ e.ev = "ACTIVATE" /\ t \in Gated
  \/ k = 2 /\ e.to = "main_proc" /\ e.ev = Tick(t)
  \/ k = 1 /\ t = "beacon_timer_proc" /\ e.to = "rf_b_send_proc" /\ e.ev = "RF_B_SEND"
  \/ k = 1 /\ t = "report_timer_proc" /\ e.to = "rf_u_send_proc" /\ e.ev = "RF_U_SEND"

Formed(e) ==
  IF e.data # NULL THEN <<e.to, e.ev>> \in Carriers
  ELSE \E t \in TimerProcs, k \in 1 .. 3 : IsErrand(e, t, k)

(* The errands of a timer one behind the other: of each turn at most one, the *)
(* tick before the next expiry, the send before the next tick.               *)
Follows(k, l) == <<k, l>> \in {<<1, 2>>, <<1, 3>>, <<2, 3>>, <<3, 1>>}

Behind(e, d) ==
  e.data = NULL /\ d.data = NULL =>
    \A t \in TimerProcs, k, l \in 1 .. 3 :
      IsErrand(e, t, k) /\ IsErrand(d, t, l) => Follows(k, l)

InTurn(q) == \A i, j \in DOMAIN q : i < j => Behind(q[i], q[j])

(* What an event says of the timers tm and of ac, is_active. *)
Says(e, tm, ac) ==
  /\ Formed(e)
  /\ e.ev = "PROCESS_EVENT_TIMER" => tm[e.to] = "expired"
  /\ e.ev = "ACTIVATE" => ac /\ tm[e.to] = "waiting"
  /\ e.data = NULL =>
       \A t \in TimerProcs, k \in 1 .. 3 :
         IsErrand(e, t, k) /\ tm[t] = "waiting" => e.ev = "ACTIVATE"

Schedule(q, tm, ac) ==
  /\ InTurn(q)
  /\ \A i \in DOMAIN q : Says(q[i], tm, ac)

Sched == Schedule(queue, timer, active) /\ (~ active => \A t \in Gated : timer[t] = "waiting")
-----------------------------------------------------------------------------
(* Taking the first event off a queue, and adding one. *)
LEMMA TailEntries ==
  ASSUME NEW q \in Seq(Events), q # << >>
  PROVE  /\ Tail(q) \in Seq(Events) /\ Len(Tail(q)) = Len(q) - 1 /\ Len(q) \in Nat
         /\ 1 \in DOMAIN q /\ Head(q) = q[1]
         /\ \A i \in DOMAIN Tail(q) : i + 1 \in DOMAIN q /\ Tail(q)[i] = q[i + 1]
<1>1. /\ Tail(q) \in Seq(Events) /\ Len(Tail(q)) = Len(q) - 1 /\ Head(q) = q[1]
      /\ \A i \in 1 .. Len(Tail(q)) : Tail(q)[i] = q[i + 1]
  BY HeadTailProperties
<1>2. DOMAIN q = 1 .. Len(q) /\ Len(q) \in Nat /\ Len(q) # 0 /\ DOMAIN Tail(q) = 1 .. Len(Tail(q))
  BY <1>1, EmptySeq
<1> QED
  BY <1>1, <1>2

LEMMA AppendEntries ==
  ASSUME NEW q \in Seq(Events), NEW e \in Events
  PROVE  /\ Append(q, e) \in Seq(Events) /\ Len(Append(q, e)) = Len(q) + 1 /\ Len(q) \in Nat
         /\ DOMAIN Append(q, e) = DOMAIN q \cup {Len(q) + 1}
         /\ Len(q) + 1 \notin DOMAIN q
         /\ Append(q, e)[Len(q) + 1] = e
         /\ \A i \in DOMAIN q : Append(q, e)[i] = q[i] /\ i < Len(q) + 1
  OBVIOUS

LEMMA TailInTurn ==
  ASSUME NEW q \in Seq(Events), q # << >>, InTurn(q)
  PROVE  InTurn(Tail(q)) /\ \A j \in DOMAIN Tail(q) : Behind(Head(q), Tail(q)[j])
<1>1. ASSUME NEW i \in DOMAIN Tail(q), NEW j \in DOMAIN Tail(q), i < j
      PROVE  Behind(Tail(q)[i], Tail(q)[j])
  <2>1. i + 1 \in DOMAIN q /\ j + 1 \in DOMAIN q /\ i + 1 < j + 1
    BY <1>1, TailEntries
  <2> QED
    BY <2>1, TailEntries DEF InTurn
<1>2. ASSUME NEW j \in DOMAIN Tail(q)
      PROVE  Behind(Head(q), Tail(q)[j])
  <2>1. j + 1 \in DOMAIN q /\ 1 \in DOMAIN q /\ 1 < j + 1
    BY TailEntries
  <2> QED
    BY <2>1, TailEntries DEF InTurn
<1> QED
  BY <1>1, <1>2 DEF InTurn

LEMMA AppendInTurn ==
  ASSUME NEW q \in Seq(Events), InTurn(q), NEW e \in Events,
         \A i \in DOMAIN q : Behind(q[i], e)
  PROVE  InTurn(Append(q, e))
<1> SUFFICES ASSUME NEW i \in DOMAIN Append(q, e), NEW j \in DOMAIN Append(q, e), i < j
             PROVE  Behind(Append(q, e)[i], Append(q, e)[j])
  BY DEF InTurn
<1>1. i \in DOMAIN q
  BY AppendEntries
<1>2. CASE j \in DOMAIN q
  BY <1>1, <1>2, AppendEntries DEF InTurn
<1>3. CASE j = Len(q) + 1
  BY <1>1, <1>3, AppendEntries
<1> QED
  BY <1>2, <1>3, AppendEntries

LEMMA TailSchedule ==
  ASSUME NEW q \in Seq(Events), q # << >>, NEW tm, NEW ac, Schedule(q, tm, ac)
  PROVE  /\ Schedule(Tail(q), tm, ac)
         /\ \A j \in DOMAIN Tail(q) : Behind(Head(q), Tail(q)[j])
         /\ Says(Head(q), tm, ac)
  BY TailInTurn, TailEntries DEF Schedule

(* An event is posted, or refused. *)
LEMMA PostSchedule ==
  ASSUME NEW q \in Seq(Events), NEW tm, NEW ac, Schedule(q, tm, ac),
         NEW e \in Events, Says(e, tm, ac), \A i \in DOMAIN q : Behind(q[i], e)
  PROVE  Schedule(Post(q, e), tm, ac) /\ Schedule(Append(q, e), tm, ac)
<1>1. InTurn(Append(q, e))
  BY AppendInTurn DEF Schedule
<1>2. \A i \in DOMAIN Append(q, e) : Says(Append(q, e)[i], tm, ac)
  BY AppendEntries DEF Schedule
<1> QED
  BY <1>1, <1>2 DEF Schedule, Post

(* A packet's event stands in no errand's way. *)
LEMMA PostPacketSchedule ==
  ASSUME NEW q \in Seq(Events), NEW tm, NEW ac, Schedule(q, tm, ac),
         NEW to, NEW ev, <<to, ev>> \in Carriers, NEW p \in Blocks
  PROVE  Schedule(Post(q, Event(to, ev, p)), tm, ac)
<1> DEFINE e == Event(to, ev, p)
<1>1. e \in Events /\ e.data # NULL /\ e.to = to /\ e.ev = ev
  BY BlocksNotNull DEF Event, Events, Carriers, Procs, EventTypes, Receipts
<1> HIDE DEF e
<1>2. Says(e, tm, ac)
  BY <1>1 DEF Says, Formed, Carriers
<1>3. \A i \in DOMAIN q : Behind(q[i], e)
  BY <1>1 DEF Behind
<1>4. Schedule(Post(q, e), tm, ac)
  BY <1>1, <1>2, <1>3, PostSchedule
<1> QED
  BY <1>4 DEF e
-----------------------------------------------------------------------------
(* Handing packets to other processes keeps the schedule.                    *)

LEMMA SendSchedule ==
  ASSUME NEW q, QueueOK(q), NEW tm, NEW ac, Schedule(q, tm, ac), NEW p \in Blocks
  PROVE  /\ Schedule(UnicastSend(q, p), tm, ac)
         /\ Schedule(BroadcastSend(q, p), tm, ac)
         /\ Schedule(NewPacket(q, p), tm, ac)
  BY PostPacketSchedule DEF QueueOK, UnicastSend, BroadcastSend, NewPacket, Carriers

LEMMA RequestSchedule ==
  ASSUME NEW m, NEW q, QueueOK(q), NEW tm, NEW ac, Schedule(q, tm, ac), NEW p, NEW long,
         CreateAndSendRequest(m, q, p, long)
  PROVE  Schedule(queue', tm, ac)
<1> DEFINE r1 == FreeBlock(m)
           m1 == Alloc(m, r1, Created("REQUEST"))
           r2 == FreeBlock(m1)
           q1 == UnicastSend(q, r1)
           q2 == UnicastSend(q1, r2)
<1>1. ASSUME HasFree(m)
      PROVE  QueueOK(q1) /\ Schedule(q1, tm, ac)
  <2>1. r1 \in Blocks /\ r1 \in Refs
    BY <1>1, FreeBlockIsFree, BlocksNotNull
  <2> QED
    BY <2>1, SendTyped, SendSchedule
<1>2. ASSUME HasFree(m), HasFree(m1)
      PROVE  Schedule(q2, tm, ac)
  <2>1. r2 \in Blocks
    BY <1>2, FreeBlockIsFree
  <2> QED
    BY <1>1, <1>2, <2>1, SendSchedule
<1> QED
  BY <1>1, <1>2 DEF CreateAndSendRequest

LEMMA MatchSchedule ==
  ASSUME NEW m, NEW q, QueueOK(q), NEW tm, NEW ac, Schedule(q, tm, ac), NEW p, NEW long,
         NEW after, MatchPacket(m, q, p, long, after)
  PROVE  Schedule(queue', tm, ac)
  BY RequestSchedule DEF MatchPacket

(* A timer's errands are told apart by the process, or by the tick.          *)
LEMMA TickTells ==
  /\ \A t, u \in TimerProcs : Tick(t) = Tick(u) => t = u
  /\ \A t \in TimerProcs : /\ t \notin {"main_proc", "rf_u_send_proc", "rf_b_send_proc"}
                           /\ Tick(t) \notin {"PROCESS_EVENT_TIMER", "ACTIVATE"}
  BY NodeAssumption DEF AllTimers, Gated, Tick

LEMMA WhichErrand ==
  \A p : \A t, u \in TimerProcs, k \in 1 .. 3 :
    /\ IsErrand(Event(u, "PROCESS_EVENT_TIMER", p), t, k) => t = u /\ k = 3
    /\ IsErrand(Event(u, "ACTIVATE", p), t, k) => t = u /\ k = 3
    /\ IsErrand(Event("main_proc", Tick(u), p), t, k) => t = u /\ k = 2
    /\ IsErrand(Event("rf_b_send_proc", "RF_B_SEND", p), t, k)
            => t = "beacon_timer_proc" /\ k = 1
    /\ IsErrand(Event("rf_u_send_proc", "RF_U_SEND", p), t, k)
            => t = "report_timer_proc" /\ k = 1
<1> SUFFICES ASSUME NEW t \in TimerProcs, NEW u \in TimerProcs, NEW k \in 1 .. 3, NEW p
             PROVE  /\ IsErrand(Event(u, "PROCESS_EVENT_TIMER", p), t, k) => t = u /\ k = 3
                    /\ IsErrand(Event(u, "ACTIVATE", p), t, k) => t = u /\ k = 3
                    /\ IsErrand(Event("main_proc", Tick(u), p), t, k) => t = u /\ k = 2
                    /\ IsErrand(Event("rf_b_send_proc", "RF_B_SEND", p), t, k)
                         => t = "beacon_timer_proc" /\ k = 1
                    /\ IsErrand(Event("rf_u_send_proc", "RF_U_SEND", p), t, k)
                         => t = "report_timer_proc" /\ k = 1
  OBVIOUS
<1>1. t \in AllTimers /\ u \in AllTimers
  BY NodeAssumption
<1> QED
  BY <1>1 DEF IsErrand, Event, Tick, AllTimers, Gated

LEMMA FollowsFacts ==
  \A k, l \in 1 .. 3 :
    /\ Follows(2, l) => l = 3
    /\ Follows(3, l) => l = 1
    /\ k # 3 => Follows(k, 3)
    /\ k = 1 => Follows(k, 2)
    /\ k = 3 => Follows(k, 1)
  BY DEF Follows
-----------------------------------------------------------------------------
(* The schedule is kept by every step.                                       *)

LEMMA TypeFacts ==
  ASSUME IInv
  PROVE  /\ QueueOK(queue) /\ queue \in Seq(Events)
         /\ timer \in [TimerProcs -> {"waiting", "armed", "expired"}]
         /\ Gated \subseteq TimerProcs
  BY NodeAssumption DEF IInv, TypeOK, QueueOK

(* Of a process that has got its event. *)
LEMMA DeliveredSchedule ==
  ASSUME IInv, Sched, NEW proc, NEW ev, Delivers(proc, ev)
  PROVE  /\ QueueOK(Tail(queue)) /\ Tail(queue) \in Seq(Events)
         /\ Schedule(Tail(queue), timer, active)
         /\ \A j \in DOMAIN Tail(queue) : Behind(Head(queue), Tail(queue)[j])
         /\ Says(Head(queue), timer, active)
         /\ Head(queue).to = proc /\ Head(queue).ev = ev
         /\ Head(queue) \in Events
  BY TypeFacts, TailTyped, TailSchedule DEF Sched, Delivers, QueueOK

LEMMA QuietSched ==
  ASSUME Sched, UNCHANGED <<timer, active>>, Schedule(queue', timer, active)
  PROVE  Sched'
  BY DEF Sched

LEMMA ReceiveSched ==
  ASSUME IInv, Sched, NEW ev \in {"RF_U_RECEIVE", "RF_B_RECEIVE", "UART_RECEIVE"},
         NEW f \in Frames, Receive(ev, f)
  PROVE  Sched'
<1>1. FreeBlock(mem) \in Blocks /\ <<"main_proc", ev>> \in Carriers
  BY FreeBlockIsFree DEF Receive, Carriers
<1>2. Schedule(queue', timer, active)
  BY <1>1, TypeFacts, PostPacketSchedule DEF Receive, Sched
<1> QED
  BY <1>2, QuietSched DEF Receive

LEMMA MainReceiveSched ==
  ASSUME IInv, Sched, MainReceive
  PROVE  Sched'
<1>1. PICK ev \in {"UART_RECEIVE", "RF_U_RECEIVE"} : Delivers("main_proc", ev)
  BY DEF MainReceive
<1>2. Head(queue).data \in Blocks
  BY <1>1, Delivered DEF Receipts
<1>3. Schedule(queue', timer, active)
  BY <1>1, <1>2, DeliveredSchedule, SendSchedule DEF MainReceive
<1> QED
  BY <1>3, QuietSched DEF MainReceive

(* The first broadcast: no errand of a waiting timer is anywhere. *)
LEMMA ActivateSchedule ==
  ASSUME NEW q, QueueOK(q), NEW tm, Schedule(q, tm, FALSE),
         \A t \in Gated : tm[t] = "waiting"
  PROVE  /\ Schedule(Post(q, Event("beacon_timer_proc", "ACTIVATE", NULL)), tm, TRUE)
         /\ Schedule(Post(Post(q, Event("beacon_timer_proc", "ACTIVATE", NULL)),
                          Event("report_timer_proc", "ACTIVATE", NULL)), tm, TRUE)
<1> DEFINE b == "beacon_timer_proc"
           r == "report_timer_proc"
           e1 == Event(b, "ACTIVATE", NULL)
           e2 == Event(r, "ACTIVATE", NULL)
           q1 == Post(q, e1)
<1>1. q \in Seq(Events) /\ e1 \in Events /\ e2 \in Events
      /\ b \in Gated /\ r \in Gated /\ Gated \subseteq TimerProcs /\ b # r
  BY NodeAssumption, EventsTyped DEF QueueOK, Gated
<1>2. /\ e1.to = b /\ e1.ev = "ACTIVATE" /\ e1.data = NULL
      /\ e2.to = r /\ e2.ev = "ACTIVATE" /\ e2.data = NULL
  BY DEF Event
<1>3. \A t \in TimerProcs, k \in 1 .. 3 :
        (IsErrand(e1, t, k) => t = b /\ k = 3) /\ (IsErrand(e2, t, k) => t = r /\ k = 3)
  BY <1>1, WhichErrand
<1>4. Says(e1, tm, TRUE) /\ Says(e2, tm, TRUE)
  <2>1. IsErrand(e1, b, 3) /\ IsErrand(e2, r, 3)
    BY <1>1, <1>2 DEF IsErrand
  <2> HIDE DEF e1, e2
  <2> QED
    BY <1>1, <1>2, <2>1 DEF Says, Formed
<1> HIDE DEF e1, e2
<1>5. \A i \in DOMAIN q : ~ \E t \in Gated, k \in 1 .. 3 : q[i].data = NULL /\ IsErrand(q[i], t, k)
  BY <1>1 DEF Schedule, Says
<1>6. Schedule(q, tm, TRUE)
  BY DEF Schedule, Says
<1>7. Schedule(q1, tm, TRUE)
  <2>1. \A i \in DOMAIN q : Behind(q[i], e1)
    BY <1>1, <1>3, <1>5 DEF Behind
  <2> QED
    BY <1>1, <1>4, <1>6, <2>1, PostSchedule
<1>8. Schedule(Post(q1, e2), tm, TRUE)
  <2>1. QueueOK(q1) /\ q1 \in Seq(Events)
    BY <1>1, PostTyped DEF QueueOK
  <2>2. ASSUME NEW i \in DOMAIN q1 PROVE Behind(q1[i], e2)
    <3>1. CASE i \in DOMAIN q /\ q1[i] = q[i]
      BY <1>1, <1>3, <1>5, <3>1 DEF Behind
    <3>2. CASE q1[i] = e1
      BY <1>1, <1>3, <3>2 DEF Behind
    <3> QED
      BY <1>1, <3>1, <3>2, AppendEntries DEF Post
  <2> HIDE DEF q1
  <2> QED
    BY <1>1, <1>4, <1>7, <2>1, <2>2, PostSchedule
<1> QED
  BY <1>7, <1>8 DEF e1, e2

LEMMA MainReceiveBroadcastSched ==
  ASSUME IInv, Sched, MainReceiveBroadcast
  PROVE  Sched'
<1> DEFINE p == Head(queue).data
           q == Tail(queue)
           q2 == Post(Post(q, Event("beacon_timer_proc", "ACTIVATE", NULL)),
                      Event("report_timer_proc", "ACTIVATE", NULL))
           q3 == IF active THEN q ELSE q2
<1>1. p \in Blocks
  BY Delivered DEF MainReceiveBroadcast, Receipts
<1>2. QueueOK(q) /\ Schedule(q, timer, active)
  BY DeliveredSchedule DEF MainReceiveBroadcast
<1>3. queue' = NewPacket(q3, p) /\ active' = TRUE /\ timer' = timer
  BY DEF MainReceiveBroadcast
<1>4. active \in BOOLEAN
  BY DEF IInv, TypeOK
<1>5. QueueOK(q3) /\ Schedule(q3, timer, TRUE)
  <2>1. CASE active
    BY <1>2, <2>1, <1>4
  <2>2. CASE ~ active
    <3>1. active = FALSE /\ q3 = q2
      BY <1>4, <2>2
    <3>2. QueueOK(q2)
      BY <1>2, PostTyped, EventsTyped DEF Gated
    <3>3. \A t \in Gated : timer[t] = "waiting"
      BY <2>2 DEF Sched
    <3> HIDE DEF q
    <3>4. Schedule(q2, timer, TRUE)
      BY <1>2, <3>1, <3>3, ActivateSchedule
    <3> QED
      BY <3>1, <3>2, <3>4
  <2> QED
    BY <2>1, <2>2
<1> HIDE DEF q3, p
<1>6. Schedule(queue', timer, TRUE)
  BY <1>1, <1>3, <1>5, SendSchedule
<1> QED
  BY <1>3, <1>6 DEF Sched
-----------------------------------------------------------------------------
(* One errand of a timer leads to the next: after the tick, the send without *)
(* a packet; after the expiry, the tick.                                     *)
LEMMA NextErrandSchedule ==
  ASSUME NEW q, QueueOK(q), NEW tm, NEW ac, Schedule(q, tm, ac),
         NEW h, h.data = NULL, \A i \in DOMAIN q : Behind(h, q[i]),
         NEW u \in TimerProcs, tm[u] # "waiting",
         NEW j \in 1 .. 3, NEW k \in 1 .. 3, IsErrand(h, u, j),
         \A l \in 1 .. 3 : Follows(j, l) => Follows(l, k),
         NEW e \in Events, e.data = NULL, IsErrand(e, u, k),
         e.ev \notin {"PROCESS_EVENT_TIMER", "ACTIVATE"},
         \A t \in TimerProcs, l \in 1 .. 3 : IsErrand(e, t, l) => t = u /\ l = k
  PROVE  Schedule(Post(q, e), tm, ac)
<1>1. q \in Seq(Events)
  BY DEF QueueOK
<1>2. Says(e, tm, ac)
  BY DEF Says, Formed
<1>3. ASSUME NEW i \in DOMAIN q PROVE Behind(q[i], e)
  <2> SUFFICES ASSUME q[i].data = NULL, NEW t \in TimerProcs, NEW l \in 1 .. 3, NEW n \in 1 .. 3,
                      IsErrand(q[i], t, l), IsErrand(e, t, n)
               PROVE  Follows(l, n)
    BY DEF Behind
  <2>1. t = u /\ n = k
    OBVIOUS
  <2>2. Behind(h, q[i])
    OBVIOUS
  <2>3. Follows(j, l)
    BY <2>1, <2>2 DEF Behind
  <2> QED
    BY <2>1, <2>3
<1> QED
  BY <1>1, <1>2, <1>3, PostSchedule

(* An event for a timer process, or a tick, carries no packet. *)
LEMMA ErrandsAreEmpty ==
  ASSUME NEW e, Formed(e)
  PROVE  /\ e.ev \in {"PROCESS_EVENT_TIMER", "ACTIVATE"} =>
              e.data = NULL /\ e.to \in TimerProcs /\ IsErrand(e, e.to, 3)
         /\ \A t \in TimerProcs : e.ev = Tick(t) => e.data = NULL
<1>1. ASSUME NEW t \in TimerProcs, e.ev = Tick(t) PROVE e.data = NULL
  <2>1. t \in AllTimers
    BY NodeAssumption
  <2> QED
    BY <1>1, <2>1 DEF Formed, Carriers, Tick, AllTimers, Gated
<1>2. ASSUME e.ev \in {"PROCESS_EVENT_TIMER", "ACTIVATE"}
      PROVE  e.data = NULL /\ e.to \in TimerProcs /\ IsErrand(e, e.to, 3)
  <2>1. e.data = NULL
    BY <1>2 DEF Formed, Carriers
  <2>2. PICK t \in TimerProcs, k \in 1 .. 3 : IsErrand(e, t, k)
    BY <2>1 DEF Formed
  <2>3. e.ev # Tick(t)
    BY <1>2, TickTells
  <2>4. k = 3 /\ e.to = t
    BY <1>2, <2>2, <2>3 DEF IsErrand
  <2> QED
    BY <2>1, <2>2, <2>4
<1> QED
  BY <1>1, <1>2

LEMMA DeliveredTick ==
  ASSUME IInv, Sched, NEW t \in TimerProcs, Delivers("main_proc", Tick(t))
  PROVE  Head(queue).data = NULL /\ IsErrand(Head(queue), t, 2) /\ timer[t] # "waiting"
<1>1. Says(Head(queue), timer, active) /\ Head(queue).to = "main_proc" /\ Head(queue).ev = Tick(t)
  BY DeliveredSchedule
<1>2. Head(queue).data = NULL
  BY <1>1, ErrandsAreEmpty DEF Says
<1>3. IsErrand(Head(queue), t, 2)
  BY <1>1 DEF IsErrand
<1>4. Tick(t) # "ACTIVATE"
  BY TickTells
<1> QED
  BY <1>1, <1>2, <1>3, <1>4 DEF Says

LEMMA MainSendBeaconSched ==
  ASSUME IInv, Sched, MainSendBeacon
  PROVE  Sched'
<1> DEFINE t == "beacon_timer_proc"
           q == Tail(queue)
           e == Event("rf_b_send_proc", "RF_B_SEND", NULL)
<1>1. t \in TimerProcs /\ Tick(t) = "RF_SEND_BEACON"
  BY NodeAssumption DEF Gated, Tick
<1>2. Delivers("main_proc", Tick(t))
  BY <1>1 DEF MainSendBeacon
<1>3. QueueOK(q) /\ Schedule(q, timer, active) /\ \A j \in DOMAIN q : Behind(Head(queue), q[j])
  BY <1>2, DeliveredSchedule
<1>4. Head(queue).data = NULL /\ IsErrand(Head(queue), t, 2) /\ timer[t] # "waiting"
  BY <1>1, <1>2, DeliveredTick
<1>5. /\ e \in Events /\ e.data = NULL /\ e.ev = "RF_B_SEND"
      /\ IsErrand(e, t, 1)
      /\ \A u \in TimerProcs, l \in 1 .. 3 : IsErrand(e, u, l) => u = t /\ l = 1
  <2>1. e \in Events /\ e.data = NULL /\ e.ev = "RF_B_SEND" /\ IsErrand(e, t, 1)
    BY EventsTyped DEF Event, Refs, IsErrand
  <2> QED
    BY <1>1, <2>1, WhichErrand
<1> HIDE DEF e
<1>6. Schedule(Post(q, e), timer, active)
  <2>1. \A l \in 1 .. 3 : Follows(2, l) => Follows(l, 1)
    BY DEF Follows
  <2> HIDE DEF q
  <2> QED
    BY <1>1, <1>3, <1>4, <1>5, <2>1, NextErrandSchedule
<1>7. Schedule(queue', timer, active)
  <2>1. CASE HasFree(mem) /\ queue' = BroadcastSend(q, FreeBlock(mem))
    BY <1>3, <2>1, FreeBlockIsFree, SendSchedule
  <2>2. CASE queue' = BroadcastSend(q, NULL)
    BY <1>6, <2>2 DEF BroadcastSend, e
  <2> QED
    BY <2>1, <2>2 DEF MainSendBeacon
<1> QED
  BY <1>7, QuietSched DEF MainSendBeacon

LEMMA MainSendReportSched ==
  ASSUME IInv, Sched, MainSendReport
  PROVE  Sched'
<1> DEFINE t == "report_timer_proc"
           q == Tail(queue)
           e == Event("rf_u_send_proc", "RF_U_SEND", NULL)
<1>1. t \in TimerProcs /\ Tick(t) = "RF_SEND_REPORT"
  BY NodeAssumption DEF Gated, Tick
<1>2. Delivers("main_proc", Tick(t))
  BY <1>1 DEF MainSendReport
<1>3. QueueOK(q) /\ Schedule(q, timer, active) /\ \A j \in DOMAIN q : Behind(Head(queue), q[j])
  BY <1>2, DeliveredSchedule
<1>4. Head(queue).data = NULL /\ IsErrand(Head(queue), t, 2) /\ timer[t] # "waiting"
  BY <1>1, <1>2, DeliveredTick
<1>5. /\ e \in Events /\ e.data = NULL /\ e.ev = "RF_U_SEND"
      /\ IsErrand(e, t, 1)
      /\ \A u \in TimerProcs, l \in 1 .. 3 : IsErrand(e, u, l) => u = t /\ l = 1
  <2>1. e \in Events /\ e.data = NULL /\ e.ev = "RF_U_SEND" /\ IsErrand(e, t, 1)
    BY EventsTyped DEF Event, Refs, IsErrand
  <2> QED
    BY <1>1, <2>1, WhichErrand
<1> HIDE DEF e
<1>6. Schedule(Post(q, e), timer, active)
  <2>1. \A l \in 1 .. 3 : Follows(2, l) => Follows(l, 1)
    BY DEF Follows
  <2> HIDE DEF q
  <2> QED
    BY <1>1, <1>3, <1>4, <1>5, <2>1, NextErrandSchedule
<1>7. Schedule(queue', timer, active)
  <2>1. CASE HasFree(mem) /\ queue' = UnicastSend(q, FreeBlock(mem))
    BY <1>3, <2>1, FreeBlockIsFree, SendSchedule
  <2>2. CASE queue' = UnicastSend(q, NULL)
    BY <1>6, <2>2 DEF UnicastSend, e
  <2> QED
    BY <2>1, <2>2 DEF MainSendReport
<1> QED
  BY <1>7, QuietSched DEF MainSendReport

LEMMA MainSendDataSched ==
  ASSUME IInv, Sched, MainSendData
  PROVE  Sched'
<1>1. QueueOK(Tail(queue)) /\ Schedule(Tail(queue), timer, active)
  BY DeliveredSchedule DEF MainSendData
<1>2. Schedule(queue', timer, active)
  <2>1. CASE queue' = Tail(queue)
    BY <1>1, <2>1
  <2>2. CASE \E p \in {FreeBlock(mem)} :
               MatchPacket(Alloc(mem, p, Created("DATA")), Tail(queue), p, FALSE, << >>)
    BY <1>1, <2>2, MatchSchedule
  <2> QED
    BY <2>1, <2>2 DEF MainSendData
<1> QED
  BY <1>2, QuietSched DEF MainSendData

(* A step that only takes its event off the queue. *)
LEMMA TakenSched ==
  ASSUME IInv, Sched, NEW proc, NEW ev, Delivers(proc, ev), queue' = Tail(queue),
         UNCHANGED <<active, timer>>
  PROVE  Sched'
  BY DeliveredSchedule, QuietSched

LEMMA RebootSched ==
  ASSUME Reboot
  PROVE  Sched'
<1>1. queue' = << >> /\ DOMAIN << >> = {}
  BY DEF Reboot
<1>2. active' = (Build = "sink")
  BY DEF Reboot
<1>3. timer' = [t \in TimerProcs |-> IF t \in Gated /\ Build # "sink" THEN "waiting" ELSE "armed"]
  BY DEF Reboot
<1>4. ~ active' => \A t \in Gated : timer'[t] = "waiting"
  BY <1>2, <1>3, NodeAssumption
<1> QED
  BY <1>1, <1>4 DEF Sched, Schedule, InTurn

LEMMA HandlePacketSched ==
  ASSUME IInv, Sched, HandlePacket
  PROVE  Sched'
<1> DEFINE p == Head(queue).data
           q == Tail(queue)
<1>1. QueueOK(q) /\ Schedule(q, timer, active) /\ p \in Blocks
  BY DeliveredSchedule, Delivered DEF HandlePacket, Receipts
<1>2. PICK f \in Contents(p) :
         \/ Drop(p, q) \/ HandleBeacon(p, q) \/ Overhear(q)
         \/ HandleData(p, q, f) \/ HandleResponse(p, q, f) \/ HandleOpenPath(p, q, f)
         \/ HandleConfig(p, q, f) \/ HandleReport(p, q)
  BY DEF HandlePacket
<1> HIDE DEF p, q
<1>3. \/ Reboot
      \/ Quiet /\ queue' = q
      \/ Quiet /\ queue' = UnicastSend(q, p)
      \/ Quiet /\ \E m, long : MatchPacket(m, q, p, long, << >>)
  <2>1. Drop(p, q) \/ HandleBeacon(p, q) \/ Overhear(q) \/ HandleReport(p, q) =>
           Quiet /\ (queue' = q \/ queue' = UnicastSend(q, p))
    BY DEF Drop, HandleBeacon, Overhear, HandleReport, Send
  <2>2. HandleData(p, q, f) \/ HandleResponse(p, q, f) =>
           Quiet /\ (queue' = q \/ \E m, long : MatchPacket(m, q, p, long, << >>))
    BY DEF HandleData, HandleResponse, Drop, Match
  <2>3. HandleOpenPath(p, q, f) =>
           Quiet /\ (queue' = q \/ queue' = UnicastSend(q, p)
                       \/ \E m, long : MatchPacket(m, q, p, long, << >>))
    BY DEF HandleOpenPath, Drop, Match, Send
  <2>4. HandleConfig(p, q, f) =>
           Reboot \/ (Quiet /\ (queue' = q \/ \E m, long : MatchPacket(m, q, p, long, << >>)))
    BY DEF HandleConfig, Drop, Match
  <2> QED
    BY <1>2, <2>1, <2>2, <2>3, <2>4
<1>4. CASE Quiet /\ (queue' = q \/ queue' = UnicastSend(q, p))
  <2>1. Schedule(queue', timer, active)
    BY <1>1, <1>4, SendSchedule
  <2> QED
    BY <1>4, <2>1, QuietSched DEF Quiet
<1>5. CASE Quiet /\ \E m, long : MatchPacket(m, q, p, long, << >>)
  <2>1. Schedule(queue', timer, active)
    BY <1>1, <1>5, MatchSchedule
  <2> QED
    BY <1>5, <2>1, QuietSched DEF Quiet
<1> QED
  BY <1>3, <1>4, <1>5, RebootSched

LEMMA RunActionSched ==
  ASSUME IInv, Sched, RunAction
  PROVE  Sched'
<1>1. QueueOK(queue) /\ Schedule(queue, timer, active) /\ cur \in Blocks
  BY TypeFacts DEF Sched, RunAction, Idle, IInv, TypeOK, Refs
<1>2. \/ queue' = queue \/ queue' = UnicastSend(queue, cur) \/ queue' = BroadcastSend(queue, cur)
      \/ \E long : CreateAndSendRequest(mem, queue, cur, long)
      \/ \E long, after : MatchPacket(mem, queue, cur, long, after)
  BY DEF RunAction
<1>3. Schedule(queue', timer, active)
  BY <1>1, <1>2, SendSchedule, RequestSchedule, MatchSchedule
<1> QED
  BY <1>3, QuietSched DEF RunAction, Quiet

(* A timer that is set again, expires or is armed: no other event is for it. *)
LEMMA RearmedSays ==
  ASSUME NEW tm \in [TimerProcs -> {"waiting", "armed", "expired"}], NEW ac,
         NEW e, Says(e, tm, ac), NEW t \in TimerProcs, NEW s, s # "waiting",
         e.data = NULL => ~ IsErrand(e, t, 3)
  PROVE  Says(e, [tm EXCEPT ![t] = s], ac)
<1> DEFINE tn == [tm EXCEPT ![t] = s]
<1>1. tn[t] = s /\ \A u \in TimerProcs : u # t => tn[u] = tm[u]
  OBVIOUS
<1>2. /\ Formed(e)
      /\ e.ev \in {"PROCESS_EVENT_TIMER", "ACTIVATE"} => e.to \in TimerProcs /\ e.to # t
  BY ErrandsAreEmpty DEF Says
<1> HIDE DEF tn
<1>3. e.ev = "PROCESS_EVENT_TIMER" => tn[e.to] = "expired"
  BY <1>1, <1>2 DEF Says
<1>4. e.ev = "ACTIVATE" => ac /\ tn[e.to] = "waiting"
  BY <1>1, <1>2 DEF Says
<1>5. ASSUME e.data = NULL, NEW u \in TimerProcs, NEW k \in 1 .. 3, IsErrand(e, u, k),
             tn[u] = "waiting"
      PROVE  e.ev = "ACTIVATE"
  <2>1. tm[u] = "waiting"
    BY <1>1, <1>5
  <2> QED
    BY <1>5, <2>1 DEF Says
<1>6. Says(e, tn, ac)
  BY <1>2, <1>3, <1>4, <1>5 DEF Says
<1> QED
  BY <1>6 DEF tn

LEMMA RearmedSchedule ==
  ASSUME NEW tm \in [TimerProcs -> {"waiting", "armed", "expired"}], NEW ac, NEW q,
         Schedule(q, tm, ac), NEW t \in TimerProcs, NEW s, s # "waiting",
         \A i \in DOMAIN q : q[i].data = NULL => ~ IsErrand(q[i], t, 3)
  PROVE  Schedule(q, [tm EXCEPT ![t] = s], ac)
  BY RearmedSays DEF Schedule

LEMMA TimerExpiresSched ==
  ASSUME IInv, Sched, NEW t \in TimerProcs, TimerExpires(t)
  PROVE  Sched'
<1> DEFINE e == Event(t, "PROCESS_EVENT_TIMER", NULL)
<1>1. /\ queue \in Seq(Events) /\ Schedule(queue, timer, active)
      /\ timer \in [TimerProcs -> {"waiting", "armed", "expired"}]
      /\ timer[t] = "armed" /\ Gated \subseteq TimerProcs
      /\ \A u \in Gated : ~ active => timer[u] = "waiting"
  BY TypeFacts DEF TimerExpires, Sched
<1>2. queue' = Append(queue, e) /\ active' = active
  BY DEF TimerExpires
<1>3. PICK tm : tm = [timer EXCEPT ![t] = "expired"]
  OBVIOUS
<1>4. timer' = tm
  BY <1>3 DEF TimerExpires
<1>5. /\ e \in Events /\ e.data = NULL /\ e.to = t /\ e.ev = "PROCESS_EVENT_TIMER"
      /\ IsErrand(e, t, 3)
      /\ \A u \in TimerProcs, l \in 1 .. 3 : IsErrand(e, u, l) => u = t /\ l = 3
  <2>1. e \in Events /\ e.data = NULL /\ e.to = t /\ e.ev = "PROCESS_EVENT_TIMER"
    BY NodeAssumption, EventsTyped DEF Event
  <2>2. IsErrand(e, t, 3)
    BY <2>1 DEF IsErrand
  <2> QED
    BY <2>1, <2>2, WhichErrand
<1> HIDE DEF e
<1>6. \A i \in DOMAIN queue : queue[i].data = NULL => ~ IsErrand(queue[i], t, 3)
  <2> SUFFICES ASSUME NEW i \in DOMAIN queue, queue[i].data = NULL, IsErrand(queue[i], t, 3)
               PROVE  FALSE
    OBVIOUS
  <2>1. Says(queue[i], timer, active)
    BY <1>1 DEF Schedule
  <2>2. queue[i].to = t /\ queue[i].ev \in {"PROCESS_EVENT_TIMER", "ACTIVATE"}
    BY DEF IsErrand
  <2> QED
    BY <1>1, <2>1, <2>2 DEF Says
<1>7. Schedule(queue, tm, active)
  BY <1>1, <1>3, <1>6, RearmedSchedule
<1>8. tm[t] = "expired"
  BY <1>1, <1>3
<1>9. Says(e, tm, active)
  BY <1>5, <1>8 DEF Says, Formed
<1>10. ASSUME NEW i \in DOMAIN queue PROVE Behind(queue[i], e)
  <2> SUFFICES ASSUME queue[i].data = NULL, NEW u \in TimerProcs, NEW l \in 1 .. 3, NEW n \in 1 .. 3,
                      IsErrand(queue[i], u, l), IsErrand(e, u, n)
               PROVE  Follows(l, n)
    BY DEF Behind
  <2>1. u = t /\ n = 3
    BY <1>5
  <2>2. l # 3
    BY <1>6, <2>1
  <2> QED
    BY <2>1, <2>2, FollowsFacts
<1>11. Schedule(queue', tm, active)
  BY <1>1, <1>2, <1>5, <1>7, <1>9, <1>10, PostSchedule
<1>12. ~ active => \A u \in Gated : tm[u] = "waiting"
  BY <1>1, <1>3
<1> QED
  BY <1>2, <1>4, <1>11, <1>12 DEF Sched

LEMMA TimerProcSched ==
  ASSUME IInv, Sched, NEW t \in TimerProcs, TimerProc(t)
  PROVE  Sched'
<1> DEFINE h == Head(queue)
           q == Tail(queue)
           e == Event("main_proc", Tick(t), NULL)
<1>1. /\ QueueOK(q) /\ Schedule(q, timer, active)
      /\ \A j \in DOMAIN q : Behind(h, q[j])
      /\ Says(h, timer, active) /\ h.to = t /\ h.ev = "PROCESS_EVENT_TIMER"
  BY DeliveredSchedule DEF TimerProc
<1>2. /\ timer \in [TimerProcs -> {"waiting", "armed", "expired"}]
      /\ Gated \subseteq TimerProcs
      /\ \A u \in Gated : ~ active => timer[u] = "waiting"
  BY TypeFacts DEF Sched
<1>3. queue' = Post(q, e) /\ active' = active
  BY DEF TimerProc
<1>4. PICK tm : tm = [timer EXCEPT ![t] = "armed"]
  OBVIOUS
<1>5. timer' = tm
  BY <1>4 DEF TimerProc
<1>6. /\ e \in Events /\ e.data = NULL /\ e.ev = Tick(t)
      /\ IsErrand(e, t, 2)
      /\ \A u \in TimerProcs, l \in 1 .. 3 : IsErrand(e, u, l) => u = t /\ l = 2
  <2>1. e \in Events /\ e.data = NULL /\ e.ev = Tick(t) /\ e.to = "main_proc"
    BY NodeAssumption, EventsTyped DEF Event
  <2>2. IsErrand(e, t, 2)
    BY <2>1 DEF IsErrand
  <2> QED
    BY <2>1, <2>2, WhichErrand
<1> HIDE DEF h, q, e
<1>7. h.data = NULL /\ IsErrand(h, t, 3) /\ timer[t] = "expired"
  BY <1>1, ErrandsAreEmpty DEF Says
<1>8. ASSUME NEW i \in DOMAIN q, q[i].data = NULL, IsErrand(q[i], t, 3)
      PROVE  FALSE
  <2>1. Follows(3, 3)
    BY <1>1, <1>7, <1>8 DEF Behind
  <2> QED
    BY <2>1, FollowsFacts
<1>9. Schedule(q, tm, active)
  BY <1>1, <1>2, <1>4, <1>8, RearmedSchedule
<1>10. tm[t] = "armed"
  BY <1>2, <1>4
<1>11. Schedule(Post(q, e), tm, active)
  <2>1. \A l \in 1 .. 3 : Follows(3, l) => Follows(l, 2)
    BY DEF Follows
  <2>2. e.ev \notin {"PROCESS_EVENT_TIMER", "ACTIVATE"}
    BY <1>6, TickTells
  <2> QED
    BY <1>1, <1>6, <1>7, <1>9, <1>10, <2>1, <2>2, NextErrandSchedule
<1>12. ~ active => \A u \in Gated : tm[u] = "waiting"
  BY <1>2, <1>4, <1>7
<1> QED
  BY <1>3, <1>5, <1>11, <1>12 DEF Sched

LEMMA ActivateSched ==
  ASSUME IInv, Sched, NEW t \in TimerProcs, Activate(t)
  PROVE  Sched'
<1> DEFINE h == Head(queue)
           q == Tail(queue)
<1>1. /\ QueueOK(q) /\ Schedule(q, timer, active)
      /\ \A j \in DOMAIN q : Behind(h, q[j])
      /\ Says(h, timer, active) /\ h.to = t /\ h.ev = "ACTIVATE"
  BY DeliveredSchedule DEF Activate
<1>2. timer \in [TimerProcs -> {"waiting", "armed", "expired"}]
  BY TypeFacts
<1>3. queue' = q /\ active' = active
  BY DEF Activate
<1> HIDE DEF h, q
<1>4. h.data = NULL /\ IsErrand(h, t, 3) /\ timer[t] = "waiting" /\ active
  BY <1>1, ErrandsAreEmpty DEF Says
<1>5. PICK tm : tm = [timer EXCEPT ![t] = "armed"]
  OBVIOUS
<1>6. timer' = tm
  BY <1>2, <1>4, <1>5 DEF Activate
<1>7. ASSUME NEW i \in DOMAIN q, q[i].data = NULL, IsErrand(q[i], t, 3)
      PROVE  FALSE
  <2>1. Follows(3, 3)
    BY <1>1, <1>4, <1>7 DEF Behind
  <2> QED
    BY <2>1, FollowsFacts
<1>8. Schedule(q, tm, active)
  BY <1>1, <1>2, <1>5, <1>7, RearmedSchedule
<1> QED
  BY <1>3, <1>4, <1>6, <1>8 DEF Sched

LEMMA InitSched == Init => Sched
<1> SUFFICES ASSUME Init PROVE Sched
  OBVIOUS
<1>1. queue = << >> /\ DOMAIN << >> = {}
  BY DEF Init
<1>2. ~ active => \A t \in Gated : timer[t] = "waiting"
  BY NodeAssumption DEF Init
<1> QED
  BY <1>1, <1>2 DEF Sched, Schedule, InTurn

LEMMA NextSched ==
  ASSUME IInv, Sched, [Next]_vars
  PROVE  Sched'
<1>1. CASE Environment
  BY <1>1, ReceiveSched DEF Environment, UnicastRxCallback, BroadcastRxCallback, UartRxCallback
<1>2. CASE Main
  BY <1>2, MainReceiveSched, MainReceiveBroadcastSched, MainSendBeaconSched,
     MainSendReportSched, MainSendDataSched, TakenSched DEF Main, MainTimer
<1>3. CASE HandlePacket \/ RunAction
  BY <1>3, HandlePacketSched, RunActionSched
<1>4. CASE RfUSend \/ RfBSend
  BY <1>4, TakenSched DEF RfUSend, RfBSend
<1>5. CASE Timers
  BY <1>5, TimerProcSched, ActivateSched DEF Timers
<1>6. CASE \E t \in TimerProcs : TimerExpires(t)
  BY <1>6, TimerExpiresSched
<1>7. CASE UNCHANGED vars
  BY <1>7, QuietSched DEF vars, Sched
<1> QED
  BY <1>1, <1>2, <1>3, <1>4, <1>5, <1>6, <1>7 DEF Next, Step

(* Types and ownership, and the schedule. *)
SInv == IInv /\ Sched

LEMMA NextSInv ==
  ASSUME WellFormedRules, SInv, [Next]_vars
  PROVE  SInv'
  BY NextInv, NextSched DEF SInv

LEMMA InitSInv == Init => SInv
  BY InitInv, InitSched DEF SInv
-----------------------------------------------------------------------------
(* Counting: no two events in the queue have the same key, a key being the   *)
(* block an event carries or the errand it is.                               *)
Errands == (TimerProcs \X {2, 3}) \cup (Gated \X {1})

Keys == (Blocks \X {0}) \cup Errands

Errand(e) == CHOOSE x \in Errands : IsErrand(e, x[1], x[2])

Key(e) == IF e.data # NULL THEN <<e.data, 0>> ELSE Errand(e)

LEMMA TimersFinite ==
  /\ IsFiniteSet(TimerProcs) /\ Cardinality(TimerProcs) \in Nat
  /\ IsFiniteSet(Gated) /\ Cardinality(Gated) = 2
<1>1. IsFiniteSet({"beacon_timer_proc"}) /\ Cardinality({"beacon_timer_proc"}) = 1
  BY FS_Singleton
<1>2. Gated = {"beacon_timer_proc"} \cup {"report_timer_proc"}
  BY DEF Gated
<1>3. IsFiniteSet(Gated) /\ Cardinality(Gated) = 2
  BY <1>1, <1>2, FS_AddElement
<1>4. IsFiniteSet(AllTimers)
  <2>1. IsFiniteSet(Gated \cup {"timer_proc"})
    BY <1>3, FS_AddElement
  <2>2. IsFiniteSet((Gated \cup {"timer_proc"}) \cup {"data_timer_proc"})
    BY <2>1, FS_AddElement
  <2>3. AllTimers = (Gated \cup {"timer_proc"}) \cup {"data_timer_proc"}
    BY DEF AllTimers
  <2> QED
    BY <2>2, <2>3
<1>5. IsFiniteSet(TimerProcs)
  BY <1>4, FS_Subset, NodeAssumption
<1> QED
  BY <1>3, <1>5, FS_CardinalityType

LEMMA KeysCounted ==
  /\ IsFiniteSet(Keys) /\ Cardinality(Keys) = QueueNeed
  /\ QueueNeed \in Nat
<1>1. IsFiniteSet(Blocks) /\ Cardinality(Blocks) = NumPackets /\ NumPackets \in Nat
  <2>1. NumPackets \in Int /\ 1 \in Int /\ NumPackets \in Nat /\ NumPackets >= 1
    BY NodeAssumption
  <2>2. IsFiniteSet(1 .. NumPackets)
        /\ Cardinality(1 .. NumPackets) = IF 1 > NumPackets THEN 0 ELSE NumPackets - 1 + 1
    BY <2>1, FS_Interval
  <2> QED
    BY <2>1, <2>2 DEF Blocks
<1>2. /\ IsFiniteSet({0}) /\ Cardinality({0}) = 1
      /\ IsFiniteSet({1}) /\ Cardinality({1}) = 1
  BY FS_Singleton
<1>3. IsFiniteSet({2, 3}) /\ Cardinality({2, 3}) = 2
  <2>1. IsFiniteSet({2}) /\ Cardinality({2}) = 1 /\ 3 \notin {2}
    BY FS_Singleton
  <2>2. IsFiniteSet({2} \cup {3}) /\ Cardinality({2} \cup {3}) = 2
    BY <2>1, FS_AddElement
  <2>3. {2, 3} = {2} \cup {3}
    OBVIOUS
  <2> QED
    BY <2>2, <2>3
<1> DEFINE A == Blocks \X {0}
           B == TimerProcs \X {2, 3}
           C == Gated \X {1}
<1>4. IsFiniteSet(A) /\ Cardinality(A) = Cardinality(Blocks) * 1
  BY <1>1, <1>2, FS_Product
<1>5. IsFiniteSet(B) /\ Cardinality(B) = Cardinality(TimerProcs) * 2
  BY <1>3, TimersFinite, FS_Product
<1>6. IsFiniteSet(C) /\ Cardinality(C) = Cardinality(Gated) * 1
  BY <1>2, TimersFinite, FS_Product
<1>7. B \cap C = {} /\ A \cap (B \cup C) = {}
  OBVIOUS
<1>8. Keys = A \cup (B \cup C)
  BY DEF Keys, Errands
<1> HIDE DEF A, B, C
<1>9. IsFiniteSet(B \cup C) /\ Cardinality(B \cup C) = Cardinality(B) + Cardinality(C) - 0
  BY <1>5, <1>6, <1>7, FS_Union, FS_EmptySet
<1>10. /\ IsFiniteSet(A \cup (B \cup C))
       /\ Cardinality(A \cup (B \cup C)) = Cardinality(A) + Cardinality(B \cup C) - 0
  BY <1>4, <1>7, <1>9, FS_Union, FS_EmptySet
<1>11. Cardinality(Keys) = NumPackets + 2 * Cardinality(TimerProcs) + Cardinality(Gated)
  BY <1>1, <1>4, <1>5, <1>6, <1>8, <1>9, <1>10, TimersFinite
<1> QED
  BY <1>1, <1>8, <1>10, <1>11, TimersFinite DEF QueueNeed

LEMMA KeyOfEvent ==
  ASSUME NEW e \in Events, Formed(e)
  PROVE  /\ Key(e) \in Keys
         /\ e.data # NULL => Key(e) = <<e.data, 0>>
         /\ e.data = NULL => Key(e) \in Errands /\ IsErrand(e, Key(e)[1], Key(e)[2])
<1>1. CASE e.data # NULL
  BY <1>1 DEF Key, Keys, Events, Refs
<1>2. CASE e.data = NULL
  <2>1. PICK t \in TimerProcs, k \in 1 .. 3 : IsErrand(e, t, k)
    BY <1>2 DEF Formed
  <2>2. <<t, k>> \in Errands
    <3>1. CASE k \in {2, 3}
      BY <3>1 DEF Errands
    <3>2. CASE k = 1
      BY <2>1, <3>2 DEF Errands, IsErrand, Gated
    <3> QED
      BY <3>1, <3>2
  <2>3. \E x \in Errands : IsErrand(e, x[1], x[2])
    BY <2>1, <2>2
  <2>4. Errand(e) \in Errands /\ IsErrand(e, Errand(e)[1], Errand(e)[2])
    BY <2>3 DEF Errand
  <2> QED
    BY <1>2, <2>4 DEF Key, Keys
<1> QED
  BY <1>1, <1>2

LEMMA ErrandParts ==
  \A x \in Errands : x = <<x[1], x[2]>> /\ x[1] \in TimerProcs /\ x[2] \in 1 .. 3
  BY NodeAssumption DEF Errands

LEMMA PairParts ==
  /\ \A a, b : <<a, 0>> = <<b, 0>> => a = b
  /\ \A a : <<a, 0>> \notin Errands
  BY DEF Errands

LEMMA KeysDiffer ==
  ASSUME NEW m, NEW q \in Seq(Events), NEW c, Own(m, q, c),
         InTurn(q), \A i \in DOMAIN q : Formed(q[i]),
         NEW i \in DOMAIN q, NEW j \in DOMAIN q, i < j
  PROVE  Key(q[i]) # Key(q[j])
<1> SUFFICES ASSUME NEW x, Key(q[i]) = x, Key(q[j]) = x PROVE FALSE
  OBVIOUS
<1>1. q[i] \in Events /\ q[j] \in Events /\ Formed(q[i]) /\ Formed(q[j]) /\ i \in Int /\ j \in Int
  OBVIOUS
<1>2. /\ x \in Keys
      /\ q[i].data # NULL => x = <<q[i].data, 0>>
      /\ q[i].data = NULL => x \in Errands /\ IsErrand(q[i], x[1], x[2])
      /\ q[j].data # NULL => x = <<q[j].data, 0>>
      /\ q[j].data = NULL => x \in Errands /\ IsErrand(q[j], x[1], x[2])
  BY <1>1, KeyOfEvent
<1>3. q[i].data # NULL => x \notin Errands
  BY <1>2, PairParts, Zenon
<1>4. q[j].data # NULL => x \notin Errands
  BY <1>2, PairParts, Zenon
<1>5. CASE q[i].data # NULL /\ q[j].data # NULL
  <2>1. <<q[i].data, 0>> = <<q[j].data, 0>>
    BY <1>2, <1>5, Zenon
  <2>2. q[i].data = q[j].data
    BY <2>1, PairParts, Zenon
  <2> QED
    BY <1>5, <2>2 DEF Own
<1>6. CASE q[i].data = NULL /\ q[j].data = NULL
  <2>1. x[1] \in TimerProcs /\ x[2] \in 1 .. 3
    BY <1>2, <1>6, ErrandParts
  <2>2. Behind(q[i], q[j])
    BY DEF InTurn
  <2>3. Follows(x[2], x[2])
    BY <1>2, <1>6, <2>1, <2>2 DEF Behind
  <2> QED
    BY <2>1, <2>3 DEF Follows
<1> QED
  BY <1>2, <1>3, <1>4, <1>5, <1>6, Zenon

(* So a queue whose events have their keys in K is no longer than K is large. *)
LEMMA QueueFits ==
  ASSUME NEW m, NEW q \in Seq(Events), NEW c, Own(m, q, c),
         InTurn(q), \A i \in DOMAIN q : Formed(q[i]),
         NEW K, IsFiniteSet(K), \A i \in DOMAIN q : Key(q[i]) \in K
  PROVE  Len(q) <= Cardinality(K)
<1> DEFINE f == [i \in 1 .. Len(q) |-> Key(q[i])]
<1>1. DOMAIN q = 1 .. Len(q) /\ Len(q) \in Nat
  OBVIOUS
<1>2. f \in [1 .. Len(q) -> K]
  BY <1>1
<1>3. \A i, j \in 1 .. Len(q) : f[i] = f[j] => i = j
  <2> SUFFICES ASSUME NEW i \in 1 .. Len(q), NEW j \in 1 .. Len(q), Key(q[i]) = Key(q[j]), i # j
               PROVE  FALSE
    OBVIOUS
  <2>1. i < j \/ j < i
    BY <1>1
  <2> QED
    BY <1>1, <2>1, KeysDiffer
<1>4. f \in Injection(1 .. Len(q), K)
  BY <1>2, <1>3 DEF Injection, IsInjective
<1> HIDE DEF f
<1>5. Cardinality(1 .. Len(q)) <= Cardinality(K)
  BY <1>4, FS_Injection
<1>6. Cardinality(1 .. Len(q)) = IF 1 > Len(q) THEN 0 ELSE Len(q) - 1 + 1
  BY <1>1, FS_Interval
<1> QED
  BY <1>1, <1>5, <1>6

LEMMA ScheduledFits ==
  ASSUME NEW m, NEW q \in Seq(Events), NEW c, Own(m, q, c),
         NEW tm, NEW ac, Schedule(q, tm, ac)
  PROVE  /\ Len(q) <= QueueNeed
         /\ \A x \in Keys : (\A i \in DOMAIN q : Key(q[i]) # x) => Len(q) < QueueNeed
<1>1. InTurn(q) /\ \A i \in DOMAIN q : Formed(q[i])
  BY DEF Schedule, Says
<1>2. \A i \in DOMAIN q : Key(q[i]) \in Keys
  BY <1>1, KeyOfEvent
<1>3. Len(q) <= QueueNeed
  BY <1>1, <1>2, KeysCounted, QueueFits
<1>4. ASSUME NEW x \in Keys, \A i \in DOMAIN q : Key(q[i]) # x
      PROVE  Len(q) < QueueNeed
  <2>1. IsFiniteSet(Keys \ {x}) /\ Cardinality(Keys \ {x}) = Cardinality(Keys) - 1
    BY KeysCounted, FS_RemoveElement
  <2>2. \A i \in DOMAIN q : Key(q[i]) \in Keys \ {x}
    BY <1>2, <1>4
  <2>3. Len(q) <= Cardinality(Keys \ {x})
    BY <1>1, <2>1, <2>2, QueueFits
  <2>4. Len(q) \in Nat
    OBVIOUS
  <2> QED
    BY <2>1, <2>3, <2>4, KeysCounted
<1> QED
  BY <1>3, <1>4

(***************************************************************************)
(* The queue never holds more than one event for each block, and two for   *)
(* each timer process, and one empty send each for beacons and reports: an *)
(* event queue of QueueNeed slots never refuses a post, whatever the clock *)
(* and the radio do.                                                       *)
(***************************************************************************)
THEOREM QueueBounded == WellFormedRules => (Spec => []QueueBound)
<1> SUFFICES ASSUME WellFormedRules PROVE Spec => []QueueBound
  OBVIOUS
<1>1. SInv /\ [Next]_vars => SInv'
  BY NextSInv
<1>2. SInv => QueueBound
  BY ScheduledFits, TypeFacts DEF SInv, Sched, IInv, SingleOwner, QueueBound
<1> QED
  BY InitSInv, <1>1, <1>2, PTL DEF Spec
-----------------------------------------------------------------------------
(* What a step does to the events in the queue, and to those of one packet.  *)
Entries(q) == {q[i] : i \in DOMAIN q}

Carry(q, b) == {e \in Entries(q) : e.data = b}

LEMMA EntriesTail ==
  ASSUME NEW q, QueueOK(q), q # << >>
  PROVE  /\ Entries(q) = Entries(Tail(q)) \cup {Head(q)}
         /\ \A b : b # Head(q).data => Carry(Tail(q), b) = Carry(q, b)
<1>1. q \in Seq(Events)
  BY DEF QueueOK
<1>2. Entries(Tail(q)) \cup {Head(q)} \subseteq Entries(q)
  BY <1>1, TailEntries DEF Entries
<1>3. ASSUME NEW i \in DOMAIN q PROVE q[i] \in Entries(Tail(q)) \cup {Head(q)}
  <2>1. CASE i = 1
    BY <1>1, <2>1, TailEntries
  <2>2. CASE i # 1
    <3>1. i - 1 \in DOMAIN Tail(q) /\ (i - 1) + 1 = i
      BY <1>1, <2>2, TailEntries
    <3>2. Tail(q)[i - 1] = q[i]
      BY <1>1, <3>1, TailEntries
    <3> QED
      BY <3>1, <3>2 DEF Entries
  <2> QED
    BY <2>1, <2>2
<1>4. Entries(q) = Entries(Tail(q)) \cup {Head(q)}
  BY <1>2, <1>3 DEF Entries
<1> QED
  BY <1>4 DEF Carry

LEMMA EntriesPost ==
  ASSUME NEW q, QueueOK(q), NEW e \in Events
  PROVE  /\ Entries(q) \subseteq Entries(Post(q, e))
         /\ Entries(Post(q, e)) \subseteq Entries(q) \cup {e}
         /\ Len(q) < NumEvents => e \in Entries(Post(q, e))
         /\ Len(q) >= NumEvents => Post(q, e) = q /\ Len(q) = NumEvents
         /\ \A b : b # e.data => Carry(Post(q, e), b) = Carry(q, b)
<1>1. q \in Seq(Events) /\ Len(q) \in Nat /\ Len(q) <= NumEvents /\ NumEvents \in Nat
  BY NodeAssumption DEF QueueOK
<1>2. Entries(Append(q, e)) = Entries(q) \cup {e}
  BY <1>1, AppendEntries DEF Entries
<1>3. \/ Len(q) < NumEvents /\ Post(q, e) = Append(q, e)
      \/ Len(q) = NumEvents /\ Post(q, e) = q
  BY <1>1 DEF Post
<1>4. Entries(Post(q, e)) \in {Entries(q), Entries(q) \cup {e}}
  BY <1>2, <1>3
<1>5. \A b : b # e.data => Carry(Post(q, e), b) = Carry(q, b)
  BY <1>4 DEF Carry
<1>6. Len(q) < NumEvents => e \in Entries(Post(q, e))
  BY <1>1, <1>2 DEF Post
<1>7. Len(q) >= NumEvents => Post(q, e) = q /\ Len(q) = NumEvents
  BY <1>1 DEF Post
<1> QED
  BY <1>4, <1>5, <1>6, <1>7

LEMMA EntriesSend ==
  ASSUME NEW q, QueueOK(q), NEW p \in Refs,
         NEW r \in {UnicastSend(q, p), BroadcastSend(q, p)}
  PROVE  /\ Entries(q) \subseteq Entries(r)
         /\ \A b : b # p => Carry(r, b) = Carry(q, b)
         /\ \A e \in Entries(r) \ Entries(q) : e.data = p /\ e.ev \notin Receipts
         /\ Len(q) >= NumEvents => r = q /\ Len(q) = NumEvents
         /\ Len(q) < NumEvents => \E e \in Entries(r) : e.data = p
<1> DEFINE u == Event("rf_u_send_proc", "RF_U_SEND", p)
           b == Event("rf_b_send_proc", "RF_B_SEND", p)
<1>1. /\ u \in Events /\ u.data = p /\ u.ev \notin Receipts
      /\ b \in Events /\ b.data = p /\ b.ev \notin Receipts
  BY EventsTyped DEF Event, Receipts
<1>2. r = Post(q, u) \/ r = Post(q, b)
  BY DEF UnicastSend, BroadcastSend
<1> HIDE DEF u, b
<1>3. ASSUME NEW e \in Events, e.data = p, e.ev \notin Receipts, r = Post(q, e)
      PROVE  /\ Entries(q) \subseteq Entries(r)
             /\ \A c : c # p => Carry(r, c) = Carry(q, c)
             /\ \A d \in Entries(r) \ Entries(q) : d.data = p /\ d.ev \notin Receipts
             /\ Len(q) >= NumEvents => r = q /\ Len(q) = NumEvents
             /\ Len(q) < NumEvents => \E d \in Entries(r) : d.data = p
  BY <1>3, EntriesPost
<1> QED
  BY <1>1, <1>2, <1>3

LEMMA EntriesNewPacket ==
  ASSUME NEW q, QueueOK(q), NEW p \in Blocks
  PROVE  /\ Entries(q) \subseteq Entries(NewPacket(q, p))
         /\ \A b : b # p => Carry(NewPacket(q, p), b) = Carry(q, b)
         /\ \A e \in Entries(NewPacket(q, p)) \ Entries(q) :
              e.data = p /\ e.to = "packet_handler_proc"
         /\ Len(q) >= NumEvents => NewPacket(q, p) = q /\ Len(q) = NumEvents
         /\ Len(q) < NumEvents => \E e \in Entries(NewPacket(q, p)) : e.data = p
<1> DEFINE u == Event("packet_handler_proc", "NEW_PACKET", p)
<1>1. u \in Events /\ u.data = p /\ u.to = "packet_handler_proc"
  BY EventsTyped DEF Event
<1>2. NewPacket(q, p) = Post(q, u)
  BY DEF NewPacket
<1> HIDE DEF u
<1> QED
  BY <1>1, <1>2, EntriesPost

(* Every packet but p stays as and where it is, and every event in the queue. *)
Kept(m, q, p) ==
  /\ Entries(q) \subseteq Entries(queue')
  /\ \A b \in DOMAIN m \ {p} : /\ b \in DOMAIN mem' /\ mem'[b] = m[b] /\ b # cur'
                               /\ Carry(queue', b) = Carry(q, b)

(* No packet is handed to main_proc or to the handler. *)
NoReceipts(q) == \A e \in Entries(queue') \ Entries(q) : e.ev \notin Receipts

LEMMA ContentsKept ==
  ASSUME NEW m, NEW p, NEW f, NEW b \in DOMAIN m, b # p
  PROVE  Alloc(m, p, f)[b] = m[b] /\ Free(m, p)[b] = m[b] /\ Rewrite(m, p, f)[b] = m[b]
  BY DEF Alloc, Free, Rewrite

LEMMA RequestKept ==
  ASSUME NEW m, PoolOK(m), NEW q, QueueOK(q), NEW p \in Refs, NEW long,
         CreateAndSendRequest(m, q, p, long), cur' = NULL \/ cur' = p
  PROVE  Kept(m, q, p) /\ NoReceipts(q) /\ p \notin DOMAIN mem'
<1> DEFINE r1 == FreeBlock(m)
           m1 == Alloc(m, r1, Created("REQUEST"))
           r2 == FreeBlock(m1)
           m2 == Alloc(m1, r2, Created("REQUEST"))
           q1 == UnicastSend(q, r1)
           q2 == UnicastSend(q1, r2)
<1>0. Created("REQUEST") \in Packet
  BY PacketsTyped DEF PacketTypes
<1>a. \A b \in DOMAIN m : b # NULL
  BY BlocksNotNull DEF PoolOK
<1>1. ASSUME HasFree(m)
      PROVE  /\ PoolOK(m1) /\ DOMAIN m \subseteq DOMAIN m1
             /\ QueueOK(q1)
             /\ Entries(q) \subseteq Entries(q1)
             /\ \A b \in DOMAIN m : m1[b] = m[b] /\ Carry(q1, b) = Carry(q, b)
             /\ \A e \in Entries(q1) \ Entries(q) : e.ev \notin Receipts
  <2>1. r1 \in Blocks /\ r1 \notin DOMAIN m /\ r1 \in Refs
    BY <1>1, FreeBlockIsFree, BlocksNotNull
  <2> HIDE DEF r1
  <2>2. PoolOK(m1) /\ DOMAIN m1 = DOMAIN m \cup {r1}
    BY <1>0, <2>1, AllocTyped
  <2>3. \A b \in DOMAIN m : m1[b] = m[b]
    BY <2>1, ContentsKept
  <2> HIDE DEF m1
  <2> QED
    BY <2>1, <2>2, <2>3, EntriesSend, SendTyped
<1>2. ASSUME HasFree(m), HasFree(m1)
      PROVE  /\ PoolOK(m2) /\ DOMAIN m \subseteq DOMAIN m2
             /\ Entries(q) \subseteq Entries(q2)
             /\ \A b \in DOMAIN m : m2[b] = m[b] /\ Carry(q2, b) = Carry(q, b)
             /\ \A e \in Entries(q2) \ Entries(q) : e.ev \notin Receipts
  <2>0. /\ PoolOK(m1) /\ DOMAIN m \subseteq DOMAIN m1 /\ QueueOK(q1)
        /\ Entries(q) \subseteq Entries(q1)
        /\ \A b \in DOMAIN m : m1[b] = m[b] /\ Carry(q1, b) = Carry(q, b)
        /\ \A e \in Entries(q1) \ Entries(q) : e.ev \notin Receipts
    BY <1>1, <1>2
  <2>1. r2 \in Blocks /\ r2 \notin DOMAIN m1 /\ r2 \in Refs
    BY <1>2, FreeBlockIsFree, BlocksNotNull
  <2> HIDE DEF r1, m1, q1, r2
  <2>2. PoolOK(m2) /\ DOMAIN m2 = DOMAIN m1 \cup {r2}
    BY <1>0, <2>0, <2>1, AllocTyped
  <2>3. /\ Entries(q1) \subseteq Entries(q2) /\ \A b : b # r2 => Carry(q2, b) = Carry(q1, b)
        /\ \A e \in Entries(q2) \ Entries(q1) : e.ev \notin Receipts
    BY <2>0, <2>1, EntriesSend
  <2>4. \A b \in DOMAIN m : m2[b] = m[b]
    BY <2>0, <2>1, ContentsKept
  <2> HIDE DEF q2, m2
  <2> QED
    BY <2>0, <2>1, <2>2, <2>3, <2>4
<1>3. \/ mem' = Free(m, p) /\ queue' = q
      \/ HasFree(m) /\ mem' = Free(m1, p) /\ queue' \in {q, q1}
      \/ HasFree(m) /\ HasFree(m1) /\ mem' = Free(m2, p) /\ queue' = q2
  BY DEF CreateAndSendRequest
<1>4. PICK n : /\ PoolOK(n) /\ DOMAIN m \subseteq DOMAIN n /\ mem' = Free(n, p)
               /\ Entries(q) \subseteq Entries(queue')
               /\ \A b \in DOMAIN m : n[b] = m[b] /\ Carry(queue', b) = Carry(q, b)
               /\ \A e \in Entries(queue') \ Entries(q) : e.ev \notin Receipts
  <2> HIDE DEF m1, m2, q1, q2
  <2> QED
    BY <1>1, <1>2, <1>3
<1>5. DOMAIN mem' = DOMAIN n \ {p} /\ \A b \in DOMAIN n \ {p} : mem'[b] = n[b]
  BY <1>4, FreeTyped, ContentsKept
<1> QED
  BY <1>a, <1>4, <1>5 DEF Kept, NoReceipts

(* A matched packet is the action loop's, or nobody's, or has become a request. *)
LEMMA MatchKept ==
  ASSUME NEW m, PoolOK(m), NEW q, QueueOK(q), NEW p \in Refs, NEW long,
         NEW after, MatchPacket(m, q, p, long, after)
  PROVE  /\ Kept(m, q, p) /\ NoReceipts(q)
         /\ p \notin DOMAIN mem' \/ (mem' = m /\ queue' = q)
<1>1. cur' = NULL \/ cur' = p
  BY DEF MatchPacket, Continue, Return
<1>2. CASE mem' = m /\ queue' = q
  <2>1. \A b \in DOMAIN m : b # NULL
    BY BlocksNotNull DEF PoolOK
  <2> QED
    BY <1>1, <1>2, <2>1 DEF Kept, NoReceipts
<1>3. CASE CreateAndSendRequest(m, q, p, long)
  BY <1>1, <1>3, RequestKept
<1> QED
  BY <1>2, <1>3 DEF MatchPacket
-----------------------------------------------------------------------------
(* Of every step: what it leaves where it was.                               *)

LEMMA UntouchedKept ==
  ASSUME NEW m, PoolOK(m), NEW q, NEW p, Entries(q) \subseteq Entries(queue'),
         \A b \in DOMAIN m \ {p} : Carry(queue', b) = Carry(q, b),
         \A b \in DOMAIN m \ {p} : b \in DOMAIN mem' /\ mem'[b] = m[b],
         cur' = NULL \/ cur' = p
  PROVE  Kept(m, q, p)
<1>1. \A b \in DOMAIN m : b # NULL
  BY BlocksNotNull DEF PoolOK
<1> QED
  BY <1>1 DEF Kept

LEMMA DeliveredTyped ==
  ASSUME IInv, NEW proc, NEW ev, Delivers(proc, ev)
  PROVE  /\ PoolOK(mem) /\ QueueOK(Tail(queue)) /\ Head(queue).data \in Refs /\ cur = NULL
         /\ \A b \in DOMAIN mem : b # NULL /\ b \in Blocks
  BY Delivered, BlocksNotNull DEF Holding, PoolOK

LEMMA ReceiveKept ==
  ASSUME IInv, NEW ev \in {"RF_U_RECEIVE", "RF_B_RECEIVE", "UART_RECEIVE"},
         NEW f \in Frames, Receive(ev, f)
  PROVE  Kept(mem, queue, NULL)
<1> DEFINE p == FreeBlock(mem)
           e == Event("main_proc", ev, p)
<1>1. PoolOK(mem) /\ QueueOK(queue) /\ cur' = NULL
  BY DEF IInv, TypeOK, Receive, Idle, PoolOK, QueueOK
<1>2. p \in Blocks /\ p \notin DOMAIN mem /\ e \in Events /\ e.data = p
  BY FreeBlockIsFree, EventsTyped DEF Receive, Event
<1>3. mem' = Alloc(mem, p, f) /\ queue' = Post(queue, e) /\ f \in Packet
  BY NodeAssumption DEF Receive
<1> HIDE DEF p, e
<1>4. DOMAIN mem' = DOMAIN mem \cup {p} /\ \A b \in DOMAIN mem : mem'[b] = mem[b]
  <2>1. DOMAIN mem' = DOMAIN mem \cup {p}
    BY <1>1, <1>2, <1>3, AllocTyped
  <2>2. \A b \in DOMAIN mem : mem'[b] = mem[b]
    BY <1>2, <1>3, ContentsKept
  <2> QED
    BY <2>1, <2>2
<1>5. Entries(queue) \subseteq Entries(queue') /\ \A b : b # p => Carry(queue', b) = Carry(queue, b)
  BY <1>1, <1>2, <1>3, EntriesPost
<1> QED
  BY <1>1, <1>2, <1>4, <1>5, UntouchedKept

LEMMA MainReceiveKept ==
  ASSUME IInv, MainReceive
  PROVE  Kept(mem, Tail(queue), Head(queue).data)
<1> DEFINE p == Head(queue).data
           q == Tail(queue)
<1>1. PoolOK(mem) /\ QueueOK(q) /\ cur = NULL /\ p \in Blocks
  BY DeliveredTyped, Delivered DEF MainReceive, Receipts
<1>2. queue' = NewPacket(q, p) /\ mem' = mem /\ cur' = cur
  BY DEF MainReceive
<1> HIDE DEF p, q
<1>3. Kept(mem, q, p)
  BY <1>1, <1>2, EntriesNewPacket, UntouchedKept
<1> QED
  BY <1>3 DEF p, q

LEMMA MainReceiveBroadcastKept ==
  ASSUME IInv, MainReceiveBroadcast
  PROVE  Kept(mem, Tail(queue), Head(queue).data)
<1> DEFINE p == Head(queue).data
           q == Tail(queue)
           e1 == Event("beacon_timer_proc", "ACTIVATE", NULL)
           e2 == Event("report_timer_proc", "ACTIVATE", NULL)
           q1 == Post(q, e1)
           q2 == Post(q1, e2)
           q3 == IF active THEN q ELSE q2
<1>1. /\ PoolOK(mem) /\ QueueOK(q) /\ cur = NULL /\ p \in Blocks
      /\ \A b \in DOMAIN mem : b # NULL
  BY DeliveredTyped, Delivered DEF MainReceiveBroadcast, Receipts
<1>2. queue' = NewPacket(q3, p) /\ mem' = mem /\ cur' = cur
  BY DEF MainReceiveBroadcast
<1>3. e1 \in Events /\ e1.data = NULL /\ e2 \in Events /\ e2.data = NULL
  BY EventsTyped DEF Event, Gated
<1> HIDE DEF p, q, e1, e2
<1>4. QueueOK(q1) /\ Entries(q) \subseteq Entries(q1)
      /\ \A b : b # NULL => Carry(q1, b) = Carry(q, b)
  BY <1>1, <1>3, PostTyped, EntriesPost
<1> HIDE DEF q1
<1>5. QueueOK(q2) /\ Entries(q) \subseteq Entries(q2)
      /\ \A b : b # NULL => Carry(q2, b) = Carry(q, b)
  BY <1>3, <1>4, PostTyped, EntriesPost
<1> HIDE DEF q2
<1>6. QueueOK(q3) /\ Entries(q) \subseteq Entries(q3)
      /\ \A b : b # NULL => Carry(q3, b) = Carry(q, b)
  BY <1>1, <1>5
<1> HIDE DEF q3
<1>7. /\ Entries(q) \subseteq Entries(queue')
      /\ \A b \in DOMAIN mem \ {p} : Carry(queue', b) = Carry(q, b)
  BY <1>1, <1>2, <1>6, EntriesNewPacket
<1>8. Kept(mem, q, p)
  BY <1>1, <1>2, <1>7, UntouchedKept
<1> QED
  BY <1>8 DEF p, q

LEMMA MainSendKept ==
  ASSUME IInv, MainSendBeacon \/ MainSendReport
  PROVE  Kept(mem, Tail(queue), Head(queue).data) /\ NoReceipts(Tail(queue))
<1> DEFINE q == Tail(queue)
<1>1. PoolOK(mem) /\ QueueOK(q) /\ cur = NULL /\ cur' = NULL
      /\ \A b \in DOMAIN mem : b # NULL
  BY DeliveredTyped DEF MainSendBeacon, MainSendReport
<1>2. PICK r \in Refs, t \in PacketTypes :
        /\ queue' \in {UnicastSend(q, r), BroadcastSend(q, r)}
        /\ r # NULL => r \in Blocks /\ r \notin DOMAIN mem /\ mem' = Alloc(mem, r, Created(t))
        /\ r = NULL => mem' = mem
  <2> DEFINE r == IF HasFree(mem) THEN FreeBlock(mem) ELSE NULL
  <2>1. r \in Refs /\ (HasFree(mem) => r # NULL /\ r \in Blocks /\ r \notin DOMAIN mem)
    BY FreeBlockIsFree, BlocksNotNull DEF Refs
  <2>2. CASE MainSendBeacon
    <3>1. /\ queue' = BroadcastSend(q, r)
          /\ HasFree(mem) => mem' = Alloc(mem, r, Created("BEACON"))
          /\ ~ HasFree(mem) => mem' = mem /\ r = NULL
      BY <2>2 DEF MainSendBeacon
    <3>2. "BEACON" \in PacketTypes
      BY DEF PacketTypes
    <3> HIDE DEF r, q
    <3> QED
      BY <2>1, <3>1, <3>2
  <2>3. CASE MainSendReport
    <3>1. /\ queue' = UnicastSend(q, r)
          /\ HasFree(mem) => mem' = Alloc(mem, r, Created("REPORT"))
          /\ ~ HasFree(mem) => mem' = mem /\ r = NULL
      BY <2>3 DEF MainSendReport
    <3>2. "REPORT" \in PacketTypes
      BY DEF PacketTypes
    <3> HIDE DEF r, q
    <3> QED
      BY <2>1, <3>1, <3>2
  <2> QED
    BY <2>2, <2>3
<1> HIDE DEF q
<1>3. r \notin DOMAIN mem /\ \A b \in DOMAIN mem : b \in DOMAIN mem' /\ mem'[b] = mem[b]
  <2>1. CASE r # NULL
    <3>1. r \in Blocks /\ r \notin DOMAIN mem /\ Created(t) \in Packet
      BY <1>2, <2>1, PacketsTyped
    <3>2. DOMAIN Alloc(mem, r, Created(t)) = DOMAIN mem \cup {r}
      BY <1>1, <3>1, AllocTyped
    <3>3. \A b \in DOMAIN mem : Alloc(mem, r, Created(t))[b] = mem[b]
      BY <3>1, ContentsKept
    <3> QED
      BY <1>2, <2>1, <3>1, <3>2, <3>3
  <2>2. CASE r = NULL
    BY <1>1, <1>2, <2>2
  <2> QED
    BY <2>1, <2>2
<1>4. /\ Entries(q) \subseteq Entries(queue')
      /\ \A b : b # r => Carry(queue', b) = Carry(q, b)
      /\ NoReceipts(q)
  BY <1>1, <1>2, EntriesSend DEF NoReceipts
<1>5. Kept(mem, q, Head(queue).data) /\ NoReceipts(q)
  BY <1>1, <1>3, <1>4, UntouchedKept
<1> QED
  BY <1>5 DEF q

LEMMA MainSendDataKept ==
  ASSUME IInv, MainSendData
  PROVE  Kept(mem, Tail(queue), Head(queue).data) /\ NoReceipts(Tail(queue))
<1> DEFINE q == Tail(queue)
           p == FreeBlock(mem)
           m == Alloc(mem, p, Created("DATA"))
<1>1. PoolOK(mem) /\ QueueOK(q) /\ cur = NULL
      /\ \A b \in DOMAIN mem : b # NULL
  BY DeliveredTyped DEF MainSendData
<1>2. CASE queue' = q /\ UNCHANGED <<mem, cur, rest>>
  BY <1>1, <1>2, UntouchedKept DEF NoReceipts
<1>3. CASE HasFree(mem) /\ MatchPacket(m, q, p, FALSE, << >>)
  <2>1. p \in Blocks /\ p \in Refs /\ p \notin DOMAIN mem
    BY <1>3, FreeBlockIsFree, BlocksNotNull
  <2>2. Created("DATA") \in Packet
    BY PacketsTyped DEF PacketTypes
  <2>3. MatchPacket(m, q, p, FALSE, << >>)
    BY <1>3
  <2> HIDE DEF p, q
  <2>4. PoolOK(m) /\ DOMAIN m = DOMAIN mem \cup {p} /\ \A b \in DOMAIN mem : m[b] = mem[b]
    <3>1. PoolOK(m) /\ DOMAIN m = DOMAIN mem \cup {p}
      BY <1>1, <2>1, <2>2, AllocTyped
    <3>2. p \notin DOMAIN mem
      BY <1>3, FreeBlockIsFree DEF p
    <3>3. \A b \in DOMAIN mem : m[b] = mem[b]
      BY <3>2, ContentsKept
    <3> QED
      BY <3>1, <3>3
  <2> HIDE DEF m
  <2>5. Kept(m, q, p) /\ NoReceipts(q)
    BY <1>1, <2>1, <2>3, <2>4, MatchKept
  <2>6. Kept(mem, q, Head(queue).data) /\ NoReceipts(q)
    BY <2>1, <2>4, <2>5 DEF Kept
  <2> QED
    BY <2>6 DEF q
<1> QED
  BY <1>2, <1>3 DEF MainSendData

LEMMA TakenKept ==
  ASSUME IInv, NEW proc, NEW ev, Delivers(proc, ev), queue' = Tail(queue), UNCHANGED cur,
         mem' = mem \/ mem' = Free(mem, Head(queue).data)
  PROVE  Kept(mem, Tail(queue), Head(queue).data) /\ NoReceipts(Tail(queue))
<1>1. /\ PoolOK(mem) /\ cur = NULL
      /\ DOMAIN Free(mem, Head(queue).data) = DOMAIN mem \ {Head(queue).data}
  BY DeliveredTyped, FreeTyped
<1>2. \A b \in DOMAIN mem \ {Head(queue).data} : Free(mem, Head(queue).data)[b] = mem[b]
  BY ContentsKept
<1> QED
  BY <1>1, <1>2, UntouchedKept DEF NoReceipts

LEMMA TimerProcKept ==
  ASSUME IInv, NEW t \in TimerProcs, TimerProc(t)
  PROVE  Kept(mem, Tail(queue), Head(queue).data) /\ NoReceipts(Tail(queue))
<1> DEFINE e == Event("main_proc", Tick(t), NULL)
<1>1. PoolOK(mem) /\ QueueOK(Tail(queue)) /\ cur = NULL
      /\ \A b \in DOMAIN mem : b # NULL
  BY DeliveredTyped DEF TimerProc
<1>2. e \in Events /\ e.data = NULL /\ e.ev \notin Receipts
  BY NodeAssumption, EventsTyped DEF Event, Events
<1>3. queue' = Post(Tail(queue), e) /\ mem' = mem /\ cur' = cur
  BY DEF TimerProc
<1> HIDE DEF e
<1> QED
  BY <1>1, <1>2, <1>3, EntriesPost, UntouchedKept DEF NoReceipts

LEMMA TimerExpiresKept ==
  ASSUME IInv, NEW t \in TimerProcs, TimerExpires(t)
  PROVE  Kept(mem, queue, NULL) /\ NoReceipts(queue)
<1> DEFINE e == Event(t, "PROCESS_EVENT_TIMER", NULL)
<1>1. PoolOK(mem) /\ QueueOK(queue) /\ cur = NULL
      /\ \A b \in DOMAIN mem : b # NULL
  BY BlocksNotNull DEF IInv, TypeOK, TimerExpires, Idle, PoolOK, QueueOK
<1>2. e \in Events /\ e.data = NULL /\ e.ev \notin Receipts
  BY NodeAssumption, EventsTyped DEF Event, Events
<1>3. queue' = Post(queue, e) /\ mem' = mem /\ cur' = cur
  BY DEF TimerExpires, Post
<1> HIDE DEF e
<1> QED
  BY <1>1, <1>2, <1>3, EntriesPost, UntouchedKept DEF NoReceipts

(* The ways a handler called with packet p can end, but for a reboot.        *)
Ends(p, q) ==
  \/ Return /\ mem' = Free(mem, p) /\ queue' = q
  \/ Return /\ mem' = mem /\ queue' = UnicastSend(q, p)
  \/ Return /\ mem' = mem /\ queue' = q
  \/ \E m, long : /\ PoolOK(m) /\ DOMAIN m = DOMAIN mem /\ \A b \in DOMAIN m \ {p} : m[b] = mem[b]
                  /\ MatchPacket(m, q, p, long, << >>)

LEMMA HandlerEnds ==
  ASSUME IInv, HandlePacket
  PROVE  Reboot \/ (Quiet /\ Ends(Head(queue).data, Tail(queue)))
<1> DEFINE p == Head(queue).data
           q == Tail(queue)
<1>1. PoolOK(mem) /\ p \in Blocks
  BY DeliveredTyped, Delivered DEF HandlePacket, Receipts
<1>2. PICK f \in Contents(p) :
         \/ Drop(p, q) \/ HandleBeacon(p, q) \/ Overhear(q)
         \/ HandleData(p, q, f) \/ HandleResponse(p, q, f) \/ HandleOpenPath(p, q, f)
         \/ HandleConfig(p, q, f) \/ HandleReport(p, q)
  BY DEF HandlePacket
<1>3. f \in Packet
  BY <1>1, ContentsTyped
<1> HIDE DEF p, q
<1>4. Drop(p, q) \/ HandleBeacon(p, q) => Quiet /\ Ends(p, q)
  BY DEF Drop, HandleBeacon, Ends
<1>5. Send(p, q) => Quiet /\ Ends(p, q)
  BY DEF Send, Ends
<1>6. Overhear(q) => Quiet /\ Ends(p, q)
  BY DEF Overhear, Ends
<1>7. Match(p, q, f) => Quiet /\ Ends(p, q)
  BY <1>1 DEF Match, Ends
<1>8. HandleReport(p, q) \/ HandleData(p, q, f) \/ HandleResponse(p, q, f) => Quiet /\ Ends(p, q)
  BY <1>4, <1>5, <1>7 DEF HandleReport, HandleData, HandleResponse
<1>9. HandleOpenPath(p, q, f) => Quiet /\ Ends(p, q)
  BY <1>4, <1>5, <1>6, <1>7 DEF HandleOpenPath, Overhear
<1>10. ASSUME NEW l \in {f.long, TRUE},
              MatchPacket(Rewrite(mem, p, [f EXCEPT !.long = l]), q, p, l, << >>)
       PROVE  Ends(p, q)
  <2> DEFINE g == [f EXCEPT !.long = l]
             m == Rewrite(mem, p, g)
  <2>1. l \in BOOLEAN
    BY <1>3 DEF Packet
  <2>2. g \in Packet
    BY <1>3, <2>1, PacketsTyped
  <2>3. MatchPacket(m, q, p, l, << >>)
    BY <1>10
  <2> HIDE DEF g
  <2>4. PoolOK(m) /\ DOMAIN m = DOMAIN mem /\ \A b \in DOMAIN mem \ {p} : m[b] = mem[b]
    BY <1>1, <2>2, RewriteTyped, ContentsKept
  <2> HIDE DEF m
  <2> QED
    BY <2>3, <2>4 DEF Ends
<1>11. HandleConfig(p, q, f) => Reboot \/ (Quiet /\ Ends(p, q))
  BY <1>4, <1>7, <1>10 DEF HandleConfig
<1>12. Reboot \/ (Quiet /\ Ends(p, q))
  BY <1>2, <1>4, <1>6, <1>8, <1>9, <1>11
<1> QED
  BY <1>12 DEF p, q

LEMMA EndsKept ==
  ASSUME NEW p \in Blocks, NEW q, QueueOK(q), PoolOK(mem), Ends(p, q)
  PROVE  Kept(mem, q, p) /\ NoReceipts(q)
<1>1. p \in Refs /\ \A b \in DOMAIN mem : b # NULL
  BY BlocksNotNull DEF PoolOK
<1>2. CASE Return /\ mem' = Free(mem, p) /\ queue' = q
  <2>1. DOMAIN mem' = DOMAIN mem \ {p} /\ \A b \in DOMAIN mem \ {p} : mem'[b] = mem[b]
    BY <1>2, FreeTyped, ContentsKept
  <2> QED
    BY <1>2, <2>1, UntouchedKept DEF Return, NoReceipts
<1>3. CASE Return /\ mem' = mem /\ queue' = UnicastSend(q, p)
  BY <1>1, <1>3, EntriesSend, UntouchedKept DEF Return, NoReceipts
<1>4. CASE Return /\ mem' = mem /\ queue' = q
  BY <1>4, UntouchedKept DEF Return, NoReceipts
<1>5. ASSUME NEW m, NEW long, PoolOK(m), DOMAIN m = DOMAIN mem,
             \A b \in DOMAIN m \ {p} : m[b] = mem[b], MatchPacket(m, q, p, long, << >>)
      PROVE  Kept(mem, q, p) /\ NoReceipts(q)
  <2>1. Kept(m, q, p) /\ NoReceipts(q)
    BY <1>1, <1>5, MatchKept
  <2> QED
    BY <1>5, <2>1 DEF Kept
<1> QED
  BY <1>2, <1>3, <1>4, <1>5 DEF Ends

LEMMA HandlePacketKept ==
  ASSUME IInv, HandlePacket
  PROVE  \/ Reboot
         \/ /\ Quiet
            /\ Kept(mem, Tail(queue), Head(queue).data) /\ NoReceipts(Tail(queue))
<1>1. PoolOK(mem) /\ QueueOK(Tail(queue)) /\ Head(queue).data \in Blocks
  BY DeliveredTyped, Delivered DEF HandlePacket, Receipts
<1> QED
  BY <1>1, HandlerEnds, EndsKept

LEMMA RunActionKept ==
  ASSUME IInv, RunAction
  PROVE  Kept(mem, queue, cur) /\ NoReceipts(queue)
<1>1. /\ PoolOK(mem) /\ QueueOK(queue) /\ cur \in Blocks /\ cur \in Refs
      /\ \A b \in DOMAIN mem : b # NULL
  BY BlocksNotNull DEF IInv, TypeOK, RunAction, Idle, PoolOK, QueueOK, Refs
<1>2. Contents(cur) \subseteq Packet
  BY <1>1, ContentsTyped
<1>3. \A as : Continue(cur, as) => cur' = NULL \/ cur' = cur
  BY DEF Continue, Return
<1>4. \/ /\ queue' \in {UnicastSend(queue, cur), BroadcastSend(queue, cur)}
         /\ mem' = mem /\ (cur' = NULL \/ cur' = cur)
      \/ /\ \E long : CreateAndSendRequest(mem, queue, cur, long)
         /\ cur' = NULL \/ cur' = cur
      \/ \E long, after : MatchPacket(mem, queue, cur, long, after)
      \/ mem' = mem /\ queue' = queue /\ (cur' = NULL \/ cur' = cur)
      \/ /\ \E g \in Packet : mem' = Rewrite(mem, cur, g)
         /\ queue' = queue /\ (cur' = NULL \/ cur' = cur)
      \/ mem' = Free(mem, cur) /\ queue' = queue /\ (cur' = NULL \/ cur' = cur)
  <2>1. \A f \in Contents(cur), l \in BOOLEAN : [f EXCEPT !.long = l] \in Packet
    BY <1>2, PacketsTyped
  <2> QED
    BY <1>3, <2>1 DEF RunAction
<1>5. /\ DOMAIN Free(mem, cur) = DOMAIN mem \ {cur}
      /\ \A g \in Packet : DOMAIN Rewrite(mem, cur, g) = DOMAIN mem
      /\ \A b \in DOMAIN mem \ {cur} : /\ Free(mem, cur)[b] = mem[b]
                                      /\ \A g \in Packet : Rewrite(mem, cur, g)[b] = mem[b]
  BY <1>1, FreeTyped, RewriteTyped, ContentsKept
<1>6. CASE /\ queue' \in {UnicastSend(queue, cur), BroadcastSend(queue, cur)}
           /\ mem' = mem /\ (cur' = NULL \/ cur' = cur)
  BY <1>1, <1>6, EntriesSend, UntouchedKept DEF NoReceipts
<1>7. CASE /\ queue' = queue /\ (cur' = NULL \/ cur' = cur)
           /\ \A b \in DOMAIN mem \ {cur} : b \in DOMAIN mem' /\ mem'[b] = mem[b]
  BY <1>1, <1>7, UntouchedKept DEF NoReceipts
<1>8. ASSUME NEW long, CreateAndSendRequest(mem, queue, cur, long), cur' = NULL \/ cur' = cur
      PROVE  Kept(mem, queue, cur) /\ NoReceipts(queue)
  BY <1>1, <1>8, RequestKept
<1>9. ASSUME NEW long, NEW after, MatchPacket(mem, queue, cur, long, after)
      PROVE  Kept(mem, queue, cur) /\ NoReceipts(queue)
  BY <1>1, <1>9, MatchKept
<1>10. CASE mem' = Free(mem, cur) /\ queue' = queue /\ (cur' = NULL \/ cur' = cur)
  BY <1>5, <1>7, <1>10
<1>11. CASE /\ \E g \in Packet : mem' = Rewrite(mem, cur, g)
            /\ queue' = queue /\ (cur' = NULL \/ cur' = cur)
  BY <1>5, <1>7, <1>11
<1> QED
  BY <1>4, <1>6, <1>7, <1>8, <1>9, <1>10, <1>11
-----------------------------------------------------------------------------
(* Activation.  Once the node is active each gated timer is set, or its       *)
(* ACTIVATE is in the queue.                                                  *)
Starts(q, tm) ==
  \A t \in Gated : tm[t] = "waiting" => \E e \in Entries(q) : e.to = t /\ e.ev = "ACTIVATE"

Started == active => Starts(queue, timer)

LEMMA StartsKept ==
  ASSUME NEW q, NEW r, NEW tm, NEW tn, Starts(q, tm),
         \A t \in Gated : tn[t] = "waiting" => tm[t] = "waiting",
         \A e \in Entries(q) : e.ev = "ACTIVATE" /\ tn[e.to] = "waiting" => e \in Entries(r)
  PROVE  Starts(r, tn)
  BY DEF Starts

LEMMA DeliveredStarts ==
  ASSUME IInv, Started, NEW proc, NEW ev, Delivers(proc, ev), ev # "ACTIVATE",
         Entries(Tail(queue)) \subseteq Entries(queue'), active' = active,
         \A t \in Gated : timer'[t] = "waiting" => timer[t] = "waiting"
  PROVE  Started'
<1>1. Entries(queue) = Entries(Tail(queue)) \cup {Head(queue)} /\ Head(queue).ev # "ACTIVATE"
  BY TypeFacts, EntriesTail DEF Delivers
<1> QED
  BY <1>1, StartsKept DEF Started

(* Its two events fit in the queue: a waiting timer has no errand there yet. *)
LEMMA WaitingFits ==
  ASSUME NEW m, NEW q, QueueOK(q), NEW c, Own(m, q, c), NEW tm, NEW ac, Schedule(q, tm, ac),
         NEW t \in Gated, tm[t] = "waiting",
         \A e \in Entries(q) : e.ev = "ACTIVATE" => e.to # t,
         NumEvents >= QueueNeed, NEW e \in Events
  PROVE  e \in Entries(Post(q, e))
<1>1. /\ q \in Seq(Events) /\ Len(q) \in Nat /\ NumEvents \in Nat /\ QueueNeed \in Nat
      /\ t \in TimerProcs
  BY NodeAssumption, KeysCounted DEF QueueOK
<1>2. <<t, 3>> \in Keys /\ <<t, 3>> \in Errands
  BY <1>1 DEF Keys, Errands
<1>3. ASSUME NEW i \in DOMAIN q, Key(q[i]) = <<t, 3>>
      PROVE  FALSE
  <2>1. q[i] \in Events /\ Says(q[i], tm, ac) /\ Formed(q[i])
    BY <1>1 DEF Schedule, Says
  <2>2. q[i].data = NULL
    BY <1>2, <1>3, <2>1, KeyOfEvent, PairParts
  <2>3. IsErrand(q[i], Key(q[i])[1], Key(q[i])[2])
    BY <2>1, <2>2, KeyOfEvent
  <2>4. IsErrand(q[i], t, 3)
    BY <1>3, <2>3
  <2>5. q[i].ev = "ACTIVATE" /\ q[i].to = t
    BY <1>1, <2>1, <2>2, <2>4 DEF Says, IsErrand
  <2> QED
    BY <2>5 DEF Entries
<1>4. Len(q) < QueueNeed
  BY <1>1, <1>2, <1>3, ScheduledFits
<1> QED
  BY <1>1, <1>4, EntriesPost

LEMMA MainReceiveBroadcastStarts ==
  ASSUME SInv, Started, MainReceiveBroadcast, NumEvents >= QueueNeed
  PROVE  Started'
<1> DEFINE p == Head(queue).data
           q == Tail(queue)
           e1 == Event("beacon_timer_proc", "ACTIVATE", NULL)
           e2 == Event("report_timer_proc", "ACTIVATE", NULL)
           q1 == Post(q, e1)
           q2 == Post(q1, e2)
<1>1. IInv /\ Sched /\ Delivers("main_proc", "RF_B_RECEIVE")
  BY DEF SInv, MainReceiveBroadcast
<1>2. CASE active
  <2>1. Entries(Tail(queue)) \subseteq Entries(queue')
    BY <1>1, MainReceiveBroadcastKept DEF Kept
  <2> QED
    BY <1>1, <1>2, <2>1, DeliveredStarts DEF MainReceiveBroadcast, IInv, TypeOK
<1>3. CASE ~ active
  <2>1. /\ QueueOK(q) /\ Schedule(q, timer, active) /\ Own(mem, q, p) /\ p \in Blocks
        /\ active = FALSE /\ \A t \in Gated : timer[t] = "waiting"
    BY <1>1, <1>3, DeliveredSchedule, Delivered DEF Sched, IInv, TypeOK, Holding, Receipts
  <2>2. queue' = NewPacket(q2, p) /\ timer' = timer
    BY <1>3 DEF MainReceiveBroadcast
  <2>3. /\ e1 \in Events /\ e1.to = "beacon_timer_proc" /\ e1.ev = "ACTIVATE" /\ e1.data = NULL
        /\ e2 \in Events /\ e2.to = "report_timer_proc" /\ e2.ev = "ACTIVATE" /\ e2.data = NULL
    BY EventsTyped DEF Event, Gated
  <2>4. Schedule(q, timer, FALSE) /\ Schedule(q1, timer, TRUE)
    <3> HIDE DEF q
    <3> QED
      BY <2>1, ActivateSchedule
  <2> HIDE DEF p, q, e1, e2
  <2>5. \A e \in Entries(q) : e.ev # "ACTIVATE"
    BY <2>4 DEF Schedule, Says, Entries
  <2>6. QueueOK(q1) /\ e1 \in Entries(q1)
    BY <2>1, <2>3, <2>4, <2>5, PostTyped, WaitingFits DEF Gated
  <2>7. Own(mem, q1, p) /\ \A e \in Entries(q1) : e.ev = "ACTIVATE" => e = e1
    BY <2>1, <2>3, <2>5, OwnPostNull, EntriesPost
  <2> HIDE DEF q1
  <2>8. QueueOK(q2) /\ e2 \in Entries(q2) /\ e1 \in Entries(q2)
    <3>1. \A e \in Entries(q1) : e.ev = "ACTIVATE" => e.to # "report_timer_proc"
      BY <2>3, <2>7
    <3>2. e2 \in Entries(q2)
      BY <2>1, <2>3, <2>4, <2>6, <2>7, <3>1, WaitingFits DEF Gated
    <3> QED
      BY <2>3, <2>6, <3>2, PostTyped, EntriesPost
  <2> HIDE DEF q2
  <2>9. e1 \in Entries(queue') /\ e2 \in Entries(queue')
    BY <2>1, <2>2, <2>8, EntriesNewPacket
  <2> QED
    BY <2>3, <2>9 DEF Started, Starts, Gated
<1> QED
  BY <1>2, <1>3

LEMMA ActivateStarts ==
  ASSUME IInv, Started, NEW t \in TimerProcs, t \in Gated, Activate(t)
  PROVE  Started'
<1>1. /\ timer \in [TimerProcs -> {"waiting", "armed", "expired"}] /\ Gated \subseteq TimerProcs
      /\ Entries(queue) = Entries(Tail(queue)) \cup {Head(queue)} /\ Head(queue).to = t
  BY TypeFacts, EntriesTail DEF Activate, Delivers
<1>2. PICK tm : tm = [timer EXCEPT ![t] = IF timer[t] = "waiting" THEN "armed" ELSE timer[t]]
  OBVIOUS
<1>3. timer' = tm /\ queue' = Tail(queue) /\ active' = active
  BY <1>2 DEF Activate
<1>4. tm[t] # "waiting" /\ \A u \in Gated : u # t => tm[u] = timer[u]
  BY <1>1, <1>2
<1>5. \A e \in Entries(queue) : e.ev = "ACTIVATE" /\ tm[e.to] = "waiting" => e \in Entries(queue')
  BY <1>1, <1>3, <1>4
<1> QED
  BY <1>3, <1>4, <1>5, StartsKept DEF Started

LEMMA RebootStarts ==
  ASSUME Reboot
  PROVE  Started'
  BY NodeAssumption DEF Reboot, Started, Starts

LEMMA TimerSet ==
  ASSUME IInv, NEW t \in TimerProcs, TimerProc(t) \/ TimerExpires(t)
  PROVE  \A u \in Gated : timer'[u] = "waiting" => timer[u] = "waiting"
<1>1. timer \in [TimerProcs -> {"waiting", "armed", "expired"}] /\ Gated \subseteq TimerProcs
  BY TypeFacts
<1>2. PICK s \in {"armed", "expired"} : timer' = [timer EXCEPT ![t] = s]
  BY DEF TimerProc, TimerExpires
<1> QED
  BY <1>1, <1>2

LEMMA NextStarts ==
  ASSUME SInv, Started, [Next]_vars, NumEvents >= QueueNeed
  PROVE  Started'
<1>0. IInv
  BY DEF SInv
<1>1. CASE Entries(queue) \subseteq Entries(queue') /\ active' = active
           /\ \A u \in Gated : timer'[u] = "waiting" => timer[u] = "waiting"
  BY <1>1, StartsKept DEF Started
<1>2. CASE Environment
  <2>1. active' = active /\ timer' = timer
    BY <1>2 DEF Environment, UnicastRxCallback, BroadcastRxCallback, UartRxCallback, Receive
  <2>2. Entries(queue) \subseteq Entries(queue')
    BY <1>0, <1>2, ReceiveKept DEF Environment, UnicastRxCallback, BroadcastRxCallback,
                                   UartRxCallback, Kept
  <2> QED
    BY <1>1, <2>1, <2>2
<1>3. CASE MainReceive
  BY <1>0, <1>3, MainReceiveKept, DeliveredStarts DEF MainReceive, Kept
<1>4. CASE MainSendBeacon \/ MainSendReport
  BY <1>0, <1>4, MainSendKept, DeliveredStarts DEF MainSendBeacon, MainSendReport, Kept
<1>5. CASE MainSendData
  BY <1>0, <1>5, MainSendDataKept, DeliveredStarts DEF MainSendData, Kept
<1>6. CASE MainTimer
  BY <1>0, <1>6, DeliveredStarts DEF MainTimer
<1>7. CASE HandlePacket
  BY <1>0, <1>7, HandlePacketKept, RebootStarts, DeliveredStarts DEF HandlePacket, Kept, Quiet
<1>8. CASE RunAction
  BY <1>0, <1>1, <1>8, RunActionKept DEF RunAction, Kept, Quiet
<1>9. CASE RfUSend \/ RfBSend
  BY <1>0, <1>9, DeliveredStarts DEF RfUSend, RfBSend
<1>10. ASSUME NEW t \in TimerProcs, TimerProc(t)
       PROVE  Started'
  <2>1. \A u \in Gated : timer'[u] = "waiting" => timer[u] = "waiting"
    BY <1>0, <1>10, TimerSet
  <2>2. Entries(Tail(queue)) \subseteq Entries(queue')
    BY <1>0, <1>10, TimerProcKept DEF Kept
  <2> QED
    BY <1>0, <1>10, <2>1, <2>2, DeliveredStarts DEF TimerProc
<1>11. ASSUME NEW t \in TimerProcs, TimerExpires(t)
       PROVE  Started'
  <2>1. \A u \in Gated : timer'[u] = "waiting" => timer[u] = "waiting"
    BY <1>0, <1>11, TimerSet
  <2>2. Entries(queue) \subseteq Entries(queue') /\ active' = active
    BY <1>0, <1>11, TimerExpiresKept DEF Kept, TimerExpires
  <2> QED
    BY <1>1, <2>1, <2>2
<1>12. CASE UNCHANGED vars
  BY <1>12 DEF vars, Started
<1> QED
  BY <1>0, <1>2, <1>3, <1>4, <1>5, <1>6, <1>7, <1>8, <1>9, <1>10, <1>11, <1>12,
     MainReceiveBroadcastStarts, ActivateStarts DEF Next, Step, Main, Timers

LEMMA InitStarts == Init => Started
  BY NodeAssumption DEF Init, Started, Starts

(* What ActivationExact says of a node that is not active follows from what *)
(* the events in the queue say of its timers.                               *)
LEMMA InactiveIsSilent ==
  ASSUME SInv, ~ active, NEW i \in DOMAIN queue
  PROVE  queue[i].ev \notin {"RF_SEND_BEACON", "RF_SEND_REPORT", "ACTIVATE"}
<1>1. /\ Says(queue[i], timer, active)
      /\ \A t \in Gated : timer[t] = "waiting" /\ t \in TimerProcs
  BY TypeFacts DEF SInv, Sched, Schedule
<1>2. queue[i].ev # "ACTIVATE"
  BY <1>1 DEF Says
<1>3. ASSUME NEW t \in Gated, queue[i].ev = Tick(t)
      PROVE  FALSE
  <2>1. queue[i].data = NULL
    BY <1>1, <1>3, ErrandsAreEmpty DEF Says
  <2>2. PICK u \in TimerProcs, k \in 1 .. 3 : IsErrand(queue[i], u, k)
    BY <1>1, <2>1 DEF Says, Formed
  <2>3. Tick(t) \in {"RF_SEND_BEACON", "RF_SEND_REPORT"}
    BY DEF Gated, Tick
  <2>4. queue[i].ev = Tick(u) /\ k = 2
    BY <1>3, <2>2, <2>3 DEF IsErrand
  <2>5. u = t
    BY <1>1, <1>3, <2>4, TickTells
  <2> QED
    BY <1>1, <1>2, <2>1, <2>2, <2>5 DEF Says
<1>4. /\ "beacon_timer_proc" \in Gated /\ Tick("beacon_timer_proc") = "RF_SEND_BEACON"
      /\ "report_timer_proc" \in Gated /\ Tick("report_timer_proc") = "RF_SEND_REPORT"
  BY DEF Gated, Tick
<1> QED
  BY <1>2, <1>3, <1>4

(***************************************************************************)
(* Activation: with a queue that never refuses a post, the beacon and      *)
(* report timers of a node run exactly when it is active.  The ACTIVATEs   *)
(* are posted once; were one refused, its timer would wait for ever.       *)
(***************************************************************************)
THEOREM ActivationIsExact ==
  WellFormedRules /\ NumEvents >= QueueNeed => (Spec => []ActivationExact)
<1> SUFFICES ASSUME WellFormedRules, NumEvents >= QueueNeed PROVE Spec => []ActivationExact
  OBVIOUS
<1> DEFINE AInv == SInv /\ Started
<1>1. Init => AInv
  BY InitSInv, InitStarts
<1>2. AInv /\ [Next]_vars => AInv'
  BY NextSInv, NextStarts
<1>3. AInv => ActivationExact
  <2> SUFFICES ASSUME SInv, Started PROVE ActivationExact
    OBVIOUS
  <2>1. active => \A t \in Gated :
           \/ timer[t] # "waiting"
           \/ \E i \in DOMAIN queue : queue[i].to = t /\ queue[i].ev = "ACTIVATE"
    BY DEF Started, Starts, Entries
  <2>2. ~ active => \A t \in Gated : timer[t] = "waiting"
    BY DEF SInv, Sched
  <2> QED
    BY <2>1, <2>2, InactiveIsSilent DEF ActivationExact
<1> QED
  BY <1>1, <1>2, <1>3, PTL DEF Spec
-----------------------------------------------------------------------------
(* The stage of a block, from the events that carry it.                      *)

LEMMA StageOfEvent ==
  ASSUME NEW m, NEW q, NEW c, Own(m, q, c), NEW b \in Blocks, NEW e \in Entries(q), e.data = b
  PROVE  b \in DOMAIN m /\ b # c /\ Stage(m, q, c, b) = AtProcess(e.to)
<1>1. b # NULL
  BY BlocksNotNull
<1>2. PICK i \in DOMAIN q : q[i] = e
  BY DEF Entries
<1>3. b \in Pointers(q)
  BY <1>2 DEF Pointers
<1>4. b \in DOMAIN m /\ b # c
  BY <1>1, <1>3 DEF Own
<1> DEFINE j == CHOOSE k \in DOMAIN q : q[k].data = b
<1>5. j \in DOMAIN q /\ q[j].data = b
  BY <1>2
<1> HIDE DEF j
<1>6. j = i
  BY <1>1, <1>2, <1>5 DEF Own
<1>7. Stage(m, q, c, b) = AtProcess(q[j].to)
  BY <1>3, <1>4 DEF Stage, j
<1> QED
  BY <1>2, <1>4, <1>6, <1>7

LEMMA StageWithoutEvent ==
  ASSUME NEW m, NEW q, NEW c, NEW b, Carry(q, b) = {}
  PROVE  Stage(m, q, c, b) = IF b \notin DOMAIN m THEN "free"
                             ELSE IF b = c THEN "handler" ELSE "lost"
<1>1. b \notin Pointers(q)
  BY DEF Pointers, Carry, Entries
<1> QED
  BY <1>1 DEF Stage

LEMMA StageSame ==
  ASSUME NEW m, NEW q, NEW c, Own(m, q, c), NEW m2, NEW q2, NEW c2, Own(m2, q2, c2),
         NEW b \in Blocks, b \in DOMAIN m, b \in DOMAIN m2, b # c, b # c2,
         Carry(q2, b) = Carry(q, b)
  PROVE  Stage(m2, q2, c2, b) = Stage(m, q, c, b)
<1>1. CASE Carry(q, b) = {}
  BY <1>1, StageWithoutEvent
<1>2. ASSUME NEW e \in Carry(q, b)
      PROVE  Stage(m2, q2, c2, b) = Stage(m, q, c, b)
  <2>1. e \in Entries(q) /\ e \in Entries(q2) /\ e.data = b
    BY <1>2 DEF Carry
  <2> QED
    BY <2>1, StageOfEvent
<1> QED
  BY <1>1, <1>2

LEMMA StageTyped ==
  ASSUME NEW m, NEW q, NEW c, Own(m, q, c), NEW b \in Blocks,
         \A e \in Entries(q) : Formed(e)
  PROVE  /\ Stage(m, q, c, b) \in Life!Stages
         /\ (\A e \in Carry(q, b) : e.to # "main_proc") => Stage(m, q, c, b) # "main"
<1>1. CASE Carry(q, b) = {}
  <2>1. Stage(m, q, c, b) \in {"free", "handler", "lost"}
    BY <1>1, StageWithoutEvent
  <2> QED
    BY <2>1 DEF Life!Stages
<1>2. ASSUME NEW e \in Carry(q, b)
      PROVE  /\ Stage(m, q, c, b) \in Life!Stages
             /\ e.to # "main_proc" => Stage(m, q, c, b) # "main"
  <2>1. e \in Entries(q) /\ e.data = b /\ b # NULL
    BY <1>2, BlocksNotNull DEF Carry
  <2>2. e.to \in {"main_proc", "packet_handler_proc", "rf_u_send_proc", "rf_b_send_proc"}
    BY <2>1 DEF Formed, Carriers
  <2>3. Stage(m, q, c, b) = AtProcess(e.to)
    BY <2>1, StageOfEvent
  <2> HIDE DEF Life!Stages
  <2> QED
    BY <2>2, <2>3 DEF AtProcess, Life!Stages
<1> QED
  BY <1>1, <1>2
-----------------------------------------------------------------------------
(* One step, seen from the blocks: all but the one in the step's hands, and   *)
(* those that were free, stay where they are.                                *)
StageNow(b) == Stage(mem, queue, cur, b)

StageThen(b) == Stage(mem', queue', cur', b)

LEMMA InvFacts ==
  ASSUME SInv
  PROVE  /\ Own(mem, queue, cur) /\ PoolOK(mem)
         /\ \A b \in DOMAIN mem : b \in Blocks /\ b # NULL
         /\ \A e \in Entries(queue) : Formed(e)
<1>1. Own(mem, queue, cur) /\ PoolOK(mem)
  BY DEF SInv, IInv, SingleOwner, TypeOK, PoolOK
<1>2. \A b \in DOMAIN mem : b \in Blocks /\ b # NULL
  BY <1>1, BlocksNotNull DEF PoolOK
<1>3. \A e \in Entries(queue) : Formed(e)
  BY DEF SInv, Sched, Schedule, Says, Entries
<1> QED
  BY <1>1, <1>2, <1>3

LEMMA KeptStages ==
  ASSUME SInv, SInv',
         NEW p, NEW q, Kept(mem, q, p),
         \A b \in DOMAIN mem \ {p} : b # cur /\ Carry(q, b) = Carry(queue, b)
  PROVE  \A b \in DOMAIN mem \ {p} : StageThen(b) = StageNow(b)
<1>1. Own(mem, queue, cur) /\ \A b \in DOMAIN mem : b \in Blocks
  BY InvFacts
<1>2. Own(mem', queue', cur')
  BY DEF SInv, IInv, SingleOwner
<1>3. ASSUME NEW b \in DOMAIN mem, b # p
      PROVE  Stage(mem', queue', cur', b) = Stage(mem, queue, cur, b)
  <2>1. b \in DOMAIN mem' /\ b # cur' /\ Carry(queue', b) = Carry(queue, b) /\ b # cur
    BY <1>3 DEF Kept
  <2> QED
    BY <1>1, <1>2, <1>3, <2>1, StageSame
<1> QED
  BY <1>3 DEF StageNow, StageThen

LEMMA DeliveredStages ==
  ASSUME SInv, SInv', NEW proc, NEW ev, Delivers(proc, ev),
         Kept(mem, Tail(queue), Head(queue).data)
  PROVE  \A b \in DOMAIN mem \ {Head(queue).data} : StageThen(b) = StageNow(b)
<1>1. IInv /\ \A b \in DOMAIN mem : b # NULL
  BY InvFacts DEF SInv
<1>2. cur = NULL /\ \A b : b # Head(queue).data => Carry(Tail(queue), b) = Carry(queue, b)
  BY <1>1, TypeFacts, EntriesTail DEF Delivers, Idle
<1> HIDE DEF SInv
<1> QED
  BY <1>1, <1>2, KeptStages

LEMMA LoopStages ==
  ASSUME SInv, SInv', Kept(mem, queue, cur)
  PROVE  \A b \in DOMAIN mem \ {cur} : StageThen(b) = StageNow(b)
  BY KeptStages

LEMMA LifeStep ==
  ASSUME SInv, SInv', NEW p, \A b \in DOMAIN mem \ {p} : StageThen(b) = StageNow(b),
         p \in DOMAIN mem => \/ StageThen(p) = StageNow(p)
                             \/ StageThen(p) \in Life!Successors(StageNow(p))
  PROVE  Life!Next
<1>1. \A b \in Blocks : StageThen(b) \in Life!Stages
  <2>1. /\ Own(mem', queue', cur') /\ \A e \in Entries(queue)' : Formed(e)
    BY DEF SInv, IInv, SingleOwner, Sched, Schedule, Says, Entries
  <2>2. \A b \in Blocks : Stage(mem', queue', cur', b) \in Life!Stages
    BY <2>1, StageTyped DEF Entries
  <2> QED
    BY <2>2 DEF StageThen
<1>2. ASSUME NEW b \in Blocks, StageThen(b) # StageNow(b)
      PROVE  StageThen(b) \in Life!Successors(StageNow(b))
  <2>1. CASE b \in DOMAIN mem
    BY <1>2, <2>1
  <2>2. CASE b \notin DOMAIN mem
    <3>1. StageNow(b) = "free"
      BY <2>2 DEF StageNow, Stage
    <3> QED
      BY <1>1, <3>1 DEF Life!Successors, Life!Stages
  <2> QED
    BY <2>1, <2>2
<1> QED
  BY <1>1, <1>2 DEF Life!Next, Life!Progress, StageNow, StageThen

(* The packet a process got with its event was at that process. *)
LEMMA DeliveredStage ==
  ASSUME SInv, NEW proc, NEW ev, Delivers(proc, ev), Head(queue).data \in DOMAIN mem
  PROVE  /\ StageNow(Head(queue).data) = AtProcess(proc)
         /\ <<proc, ev>> \in Carriers
<1>1. Own(mem, queue, cur) /\ Head(queue).data \in Blocks /\ Head(queue).data # NULL
  BY InvFacts
<1>2. Head(queue) \in Entries(queue) /\ Head(queue).to = proc /\ Head(queue).ev = ev
  BY TypeFacts, EntriesTail DEF Delivers, SInv
<1>3. Formed(Head(queue))
  BY <1>2, InvFacts
<1> QED
  BY <1>1, <1>2, <1>3, StageOfEvent DEF StageNow, Formed

(* An event that is no packet's leaves every packet where it is. *)
LEMMA EmptyLife ==
  ASSUME SInv, SInv', NEW proc, NEW ev, Delivers(proc, ev), <<proc, ev>> \notin Carriers,
         Kept(mem, Tail(queue), Head(queue).data)
  PROVE  Life!Next
  BY DeliveredStages, DeliveredStage, LifeStep

LEMMA IdleLife ==
  ASSUME SInv, SInv', cur = NULL, Kept(mem, queue, NULL)
  PROVE  Life!Next
<1>1. cur \notin DOMAIN mem
  BY InvFacts
<1> QED
  BY <1>1, LoopStages, LifeStep

LEMMA HolderCarriesNone ==
  ASSUME NEW m, NEW q, NEW p, p # NULL, Own(m, q, p)
  PROVE  Carry(q, p) = {}
  BY DEF Own, Pointers, Carry, Entries

(* A packet in the step's own hands that is handed to no receiving process. *)
LEMMA HeldLife ==
  ASSUME SInv, SInv', NEW q, NEW p \in DOMAIN mem, StageNow(p) = "handler",
         \A b \in DOMAIN mem \ {p} : StageThen(b) = StageNow(b),
         Own(mem, q, p), NoReceipts(q)
  PROVE  Life!Next
<1>1. p \in Blocks /\ p # NULL
  BY InvFacts
<1>2. Own(mem', queue', cur') /\ \A e \in Entries(queue') : Formed(e)
  BY DEF SInv, IInv, SingleOwner, Sched, Schedule, Says, Entries
<1>3. \A e \in Carry(queue', p) : e.to # "main_proc"
  <2>1. \A e \in Carry(queue', p) : e.ev \notin Receipts
    BY <1>1, HolderCarriesNone DEF NoReceipts, Carry
  <2>2. \A e \in Carry(queue', p) : <<e.to, e.ev>> \in Carriers
    BY <1>1, <1>2 DEF Formed, Carry
  <2> QED
    BY <2>1, <2>2 DEF Carriers, Receipts
<1>4. StageThen(p) \in Life!Stages /\ StageThen(p) # "main"
  BY <1>1, <1>2, <1>3, StageTyped DEF StageThen
<1>5. StageThen(p) = StageNow(p) \/ StageThen(p) \in Life!Successors(StageNow(p))
  BY <1>4 DEF Life!Successors, Life!Stages
<1> HIDE DEF SInv
<1> QED
  BY <1>5, LifeStep

LEMMA MainReceiveLife ==
  ASSUME SInv, SInv', MainReceive \/ MainReceiveBroadcast
  PROVE  Life!Next
<1> DEFINE p == Head(queue).data
           q == Tail(queue)
           e1 == Event("beacon_timer_proc", "ACTIVATE", NULL)
           e2 == Event("report_timer_proc", "ACTIVATE", NULL)
           q1 == Post(q, e1)
           q2 == Post(q1, e2)
           q3 == IF active THEN q ELSE q2
<1>0. IInv
  BY DEF SInv
<1>1. PICK ev \in Receipts : Delivers("main_proc", ev)
  BY DEF MainReceive, MainReceiveBroadcast, Receipts
<1>2. /\ QueueOK(q) /\ Own(mem, q, p) /\ cur = NULL /\ p \in Blocks /\ p # NULL
  BY <1>0, <1>1, Delivered, BlocksNotNull DEF Holding
<1>3. Kept(mem, q, p)
  BY <1>0, MainReceiveKept, MainReceiveBroadcastKept
<1>4. mem' = mem /\ cur' = cur /\ (queue' = NewPacket(q, p) \/ queue' = NewPacket(q3, p))
  BY DEF MainReceive, MainReceiveBroadcast
<1>5. e1 \in Events /\ e1.data = NULL /\ e2 \in Events /\ e2.data = NULL
  BY EventsTyped DEF Event, Gated
<1>6. \A b \in DOMAIN mem \ {p} : StageThen(b) = StageNow(b)
  BY <1>1, <1>3, DeliveredStages
<1>7. p \in DOMAIN mem => StageNow(p) = AtProcess("main_proc")
  BY <1>1, DeliveredStage
<1> HIDE DEF p, q, e1, e2
<1>8. Carry(q, p) = {}
  BY <1>2, HolderCarriesNone
<1>9. QueueOK(q1) /\ Carry(q1, p) = {}
  BY <1>2, <1>5, <1>8, PostTyped, EntriesPost
<1> HIDE DEF q1
<1>10. QueueOK(q2) /\ Carry(q2, p) = {}
  BY <1>2, <1>5, <1>9, PostTyped, EntriesPost
<1> HIDE DEF q2
<1>11. QueueOK(q3) /\ Carry(q3, p) = {}
  BY <1>2, <1>8, <1>10
<1> HIDE DEF q3
<1>12. \A e \in Carry(queue', p) : e.to = "packet_handler_proc"
  BY <1>2, <1>4, <1>8, <1>11, EntriesNewPacket DEF Carry
<1>13. p \in DOMAIN mem => StageThen(p) \in {"handler", "lost"}
  <2>1. Own(mem', queue', cur')
    BY DEF SInv, IInv, SingleOwner
  <2>2. CASE Carry(queue', p) = {}
    BY <1>2, <1>4, <2>2, StageWithoutEvent DEF StageThen
  <2>3. ASSUME NEW e \in Carry(queue', p)
        PROVE  Stage(mem', queue', cur', p) = "handler"
    <3>1. e \in Entries(queue') /\ e.data = p /\ e.to = "packet_handler_proc"
      BY <1>12, <2>3 DEF Carry
    <3>2. Stage(mem', queue', cur', p) = AtProcess("packet_handler_proc")
      BY <1>2, <2>1, <3>1, StageOfEvent
    <3> QED
      BY <3>2 DEF AtProcess
  <2> QED
    BY <2>2, <2>3 DEF StageThen
<1>14. p \in DOMAIN mem => StageThen(p) \in Life!Successors(StageNow(p))
  BY <1>7, <1>13 DEF AtProcess, Life!Successors
<1> HIDE DEF SInv
<1> QED
  BY <1>6, <1>14, LifeStep

LEMMA RebootLife ==
  ASSUME Reboot
  PROVE  Life!Next
<1>1. mem' = << >> /\ DOMAIN << >> = {}
  BY DEF Reboot
<1>2. \A b : Stage(mem', queue', cur', b) = "free"
  BY <1>1 DEF Stage
<1> QED
  BY <1>2 DEF Life!Next, Life!Reboot

LEMMA HandlePacketLife ==
  ASSUME SInv, SInv', HandlePacket
  PROVE  Life!Next
<1> DEFINE p == Head(queue).data
           q == Tail(queue)
<1>1. IInv /\ Delivers("packet_handler_proc", "NEW_PACKET")
  BY DEF SInv, HandlePacket
<1>2. Own(mem, q, p) /\ p \in DOMAIN mem
  BY <1>1, Delivered, BlocksNotNull DEF Holding, Own, Receipts
<1>3. StageNow(p) = "handler"
  BY <1>1, <1>2, DeliveredStage DEF AtProcess
<1>4. CASE Kept(mem, q, p) /\ NoReceipts(q)
  <2>1. \A b \in DOMAIN mem \ {p} : StageThen(b) = StageNow(b)
    BY <1>1, <1>4, DeliveredStages
  <2> HIDE DEF SInv
  <2> QED
    BY <1>2, <1>3, <1>4, <2>1, HeldLife
<1> QED
  BY <1>1, <1>4, HandlePacketKept, RebootLife

LEMMA RunActionLife ==
  ASSUME SInv, SInv', RunAction
  PROVE  Life!Next
<1>1. IInv /\ Own(mem, queue, cur) /\ cur # NULL /\ cur \in DOMAIN mem
  BY DEF SInv, IInv, SingleOwner, RunAction, Idle, Own
<1>2. Carry(queue, cur) = {}
  BY <1>1, HolderCarriesNone
<1>3. StageNow(cur) = "handler"
  BY <1>1, <1>2, StageWithoutEvent DEF StageNow
<1>4. Kept(mem, queue, cur) /\ NoReceipts(queue)
  BY <1>1, RunActionKept
<1>5. \A b \in DOMAIN mem \ {cur} : StageThen(b) = StageNow(b)
  BY <1>4, LoopStages
<1> HIDE DEF SInv
<1> QED
  BY <1>1, <1>3, <1>4, <1>5, HeldLife

LEMMA RfSendLife ==
  ASSUME SInv, SInv', RfUSend \/ RfBSend
  PROVE  Life!Next
<1> DEFINE p == Head(queue).data
<1>1. PICK proc, ev : proc \in {"rf_u_send_proc", "rf_b_send_proc"} /\ Delivers(proc, ev)
  BY DEF RfUSend, RfBSend
<1>2. IInv /\ mem' = Free(mem, p) /\ queue' = Tail(queue) /\ cur' = cur /\ PoolOK(mem)
  BY InvFacts DEF SInv, RfUSend, RfBSend
<1>3. \A b \in DOMAIN mem \ {p} : StageThen(b) = StageNow(b)
  BY <1>1, <1>2, TakenKept, DeliveredStages
<1>4. p \in DOMAIN mem => StageNow(p) \in {"unicast", "broadcast"}
  BY <1>1, DeliveredStage DEF AtProcess
<1> HIDE DEF p
<1>5. Stage(mem', queue', cur', p) = "free"
  BY <1>2, FreeTyped DEF Stage
<1>6. p \in DOMAIN mem => StageThen(p) \in Life!Successors(StageNow(p))
  BY <1>4, <1>5 DEF StageThen, Life!Successors
<1> HIDE DEF SInv
<1> QED
  BY <1>3, <1>6, LifeStep

LEMMA NextLife ==
  ASSUME SInv, SInv', Next
  PROVE  Life!Next
<1>0. IInv
  BY DEF SInv
<1>1. CASE Environment
  BY <1>0, <1>1, ReceiveKept, IdleLife
     DEF Environment, UnicastRxCallback, BroadcastRxCallback, UartRxCallback, Receive, Idle
<1>2. CASE MainReceive \/ MainReceiveBroadcast
  BY <1>2, MainReceiveLife
<1>3. CASE MainSendBeacon \/ MainSendReport
  BY <1>0, <1>3, MainSendKept, EmptyLife DEF MainSendBeacon, MainSendReport, Carriers
<1>4. CASE MainSendData
  BY <1>0, <1>4, MainSendDataKept, EmptyLife DEF MainSendData, Carriers
<1>5. CASE MainTimer
  BY <1>0, <1>5, TakenKept, EmptyLife DEF MainTimer, Carriers
<1>6. CASE HandlePacket \/ RunAction
  BY <1>6, HandlePacketLife, RunActionLife
<1>7. CASE RfUSend \/ RfBSend
  BY <1>7, RfSendLife
<1>8. ASSUME NEW t \in TimerProcs, TimerProc(t) \/ Activate(t)
      PROVE  Life!Next
  <2>1. PICK ev \in {"PROCESS_EVENT_TIMER", "ACTIVATE"} : Delivers(t, ev)
    BY <1>8 DEF TimerProc, Activate
  <2>2. <<t, ev>> \notin Carriers
    BY <2>1 DEF Carriers
  <2>3. Kept(mem, Tail(queue), Head(queue).data)
    BY <1>0, <1>8, TimerProcKept, TakenKept DEF Activate
  <2> QED
    BY <2>1, <2>2, <2>3, EmptyLife
<1>9. ASSUME NEW t \in TimerProcs, TimerExpires(t)
      PROVE  Life!Next
  BY <1>0, <1>9, TimerExpiresKept, IdleLife DEF TimerExpires, Idle
<1> QED
  BY <1>1, <1>2, <1>3, <1>4, <1>5, <1>6, <1>7, <1>8, <1>9 DEF Next, Step, Main, Timers

(***************************************************************************)
(* Refinement: the life of every block is the one PacketLife promises. A   *)
(* packet passes from process to process in one direction only, comes back *)
(* to the pool only from the handler or from a send process, and no step   *)
(* moves a packet that is in no one's hands.                               *)
(***************************************************************************)
THEOREM LivesAsPromised == WellFormedRules => (Spec => LifeSpec)
<1> SUFFICES ASSUME WellFormedRules PROVE Spec => LifeSpec
  OBVIOUS
<1>1. Init => Life!Init
  <2> SUFFICES ASSUME Init PROVE Life!Init
    OBVIOUS
  <2>1. \A b : Stage(mem, queue, cur, b) = "free"
    BY DEF Init, Stage
  <2> QED
    BY <2>1 DEF Life!Init
<1>2. SInv /\ SInv' /\ [Next]_vars => [Life!Next]_([b \in Blocks |-> Stage(mem, queue, cur, b)])
  <2> SUFFICES ASSUME SInv, SInv', [Next]_vars
               PROVE  [Life!Next]_([b \in Blocks |-> Stage(mem, queue, cur, b)])
    OBVIOUS
  <2>1. CASE Next
    BY <2>1, NextLife
  <2>2. CASE UNCHANGED vars
    BY <2>2 DEF vars
  <2> QED
    BY <2>1, <2>2
<1>3. SInv /\ [Next]_vars => SInv'
  BY NextSInv
<1> QED
  BY InitSInv, <1>1, <1>2, <1>3, PTL DEF Spec, LifeSpec, Life!Spec
-----------------------------------------------------------------------------
(* Leaks.  A step loses block b: it is allocated afterwards and in no hands.  *)
Loses(b) == b \in DOMAIN mem' /\ b # cur' /\ Carry(queue', b) = {}

Known(b) ==
  \/ Len(queue') = NumEvents
  \/ Forgotten(b)
  \/ LastBlock(b)
  \/ RuleEnds(b)

LEMMA PostLoses ==
  ASSUME NEW q, QueueOK(q), NEW b \in Blocks, Loses(b),
         queue' \in {UnicastSend(q, b), BroadcastSend(q, b), NewPacket(q, b)}
  PROVE  Len(queue') = NumEvents
<1>1. Len(q) \in Nat /\ NumEvents \in Nat /\ b \in Refs /\ ~ \E e \in Entries(queue') : e.data = b
  BY NodeAssumption, BlocksNotNull DEF QueueOK, Loses, Carry
<1>2. CASE queue' \in {UnicastSend(q, b), BroadcastSend(q, b)}
  BY <1>1, <1>2, EntriesSend
<1>3. CASE queue' = NewPacket(q, b)
  BY <1>1, <1>3, EntriesNewPacket
<1> QED
  BY <1>2, <1>3

(* A request loses a block of its own: its event did not fit, or it needed   *)
(* two blocks and found this one only.                                       *)
LEMMA RequestLoses ==
  ASSUME NEW m, PoolOK(m), NEW q, QueueOK(q), NEW p, NEW long,
         CreateAndSendRequest(m, q, p, long),
         NEW b, b \notin DOMAIN m, Loses(b)
  PROVE  Len(queue') = NumEvents \/ (long /\ Blocks \ {b} \subseteq DOMAIN m)
<1> DEFINE r1 == FreeBlock(m)
           m1 == Alloc(m, r1, Created("REQUEST"))
           r2 == FreeBlock(m1)
           m2 == Alloc(m1, r2, Created("REQUEST"))
           q1 == UnicastSend(q, r1)
           q2 == UnicastSend(q1, r2)
<1>1. CASE ~ HasFree(m)
  <2>1. mem' = Free(m, p)
    BY <1>1 DEF CreateAndSendRequest
  <2> QED
    BY <2>1, FreeTyped DEF Loses
<1>2. CASE HasFree(m)
  <2>1. r1 \in Blocks /\ r1 \in Refs /\ QueueOK(q1) /\ Created("REQUEST") \in Packet
    BY <1>2, FreeBlockIsFree, BlocksNotNull, SendTyped, PacketsTyped DEF PacketTypes
  <2>2. PoolOK(m1) /\ DOMAIN m1 = DOMAIN m \cup {r1}
    <3> HIDE DEF r1
    <3> QED
      BY <2>1, AllocTyped
  <2>3. CASE mem' = Free(m1, p) /\ queue' = q1
    <3> HIDE DEF r1, m1
    <3>0. DOMAIN mem' = DOMAIN m1 \ {p}
      BY <2>2, <2>3, FreeTyped
    <3>1. b = r1
      BY <2>2, <3>0 DEF Loses
    <3> QED
      BY <2>1, <2>3, <3>1, PostLoses
  <2>4. CASE mem' = Free(m1, p) /\ queue' = q /\ long /\ ~ HasFree(m1)
    <3> HIDE DEF r1, m1
    <3>0. DOMAIN mem' = DOMAIN m1 \ {p}
      BY <2>2, <2>4, FreeTyped
    <3>1. b = r1
      BY <2>2, <3>0 DEF Loses
    <3> QED
      BY <2>2, <2>4, <3>1 DEF HasFree
  <2>5. CASE HasFree(m1) /\ mem' = Free(m2, p) /\ queue' = q2
    <3>1. r2 \in Blocks /\ r2 \in Refs
      BY <2>5, FreeBlockIsFree, BlocksNotNull
    <3>2. PoolOK(m2) /\ DOMAIN m2 = DOMAIN m1 \cup {r2}
      <4> HIDE DEF r2, m1
      <4> QED
        BY <2>1, <2>2, <3>1, AllocTyped
    <3> HIDE DEF r1, m1, r2, m2
    <3>3. b = r1 \/ b = r2
      <4>1. DOMAIN mem' = DOMAIN m2 \ {p}
        BY <2>5, <3>2, FreeTyped
      <4> QED
        BY <2>2, <3>2, <4>1 DEF Loses
    <3>4. CASE b = r2
      <4> HIDE DEF q1
      <4> QED
        BY <2>1, <2>5, <3>1, <3>4, PostLoses
    <3>5. CASE b = r1
      <4>1. Len(q) >= NumEvents \/ \E e \in Entries(q1) : e.data = b
        BY <2>1, <3>5, EntriesSend, NodeAssumption DEF QueueOK
      <4>2. Entries(q1) \subseteq Entries(q2)
        <5> HIDE DEF q1
        <5> QED
          BY <2>1, <3>1, EntriesSend
      <4>3. Len(q) >= NumEvents
        BY <2>5, <4>1, <4>2 DEF Loses, Carry
      <4>4. q1 = q /\ Len(q) = NumEvents
        BY <2>1, <4>3, EntriesSend
      <4>5. q2 = q1
        <5>1. Len(q1) >= NumEvents
          BY <4>4, NodeAssumption
        <5> HIDE DEF q1
        <5> QED
          BY <2>1, <3>1, <5>1, EntriesSend
      <4> QED
        BY <2>5, <4>4, <4>5
    <3> QED
      BY <3>3, <3>4, <3>5
  <2> QED
    BY <1>2, <2>3, <2>4, <2>5 DEF CreateAndSendRequest
<1> QED
  BY <1>1, <1>2

LEMMA EmptyConcat ==
  ASSUME NEW s \in Seq(ActionTypes), NEW t \in Seq(ActionTypes), s \o t = << >>
  PROVE  s = << >>
<1>1. Len(s \o t) = Len(s) + Len(t) /\ Len(s) \in Nat /\ Len(t) \in Nat /\ Len(s \o t) = 0
  OBVIOUS
<1>2. Len(s) = 0
  BY <1>1
<1> QED
  BY <1>2, EmptySeq

(* A match loses a block of the request it becomes, or the packet itself    *)
(* where a rule has no action.                                               *)
LEMMA MatchLoses ==
  ASSUME NEW m, PoolOK(m), NEW q, QueueOK(q), NEW p \in Refs, NEW long,
         NEW after \in Seq(ActionTypes), MatchPacket(m, q, p, long, after),
         NEW b, b \notin DOMAIN m \/ b = p, Loses(b)
  PROVE  \/ Len(queue') = NumEvents
         \/ b \notin DOMAIN m /\ long /\ Blocks \ {b} \subseteq DOMAIN m
         \/ b \in DOMAIN m /\ b = p /\ << >> \in Rules
<1>1. ASSUME NEW as \in Rules, Continue(p, as \o after), mem' = m
      PROVE  b \in DOMAIN m /\ b = p /\ << >> \in Rules
  <2>1. b \in DOMAIN m /\ b = p
    BY <1>1 DEF Loses
  <2>2. as \o after = << >>
    BY <1>1, <2>1 DEF Loses, Continue
  <2>3. as = << >>
    BY <2>2, EmptyConcat, NodeAssumption
  <2> QED
    BY <2>1, <2>3
<1>2. ASSUME CreateAndSendRequest(m, q, p, long), Continue(p, after)
      PROVE  \/ Len(queue') = NumEvents
             \/ b \notin DOMAIN m /\ long /\ Blocks \ {b} \subseteq DOMAIN m
  <2>1. cur' = NULL \/ cur' = p
    BY <1>2 DEF Continue, Return
  <2>2. p \notin DOMAIN mem'
    BY <1>2, <2>1, RequestKept
  <2>3. b \notin DOMAIN m
    BY <2>2 DEF Loses
  <2> QED
    BY <1>2, <2>3, RequestLoses
<1> QED
  BY <1>1, <1>2 DEF MatchPacket
-----------------------------------------------------------------------------
LEMMA LostMeans ==
  ASSUME NEW m, PoolOK(m), NEW q, NEW c, NEW b
  PROVE  b \in DOMAIN m \ ((Pointers(q) \cup {c}) \ {NULL})
           <=> b \in DOMAIN m /\ b # c /\ Carry(q, b) = {}
<1>1. b \in DOMAIN m => b # NULL
  BY BlocksNotNull DEF PoolOK
<1>2. b \in Pointers(q) <=> Carry(q, b) # {}
  BY DEF Pointers, Carry, Entries
<1> QED
  BY <1>1, <1>2

(* What a step does not hold it does not lose. *)
LEMMA KeptNotLost ==
  ASSUME IInv, NEW p, NEW q, Kept(mem, q, p), cur = NULL \/ cur = p,
         \A b : b # p => Carry(q, b) = Carry(queue, b),
         NEW b, b \notin Lost, Loses(b)
  PROVE  b \notin DOMAIN mem \/ b = p
<1>1. PoolOK(mem)
  BY DEF IInv, TypeOK, PoolOK
<1>2. b \in DOMAIN mem => b # NULL
  BY <1>1, BlocksNotNull DEF PoolOK
<1>3. b \in DOMAIN mem => b = cur \/ Carry(queue, b) # {}
  BY <1>1, LostMeans DEF Lost, Allocated, Referenced
<1> QED
  BY <1>2, <1>3 DEF Kept, Loses

LEMMA DeliveredNotLost ==
  ASSUME IInv, NEW proc, NEW ev, Delivers(proc, ev), Kept(mem, Tail(queue), Head(queue).data),
         NEW b, b \notin Lost, Loses(b)
  PROVE  b \notin DOMAIN mem \/ b = Head(queue).data
<1>1. cur = NULL /\ \A c : c # Head(queue).data => Carry(Tail(queue), c) = Carry(queue, c)
  BY TypeFacts, EntriesTail DEF Delivers, Idle
<1> HIDE DEF IInv
<1> QED
  BY <1>1, KeptNotLost

LEMMA LoopNotLost ==
  ASSUME IInv, Kept(mem, queue, cur), NEW b, b \notin Lost, Loses(b)
  PROVE  b \notin DOMAIN mem \/ b = cur
  BY KeptNotLost

LEMMA ReceiveLoses ==
  ASSUME IInv, NEW ev \in {"RF_U_RECEIVE", "RF_B_RECEIVE", "UART_RECEIVE"},
         NEW f \in Frames, Receive(ev, f), NEW b, b \notin Lost, Loses(b)
  PROVE  Known(b)
<1> DEFINE p == FreeBlock(mem)
           e == Event("main_proc", ev, p)
<1>1. PoolOK(mem) /\ QueueOK(queue) /\ cur = NULL /\ \A c \in DOMAIN mem : c # NULL
  BY BlocksNotNull DEF IInv, TypeOK, Receive, Idle, PoolOK, QueueOK
<1>2. p \in Blocks /\ e \in Events /\ e.data = p
  BY FreeBlockIsFree, EventsTyped DEF Receive, Event
<1>3. mem' = Alloc(mem, p, f) /\ queue' = Post(queue, e) /\ f \in Packet
  BY NodeAssumption DEF Receive
<1> HIDE DEF p, e
<1>4. DOMAIN mem' = DOMAIN mem \cup {p}
  BY <1>1, <1>2, <1>3, AllocTyped
<1>5. Kept(mem, queue, cur)
  BY <1>1, ReceiveKept
<1>6. b \notin DOMAIN mem
  BY <1>1, <1>5, LoopNotLost
<1>7. b = p
  BY <1>4, <1>6 DEF Loses
<1>8. e \notin Entries(queue')
  BY <1>2, <1>7 DEF Loses, Carry
<1>9. Len(queue') = NumEvents
  BY <1>1, <1>2, <1>3, <1>8, EntriesPost, NodeAssumption DEF QueueOK
<1> QED
  BY <1>9 DEF Known

LEMMA MainReceiveLoses ==
  ASSUME IInv, MainReceive \/ MainReceiveBroadcast, NEW b, b \notin Lost, Loses(b)
  PROVE  Known(b)
<1> DEFINE p == Head(queue).data
           q == Tail(queue)
           e1 == Event("beacon_timer_proc", "ACTIVATE", NULL)
           e2 == Event("report_timer_proc", "ACTIVATE", NULL)
           q1 == Post(q, e1)
           q2 == Post(q1, e2)
           q3 == IF active THEN q ELSE q2
<1>1. PICK ev \in Receipts : Delivers("main_proc", ev)
  BY DEF MainReceive, MainReceiveBroadcast, Receipts
<1>2. QueueOK(q) /\ p \in Blocks
  BY <1>1, Delivered DEF Holding
<1>3. mem' = mem /\ (queue' = NewPacket(q, p) \/ queue' = NewPacket(q3, p))
  BY DEF MainReceive, MainReceiveBroadcast
<1>4. b = p
  <2>1. Kept(mem, q, p)
    BY MainReceiveKept, MainReceiveBroadcastKept
  <2>2. b \notin DOMAIN mem \/ b = p
    BY <1>1, <2>1, DeliveredNotLost
  <2> QED
    BY <1>3, <2>2 DEF Loses
<1>5. e1 \in Events /\ e2 \in Events
  BY EventsTyped DEF Gated
<1> HIDE DEF p, q, e1, e2
<1>6. QueueOK(q1)
  BY <1>2, <1>5, PostTyped
<1> HIDE DEF q1
<1>7. QueueOK(q2)
  BY <1>5, <1>6, PostTyped
<1> HIDE DEF q2
<1>8. QueueOK(q3)
  BY <1>2, <1>7
<1> HIDE DEF q3
<1>9. Len(queue') = NumEvents
  BY <1>2, <1>3, <1>4, <1>8, PostLoses
<1> QED
  BY <1>9 DEF Known

(* An event that carries no packet loses none it was delivered with. *)
LEMMA EmptyNotLost ==
  ASSUME SInv, NEW proc, NEW ev, Delivers(proc, ev), <<proc, ev>> \notin Carriers,
         Kept(mem, Tail(queue), Head(queue).data),
         NEW b, b \notin Lost, Loses(b)
  PROVE  b \notin DOMAIN mem
<1>1. Head(queue).data \notin DOMAIN mem
  BY DeliveredStage
<1> QED
  BY <1>1, DeliveredNotLost DEF SInv

LEMMA MainSendLoses ==
  ASSUME SInv, MainSendBeacon \/ MainSendReport, NEW b, b \notin Lost, Loses(b)
  PROVE  Known(b)
<1> DEFINE q == Tail(queue)
           r == FreeBlock(mem)
<1>1. PICK ev \in {"RF_SEND_BEACON", "RF_SEND_REPORT"} : Delivers("main_proc", ev)
  BY DEF MainSendBeacon, MainSendReport
<1>2. IInv /\ PoolOK(mem) /\ QueueOK(q)
  BY <1>1, DeliveredTyped DEF SInv
<1>3. <<"main_proc", ev>> \notin Carriers
  BY DEF Carriers
<1>4. b \notin DOMAIN mem
  BY <1>1, <1>2, <1>3, MainSendKept, EmptyNotLost
<1>5. \/ mem' = mem
      \/ /\ HasFree(mem)
         /\ \E t \in PacketTypes : mem' = Alloc(mem, r, Created(t))
         /\ queue' \in {UnicastSend(q, r), BroadcastSend(q, r)}
  BY DEF MainSendBeacon, MainSendReport, PacketTypes
<1>6. PICK t \in PacketTypes :
        /\ HasFree(mem) /\ mem' = Alloc(mem, r, Created(t))
        /\ queue' \in {UnicastSend(q, r), BroadcastSend(q, r)}
  BY <1>4, <1>5 DEF Loses
<1>7. r \in Blocks /\ Created(t) \in Packet
  BY <1>6, FreeBlockIsFree, PacketsTyped
<1> HIDE DEF q, r
<1>8. DOMAIN mem' = DOMAIN mem \cup {r}
  BY <1>2, <1>6, <1>7, AllocTyped
<1>9. b = r
  BY <1>4, <1>8 DEF Loses
<1>10. Len(queue') = NumEvents
  BY <1>2, <1>6, <1>7, <1>9, PostLoses
<1> QED
  BY <1>10 DEF Known

LEMMA MainSendDataLoses ==
  ASSUME SInv, MainSendData, NEW b, b \notin Lost, Loses(b)
  PROVE  Known(b)
<1> DEFINE q == Tail(queue)
           p == FreeBlock(mem)
           m == Alloc(mem, p, Created("DATA"))
<1>1. IInv /\ PoolOK(mem) /\ QueueOK(q) /\ Delivers("main_proc", "RF_SEND_DATA")
  BY DeliveredTyped DEF SInv, MainSendData
<1>2. b \notin DOMAIN mem
  BY <1>1, MainSendDataKept, EmptyNotLost DEF Carriers
<1>3. CASE mem' = mem
  BY <1>2, <1>3 DEF Loses
<1>4. CASE HasFree(mem) /\ MatchPacket(m, q, p, FALSE, << >>)
  <2>1. p \in Blocks /\ p \in Refs
    BY <1>4, FreeBlockIsFree, BlocksNotNull
  <2>2. Created("DATA") \in Packet /\ << >> \in Seq(ActionTypes)
    BY PacketsTyped DEF PacketTypes
  <2>3. MatchPacket(m, q, p, FALSE, << >>)
    BY <1>4
  <2> HIDE DEF p, q
  <2>4. PoolOK(m) /\ DOMAIN m = DOMAIN mem \cup {p}
    BY <1>1, <2>1, <2>2, AllocTyped
  <2> HIDE DEF m
  <2>5. CASE b \notin DOMAIN m
    <3>1. Len(queue') = NumEvents
      BY <1>1, <2>1, <2>2, <2>3, <2>4, <2>5, MatchLoses
    <3> QED
      BY <3>1 DEF Known
  <2>6. CASE b = p
    <3>1. Len(queue') = NumEvents \/ << >> \in Rules
      BY <1>1, <2>1, <2>2, <2>3, <2>4, <2>6, MatchLoses
    <3> QED
      BY <1>1, <1>2, <3>1 DEF Known, RuleEnds, Allocated
  <2> QED
    BY <1>2, <2>4, <2>5, <2>6
<1> QED
  BY <1>3, <1>4 DEF MainSendData

(* Matched by the handler. *)
LEMMA HandledMatchLoses ==
  ASSUME IInv, NEW p \in DOMAIN mem, Handles(p),
         mem[p].typ \in {"DATA", "RESPONSE", "OPEN_PATH", "CONFIG"},
         NEW m, PoolOK(m), DOMAIN m = DOMAIN mem, NEW long,
         MatchPacket(m, Tail(queue), p, long, << >>),
         long => mem[p].long \/ Answered(mem[p]),
         NEW b, b \notin DOMAIN mem \/ b = p, Loses(b)
  PROVE  Known(b)
<1>1. QueueOK(Tail(queue)) /\ p \in Refs
  BY DeliveredTyped DEF Handles
<1> DEFINE q == Tail(queue)
           none == << >>
<1>a. QueueOK(q) /\ MatchPacket(m, q, p, long, none) /\ none \in Seq(ActionTypes)
  BY <1>1
<1> HIDE DEF q, none
<1>2. \/ Len(queue') = NumEvents
      \/ b \notin DOMAIN mem /\ long /\ Blocks \ {b} \subseteq DOMAIN mem
      \/ b \in DOMAIN mem /\ b = p /\ << >> \in Rules
  BY <1>1, <1>a, MatchLoses
<1>3. long => AsksLong
  BY DEF AsksLong, Allocated
<1> QED
  BY <1>2, <1>3 DEF Known, LastBlock, RuleEnds, Allocated

LEMMA HandlePacketLoses ==
  ASSUME IInv, HandlePacket, NEW b, b \notin Lost, Loses(b)
  PROVE  Known(b)
<1> DEFINE p == Head(queue).data
           q == Tail(queue)
<1>1. /\ Delivers("packet_handler_proc", "NEW_PACKET")
      /\ PoolOK(mem) /\ QueueOK(q) /\ p \in Blocks /\ p \in DOMAIN mem
  BY DeliveredTyped, Delivered, BlocksNotNull DEF HandlePacket, Receipts, Holding, Own
<1>2. Handles(p)
  BY <1>1 DEF Handles
<1>3. Contents(p) = {mem[p]} /\ mem[p] \in Packet
  BY <1>1 DEF Contents, PoolOK
<1>4. ~ Reboot
  BY DEF Reboot, Loses
<1>5. b \notin DOMAIN mem \/ b = p
  BY <1>1, <1>4, HandlePacketKept, DeliveredNotLost
<1> DEFINE f == mem[p]
<1>6. \/ ~ f.accepted /\ Drop(p, q)
      \/ f.accepted /\ f.typ = "BEACON" /\ HandleBeacon(p, q)
      \/ f.accepted /\ f.typ # "BEACON" /\ f.nxh # "me" /\ Overhear(q)
      \/ /\ f.accepted /\ f.nxh = "me"
         /\ \/ f.typ = "DATA" /\ HandleData(p, q, f)
            \/ f.typ = "RESPONSE" /\ HandleResponse(p, q, f)
            \/ f.typ = "OPEN_PATH" /\ HandleOpenPath(p, q, f)
            \/ f.typ = "CONFIG" /\ HandleConfig(p, q, f)
            \/ /\ f.typ \notin {"DATA", "RESPONSE", "OPEN_PATH", "CONFIG"}
               /\ HandleReport(p, q)
  BY <1>3 DEF HandlePacket
<1>a. q = Tail(queue)
  OBVIOUS
<1> HIDE DEF p, q
<1>7. ~ Drop(p, q)
  <2>1. mem' = Free(mem, p) => DOMAIN mem' = DOMAIN mem \ {p}
    BY <1>1, FreeTyped
  <2> QED
    BY <1>5, <2>1 DEF Drop, Loses
<1>8. ASSUME Send(p, q) PROVE Known(b)
  <2>1. b = p
    BY <1>5, <1>8 DEF Send, Loses
  <2>2. Len(queue') = NumEvents
    BY <1>1, <1>8, <2>1, PostLoses DEF Send
  <2> QED
    BY <2>2 DEF Known
<1>9. ASSUME UNCHANGED mem, Forgets(f) PROVE Known(b)
  <2>1. b = p
    BY <1>5, <1>9 DEF Loses
  <2> QED
    BY <1>2, <1>9, <2>1 DEF Known, Forgotten
<1>10. ASSUME Match(p, q, f), f.typ \in {"DATA", "RESPONSE", "OPEN_PATH", "CONFIG"}
       PROVE  Known(b)
  <2>1. MatchPacket(mem, Tail(queue), p, mem[p].long, << >>)
    BY <1>10, <1>a DEF Match
  <2> QED
    BY <1>1, <1>2, <1>5, <1>10, <2>1, HandledMatchLoses
<1>11. ASSUME HandleConfig(p, q, f), f.typ = "CONFIG" PROVE Known(b)
  <2>1. ASSUME NEW l \in {f.long, TRUE},
               f.dst = "me", f.body \notin {"reset", "write"}, Build # "sink",
               MatchPacket(Rewrite(mem, p, [f EXCEPT !.long = l]), q, p, l, << >>)
        PROVE  Known(b)
    <3> DEFINE g == [f EXCEPT !.long = l]
               m == Rewrite(mem, p, g)
    <3>1. l \in BOOLEAN
      BY <1>3 DEF Packet
    <3>2. g \in Packet
      BY <1>3, <3>1, PacketsTyped
    <3>3. MatchPacket(m, Tail(queue), p, l, << >>)
      BY <2>1, <1>a
    <3> HIDE DEF g
    <3>4. PoolOK(m) /\ DOMAIN m = DOMAIN mem
      BY <1>1, <3>2, RewriteTyped
    <3>5. Answered(mem[p])
      BY <1>11, <2>1 DEF Answered
    <3> HIDE DEF m
    <3> QED
      BY <1>1, <1>2, <1>5, <1>11, <3>3, <3>4, <3>5, HandledMatchLoses
  <2> QED
    BY <1>4, <1>7, <1>10, <1>11, <2>1 DEF HandleConfig
<1>12. ASSUME HandleOpenPath(p, q, f), f.accepted, f.typ = "OPEN_PATH" PROVE Known(b)
  <2>1. CASE f.body \notin {"absent", "inner", "last"} /\ UNCHANGED mem
    BY <1>9, <1>12, <2>1 DEF Forgets
  <2> QED
    BY <1>7, <1>8, <1>10, <1>12, <2>1 DEF HandleOpenPath
<1>13. ASSUME f.accepted, f.typ # "BEACON", f.nxh # "me", Overhear(q) PROVE Known(b)
  <2>1. UNCHANGED mem
    BY <1>13 DEF Overhear
  <2> QED
    BY <1>9, <1>13, <2>1 DEF Forgets
<1>14. HandleReport(p, q) => Known(b)
  BY <1>7, <1>8 DEF HandleReport
<1>15. f.typ \in {"DATA", "RESPONSE"} /\ (HandleData(p, q, f) \/ HandleResponse(p, q, f)) => Known(b)
  BY <1>7, <1>10 DEF HandleData, HandleResponse
<1> HIDE DEF f
<1> QED
  BY <1>6, <1>7, <1>11, <1>12, <1>13, <1>14, <1>15 DEF HandleBeacon

LEMMA RunActionLoses ==
  ASSUME IInv, RunAction, NEW b, b \notin Lost, Loses(b)
  PROVE  Known(b)
<1> DEFINE a == Head(rest)
           as == Tail(rest)
<1>1. /\ PoolOK(mem) /\ QueueOK(queue) /\ cur \in Refs /\ cur # NULL /\ cur \in Blocks
      /\ cur \in DOMAIN mem /\ ~ Idle
      /\ rest \in Seq(ActionTypes) /\ rest # << >>
  BY DEF IInv, TypeOK, SingleOwner, RunAction, Idle, PoolOK, QueueOK, Own, Refs
<1>2. as \in Seq(ActionTypes) /\ Len(as) = Len(rest) - 1 /\ Len(rest) \in Nat
  BY <1>1, HeadTailProperties
<1>3. Contents(cur) = {mem[cur]}
  BY <1>1 DEF Contents
<1>4. b \notin DOMAIN mem \/ b = cur
  BY RunActionKept, LoopNotLost
<1>5. ASSUME mem' = mem \/ \E g \in Packet : mem' = Rewrite(mem, cur, g)
      PROVE  b = cur
  <2>1. DOMAIN mem' = DOMAIN mem
    BY <1>1, <1>5, RewriteTyped
  <2> QED
    BY <1>4, <2>1 DEF Loses
<1>6. b = cur /\ Continue(cur, as) => as = << >>
  BY DEF Continue, Loses
<1>7. ASSUME mem' = mem, queue' \in {UnicastSend(queue, cur), BroadcastSend(queue, cur)}
      PROVE  Known(b)
  <2>1. Len(queue') = NumEvents
    BY <1>1, <1>5, <1>7, PostLoses
  <2> QED
    BY <2>1 DEF Known
<1>8. ASSUME a \in {"FUNCTION", "SET_"}, Continue(cur, as), b = cur
      PROVE  Known(b)
  <2> HIDE DEF as
  <2>1. as = << >>
    BY <1>6, <1>8
  <2>2. Len(rest) = 1
    BY <1>2, <2>1
  <2> QED
    BY <1>8, <2>2 DEF Known, RuleEnds, Consuming
<1>9. ASSUME a = "ASK", CreateAndSendRequest(mem, queue, cur, mem[cur].long), Continue(cur, as)
      PROVE  Known(b)
  <2>1. cur \notin DOMAIN mem'
    BY <1>1, <1>9, RequestKept DEF Continue, Return
  <2>2. b \notin DOMAIN mem
    BY <1>4, <2>1 DEF Loses
  <2>3. Len(queue') = NumEvents \/ (mem[cur].long /\ Blocks \ {b} \subseteq DOMAIN mem)
    BY <1>1, <1>9, <2>2, RequestLoses
  <2> QED
    BY <1>1, <1>9, <2>2, <2>3 DEF Known, LastBlock, AsksLong, Allocated
<1>10. ASSUME a = "MATCH", MatchPacket(mem, queue, cur, mem[cur].long, as)
       PROVE  Known(b)
  <2>1. \/ Len(queue') = NumEvents
        \/ b \notin DOMAIN mem /\ mem[cur].long /\ Blocks \ {b} \subseteq DOMAIN mem
        \/ b \in DOMAIN mem /\ b = cur /\ << >> \in Rules
    BY <1>1, <1>2, <1>4, <1>10, MatchLoses
  <2> QED
    BY <1>1, <1>10, <2>1 DEF Known, LastBlock, AsksLong, RuleEnds, Allocated
<1>11. mem' = Free(mem, cur) => FALSE
  <2>1. mem' = Free(mem, cur) => DOMAIN mem' = DOMAIN mem \ {cur}
    BY <1>1, FreeTyped
  <2> QED
    BY <1>4, <2>1 DEF Loses
<1>12. ASSUME a = "SET_", NEW l \in BOOLEAN, mem' = Rewrite(mem, cur, [mem[cur] EXCEPT !.long = l]),
              Continue(cur, as)
       PROVE  Known(b)
  <2>1. mem[cur] \in Packet
    BY <1>1 DEF PoolOK
  <2>2. [mem[cur] EXCEPT !.long = l] \in Packet
    BY <2>1, PacketsTyped
  <2> QED
    BY <1>5, <1>8, <1>12, <2>2
<1>13. \/ a \in {"FORWARD_U", "FORWARD_B"} /\ mem' = mem
           /\ queue' \in {UnicastSend(queue, cur), BroadcastSend(queue, cur)}
       \/ a = "ASK" /\ CreateAndSendRequest(mem, queue, cur, mem[cur].long) /\ Continue(cur, as)
       \/ a = "MATCH" /\ MatchPacket(mem, queue, cur, mem[cur].long, as)
       \/ a = "FUNCTION" /\ mem' = mem /\ Continue(cur, as)
       \/ a = "SET_" /\ (\E l \in BOOLEAN : mem' = Rewrite(mem, cur, [mem[cur] EXCEPT !.long = l]))
            /\ Continue(cur, as)
       \/ mem' = Free(mem, cur)
  BY <1>3 DEF RunAction
<1> HIDE DEF a, as
<1> QED
  BY <1>5, <1>7, <1>8, <1>9, <1>10, <1>11, <1>12, <1>13

(* The steps that free a packet, or touch none. *)
LEMMA TakenLoses ==
  ASSUME SInv, NEW proc, NEW ev, Delivers(proc, ev), Kept(mem, Tail(queue), Head(queue).data),
         \/ mem' = mem /\ <<proc, ev>> \notin Carriers
         \/ mem' = Free(mem, Head(queue).data),
         NEW b, b \notin Lost
  PROVE  ~ Loses(b)
<1> SUFFICES ASSUME Loses(b) PROVE FALSE
  OBVIOUS
<1>1. IInv /\ PoolOK(mem)
  BY InvFacts DEF SInv
<1>2. CASE mem' = mem /\ <<proc, ev>> \notin Carriers
  BY <1>2, EmptyNotLost DEF Loses
<1>3. CASE mem' = Free(mem, Head(queue).data)
  <2>1. DOMAIN mem' = DOMAIN mem \ {Head(queue).data}
    BY <1>1, <1>3, FreeTyped
  <2>2. b \notin DOMAIN mem \/ b = Head(queue).data
    BY <1>1, DeliveredNotLost
  <2> QED
    BY <2>1, <2>2 DEF Loses
<1> QED
  BY <1>2, <1>3

LEMMA NextLoses ==
  ASSUME SInv, Next, NEW b, b \notin Lost, Loses(b)
  PROVE  Known(b)
<1>0. IInv
  BY DEF SInv
<1>1. CASE Environment
  BY <1>0, <1>1, ReceiveLoses
     DEF Environment, UnicastRxCallback, BroadcastRxCallback, UartRxCallback
<1>2. CASE MainReceive \/ MainReceiveBroadcast
  BY <1>0, <1>2, MainReceiveLoses
<1>3. CASE MainSendBeacon \/ MainSendReport
  BY <1>3, MainSendLoses
<1>4. CASE MainSendData
  BY <1>4, MainSendDataLoses
<1>5. CASE MainTimer
  BY <1>0, <1>5, TakenKept, TakenLoses DEF MainTimer, Carriers
<1>6. CASE HandlePacket \/ RunAction
  BY <1>0, <1>6, HandlePacketLoses, RunActionLoses
<1>7. CASE RfUSend \/ RfBSend
  BY <1>0, <1>7, TakenKept, TakenLoses DEF RfUSend, RfBSend
<1>8. ASSUME NEW t \in TimerProcs, TimerProc(t) \/ Activate(t)
      PROVE  FALSE
  <2>1. PICK ev \in {"PROCESS_EVENT_TIMER", "ACTIVATE"} : Delivers(t, ev)
    BY <1>8 DEF TimerProc, Activate
  <2>2. <<t, ev>> \notin Carriers /\ mem' = mem
    BY <1>8, <2>1 DEF Carriers, TimerProc, Activate
  <2>3. Kept(mem, Tail(queue), Head(queue).data)
    BY <1>0, <1>8, TimerProcKept, TakenKept DEF Activate
  <2> QED
    BY <2>1, <2>2, <2>3, TakenLoses
<1>9. ASSUME NEW t \in TimerProcs, TimerExpires(t)
      PROVE  FALSE
  <2>1. cur = NULL /\ mem' = mem
    BY <1>9 DEF TimerExpires, Idle
  <2>2. b \notin DOMAIN mem \/ b = cur
    BY <1>0, <1>9, <2>1, TimerExpiresKept, LoopNotLost
  <2>3. NULL \notin DOMAIN mem
    BY InvFacts
  <2> QED
    BY <2>1, <2>2, <2>3 DEF Loses
<1> QED
  BY <1>1, <1>2, <1>3, <1>4, <1>5, <1>6, <1>7, <1>8, <1>9 DEF Next, Step, Main, Timers

(***************************************************************************)
(* Leaks: a block is lost by no step but those LeakOnlyKnown names, in any *)
(* environment, with any well-formed rules, pool and queue.                *)
(***************************************************************************)
THEOREM LeaksAreKnown == WellFormedRules => (Spec => LeakOnlyKnown)
<1> SUFFICES ASSUME WellFormedRules PROVE Spec => LeakOnlyKnown
  OBVIOUS
<1> DEFINE A == \A b \in Lost' \ Lost :
                  \/ Len(queue') = NumEvents
                  \/ Forgotten(b)
                  \/ LastBlock(b)
                  \/ RuleEnds(b)
<1>1. SInv /\ SInv' /\ [Next]_vars => [A]_vars
  <2> SUFFICES ASSUME SInv, SInv', Next, NEW b \in Lost', b \notin Lost PROVE Known(b)
    BY DEF Known
  <2>1. PoolOK(mem')
    BY DEF SInv, IInv, TypeOK, PoolOK
  <2>2. Loses(b)
    BY <2>1, LostMeans DEF Lost, Allocated, Referenced, Loses
  <2> QED
    BY <2>2, NextLoses
<1>2. SInv /\ [Next]_vars => SInv'
  BY NextSInv
<1> QED
  BY InitSInv, <1>1, <1>2, PTL DEF Spec, LeakOnlyKnown
-----------------------------------------------------------------------------
(* Where the packets that come are clean and the rules give theirs away, what *)
(* waits to be handled is one of them, and the actions still to run end by    *)
(* giving the packet away.                                                    *)
Clean ==
  /\ \A e \in Entries(queue) : e.ev \in Receipts => mem[e.data] \in Frames
  /\ ~ Idle => GivesAway(rest, mem[cur].long)

LEMMA GivesAwayTail ==
  ASSUME NEW as \in Seq(ActionTypes), NEW long, GivesAway(as, long), Head(as) \notin Consuming
  PROVE  /\ GivesAway(Tail(as), long)
         /\ Head(as) = "SET_" => \A l : GivesAway(Tail(as), l)
<1> DEFINE t == Tail(as)
           n == Len(as)
<1>0. as # << >> /\ as[n] \in Consuming
  BY DEF GivesAway
<1>1. /\ t \in Seq(ActionTypes) /\ Len(t) = n - 1 /\ Head(as) = as[1]
      /\ \A i \in 1 .. Len(t) : t[i] = as[i + 1]
  <2>1. as # << >>
    BY <1>0
  <2>2. Head(as) = as[1]
    BY <2>1
  <2>3. /\ t \in Seq(ActionTypes) /\ Len(t) = n - 1
        /\ \A i \in 1 .. Len(t) : t[i] = as[i + 1]
    BY <2>1, HeadTailProperties
  <2> QED
    BY <2>2, <2>3
<1>2. n \in Nat /\ n # 0 /\ n # 1
  BY <1>0, <1>1, EmptySeq
<1> HIDE DEF t, n
<1>3. Len(t) \in Nat /\ Len(t) # 0
  <2>1. n - 1 \in Nat /\ n - 1 # 0
    BY <1>2
  <2> QED
    BY <1>1, <2>1
<1>4. /\ n - 1 \in 1 .. (n - 1) /\ (n - 1) + 1 = n /\ 1 \in 1 .. n
      /\ \A i \in 1 .. (n - 1) : i + 1 \in 1 .. n
  BY <1>1, <1>2
<1>5. t # << >> /\ t[Len(t)] = as[n]
  BY <1>1, <1>3, <1>4, EmptySeq
<1>6. ASSUME as[n] \in {"ASK", "MATCH"}
      PROVE  ~ long /\ Head(as) # "SET_" /\ \A i \in 1 .. Len(t) : t[i] # "SET_"
  <2>1. ~ long /\ \A i \in 1 .. n : as[i] # "SET_"
    BY <1>6 DEF GivesAway, n
  <2>2. \A i \in 1 .. Len(t) : t[i] = as[i + 1] /\ i + 1 \in 1 .. n
    BY <1>1, <1>4
  <2> QED
    BY <1>1, <1>4, <2>1, <2>2
<1>7. GivesAway(t, long)
  BY <1>0, <1>5, <1>6 DEF GivesAway
<1>8. ASSUME Head(as) = "SET_", NEW l PROVE GivesAway(t, l)
  BY <1>0, <1>5, <1>6, <1>8 DEF GivesAway
<1> QED
  BY <1>7, <1>8 DEF t

(* What the step leaves alone is still clean, and what it adds must be. *)
LEMMA ReceiptsKept ==
  ASSUME SInv, Clean, NEW q, NEW p, Kept(mem, q, p), Entries(q) \subseteq Entries(queue),
         p \in Blocks => Carry(q, p) = {},
         \A e \in Entries(queue') \ Entries(q) : e.ev \in Receipts => mem'[e.data] \in Frames,
         cur' # NULL => GivesAway(rest', mem'[cur'].long)
  PROVE  Clean'
<1>1. ASSUME NEW e \in Entries(queue'), e.ev \in Receipts
      PROVE  mem'[e.data] \in Frames
  <2>1. CASE e \notin Entries(q)
    BY <1>1, <2>1
  <2>2. CASE e \in Entries(q)
    <3>1. e \in Entries(queue) /\ mem[e.data] \in Frames
      BY <1>1, <2>2 DEF Clean
    <3>2. e.data \in DOMAIN mem /\ e.data \in Blocks
      <4>1. PICK i \in DOMAIN queue : queue[i] = e
        BY <3>1 DEF Entries
      <4>2. e \in Events
        BY <4>1, TypeFacts DEF SInv
      <4>3. e.data # NULL
        BY <1>1, <4>2 DEF Events
      <4>4. e.data \in DOMAIN mem \cup {NULL}
        BY <4>1, InvFacts DEF Own, Pointers
      <4> QED
        BY <4>3, <4>4, InvFacts
    <3>3. e.data # p
      BY <2>2, <3>2 DEF Carry
    <3> QED
      BY <3>1, <3>2, <3>3 DEF Kept
  <2> QED
    BY <2>1, <2>2
<1>2. \A e \in Entries(queue)' : e.ev \in Receipts => mem'[e.data] \in Frames
  BY <1>1 DEF Entries
<1> QED
  BY <1>2 DEF Clean, Idle

LEMMA DeliveredClean ==
  ASSUME SInv, Clean, NEW proc, NEW ev, Delivers(proc, ev),
         Kept(mem, Tail(queue), Head(queue).data),
         \A e \in Entries(queue') \ Entries(Tail(queue)) :
           e.ev \in Receipts => mem'[e.data] \in Frames,
         cur' # NULL => GivesAway(rest', mem'[cur'].long)
  PROVE  Clean'
<1>1. IInv /\ QueueOK(queue) /\ queue # << >>
  BY TypeFacts DEF SInv, Delivers
<1>2. Entries(Tail(queue)) \subseteq Entries(queue)
  BY <1>1, EntriesTail
<1>3. Own(mem, Tail(queue), Head(queue).data)
  BY <1>1, Delivered DEF Holding
<1>4. Head(queue).data \in Blocks => Carry(Tail(queue), Head(queue).data) = {}
  BY <1>3, BlocksNotNull, HolderCarriesNone
<1> QED
  BY <1>2, <1>4, ReceiptsKept

(* A match of a packet that is not long. *)
LEMMA MatchClean ==
  ASSUME CleanRules, NEW m, NEW q, NEW p, NEW long, ~ m[p].long, MatchPacket(m, q, p, long, << >>)
  PROVE  cur' # NULL => GivesAway(rest', mem'[cur'].long)
<1>1. ASSUME NEW as \in Rules, Continue(p, as \o << >>), mem' = m
      PROVE  cur' # NULL => GivesAway(rest', mem'[cur'].long)
  <2>1. as \o << >> = as /\ GivesAway(as, FALSE)
    BY NodeAssumption, ConcatEmptySeq DEF CleanRules
  <2>2. cur' = p /\ rest' = as
    BY <1>1, <2>1 DEF Continue, GivesAway
  <2> QED
    BY <1>1, <2>1, <2>2 DEF GivesAway
<1>2. ASSUME Continue(p, << >>) PROVE cur' = NULL
  BY <1>2 DEF Continue, Return
<1> QED
  BY <1>1, <1>2 DEF MatchPacket

LEMMA ReceiveClean ==
  ASSUME SInv, Clean, NEW ev \in {"RF_U_RECEIVE", "RF_B_RECEIVE", "UART_RECEIVE"},
         NEW f \in Frames, Receive(ev, f)
  PROVE  Clean'
<1> DEFINE p == FreeBlock(mem)
           e == Event("main_proc", ev, p)
<1>1. IInv /\ QueueOK(queue) /\ cur' = NULL
  BY TypeFacts DEF SInv, Receive, Idle
<1>2. p \in Blocks /\ e \in Events /\ e.data = p
  BY FreeBlockIsFree, EventsTyped DEF Receive, Event
<1>3. mem' = Alloc(mem, p, f) /\ queue' = Post(queue, e)
  BY DEF Receive
<1>4. Kept(mem, queue, NULL)
  BY <1>1, ReceiveKept
<1> HIDE DEF p, e
<1>5. mem'[p] = f
  BY <1>3 DEF Alloc
<1>6. Entries(queue') \subseteq Entries(queue) \cup {e}
  BY <1>1, <1>2, <1>3, EntriesPost
<1>7. \A d \in Entries(queue') \ Entries(queue) : mem'[d.data] \in Frames
  BY <1>2, <1>5, <1>6
<1> QED
  BY <1>1, <1>4, <1>7, BlocksNotNull, ReceiptsKept

LEMMA MainReceiveClean ==
  ASSUME SInv, Clean, MainReceive \/ MainReceiveBroadcast
  PROVE  Clean'
<1> DEFINE p == Head(queue).data
           q == Tail(queue)
           e1 == Event("beacon_timer_proc", "ACTIVATE", NULL)
           e2 == Event("report_timer_proc", "ACTIVATE", NULL)
           q1 == Post(q, e1)
           q2 == Post(q1, e2)
           q3 == IF active THEN q ELSE q2
<1>1. PICK ev \in Receipts : Delivers("main_proc", ev)
  BY DEF MainReceive, MainReceiveBroadcast, Receipts
<1>2. IInv /\ QueueOK(q) /\ p \in Blocks /\ cur = NULL
  BY <1>1, DeliveredTyped, Delivered DEF SInv
<1>3. mem' = mem /\ cur' = cur /\ (queue' = NewPacket(q, p) \/ queue' = NewPacket(q3, p))
  BY DEF MainReceive, MainReceiveBroadcast
<1>4. Kept(mem, q, p)
  BY <1>2, MainReceiveKept, MainReceiveBroadcastKept
<1>5. mem[p] \in Frames
  <2>1. queue # << >> /\ Head(queue).ev = ev
    BY <1>1 DEF Delivers
  <2>2. Head(queue) \in Entries(queue)
    BY <1>2, <2>1, TypeFacts, EntriesTail
  <2> QED
    BY <1>1, <2>1, <2>2 DEF Clean
<1>6. e1 \in Events /\ e1.ev \notin Receipts /\ e2 \in Events /\ e2.ev \notin Receipts
  BY EventsTyped DEF Event, Gated, Receipts
<1>a. q = Tail(queue) /\ p = Head(queue).data
  OBVIOUS
<1> HIDE DEF p, q, e1, e2
<1>7. QueueOK(q1) /\ \A e \in Entries(q1) \ Entries(q) : e.ev \notin Receipts
  BY <1>2, <1>6, PostTyped, EntriesPost
<1> HIDE DEF q1
<1>8. QueueOK(q2) /\ \A e \in Entries(q2) \ Entries(q1) : e.ev \notin Receipts
  BY <1>6, <1>7, PostTyped, EntriesPost
<1> HIDE DEF q2
<1>9. QueueOK(q3) /\ \A e \in Entries(q3) \ Entries(q) : e.ev \notin Receipts
  BY <1>2, <1>7, <1>8
<1> HIDE DEF q3
<1>10. \A e \in Entries(queue') \ Entries(q) : e.ev \in Receipts => e.data = p
  BY <1>2, <1>3, <1>9, EntriesNewPacket
<1>11. \A e \in Entries(queue') \ Entries(q) : e.ev \in Receipts => mem'[e.data] \in Frames
  BY <1>3, <1>5, <1>10
<1> QED
  BY <1>1, <1>2, <1>3, <1>4, <1>11, <1>a, DeliveredClean

(* The steps of a process that give no one a packet to receive. *)
LEMMA SentClean ==
  ASSUME SInv, Clean, NEW proc, NEW ev, Delivers(proc, ev),
         Kept(mem, Tail(queue), Head(queue).data), NoReceipts(Tail(queue)),
         cur' # NULL => GivesAway(rest', mem'[cur'].long)
  PROVE  Clean'
  BY DeliveredClean DEF NoReceipts

LEMMA MainSendDataClean ==
  ASSUME CleanRules, SInv, Clean, MainSendData
  PROVE  Clean'
<1> DEFINE p == FreeBlock(mem)
           m == Alloc(mem, p, Created("DATA"))
<1>1. IInv /\ cur = NULL /\ Delivers("main_proc", "RF_SEND_DATA")
  BY DEF SInv, MainSendData, Delivers, Idle
<1>2. cur' # NULL => GivesAway(rest', mem'[cur'].long)
  <2>1. CASE MatchPacket(m, Tail(queue), p, FALSE, << >>)
    <3>1. ~ m[p].long
      BY DEF Alloc, Created
    <3> HIDE DEF m, p
    <3> QED
      BY <2>1, <3>1, MatchClean
  <2>2. CASE cur' = cur
    BY <1>1, <2>2
  <2> QED
    BY <2>1, <2>2 DEF MainSendData
<1> QED
  BY <1>1, <1>2, MainSendDataKept, SentClean

LEMMA HandledIsClean ==
  ASSUME SInv, Clean, NEW b, Handles(b)
  PROVE  mem[b] \in Frames /\ b \in DOMAIN mem /\ b = Head(queue).data
<1>1. queue # << >> /\ Head(queue).ev = "NEW_PACKET" /\ b = Head(queue).data /\ cur = NULL
  BY DEF Handles, Delivers, Idle
<1>2. Head(queue) \in Entries(queue)
  BY <1>1, TypeFacts, EntriesTail DEF SInv
<1>3. b \in Blocks /\ b \in DOMAIN mem
  <2>1. Own(mem, Tail(queue), b) /\ b \in Blocks
    BY <1>1, Delivered DEF SInv, Handles, Holding, Receipts
  <2> QED
    BY <2>1, BlocksNotNull DEF Own
<1> QED
  BY <1>1, <1>2, <1>3 DEF Clean, Receipts

LEMMA HandlePacketClean ==
  ASSUME CleanFrames, CleanRules, SInv, Clean, HandlePacket
  PROVE  Clean'
<1> DEFINE p == Head(queue).data
           q == Tail(queue)
<1>1. Handles(p) /\ IInv /\ Delivers("packet_handler_proc", "NEW_PACKET")
  BY DEF Handles, HandlePacket, SInv
<1>2. p \in DOMAIN mem /\ mem[p] \in Frames
  BY <1>1, HandledIsClean
<1>3. Contents(p) = {mem[p]} /\ ~ mem[p].long /\ ~ Answered(mem[p])
  BY <1>2 DEF Contents, CleanFrames
<1>4. CASE Reboot
  <2>1. queue' = << >> /\ cur' = NULL /\ DOMAIN << >> = {}
    BY <1>4 DEF Reboot
  <2> QED
    BY <2>1 DEF Clean, Entries, Idle
<1>5. CASE ~ Reboot
  <2> HIDE DEF p, q
  <2>1. ASSUME Match(p, q, mem[p]) PROVE cur' # NULL => GivesAway(rest', mem'[cur'].long)
    BY <1>3, <2>1, MatchClean DEF Match
  <2>2. cur' = NULL \/ Match(p, q, mem[p])
    <3>1. PICK f \in Contents(p) :
            \/ Drop(p, q) \/ HandleBeacon(p, q) \/ Overhear(q)
            \/ HandleData(p, q, f) \/ HandleResponse(p, q, f) \/ HandleOpenPath(p, q, f)
            \/ f.typ = "CONFIG" /\ HandleConfig(p, q, f)
            \/ HandleReport(p, q)
      BY DEF HandlePacket, p, q
    <3>2. f = mem[p]
      BY <1>3
    <3>3. \/ Drop(p, q) \/ HandleBeacon(p, q) \/ Overhear(q) \/ HandleReport(p, q) => cur' = NULL
      BY DEF Drop, HandleBeacon, Overhear, HandleReport, Send, Return
    <3>4. HandleData(p, q, f) \/ HandleResponse(p, q, f) => cur' = NULL \/ Match(p, q, f)
      BY DEF HandleData, HandleResponse, Drop, Return
    <3>5. HandleOpenPath(p, q, f) => cur' = NULL \/ Match(p, q, f)
      BY DEF HandleOpenPath, Drop, Send, Return
    <3>6. f.typ = "CONFIG" /\ HandleConfig(p, q, f) => cur' = NULL \/ Match(p, q, f)
      <4>1. f.typ = "CONFIG" /\ f.dst = "me" /\ f.body \notin {"reset", "write"} => Build = "sink"
        BY <1>3, <3>2 DEF Answered
      <4> QED
        BY <1>5, <4>1 DEF HandleConfig, Drop, Return
    <3> QED
      BY <3>1, <3>2, <3>3, <3>4, <3>5, <3>6
  <2>3. Kept(mem, Tail(queue), Head(queue).data) /\ NoReceipts(Tail(queue))
    BY <1>1, <1>5, HandlePacketKept
  <2> QED
    BY <1>1, <2>1, <2>2, <2>3, SentClean
<1> QED
  BY <1>4, <1>5

(* In the loop, the action that gives the packet away is the only one left. *)
LEMMA LoopFacts ==
  ASSUME SInv, Clean, ~ Idle
  PROVE  /\ cur \in DOMAIN mem /\ rest \in Seq(ActionTypes) /\ rest # << >>
         /\ GivesAway(rest, mem[cur].long)
         /\ Head(rest) \in Consuming => Tail(rest) = << >>
         /\ Head(rest) \in {"ASK", "MATCH"} => ~ mem[cur].long
<1>1. cur \in DOMAIN mem /\ rest \in Seq(ActionTypes) /\ rest # << >>
  BY InvFacts DEF SInv, IInv, TypeOK, Idle, Own
<1>2. GivesAway(rest, mem[cur].long)
  BY DEF Clean
<1>3. Head(rest) \in Consuming => Tail(rest) = << >>
  BY <1>1, LastConsumes DEF SInv, IInv, RestOK
<1>4. ASSUME Head(rest) \in {"ASK", "MATCH"} PROVE ~ mem[cur].long
  <2>1. Tail(rest) = << >>
    BY <1>3, <1>4 DEF Consuming
  <2>2. Len(Tail(rest)) = Len(rest) - 1 /\ Head(rest) = rest[1] /\ Len(rest) \in Nat
    BY <1>1, HeadTailProperties
  <2>3. Len(rest) = 1
    <3>1. Tail(rest) \in Seq(ActionTypes)
      BY <1>1, HeadTailProperties
    <3>2. Len(Tail(rest)) = 0
      BY <2>1, <3>1, EmptySeq
    <3> QED
      BY <2>2, <3>2
  <2>4. rest[Len(rest)] = Head(rest)
    BY <2>2, <2>3
  <2> QED
    BY <1>2, <1>4, <2>4 DEF GivesAway
<1> QED
  BY <1>1, <1>2, <1>3, <1>4

LEMMA RunActionClean ==
  ASSUME CleanRules, SInv, Clean, RunAction
  PROVE  Clean'
<1> DEFINE a == Head(rest)
           as == Tail(rest)
<1>1. IInv /\ ~ Idle /\ cur # NULL /\ Kept(mem, queue, cur) /\ NoReceipts(queue)
  BY RunActionKept DEF SInv, RunAction, Idle
<1>2. /\ cur \in DOMAIN mem /\ rest \in Seq(ActionTypes) /\ rest # << >>
      /\ GivesAway(rest, mem[cur].long)
      /\ a \in Consuming => as = << >>
      /\ a \in {"ASK", "MATCH"} => ~ mem[cur].long
  BY <1>1, LoopFacts
<1>3. ASSUME a \in Consuming, Continue(cur, as) PROVE cur' = NULL
  BY <1>2, <1>3 DEF Continue, Return
<1>4. ASSUME a = "MATCH", NEW long, MatchPacket(mem, queue, cur, long, as)
      PROVE  cur' # NULL => GivesAway(rest', mem'[cur'].long)
  <2>1. as = << >> /\ ~ mem[cur].long
    BY <1>2, <1>4 DEF Consuming
  <2> QED
    BY <1>4, <2>1, MatchClean
<1>5. ASSUME a = "FUNCTION", mem' = mem, Continue(cur, as)
      PROVE  cur' # NULL => GivesAway(rest', mem'[cur'].long)
  <2>1. GivesAway(as, mem[cur].long)
    BY <1>2, <1>5, GivesAwayTail DEF Consuming
  <2>2. cur' # NULL => cur' = cur /\ rest' = as
    BY <1>5 DEF Continue, Return
  <2> QED
    BY <1>5, <2>1, <2>2
<1>6. ASSUME a = "SET_", Continue(cur, as)
      PROVE  cur' # NULL => GivesAway(rest', mem'[cur'].long)
  <2>1. \A l : GivesAway(as, l)
    BY <1>2, <1>6, GivesAwayTail DEF Consuming
  <2>2. cur' # NULL => cur' = cur /\ rest' = as
    BY <1>6 DEF Continue, Return
  <2> QED
    BY <2>1, <2>2
<1>7. \/ a \in Consuming /\ Continue(cur, as)
      \/ a = "MATCH" /\ \E long : MatchPacket(mem, queue, cur, long, as)
      \/ a = "FUNCTION" /\ mem' = mem /\ Continue(cur, as)
      \/ a = "SET_" /\ Continue(cur, as)
  BY DEF RunAction, Consuming
<1>8. cur' # NULL => GivesAway(rest', mem'[cur'].long)
  <2> HIDE DEF a, as
  <2> QED
    BY <1>3, <1>4, <1>5, <1>6, <1>7
<1>9. cur \in Blocks => Carry(queue, cur) = {}
  BY <1>1, InvFacts, HolderCarriesNone
<1> QED
  BY <1>1, <1>8, <1>9, ReceiptsKept DEF NoReceipts

LEMMA InitClean == Init => Clean
<1> SUFFICES ASSUME Init PROVE Clean
  OBVIOUS
<1>1. queue = << >> /\ cur = NULL /\ DOMAIN << >> = {}
  BY DEF Init
<1> QED
  BY <1>1 DEF Clean, Entries, Idle

LEMMA NextClean ==
  ASSUME CleanFrames, CleanRules, SInv, Clean, [Next]_vars
  PROVE  Clean'
<1>0. IInv
  BY DEF SInv
<1>1. CASE Environment
  BY <1>1, ReceiveClean DEF Environment, UnicastRxCallback, BroadcastRxCallback, UartRxCallback
<1>2. CASE MainReceive \/ MainReceiveBroadcast
  BY <1>2, MainReceiveClean
<1>3. CASE MainSendBeacon \/ MainSendReport
  <2>1. cur' = NULL /\ \E ev : Delivers("main_proc", ev)
    BY <1>3 DEF MainSendBeacon, MainSendReport, Delivers, Idle
  <2> QED
    BY <1>0, <1>3, <2>1, MainSendKept, SentClean
<1>4. CASE MainSendData
  BY <1>4, MainSendDataClean
<1>5. CASE MainTimer \/ RfUSend \/ RfBSend
  <2>1. cur' = NULL /\ \E proc, ev : Delivers(proc, ev)
    BY <1>5 DEF MainTimer, RfUSend, RfBSend, Delivers, Idle
  <2>2. Kept(mem, Tail(queue), Head(queue).data) /\ NoReceipts(Tail(queue))
    BY <1>0, <1>5, TakenKept DEF MainTimer, RfUSend, RfBSend
  <2> QED
    BY <2>1, <2>2, SentClean
<1>6. CASE HandlePacket
  BY <1>6, HandlePacketClean
<1>7. CASE RunAction
  BY <1>7, RunActionClean
<1>8. ASSUME NEW t \in TimerProcs, TimerProc(t) \/ Activate(t)
      PROVE  Clean'
  <2>1. cur' = NULL /\ \E ev : Delivers(t, ev)
    BY <1>8 DEF TimerProc, Activate, Delivers, Idle
  <2>2. Kept(mem, Tail(queue), Head(queue).data) /\ NoReceipts(Tail(queue))
    BY <1>0, <1>8, TimerProcKept, TakenKept DEF Activate
  <2> QED
    BY <2>1, <2>2, SentClean
<1>9. ASSUME NEW t \in TimerProcs, TimerExpires(t)
      PROVE  Clean'
  <2>1. cur' = NULL
    BY <1>9 DEF TimerExpires, Idle
  <2> QED
    BY <1>0, <1>9, <2>1, TimerExpiresKept, BlocksNotNull, ReceiptsKept DEF NoReceipts
<1>10. CASE UNCHANGED vars
  BY <1>10 DEF vars, Clean, Entries, Idle
<1> QED
  BY <1>1, <1>2, <1>3, <1>4, <1>5, <1>6, <1>7, <1>8, <1>9, <1>10 DEF Next, Step, Main, Timers

(* None of the reasons LeakOnlyKnown names can come up. *)
LEMMA NoneKnown ==
  ASSUME CleanFrames, CleanRules, NumEvents > QueueNeed, SInv, SInv', Clean, NEW b
  PROVE  ~ Known(b)
<1>1. Len(queue') # NumEvents
  <2>1. Own(mem', queue', cur') /\ queue' \in Seq(Events) /\ Schedule(queue', timer', active')
    BY DEF SInv, IInv, SingleOwner, TypeOK, Sched
  <2>2. Len(queue') <= QueueNeed
    BY <2>1, ScheduledFits
  <2>3. Len(queue') \in Nat /\ QueueNeed \in Nat /\ NumEvents \in Nat
    BY <2>1, KeysCounted, NodeAssumption
  <2> QED
    BY <2>2, <2>3
<1>2. \A c : Handles(c) => ~ Forgets(mem[c]) /\ ~ mem[c].long /\ ~ Answered(mem[c])
  BY HandledIsClean DEF CleanFrames
<1>3. ~ Forgotten(b)
  BY <1>2 DEF Forgotten
<1>4. ~ LastBlock(b)
  BY <1>2, LoopFacts DEF LastBlock, AsksLong
<1>5. << >> \notin Rules
  BY DEF CleanRules, GivesAway
<1>6. ~ (Len(rest) = 1 /\ Head(rest) \notin Consuming)
  <2> SUFFICES ASSUME Len(rest) = 1, Head(rest) \notin Consuming PROVE FALSE
    OBVIOUS
  <2>1. ~ Idle
    <3>1. Len(<< >>) = 0 /\ (Idle => rest = << >>)
      BY DEF SInv, IInv, TypeOK
    <3> QED
      BY <3>1
  <2>2. rest # << >> /\ GivesAway(rest, mem[cur].long)
    BY <2>1, LoopFacts
  <2>3. Head(rest) = rest[1]
    BY <2>2, HeadTailProperties DEF SInv, IInv, TypeOK
  <2> QED
    BY <2>2, <2>3 DEF GivesAway
<1>7. ~ RuleEnds(b)
  BY <1>5, <1>6 DEF RuleEnds
<1> QED
  BY <1>1, <1>3, <1>4, <1>7 DEF Known

(***************************************************************************)
(* No leak: where the packets that come are clean, the rules give theirs   *)
(* away and the queue has a slot more than it can need, no block is ever   *)
(* lost, whatever the order of frames, timers and events.                  *)
(***************************************************************************)
THEOREM NothingLost ==
  WellFormedRules /\ CleanFrames /\ CleanRules /\ NumEvents > QueueNeed => (Spec => []NoLeak)
<1> SUFFICES ASSUME WellFormedRules, CleanFrames, CleanRules, NumEvents > QueueNeed
             PROVE  Spec => []NoLeak
  OBVIOUS
<1> DEFINE Inv == SInv /\ Clean /\ NoLeak
<1>1. Init => Inv
  <2>1. Init => NoLeak
    BY DEF Init, NoLeak, Lost, Allocated
  <2> QED
    BY <2>1, InitSInv, InitClean
<1>2. Inv /\ [Next]_vars => Inv'
  <2> SUFFICES ASSUME SInv, Clean, NoLeak, [Next]_vars PROVE SInv' /\ Clean' /\ NoLeak'
    OBVIOUS
  <2>1. SInv'
    BY NextSInv
  <2>2. Clean'
    BY NextClean
  <2>3. CASE Next
    <3>1. ASSUME NEW b \in Lost' PROVE FALSE
      <4>1. PoolOK(mem')
        BY <2>1 DEF SInv, IInv, TypeOK, PoolOK
      <4>2. Loses(b)
        BY <3>1, <4>1, LostMeans DEF Lost, Allocated, Referenced, Loses
      <4>3. Known(b)
        BY <2>3, <4>2, NextLoses DEF NoLeak
      <4> QED
        BY <2>1, <4>3, NoneKnown
    <3> QED
      BY <2>1, <2>2, <3>1 DEF NoLeak
  <2>4. CASE UNCHANGED vars
    BY <2>1, <2>2, <2>4 DEF vars, NoLeak, Lost, Allocated, Referenced, Pointers
  <2> QED
    BY <2>3, <2>4
<1> QED
  BY <1>1, <1>2, PTL DEF Spec
=============================================================================
