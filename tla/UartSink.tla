------------------------------ MODULE UartSink ------------------------------
(***************************************************************************)
(* A sink and its UART (sdn-wise.c, packet-buffer.c): frames from the       *)
(* controller are assembled byte by byte in an interrupt, which may come    *)
(* between any two statements of the processes.                            *)
(*                                                                         *)
(* SdnNode lets every callback run between two events; here the sink's      *)
(* send process is cut where that matters, between the two statements that  *)
(* free a packet it prints.  memb_alloc and process_post are single steps;  *)
(* the event queue is as long as it has to be.                             *)
(***************************************************************************)
EXTENDS Naturals, Sequences, FiniteSets

CONSTANTS
  NumPackets,   \* blocks of packets_memb (4 in the code)
  BufferSize,   \* UART_BUFFER_SIZE (116)
  Bytes,        \* the values a byte may have
  Frames        \* what the controller sends: sequences of bytes

VARIABLES
  buffer,       \* uart_buffer up to uart_buffer_index
  expected,     \* uart_buffer_expected
  overrun,      \* a byte was written behind the buffer: nothing is claimed then
  frame,        \* the frame the controller is sending
  left,         \* how many of its bytes are still to be sent
  strayed,      \* history: a byte of the frame was lost or came from nowhere,
                \* or the frame began when the sink was waiting for other bytes
  whole,        \* history: the frame assembled last was the one being sent
  mem,          \* the contents of every allocated block
  inbox,        \* received blocks with what was received, until they are handled
  outbox,       \* blocks posted to rf_u_send_proc; own: for the sink itself
  printed,      \* the block print_packet_uart has freed, until it is freed again
  misfreed      \* history: the second free hit a block that was taken in between;
                \* nothing is claimed then, either

uart == <<buffer, expected, overrun, whole>>
line == <<frame, left, strayed>>
pool == <<mem, inbox, outbox, printed, misfreed>>
vars == <<uart, line, pool>>
-----------------------------------------------------------------------------
NULL == 0
LEN_INDEX == 1
Blocks == 1 .. NumPackets
Report == << >>         \* a packet the sink creates

ASSUME UartAssumption ==
  /\ NumPackets \in Nat
  /\ BufferSize \in Nat /\ BufferSize > LEN_INDEX
  /\ Bytes \subseteq Nat
  /\ Frames \subseteq Seq(Bytes) /\ Frames # {}
  /\ \A f \in Frames : Len(f) \in LEN_INDEX + 1 .. BufferSize /\ f[LEN_INDEX + 1] = Len(f)

Allocated == DOMAIN mem

HasFree == ~ (Blocks \subseteq Allocated)

FreeBlock == CHOOSE b \in Blocks : b \notin Allocated

Alloc(p, f) == [b \in Allocated \cup {p} |-> IF b = p THEN f ELSE mem[b]]

Free(p) == [b \in Allocated \ {p} |-> mem[b]]

(* get_packet_from_array and the post to main_proc, from either callback. *)
Receive(f) ==
  IF HasFree
    THEN /\ mem' = Alloc(FreeBlock, f)
         /\ inbox' = Append(inbox, [block |-> FreeBlock, frame |-> f])
         /\ UNCHANGED <<outbox, printed, misfreed>>
    ELSE UNCHANGED pool
-----------------------------------------------------------------------------
(* The interrupt. *)

index == Len(buffer)

(* Mutant: the frame is taken for complete one byte late. *)
CallbackLate(c) ==
  IF index >= BufferSize
    THEN overrun' = TRUE /\ UNCHANGED <<buffer, expected, whole, pool>>
    ELSE LET read == Append(buffer, c)
             exp  == IF index = LEN_INDEX THEN c ELSE expected
         IN  /\ overrun' = overrun
             /\ IF index = exp
                  THEN /\ buffer' = << >> /\ expected' = 0
                       /\ whole' = (read = frame)
                       /\ Receive(read)
                  ELSE /\ buffer' = read /\ expected' = exp
                       /\ UNCHANGED <<whole, pool>>

(* uart_rx_callback(c).  The index, a byte, would be past the buffer long    *)
(* before it wraps.                                                         *)
UartRxCallback(c) ==
  IF index >= BufferSize
    THEN overrun' = TRUE /\ UNCHANGED <<buffer, expected, whole, pool>>
    ELSE LET read == Append(buffer, c)
             exp  == IF index = LEN_INDEX THEN c ELSE expected
         IN  /\ overrun' = overrun
             /\ IF index + 1 = exp
                  THEN /\ buffer' = << >> /\ expected' = 0
                       /\ whole' = (read = frame)
                       /\ Receive(read)
                  ELSE /\ buffer' = read /\ expected' = exp
                       /\ UNCHANGED <<whole, pool>>

(* The controller's side of the line. *)
StartFrame(f) ==
  /\ left = 0
  /\ frame' = f /\ left' = Len(f)
  /\ strayed' = (index # 0)
  /\ UNCHANGED <<uart, pool>>

ByteArrives ==
  /\ left > 0
  /\ UartRxCallback(frame[Len(frame) - left + 1])
  /\ left' = left - 1
  /\ UNCHANGED <<frame, strayed>>

ByteLost ==
  /\ left > 0
  /\ left' = left - 1
  /\ strayed' = TRUE
  /\ UNCHANGED <<frame, uart, pool>>

(* Noise, in a frame or between two. *)
SpuriousByte(c) ==
  /\ UartRxCallback(c)
  /\ strayed' = TRUE
  /\ UNCHANGED <<frame, left>>
-----------------------------------------------------------------------------
(* The processes, none of which interrupts another. *)

Idle == printed = NULL

RadioRxCallback ==
  /\ Idle
  /\ Receive(Report)
  /\ UNCHANGED <<uart, line>>

(* A packet is handled and freed: main_proc, packet_handler_proc. *)
HandleAndFree ==
  /\ Idle /\ inbox # << >>
  /\ mem' = Free(Head(inbox).block)
  /\ inbox' = Tail(inbox)
  /\ UNCHANGED <<uart, line, outbox, printed, misfreed>>

(* Mutant: a forwarded packet is freed like one that was handled. *)
ForwardAndFree ==
  /\ Idle /\ inbox # << >>
  /\ mem' = Free(Head(inbox).block)
  /\ inbox' = Tail(inbox)
  /\ outbox' = Append(outbox, [block |-> Head(inbox).block, own |-> FALSE])
  /\ UNCHANGED <<uart, line, printed, misfreed>>

(* It is forwarded to some node: FORWARD_U. *)
HandleAndForward ==
  /\ Idle /\ inbox # << >>
  /\ inbox' = Tail(inbox)
  /\ outbox' = Append(outbox, [block |-> Head(inbox).block, own |-> FALSE])
  /\ UNCHANGED <<uart, line, mem, printed, misfreed>>

(* create_report, or a request: sent to the sink, which is this node. *)
SendOwn ==
  /\ Idle /\ HasFree
  /\ mem' = Alloc(FreeBlock, Report)
  /\ outbox' = Append(outbox, [block |-> FreeBlock, own |-> TRUE])
  /\ UNCHANGED <<uart, line, inbox, printed, misfreed>>

(* rf_u_send_proc, up to the return of print_packet_uart for an own packet. *)
RfUSend ==
  /\ Idle /\ outbox # << >>
  /\ mem' = Free(Head(outbox).block)
  /\ outbox' = Tail(outbox)
  /\ printed' = IF Head(outbox).own THEN Head(outbox).block ELSE NULL
  /\ UNCHANGED <<uart, line, inbox, misfreed>>

(* Its last statement, the block being free already: or so it should be.     *)
FreeAgain ==
  /\ ~ Idle
  /\ mem' = Free(printed)
  /\ misfreed' = (misfreed \/ printed \in Allocated)
  /\ printed' = NULL
  /\ UNCHANGED <<uart, line, inbox, outbox>>
-----------------------------------------------------------------------------
Init ==
  /\ buffer = << >> /\ expected = 0 /\ overrun = FALSE /\ whole = TRUE
  /\ frame \in Frames /\ left = 0 /\ strayed = FALSE
  /\ mem = [b \in {} |-> Report]
  /\ inbox = << >> /\ outbox = << >>
  /\ printed = NULL /\ misfreed = FALSE

Interrupt ==
  \/ ByteArrives
  \/ \E c \in Bytes : SpuriousByte(c)

Next ==
  /\ ~ overrun /\ ~ misfreed
  /\ \/ Interrupt
     \/ ByteLost
     \/ \E f \in Frames : StartFrame(f)
     \/ RadioRxCallback
     \/ HandleAndFree
     \/ HandleAndForward
     \/ SendOwn
     \/ RfUSend
     \/ FreeAgain

Spec == Init /\ [][Next]_vars
-----------------------------------------------------------------------------
(* Properties. *)

(* Buffers hold bytes, and what waits refers to blocks. *)
TypeOK ==
  /\ buffer \in Seq(Bytes) /\ expected \in Nat
  /\ overrun \in BOOLEAN /\ whole \in BOOLEAN
  /\ frame \in Frames /\ left \in 0 .. Len(frame) /\ strayed \in BOOLEAN
  /\ inbox \in Seq([block : Blocks, frame : Seq(Bytes)])
  /\ outbox \in Seq([block : Blocks, own : BOOLEAN])
  /\ printed \in Blocks \cup {NULL} /\ misfreed \in BOOLEAN

(* As long as every byte of the frame arrives and no other does, and it began *)
(* when the sink waited for one, the sink has the bytes sent so far and       *)
(* nothing else, and at the end of the frame exactly that frame.             *)
InStep ==
  ~ strayed =>
    /\ ~ overrun
    /\ left > 0 => buffer = SubSeq(frame, 1, Len(frame) - left)
    /\ left = 0 => buffer = << >> /\ whole

(* Whatever the interrupt gets between, a packet that waits has a block of   *)
(* its own, and what was received is still in it: unless the second free of   *)
(* a printed packet hit a block that a frame had taken since the first.      *)
WaitingIntact ==
  ~ misfreed =>
    /\ \A i \in DOMAIN inbox :
         /\ inbox[i].block \in Allocated
         /\ mem[inbox[i].block] = inbox[i].frame
    /\ \A i \in DOMAIN outbox : outbox[i].block \in Allocated
    /\ \A i, j \in DOMAIN inbox : inbox[i].block = inbox[j].block => i = j
    /\ \A i, j \in DOMAIN outbox : outbox[i].block = outbox[j].block => i = j
    /\ \A i \in DOMAIN inbox, j \in DOMAIN outbox : inbox[i].block # outbox[j].block
=============================================================================
