--------------------------- MODULE UartSink_proof ---------------------------
(***************************************************************************)
(* What UartSink promises for any frames, buffer and pool: the assembly of *)
(* a frame keeps in step with the line, and the interrupt, wherever it     *)
(* comes, leaves the packets that wait as they are.                        *)
(*                                                                         *)
(* The first needs to know what is expected of a buffer in every state:    *)
(* nothing before its second byte, and the frame's length from then on.    *)
(* The second is inductive as it stands, given the types.                  *)
(***************************************************************************)
EXTENDS UartSink, SequenceTheorems, TLAPS

Received == [block : Blocks, frame : Seq(Bytes)]
Posted == [block : Blocks, own : BOOLEAN]

(* What the callback expects. *)
Expecting ==
  /\ Len(buffer) <= LEN_INDEX => expected = 0
  /\ ~ strayed =>
       /\ ~ overrun
       /\ left > 0 => buffer = SubSeq(frame, 1, Len(frame) - left)
       /\ left = 0 => buffer = << >> /\ whole
       /\ Len(buffer) > LEN_INDEX => expected = Len(frame)

(* WaitingIntact, of any memory and queues. *)
Intact(m, in, out) ==
  /\ \A i \in DOMAIN in : in[i].block \in DOMAIN m /\ m[in[i].block] = in[i].frame
  /\ \A i \in DOMAIN out : out[i].block \in DOMAIN m
  /\ \A i, j \in DOMAIN in : in[i].block = in[j].block => i = j
  /\ \A i, j \in DOMAIN out : out[i].block = out[j].block => i = j
  /\ \A i \in DOMAIN in, j \in DOMAIN out : in[i].block # out[j].block

Inv == TypeOK /\ Expecting /\ (~ misfreed => Intact(mem, inbox, outbox))

-----------------------------------------------------------------------------
(* The pool. *)

LEMMA FreeBlockFact ==
  ASSUME HasFree
  PROVE  FreeBlock \in Blocks /\ FreeBlock \notin Allocated
BY DEF HasFree, FreeBlock

LEMMA AppendFact ==
  ASSUME NEW S, NEW s \in Seq(S), NEW e \in S
  PROVE  /\ Append(s, e) \in Seq(S)
         /\ DOMAIN Append(s, e) = 1 .. Len(s) + 1
         /\ DOMAIN s = 1 .. Len(s) /\ Len(s) \in Nat
         /\ \A i \in DOMAIN s : Append(s, e)[i] = s[i]
         /\ Append(s, e)[Len(s) + 1] = e
BY AppendProperties

LEMMA TailFact ==
  ASSUME NEW S, NEW s \in Seq(S), s # << >>
  PROVE  /\ Tail(s) \in Seq(S) /\ Head(s) \in S /\ Head(s) = s[1] /\ 1 \in DOMAIN s
         /\ \A i \in DOMAIN Tail(s) : i \in Nat /\ i + 1 \in DOMAIN s /\ Tail(s)[i] = s[i + 1] /\ i + 1 # 1
<1>1. DOMAIN s = 1 .. Len(s) /\ Len(s) \in Nat /\ Len(s) > 0
  OBVIOUS
<1>2. Tail(s) \in Seq(S) /\ DOMAIN Tail(s) = 1 .. Len(s) - 1
  BY HeadTailProperties
<1> QED
  BY <1>1, <1>2, HeadTailProperties

(* A block that was free takes a frame, which waits in it. *)
LEMMA IntactReceived ==
  ASSUME NEW m, NEW in \in Seq(Received), NEW out, Intact(m, in, out),
         NEW b, b \notin DOMAIN m, NEW f, [block |-> b, frame |-> f] \in Received,
         NEW mm, DOMAIN mm = DOMAIN m \cup {b}, mm[b] = f, \A x \in DOMAIN m : mm[x] = m[x]
  PROVE  Intact(mm, Append(in, [block |-> b, frame |-> f]), out)
<1> DEFINE r == [block |-> b, frame |-> f]
<1>1. r \in Received /\ r.block = b /\ r.frame = f
  OBVIOUS
<1> HIDE DEF r
<1>2. /\ DOMAIN Append(in, r) = 1 .. Len(in) + 1 /\ DOMAIN in = 1 .. Len(in) /\ Len(in) \in Nat
      /\ \A i \in DOMAIN in : Append(in, r)[i] = in[i]
      /\ Append(in, r)[Len(in) + 1] = r
  BY <1>1, AppendFact
<1>3. \A i \in DOMAIN Append(in, r) : i \in DOMAIN in \/ i = Len(in) + 1
  BY <1>2
<1>4. \A i \in DOMAIN in : in[i].block # b
  BY DEF Intact
<1>5. \A i \in DOMAIN out : out[i].block # b
  BY DEF Intact
<1> QED
  BY <1>1, <1>2, <1>3, <1>4, <1>5 DEF Intact, r

LEMMA IntactSent ==
  ASSUME NEW m, NEW in \in Seq(Received), NEW out \in Seq(Posted), Intact(m, in, out),
         NEW n, NEW r \in Posted, r.block \notin DOMAIN m,
         DOMAIN m \subseteq DOMAIN n, r.block \in DOMAIN n,
         \A x \in DOMAIN m : n[x] = m[x]
  PROVE  Intact(n, in, Append(out, r))
<1>1. /\ DOMAIN Append(out, r) = 1 .. Len(out) + 1 /\ DOMAIN out = 1 .. Len(out) /\ Len(out) \in Nat
      /\ \A i \in DOMAIN out : Append(out, r)[i] = out[i]
      /\ Append(out, r)[Len(out) + 1] = r
  BY AppendFact
<1>2. \A i \in DOMAIN Append(out, r) : i \in DOMAIN out \/ i = Len(out) + 1
  BY <1>1
<1>3. \A i \in DOMAIN in : in[i].block # r.block
  BY DEF Intact
<1>4. \A i \in DOMAIN out : out[i].block # r.block
  BY DEF Intact
<1> QED
  BY <1>1, <1>2, <1>3, <1>4 DEF Intact

(* The head of a queue leaves it and gives its block back. *)
LEMMA IntactHandled ==
  ASSUME NEW m, NEW in \in Seq(Received), NEW out \in Seq(Posted), Intact(m, in, out),
         in # << >>
  PROVE  Intact([x \in DOMAIN m \ {Head(in).block} |-> m[x]], Tail(in), out)
<1>1. /\ Head(in) = in[1] /\ 1 \in DOMAIN in
      /\ \A i \in DOMAIN Tail(in) : i \in Nat /\ i + 1 \in DOMAIN in /\ Tail(in)[i] = in[i + 1] /\ i + 1 # 1
  BY TailFact
<1>2. \A i \in DOMAIN Tail(in) : Tail(in)[i].block # in[1].block
  BY <1>1 DEF Intact
<1>3. \A i, j \in DOMAIN Tail(in) : Tail(in)[i].block = Tail(in)[j].block => i = j
  BY <1>1 DEF Intact
<1> QED
  BY <1>1, <1>2, <1>3 DEF Intact

LEMMA IntactForwarded ==
  ASSUME NEW m, NEW in \in Seq(Received), NEW out \in Seq(Posted), Intact(m, in, out),
         in # << >>
  PROVE  Intact(m, Tail(in), Append(out, [block |-> Head(in).block, own |-> FALSE]))
<1> DEFINE r == [block |-> Head(in).block, own |-> FALSE]
<1>1. /\ Head(in) = in[1] /\ 1 \in DOMAIN in /\ Head(in) \in Received
      /\ \A i \in DOMAIN Tail(in) : i \in Nat /\ i + 1 \in DOMAIN in /\ Tail(in)[i] = in[i + 1] /\ i + 1 # 1
  BY TailFact
<1>2. r \in Posted /\ r.block = in[1].block
  BY <1>1 DEF Posted, Received
<1> HIDE DEF r
<1>3. /\ DOMAIN Append(out, r) = 1 .. Len(out) + 1 /\ DOMAIN out = 1 .. Len(out) /\ Len(out) \in Nat
      /\ \A i \in DOMAIN out : Append(out, r)[i] = out[i]
      /\ Append(out, r)[Len(out) + 1] = r
  BY <1>2, AppendFact
<1>4. \A i \in DOMAIN Append(out, r) : i \in DOMAIN out \/ i = Len(out) + 1
  BY <1>3
<1>5. \A i \in DOMAIN Tail(in) : Tail(in)[i].block # in[1].block
  BY <1>1 DEF Intact
<1>6. \A i, j \in DOMAIN Tail(in) : Tail(in)[i].block = Tail(in)[j].block => i = j
  BY <1>1 DEF Intact
<1>7. \A i \in DOMAIN out : out[i].block # in[1].block
  BY <1>1 DEF Intact
<1> QED
  BY <1>1, <1>2, <1>3, <1>4, <1>5, <1>6, <1>7 DEF Intact, r

LEMMA IntactPrinted ==
  ASSUME NEW m, NEW in \in Seq(Received), NEW out \in Seq(Posted), Intact(m, in, out),
         out # << >>
  PROVE  Intact([x \in DOMAIN m \ {Head(out).block} |-> m[x]], in, Tail(out))
<1>1. /\ Head(out) = out[1] /\ 1 \in DOMAIN out
      /\ \A i \in DOMAIN Tail(out) : i \in Nat /\ i + 1 \in DOMAIN out /\ Tail(out)[i] = out[i + 1] /\ i + 1 # 1
  BY TailFact
<1>2. \A i \in DOMAIN Tail(out) : Tail(out)[i].block # out[1].block
  BY <1>1 DEF Intact
<1>3. \A i, j \in DOMAIN Tail(out) : Tail(out)[i].block = Tail(out)[j].block => i = j
  BY <1>1 DEF Intact
<1> QED
  BY <1>1, <1>2, <1>3 DEF Intact
-----------------------------------------------------------------------------
(* Types, and the packets that wait, step by step.                         *)

Types == TypeOK /\ (~ misfreed => Intact(mem, inbox, outbox))

LEMMA ReceiveKeeps ==
  ASSUME Types, NEW f \in Seq(Bytes), Receive(f)
  PROVE  /\ inbox' \in Seq(Received) /\ outbox' = outbox
         /\ printed' = printed /\ misfreed' = misfreed
         /\ ~ misfreed' => Intact(mem', inbox', outbox')
<1>1. inbox \in Seq(Received) /\ outbox \in Seq(Posted)
  BY DEF Types, TypeOK, Received, Posted
<1>2. CASE HasFree
  <2> DEFINE r == [block |-> FreeBlock, frame |-> f]
  <2>1. FreeBlock \in Blocks /\ FreeBlock \notin DOMAIN mem
    BY <1>2, FreeBlockFact DEF Allocated
  <2>2. r \in Received
    BY <2>1 DEF Received
  <2>3. /\ mem' = [x \in DOMAIN mem \cup {FreeBlock} |-> IF x = FreeBlock THEN f ELSE mem[x]]
        /\ inbox' = Append(inbox, r)
        /\ UNCHANGED <<outbox, printed, misfreed>>
    BY <1>2 DEF Receive, Alloc, Allocated
  <2>4. inbox' \in Seq(Received)
    BY <1>1, <2>2, <2>3, AppendProperties
  <2>5. ~ misfreed => Intact(mem', inbox', outbox)
    <3>1. SUFFICES ASSUME Intact(mem, inbox, outbox) PROVE Intact(mem', inbox', outbox)
      BY DEF Types
    <3>2. /\ DOMAIN mem' = DOMAIN mem \cup {FreeBlock} /\ mem'[FreeBlock] = f
          /\ \A x \in DOMAIN mem : mem'[x] = mem[x]
      BY <2>1, <2>3
    <3>3. Intact(mem', Append(inbox, [block |-> FreeBlock, frame |-> f]), outbox)
      BY <1>1, <2>1, <2>2, <3>1, <3>2, IntactReceived
    <3> QED
      BY <2>3, <3>3
  <2> QED
    BY <2>3, <2>4, <2>5
<1>3. CASE ~ HasFree
  BY <1>1, <1>3 DEF Receive, pool, Types
<1> QED
  BY <1>2, <1>3

LEMMA CallbackKeeps ==
  ASSUME Types, NEW c \in Bytes, UartRxCallback(c)
  PROVE  /\ buffer' \in Seq(Bytes) /\ expected' \in Nat
         /\ overrun' \in BOOLEAN /\ whole' \in BOOLEAN
         /\ inbox' \in Seq(Received) /\ outbox' = outbox
         /\ printed' = printed /\ misfreed' = misfreed
         /\ ~ misfreed' => Intact(mem', inbox', outbox')
<1> DEFINE read == Append(buffer, c)
           exp == IF index = LEN_INDEX THEN c ELSE expected
<1>1. /\ inbox \in Seq(Received) /\ buffer \in Seq(Bytes) /\ expected \in Nat
      /\ overrun \in BOOLEAN /\ whole \in BOOLEAN
  BY DEF Types, TypeOK, Received
<1>2. read \in Seq(Bytes)
  BY <1>1, AppendProperties
<1>3. exp \in Nat
  BY <1>1, UartAssumption
<1> HIDE DEF read, exp
<1>4. CASE index >= BufferSize
  BY <1>1, <1>4 DEF UartRxCallback, pool, Types
<1>5. CASE ~ (index >= BufferSize) /\ index + 1 = exp
  <2>1. Receive(read) /\ buffer' = << >> /\ expected' = 0 /\ overrun' = overrun
    BY <1>5 DEF UartRxCallback, read, exp
  <2>2. whole' = (read = frame)
    BY <1>5 DEF UartRxCallback, read, exp
  <2>3. whole' \in BOOLEAN
    BY <2>2
  <2> QED
    BY <1>1, <1>2, <2>1, <2>3, ReceiveKeeps
<1>6. CASE ~ (index >= BufferSize) /\ index + 1 # exp
  <2>1. buffer' = read /\ expected' = exp /\ overrun' = overrun /\ UNCHANGED <<whole, pool>>
    BY <1>6 DEF UartRxCallback, read, exp
  <2> QED
    BY <1>1, <1>2, <1>3, <2>1 DEF pool, Types
<1> QED
  BY <1>4, <1>5, <1>6

(* The line: which bytes may come next. *)
LEMMA FrameFacts ==
  ASSUME TypeOK
  PROVE  /\ frame \in Seq(Bytes) /\ Len(frame) \in Nat /\ Len(frame) >= 2
         /\ Len(frame) <= BufferSize /\ frame[2] = Len(frame)
         /\ left \in Nat /\ left <= Len(frame)
         /\ \A i \in 1 .. Len(frame) : frame[i] \in Bytes
BY UartAssumption DEF TypeOK, LEN_INDEX

LEMMA TypesStep ==
  ASSUME Types, Next
  PROVE  Types'
<1>1. /\ inbox \in Seq(Received) /\ outbox \in Seq(Posted)
      /\ buffer \in Seq(Bytes) /\ expected \in Nat
      /\ overrun \in BOOLEAN /\ whole \in BOOLEAN
      /\ frame \in Frames /\ left \in 0 .. Len(frame) /\ strayed \in BOOLEAN
      /\ printed \in Blocks \cup {NULL} /\ misfreed \in BOOLEAN
  BY DEF Types, TypeOK, Received, Posted
<1>2. ~ misfreed /\ Intact(mem, inbox, outbox)
  BY DEF Next, Types
<1>3. TypeOK
  BY DEF Types
<1> USE <1>1, <1>2
<1> SUFFICES
      /\ buffer' \in Seq(Bytes) /\ expected' \in Nat
      /\ overrun' \in BOOLEAN /\ whole' \in BOOLEAN
      /\ frame' \in Frames /\ left' \in 0 .. Len(frame') /\ strayed' \in BOOLEAN
      /\ inbox' \in Seq(Received) /\ outbox' \in Seq(Posted)
      /\ printed' \in Blocks \cup {NULL} /\ misfreed' \in BOOLEAN
      /\ ~ misfreed' => Intact(mem', inbox', outbox')
  BY DEF Types, TypeOK, Received, Posted, Intact
<1>4. CASE ByteArrives
  <2>1. frame[Len(frame) - left + 1] \in Bytes
    BY <1>3, <1>4, FrameFacts DEF ByteArrives
  <2>2. UartRxCallback(frame[Len(frame) - left + 1]) /\ left' = left - 1 /\ left > 0
        /\ UNCHANGED <<frame, strayed>>
    BY <1>4 DEF ByteArrives
  <2>3. left' \in 0 .. Len(frame')
    BY <1>3, <2>2, FrameFacts
  <2> QED
    BY <2>1, <2>2, <2>3, CallbackKeeps
<1>5. CASE \E c \in Bytes : SpuriousByte(c)
  BY <1>5, CallbackKeeps DEF SpuriousByte
<1>6. CASE ByteLost
  <2>1. left' \in 0 .. Len(frame')
    BY <1>3, <1>6, FrameFacts DEF ByteLost
  <2> QED
    BY <1>6, <2>1 DEF ByteLost, uart, pool
<1>7. CASE \E f \in Frames : StartFrame(f)
  <2>1. PICK f \in Frames : StartFrame(f)
    BY <1>7
  <2>2. Len(f) \in Nat
    BY UartAssumption
  <2>3. strayed' \in BOOLEAN
    BY <2>1 DEF StartFrame
  <2> QED
    BY <2>1, <2>2, <2>3 DEF StartFrame, uart, pool
<1>8. CASE RadioRxCallback
  <2>1. Report \in Seq(Bytes)
    BY DEF Report
  <2> QED
    BY <1>8, <2>1, ReceiveKeeps DEF RadioRxCallback, uart, line
<1>9. CASE HandleAndFree
  BY <1>9, TailFact, IntactHandled DEF HandleAndFree, Free, Allocated, uart, line
<1>10. CASE HandleAndForward
  <2>1. inbox # << >>
    BY <1>10 DEF HandleAndForward
  <2>2. Head(inbox) \in Received /\ Tail(inbox) \in Seq(Received)
    BY <2>1, TailFact
  <2>3. [block |-> Head(inbox).block, own |-> FALSE] \in Posted
    BY <2>2 DEF Received, Posted
  <2> QED
    BY <1>10, <2>1, <2>2, <2>3, AppendProperties, IntactForwarded DEF HandleAndForward, uart, line
<1>11. CASE SendOwn
  <2>1. FreeBlock \in Blocks /\ FreeBlock \notin DOMAIN mem
    BY <1>11, FreeBlockFact DEF SendOwn, Allocated
  <2> DEFINE r == [block |-> FreeBlock, own |-> TRUE]
  <2>2. r \in Posted /\ r.block = FreeBlock
    BY <2>1 DEF Posted
  <2>3. /\ outbox' = Append(outbox, r)
        /\ mem' = Alloc(FreeBlock, Report)
        /\ UNCHANGED <<uart, line, inbox, printed, misfreed>>
    BY <1>11 DEF SendOwn
  <2> HIDE DEF r
  <2>4. /\ DOMAIN mem' = DOMAIN mem \cup {FreeBlock}
        /\ \A x \in DOMAIN mem : mem'[x] = mem[x]
    BY <2>1, <2>3 DEF Alloc, Allocated
  <2>5. Intact(mem', inbox, Append(outbox, r))
    <3>1. /\ r.block \notin DOMAIN mem /\ r.block \in DOMAIN mem'
          /\ DOMAIN mem \subseteq DOMAIN mem'
      BY <2>1, <2>2, <2>4
    <3> QED
      BY ONLY <1>1, <1>2, <2>2, <2>4, <3>1, IntactSent
  <2>6. Append(outbox, r) \in Seq(Posted)
    BY <2>2, AppendProperties
  <2>7. Intact(mem', inbox', outbox') /\ outbox' \in Seq(Posted) /\ inbox' \in Seq(Received)
    BY <2>3, <2>5, <2>6
  <2> QED
    BY <2>3, <2>7 DEF uart, line
<1>12. CASE RfUSend
  <2>3. outbox # << >>
    BY <1>12 DEF RfUSend
  <2>4. Head(outbox) \in Posted /\ Tail(outbox) \in Seq(Posted)
    BY <2>3, TailFact
  <2>1. Head(outbox).block \in Blocks
    BY <2>4 DEF Posted
  <2>2. Intact(mem', inbox, outbox')
    BY <1>12, IntactPrinted DEF RfUSend, Free, Allocated
  <2> QED
    BY <1>12, <2>1, <2>2, <2>4 DEF RfUSend, uart, line
<1>13. CASE FreeAgain
  <2>1. misfreed' \in BOOLEAN /\ (~ misfreed' => printed \notin DOMAIN mem)
    BY <1>13 DEF FreeAgain, Allocated
  <2>2. ~ misfreed' => DOMAIN mem' = DOMAIN mem /\ \A x \in DOMAIN mem : mem'[x] = mem[x]
    BY <1>13, <2>1 DEF FreeAgain, Free, Allocated
  <2>3. ~ misfreed' => Intact(mem', inbox, outbox)
    BY <2>2 DEF Intact
  <2> QED
    BY <1>13, <2>1, <2>3 DEF FreeAgain, uart, line
<1> QED
  BY <1>4, <1>5, <1>6, <1>7, <1>8, <1>9, <1>10, <1>11, <1>12, <1>13 DEF Next, Interrupt
-----------------------------------------------------------------------------
(* The assembly of a frame.                                                *)

(* What the callback does to the buffer, whatever becomes of the frame. *)
LEMMA CallbackBuffer ==
  ASSUME TypeOK, NEW c \in Bytes, UartRxCallback(c)
  PROVE  LET exp == IF Len(buffer) = 1 THEN c ELSE expected IN
         \/ Len(buffer) >= BufferSize /\ buffer' = buffer /\ expected' = expected
         \/ /\ Len(buffer) < BufferSize /\ Len(buffer) + 1 = exp
            /\ overrun' = overrun /\ buffer' = << >> /\ expected' = 0
            /\ whole' = (Append(buffer, c) = frame)
         \/ /\ Len(buffer) < BufferSize /\ Len(buffer) + 1 # exp
            /\ overrun' = overrun /\ buffer' = Append(buffer, c) /\ expected' = exp
<1>1. Len(buffer) \in Nat /\ BufferSize \in Nat
  BY UartAssumption DEF TypeOK
<1> QED
  BY <1>1 DEF UartRxCallback, index, LEN_INDEX

LEMMA NothingExpected ==
  ASSUME TypeOK, Expecting, NEW c \in Bytes, UartRxCallback(c)
  PROVE  Len(buffer') <= LEN_INDEX => expected' = 0
<1>1. buffer \in Seq(Bytes) /\ Len(buffer) \in Nat
  BY DEF TypeOK
<1>2. Len(Append(buffer, c)) = Len(buffer) + 1
  BY <1>1, AppendProperties
<1>3. Len(buffer) <= 1 => expected = 0
  BY DEF Expecting, LEN_INDEX
<1> QED
  BY <1>1, <1>2, <1>3, CallbackBuffer DEF LEN_INDEX

(* The next byte of a frame that is in step. *)
LEMMA InStepByte ==
  ASSUME TypeOK, Expecting, ~ strayed, ByteArrives
  PROVE  /\ overrun' = overrun
         /\ left' > 0 => buffer' = SubSeq(frame, 1, Len(frame) - left')
         /\ left' = 0 => buffer' = << >> /\ whole'
         /\ Len(buffer') > 1 => expected' = Len(frame)
<1> DEFINE k == Len(frame) - left
<1>1. /\ frame \in Seq(Bytes) /\ Len(frame) \in Nat /\ Len(frame) >= 2
      /\ Len(frame) <= BufferSize /\ frame[2] = Len(frame)
      /\ left \in Nat /\ left <= Len(frame) /\ BufferSize \in Nat
  BY FrameFacts, UartAssumption
<1>2. left > 0 /\ left' = left - 1 /\ UartRxCallback(frame[k + 1])
  BY DEF ByteArrives
<1>3. k \in Nat /\ k < Len(frame) /\ k + 1 \in 1 .. Len(frame) /\ Len(frame) - left' = k + 1
  BY <1>1, <1>2
<1>4. buffer = SubSeq(frame, 1, k)
  BY <1>2 DEF Expecting
<1>5. Len(buffer) = k
  BY <1>1, <1>3, <1>4, SubSeqProperties
<1>6. Append(buffer, frame[k + 1]) = SubSeq(frame, 1, k + 1)
  <2>1. SubSeq(frame, 1, k + 1) = SubSeq(frame, 1, k) \o <<frame[k + 1]>>
    <3>1. 1 \in 1 .. Len(frame) /\ k + 1 \in 1 .. Len(frame) /\ (k + 1) - 1 = k
      BY <1>1, <1>3
    <3> HIDE DEF k
    <3> QED
      BY <1>1, <3>1, SubSeqRecursiveSecond
  <2>2. buffer \in Seq(Bytes) /\ frame[k + 1] \in Bytes
    BY <1>1, <1>3 DEF TypeOK
  <2>3. Append(buffer, frame[k + 1]) = buffer \o <<frame[k + 1]>>
    BY <2>2, AppendIsConcat
  <2> QED
    BY <1>4, <2>1, <2>3
<1>7. k = 0 => expected = 0
  BY <1>5 DEF Expecting, LEN_INDEX
<1>8. k > 1 => expected = Len(frame)
  BY <1>5 DEF Expecting, LEN_INDEX
<1>9. frame[k + 1] \in Bytes
  BY <1>1, <1>3
<1>10. k + 1 = Len(frame) => SubSeq(frame, 1, k + 1) = frame
  BY <1>1, SubSeqFull
<1>11. Len(SubSeq(frame, 1, k + 1)) = k + 1
  BY <1>1, <1>3, SubSeqProperties
<1> HIDE DEF k
<1>12. k \in Nat /\ k < Len(frame) /\ Len(frame) - left' = k + 1 /\ Len(frame) >= 2
       /\ Len(frame) <= BufferSize /\ Len(frame) \in Nat /\ BufferSize \in Nat
  BY <1>1, <1>3
<1>13. /\ k < BufferSize
       /\ k = 0 => expected = 0
       /\ k = 1 => frame[k + 1] = Len(frame)
       /\ left' = 0 <=> k + 1 = Len(frame)
       /\ left' \in Nat
  <2>1. left' \in Nat /\ left' = Len(frame) - (k + 1)
    BY <1>1, <1>2, <1>12
  <2> QED
    BY <1>1, <1>7, <1>12, <2>1
<1> DEFINE exp == IF k = 1 THEN frame[k + 1] ELSE expected
<1>14. exp = IF k = 0 THEN 0 ELSE Len(frame)
  BY <1>8, <1>12, <1>13
<1>15. \/ k >= BufferSize
       \/ k + 1 = exp /\ overrun' = overrun /\ buffer' = << >>
          /\ whole' = (SubSeq(frame, 1, k + 1) = frame)
       \/ k + 1 # exp /\ overrun' = overrun /\ buffer' = SubSeq(frame, 1, k + 1)
          /\ expected' = exp
  <2> DEFINE c == frame[k + 1]
  <2>1. TypeOK /\ c \in Bytes /\ UartRxCallback(c)
    BY <1>2, <1>9
  <2>2. Append(buffer, c) = SubSeq(frame, 1, k + 1)
    BY <1>6
  <2>3. exp = IF Len(buffer) = 1 THEN c ELSE expected
    BY <1>5
  <2> HIDE DEF c, exp
  <2> QED
    BY <1>5, <2>1, <2>2, <2>3, CallbackBuffer
<1> HIDE DEF exp
<1>16. CASE k + 1 = exp
  <2>1. k + 1 = Len(frame) /\ left' = 0
    BY <1>12, <1>13, <1>14, <1>16
  <2>2. overrun' = overrun /\ buffer' = << >> /\ whole' = (SubSeq(frame, 1, k + 1) = frame)
    BY <1>12, <1>13, <1>15, <1>16
  <2>3. whole'
    BY <1>10, <2>1, <2>2
  <2> QED
    BY <2>1, <2>2, <2>3
<1>17. CASE k + 1 # exp
  <2>1. left' > 0
    BY <1>12, <1>13, <1>14, <1>17
  <2>2. overrun' = overrun /\ buffer' = SubSeq(frame, 1, k + 1) /\ expected' = exp
    BY <1>12, <1>13, <1>15, <1>17
  <2>3. Len(buffer') > 1 => expected' = Len(frame)
    BY <1>11, <1>12, <1>14, <2>2
  <2> QED
    BY <1>12, <2>1, <2>2, <2>3
<1> QED
  BY <1>16, <1>17

LEMMA ExpectingStep ==
  ASSUME TypeOK, Expecting, Next
  PROVE  Expecting'
<1>1. buffer \in Seq(Bytes) /\ Len(buffer) \in Nat /\ left \in Nat
  BY FrameFacts DEF TypeOK
<1>2. ~ overrun
  BY DEF Next
<1>3. CASE ByteArrives
  <2>1. frame[Len(frame) - left + 1] \in Bytes /\ UartRxCallback(frame[Len(frame) - left + 1])
    BY <1>3, FrameFacts DEF ByteArrives
  <2>2. Len(buffer') <= LEN_INDEX => expected' = 0
    BY <2>1, NothingExpected
  <2>3. strayed' = strayed /\ frame' = frame
    BY <1>3 DEF ByteArrives
  <2> QED
    BY <1>2, <1>3, <2>2, <2>3, InStepByte DEF Expecting, LEN_INDEX
<1>4. CASE \E c \in Bytes : SpuriousByte(c)
  BY <1>4, NothingExpected DEF SpuriousByte, Expecting
<1>5. CASE ByteLost
  BY <1>5 DEF ByteLost, uart, Expecting
<1>6. CASE \E f \in Frames : StartFrame(f)
  <2>1. PICK f \in Frames : StartFrame(f)
    BY <1>6
  <2>2. Len(f) \in Nat /\ Len(f) >= 2
    BY UartAssumption DEF LEN_INDEX
  <2>3. /\ frame' = f /\ left' = Len(f) /\ (strayed' <=> Len(buffer) # 0)
        /\ UNCHANGED <<buffer, expected, overrun>>
    BY <2>1 DEF StartFrame, uart, index
  <2>4. ~ strayed' => buffer' = << >> /\ Len(buffer') = 0
    BY <1>1, <2>3
  <2>5. SubSeq(f, 1, Len(f) - Len(f)) = << >>
    BY <2>2, SubSeqEmpty
  <2>6. ~ strayed' => ~ overrun' /\ buffer' = SubSeq(frame', 1, Len(frame') - left') /\ left' > 0
    BY <1>2, <2>2, <2>3, <2>4, <2>5
  <2>7. Len(buffer') <= 1 => expected' = 0
    BY <2>3 DEF Expecting, LEN_INDEX
  <2>8. ~ strayed' => ~ (left' = 0) /\ ~ (Len(buffer') > 1)
    BY <2>2, <2>3, <2>4
  <2> QED
    BY <2>6, <2>7, <2>8 DEF Expecting, LEN_INDEX
<1>7. CASE UNCHANGED <<uart, line>>
  BY <1>7 DEF uart, line, Expecting
<1> QED
  BY <1>3, <1>4, <1>5, <1>6, <1>7
  DEF Next, Interrupt, RadioRxCallback, HandleAndFree, HandleAndForward, SendOwn, RfUSend, FreeAgain

-----------------------------------------------------------------------------
LEMMA InvInit == Init => Inv
<1> SUFFICES ASSUME Init PROVE Inv
  OBVIOUS
<1>1. TypeOK
  <2>1. frame \in Frames /\ Len(frame) \in Nat
    BY UartAssumption DEF Init
  <2>2. buffer \in Seq(Bytes) /\ inbox = << >> /\ outbox = << >>
    BY DEF Init
  <2>3. /\ inbox \in Seq([block : Blocks, frame : Seq(Bytes)])
        /\ outbox \in Seq([block : Blocks, own : BOOLEAN])
    BY <2>2
  <2>4. /\ overrun \in BOOLEAN /\ whole \in BOOLEAN /\ strayed \in BOOLEAN
        /\ misfreed \in BOOLEAN /\ printed = NULL
    BY DEF Init
  <2>5. left \in 0 .. Len(frame) /\ expected \in Nat
    BY <2>1 DEF Init
  <2> QED
    BY <2>1, <2>2, <2>3, <2>4, <2>5 DEF TypeOK
<1>2. Expecting
  <2>1. buffer = << >> /\ Len(buffer) = 0 /\ expected = 0 /\ left = 0
    BY DEF Init
  <2>2. ~ overrun /\ whole
    BY DEF Init
  <2> QED
    BY <2>1, <2>2 DEF Expecting, LEN_INDEX
<1>3. Intact(mem, inbox, outbox)
  BY DEF Init, Intact
<1> QED
  BY <1>1, <1>2, <1>3 DEF Inv

LEMMA InvStep == Inv /\ [Next]_vars => Inv'
<1>1. CASE Inv /\ Next
  BY <1>1, TypesStep, ExpectingStep DEF Inv, Types
<1>2. CASE Inv /\ UNCHANGED vars
  BY <1>2 DEF Inv, TypeOK, Expecting, Intact, vars, uart, line, pool
<1> QED
  BY <1>1, <1>2

LEMMA Invariance == Spec => []Inv
BY InvInit, InvStep, PTL DEF Spec

(* Buffers hold bytes and what waits refers to blocks of the pool, for every  *)
(* buffer size, pool and set of frames.                                      *)
THEOREM TypeCorrect == Spec => []TypeOK
<1>1. Inv => TypeOK
  BY DEF Inv
<1> QED
  BY <1>1, Invariance, PTL

(* A frame whose bytes all arrive, begun when the sink waits for one, is      *)
(* assembled exactly: uart_rx_callback never runs ahead or behind the line.  *)
THEOREM FramesInStep == Spec => []InStep
<1>1. Inv => InStep
  BY DEF Inv, Expecting, InStep
<1> QED
  BY <1>1, Invariance, PTL

(* Wherever the UART's interrupt comes, the packets that wait keep their      *)
(* blocks and their contents, until a second free hits a block just taken.   *)
THEOREM WaitingKept == Spec => []WaitingIntact
<1>1. Inv => WaitingIntact
  BY DEF Inv, Intact, WaitingIntact, Allocated
<1> QED
  BY <1>1, Invariance, PTL
=============================================================================
