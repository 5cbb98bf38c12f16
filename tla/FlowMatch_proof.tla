-------------------------- MODULE FlowMatch_proof ---------------------------
(***************************************************************************)
(* What FlowMatch promises for every flow table, packet and width of int:  *)
(* a packet is given away exactly once, and rules that settle what they    *)
(* match are never entered twice for one packet.                           *)
(*                                                                         *)
(* For the first the calls that wait must have run their last action, and  *)
(* the innermost must have one left as long as the packet is still there.  *)
(* For the second, every call that waits is one of a rule with a MATCH,    *)
(* and past the action that writes over its mark the mark stays written    *)
(* over: only rules with a MATCH can run before the next lookup.           *)
(*                                                                         *)
(* At the end: everything stored is bytes, which bounds the reads.         *)
(***************************************************************************)
EXTENDS FlowMatch, SequenceTheorems, TLAPS

Last(i) == Len(table[i].actions)

(* The calls, each at one of its actions or past the last. *)
Calls ==
  /\ table \in Tables
  /\ stack \in Seq([rule : DOMAIN table, next : Nat])
  /\ looking \in BOOLEAN
  /\ \A k \in DOMAIN stack : 1 <= stack[k].next /\ stack[k].next <= Last(stack[k].rule) + 1

(* The packet is there as long as the innermost call has something to do. *)
Giving ==
  /\ gone \in {0, 1}
  /\ gone = 0 =>
       /\ \A k \in DOMAIN stack :
            k < Len(stack) \/ looking => stack[k].next = Last(stack[k].rule) + 1
       /\ ~ looking => stack # << >> /\ stack[Len(stack)].next <= Last(stack[Len(stack)].rule)
  /\ gone = 1 =>
       /\ ~ looking
       /\ \A k \in DOMAIN stack : stack[k].next = Last(stack[k].rule) + 1

(* The calls that wait for a lookup are of rules with a MATCH. *)
Waiting ==
  \A k \in DOMAIN stack : k < Len(stack) \/ looking => stack[k].rule \in MatchRules

Bytes == DOMAIN packet = Cells /\ DOMAIN status = Registers

Value(place) == IF place.loc = "PACKET" THEN packet[place.at] ELSE status[place.at]

(* A mark that has been written over. *)
Gone(i, w) == Value(table[i].windows[w].lhs) # table[i].windows[w].rhs.at

Unmarked ==
  gone = 0 /\ (\A k \in DOMAIN stack : stack[k].rule \in MatchRules) =>
    \A k \in DOMAIN stack :
      \A w \in DOMAIN table[stack[k].rule].windows, a \in DOMAIN table[stack[k].rule].actions :
        Marks(stack[k].rule, w, a) /\ a < stack[k].next => Gone(stack[k].rule, w)

Distinct == \A j, k \in DOMAIN stack : stack[j].rule = stack[k].rule => j = k

Inv ==
  /\ Calls
  /\ Bytes
  /\ WellFormed => Giving /\ Waiting /\ (Settled => Distinct /\ Unmarked)

-----------------------------------------------------------------------------
(* Rules and the calls of them. *)

LEMMA RuleFacts ==
  ASSUME table \in Tables, NEW i \in DOMAIN table
  PROVE  /\ Last(i) \in Nat /\ DOMAIN table[i].actions = 1 .. Last(i)
         /\ table[i].actions \in Seq(SetActions \cup OtherActions)
         /\ \A k \in DOMAIN table[i].actions : table[i].actions[k] \in SetActions \cup OtherActions
         /\ \A w \in DOMAIN table[i].windows : table[i].windows[w] \in Windows
<1>1. table \in Seq(Rules)
  BY MatchAssumption
<1>2. table[i] \in Rules
  BY <1>1
<1>3. table[i].actions \in Seq(SetActions \cup OtherActions) /\ table[i].windows \in Seq(Windows)
  BY <1>2 DEF Rules
<1> QED
  BY <1>3 DEF Last

LEMMA CallFacts ==
  ASSUME Calls
  PROVE  /\ DOMAIN stack = 1 .. Len(stack) /\ Len(stack) \in Nat
         /\ \A k \in DOMAIN stack : stack[k] \in [rule : DOMAIN table, next : Nat]
         /\ \A k \in DOMAIN stack : stack[k].rule \in DOMAIN table /\ stack[k].next \in Nat
<1> DEFINE S == [rule : DOMAIN table, next : Nat]
<1>1. stack \in Seq(S)
  BY DEF Calls
<1>2. \A x \in S : x.rule \in DOMAIN table /\ x.next \in Nat
  OBVIOUS
<1> HIDE DEF S
<1>3. DOMAIN stack = 1 .. Len(stack) /\ Len(stack) \in Nat
  BY <1>1
<1>4. \A k \in DOMAIN stack : stack[k] \in S
  BY <1>1, <1>3, ElementOfSeq
<1> QED
  BY <1>2, <1>3, <1>4 DEF S

LEMMA TopFacts ==
  ASSUME Calls, stack # << >>
  PROVE  /\ Len(stack) \in DOMAIN stack /\ Len(stack) \in Nat /\ DOMAIN stack = 1 .. Len(stack)
         /\ Top.rule \in DOMAIN table /\ Top.next \in Nat
<1>1. Len(stack) # 0
  BY DEF Calls
<1> QED
  BY <1>1, CallFacts DEF Top

(* The innermost call goes on to its next action. *)
LEMMA Advanced ==
  ASSUME Calls, Running, stack' = Advance
  PROVE  /\ stack' \in Seq([rule : DOMAIN table, next : Nat])
         /\ Len(stack') = Len(stack) /\ DOMAIN stack' = DOMAIN stack
         /\ \A k \in DOMAIN stack : stack'[k].rule = stack[k].rule
         /\ \A k \in DOMAIN stack : k # Len(stack) => stack'[k].next = stack[k].next
         /\ stack'[Len(stack)].next = stack[Len(stack)].next + 1
<1>1. stack # << >>
  BY DEF Running
<1>2. /\ Len(stack) \in DOMAIN stack /\ Len(stack) \in Nat /\ DOMAIN stack = 1 .. Len(stack)
      /\ stack \in Seq([rule : DOMAIN table, next : Nat])
      /\ stack[Len(stack)] \in [rule : DOMAIN table, next : Nat]
  BY <1>1, TopFacts, CallFacts DEF Calls
<1>3. stack' = [stack EXCEPT ![Len(stack)] = [stack[Len(stack)] EXCEPT !.next = @ + 1]]
  BY <1>2 DEF Advance
<1>4. /\ [stack[Len(stack)] EXCEPT !.next = @ + 1] \in [rule : DOMAIN table, next : Nat]
      /\ [stack[Len(stack)] EXCEPT !.next = @ + 1].rule = stack[Len(stack)].rule
      /\ [stack[Len(stack)] EXCEPT !.next = @ + 1].next = stack[Len(stack)].next + 1
  BY <1>2
<1> QED
  BY <1>2, <1>3, <1>4

(* A rule is entered. *)
LEMMA Entered ==
  ASSUME Calls, NEW i \in DOMAIN table, stack' = Append(stack, [rule |-> i, next |-> 1])
  PROVE  /\ stack' \in Seq([rule : DOMAIN table, next : Nat])
         /\ Len(stack') = Len(stack) + 1 /\ DOMAIN stack' = 1 .. Len(stack) + 1
         /\ \A k \in DOMAIN stack : stack'[k] = stack[k]
         /\ stack'[Len(stack) + 1].rule = i /\ stack'[Len(stack) + 1].next = 1
BY AppendProperties DEF Calls

(* A rule is left. *)
LEMMA Left ==
  ASSUME Calls, stack # << >>, stack' = SubSeq(stack, 1, Len(stack) - 1)
  PROVE  /\ stack' \in Seq([rule : DOMAIN table, next : Nat])
         /\ Len(stack') = Len(stack) - 1 /\ DOMAIN stack' = 1 .. Len(stack) - 1
         /\ \A k \in DOMAIN stack' : k \in DOMAIN stack /\ stack'[k] = stack[k]
<1>1. Len(stack) \in Nat /\ Len(stack) >= 1 /\ stack \in Seq([rule : DOMAIN table, next : Nat])
  BY DEF Calls
<1>2. \A k \in 1 .. Len(stack) - 1 : k \in DOMAIN stack /\ stack[k] \in [rule : DOMAIN table, next : Nat]
  <2>1. \A k \in 1 .. Len(stack) - 1 : k \in 1 .. Len(stack)
    BY <1>1
  <2> QED
    BY <2>1, CallFacts
<1>3. Len(stack) - 1 \in Int /\ 1 \in Int /\ Len(stack) - 1 >= 0
  BY <1>1
<1>4. /\ stack' \in Seq([rule : DOMAIN table, next : Nat])
      /\ Len(stack') = IF 1 <= Len(stack) - 1 THEN (Len(stack) - 1) - 1 + 1 ELSE 0
      /\ \A k \in 1 .. (Len(stack) - 1) - 1 + 1 : stack'[k] = stack[1 + k - 1]
  BY <1>2, <1>3, SubSeqProperties
<1>5. Len(stack') = Len(stack) - 1 /\ DOMAIN stack' = 1 .. Len(stack) - 1
  <2>1. Len(stack') = Len(stack) - 1
    <3>1. Len(stack') = IF 1 <= Len(stack) - 1 THEN (Len(stack) - 1) - 1 + 1 ELSE 0
      BY <1>4
    <3>2. PICK n \in Nat : n = Len(stack) /\ n >= 1
      BY <1>1
    <3>3. (IF 1 <= n - 1 THEN (n - 1) - 1 + 1 ELSE 0) = n - 1
      BY <3>2
    <3> QED
      BY <3>1, <3>2, <3>3
  <2>2. DOMAIN stack' = 1 .. Len(stack')
    BY <1>4, LenProperties
  <2> QED
    BY <2>1, <2>2
<1>6. \A k \in 1 .. Len(stack) - 1 : k \in 1 .. (Len(stack) - 1) - 1 + 1 /\ 1 + k - 1 = k
  BY <1>1
<1> QED
  BY <1>2, <1>4, <1>5, <1>6

-----------------------------------------------------------------------------
(* The calls keep their places. *)

LEMMA CallsStep ==
  ASSUME Calls, Next
  PROVE  Calls'
<1> SUFFICES /\ stack' \in Seq([rule : DOMAIN table, next : Nat])
             /\ table' = table /\ looking' \in BOOLEAN
             /\ \A k \in DOMAIN stack' :
                  1 <= stack'[k].next /\ stack'[k].next <= Last(stack'[k].rule) + 1
  BY DEF Calls, Last
<1>1. /\ DOMAIN stack = 1 .. Len(stack) /\ Len(stack) \in Nat
      /\ \A k \in DOMAIN stack : stack[k].rule \in DOMAIN table /\ stack[k].next \in Nat
  BY CallFacts
<1>2. /\ looking \in BOOLEAN /\ stack \in Seq([rule : DOMAIN table, next : Nat])
      /\ \A k \in DOMAIN stack : 1 <= stack[k].next /\ stack[k].next <= Last(stack[k].rule) + 1
  BY DEF Calls
<1>3. \A i \in DOMAIN table : Last(i) \in Nat
  BY RuleFacts DEF Calls
<1>4. ASSUME Running, stack' = Advance, table' = table, looking' \in BOOLEAN
      PROVE  \A k \in DOMAIN stack' :
               1 <= stack'[k].next /\ stack'[k].next <= Last(stack'[k].rule) + 1
  <2>1. stack # << >> /\ stack[Len(stack)].next <= Last(stack[Len(stack)].rule)
    BY <1>4 DEF Running, Top, Actions, Last
  <2>2. Len(stack) \in DOMAIN stack
    BY <2>1, TopFacts
  <2>3. stack[Len(stack)].next \in Nat /\ Last(stack[Len(stack)].rule) \in Nat
    BY <1>1, <1>3, <2>2
  <2>4. /\ stack' \in Seq([rule : DOMAIN table, next : Nat])
        /\ DOMAIN stack' = DOMAIN stack
        /\ \A k \in DOMAIN stack : stack'[k].rule = stack[k].rule
        /\ \A k \in DOMAIN stack : k # Len(stack) => stack'[k].next = stack[k].next
        /\ stack'[Len(stack)].next = stack[Len(stack)].next + 1
    BY <1>4, Advanced
  <2>5. TAKE k \in DOMAIN stack'
  <2>6. CASE k = Len(stack)
    BY <2>1, <2>2, <2>3, <2>4, <2>6
  <2>7. CASE k # Len(stack)
    BY <1>2, <2>4, <2>5, <2>7
  <2> QED
    BY <2>6, <2>7
<1>5. CASE Arrive
  BY <1>2, <1>5 DEF Arrive
<1>6. CASE \E i \in DOMAIN table : MatchEntry(i)
  <2>1. PICK i \in DOMAIN table : MatchEntry(i)
    BY <1>6
  <2>2. stack' = Append(stack, [rule |-> i, next |-> 1]) /\ table' = table /\ looking' \in BOOLEAN
    BY <2>1 DEF MatchEntry
  <2>3. \A k \in DOMAIN stack' : k \in DOMAIN stack \/ k = Len(stack) + 1
    BY <1>1, <2>2, Entered
  <2> QED
    BY <1>1, <1>2, <1>3, <2>2, <2>3, Entered
<1>7. CASE RequestRule
  BY <1>2, <1>7 DEF RequestRule
<1>8. CASE Forward
  BY <1>2, <1>4, <1>8, Advanced DEF Forward
<1>9. CASE AskOrDrop
  BY <1>2, <1>4, <1>9, Advanced DEF AskOrDrop
<1>10. CASE SetAction
  BY <1>2, <1>4, <1>10, Advanced DEF SetAction
<1>11. CASE Function
  BY <1>2, <1>4, <1>11, Advanced DEF Function
<1>12. CASE Match
  <2>1. Running /\ stack' = Advance /\ table' = table /\ looking' \in BOOLEAN
    BY <1>12 DEF Match
  <2> QED
    BY <1>4, <2>1, Advanced
<1>13. CASE Counted
  <2>1. stack # << >> /\ stack' = SubSeq(stack, 1, Len(stack) - 1) /\ UNCHANGED <<table, looking>>
    BY <1>13 DEF Counted
  <2> QED
    BY <1>2, <2>1, Left
<1> QED
  BY <1>5, <1>6, <1>7, <1>8, <1>9, <1>10, <1>11, <1>12, <1>13 DEF Next

LEMMA BytesStep ==
  ASSUME Bytes, Next
  PROVE  Bytes'
<1>1. CASE Arrive
  BY <1>1, MatchAssumption DEF Arrive, Bytes
<1>2. CASE SetAction
  BY <1>2 DEF SetAction, Store, Bytes
<1>3. CASE Forward
  BY <1>3 DEF Forward, Bytes
<1>4. CASE UNCHANGED <<packet, status>>
  BY <1>4 DEF Bytes
<1>5. CASE \E i \in DOMAIN table : MatchEntry(i)
  BY <1>4, <1>5 DEF MatchEntry
<1>6. CASE RequestRule \/ AskOrDrop \/ Function \/ Match \/ Counted
  BY <1>4, <1>6 DEF RequestRule, AskOrDrop, Function, Match, Counted
<1> QED
  BY <1>1, <1>2, <1>3, <1>5, <1>6 DEF Next
-----------------------------------------------------------------------------
(* One action of the innermost call.                                       *)

LEMMA LastAction ==
  ASSUME WellFormed, Calls, Running
  PROVE  /\ stack # << >> /\ ~ looking
         /\ Top.next \in DOMAIN Actions
         /\ Top.next <= Last(Top.rule)
         /\ GivesAway(Action) <=> Top.next = Last(Top.rule)
<1>1. stack # << >> /\ ~ looking /\ Top.next <= Len(Actions)
  BY DEF Running
<1>2. Top.rule \in DOMAIN table /\ Top.next \in Nat /\ 1 <= Top.next
  BY <1>1, TopFacts DEF Calls, Top
<1>3. DOMAIN Actions = 1 .. Last(Top.rule) /\ Len(Actions) = Last(Top.rule) /\ Last(Top.rule) \in Nat
  BY <1>2, RuleFacts DEF Calls, Actions, Last
<1>4. Top.next \in DOMAIN Actions
  BY <1>1, <1>2, <1>3
<1>5. GivesAway(table[Top.rule].actions[Top.next]) <=> Top.next = Len(table[Top.rule].actions)
  BY <1>2, <1>4 DEF WellFormed, Actions
<1> QED
  BY <1>1, <1>3, <1>4, <1>5 DEF Action, Actions, Last

LEMMA NoneEmpty ==
  ASSUME WellFormed, table \in Tables, NEW i \in DOMAIN table
  PROVE  Last(i) \in Nat /\ Last(i) >= 1
<1>1. Last(i) \in Nat /\ DOMAIN table[i].actions = 1 .. Last(i) /\ table[i].actions # << >>
  BY RuleFacts DEF WellFormed
<1>2. table[i].actions \in Seq(SetActions \cup OtherActions)
  BY RuleFacts
<1> QED
  BY <1>1, <1>2 DEF Last

(* An action that does not give the packet away is followed by another.      *)
LEMMA GivingGoesOn ==
  ASSUME WellFormed, Calls, Giving, Running, ~ GivesAway(Action),
         stack' = Advance, UNCHANGED <<table, looking, gone>>
  PROVE  Giving' /\ gone = 0
<1>1. /\ stack # << >> /\ ~ looking /\ Top.next <= Last(Top.rule) /\ Top.next # Last(Top.rule)
  BY LastAction
<1>2. /\ Len(stack) \in DOMAIN stack /\ Top.rule \in DOMAIN table /\ Top.next \in Nat
      /\ Last(Top.rule) \in Nat
  BY <1>1, TopFacts, RuleFacts DEF Calls
<1>3. gone = 0
  BY <1>1, <1>2 DEF Giving, Top
<1>4. /\ Len(stack') = Len(stack) /\ DOMAIN stack' = DOMAIN stack
      /\ \A k \in DOMAIN stack : stack'[k].rule = stack[k].rule
      /\ \A k \in DOMAIN stack : k # Len(stack) => stack'[k].next = stack[k].next
      /\ stack'[Len(stack)].next = stack[Len(stack)].next + 1
  BY Advanced
<1>5. \A k \in DOMAIN stack : k < Len(stack) => k # Len(stack)
  BY CallFacts
<1>6. \A i \in DOMAIN table : Last(i)' = Last(i)
  BY DEF Last
<1>7. \A k \in DOMAIN stack' : k < Len(stack') \/ looking' => stack'[k].next = Last(stack[k].rule) + 1
  BY <1>1, <1>3, <1>4, <1>5 DEF Giving
<1>8. stack'[Len(stack')].next <= Last(stack[Len(stack)].rule)
  BY <1>1, <1>2, <1>4 DEF Top
<1>9. stack' # << >>
  BY <1>2, <1>4
<1>10. \A k \in DOMAIN stack : Len(table[stack'[k].rule].actions) = Len(table[stack[k].rule].actions)
  BY <1>4
<1>11. /\ \A k \in DOMAIN stack' :
            k < Len(stack') \/ looking' => stack'[k].next = Len(table'[stack'[k].rule].actions) + 1
       /\ stack'[Len(stack')].next <= Len(table'[stack'[Len(stack')].rule].actions)
  BY <1>2, <1>4, <1>7, <1>8, <1>10 DEF Last
<1> QED
  BY <1>1, <1>3, <1>9, <1>11 DEF Giving, Last

(* One that does is the last: the calls have nothing left to do. *)
LEMMA GivingEnds ==
  ASSUME WellFormed, Calls, Giving, Running, GivesAway(Action),
         stack' = Advance, table' = table
  PROVE  /\ gone = 0 /\ ~ looking
         /\ \A k \in DOMAIN stack' : stack'[k].next = Len(table'[stack'[k].rule].actions) + 1
<1>1. stack # << >> /\ ~ looking /\ Top.next = Last(Top.rule)
  BY LastAction
<1>2. Len(stack) \in DOMAIN stack /\ Top.rule \in DOMAIN table /\ Last(Top.rule) \in Nat
  BY <1>1, TopFacts, RuleFacts DEF Calls
<1>3. gone = 0
  BY <1>1, <1>2 DEF Giving, Top
<1>4. /\ DOMAIN stack' = DOMAIN stack
      /\ \A k \in DOMAIN stack : stack'[k].rule = stack[k].rule
      /\ \A k \in DOMAIN stack : k # Len(stack) => stack'[k].next = stack[k].next
      /\ stack'[Len(stack)].next = stack[Len(stack)].next + 1
  BY Advanced
<1>5. \A k \in DOMAIN stack : k = Len(stack) \/ k < Len(stack)
  BY CallFacts
<1>6. \A k \in DOMAIN stack : stack'[k].next = Last(stack[k].rule) + 1
  BY <1>1, <1>3, <1>4, <1>5 DEF Giving, Top
<1> QED
  BY <1>1, <1>3, <1>4, <1>6 DEF Last

LEMMA GivingStep ==
  ASSUME WellFormed, Calls, Giving, Next
  PROVE  Giving'
<1>1. CASE Arrive
  <2>1. stack' = << >> /\ looking' /\ gone' = 0
    BY <1>1 DEF Arrive, Idle
  <2> QED
    BY <2>1 DEF Giving
<1>2. CASE \E i \in DOMAIN table : MatchEntry(i)
  <2>1. PICK i \in DOMAIN table : MatchEntry(i)
    BY <1>2
  <2>2. looking /\ looking' = FALSE /\ stack' = Append(stack, [rule |-> i, next |-> 1])
        /\ gone' = gone /\ table' = table
    BY <2>1 DEF MatchEntry
  <2>3. gone = 0 /\ \A k \in DOMAIN stack : stack[k].next = Last(stack[k].rule) + 1
    BY <2>2 DEF Giving
  <2>4. /\ Len(stack') = Len(stack) + 1 /\ DOMAIN stack' = 1 .. Len(stack) + 1
        /\ \A k \in DOMAIN stack : stack'[k] = stack[k]
        /\ stack'[Len(stack) + 1].rule = i /\ stack'[Len(stack) + 1].next = 1
    BY <2>2, Entered
  <2>5. \A k \in DOMAIN stack' : k < Len(stack') => k \in DOMAIN stack
    BY <2>4, CallFacts
  <2>6. \A k \in DOMAIN stack' : k < Len(stack') => stack'[k].next = Len(table'[stack'[k].rule].actions) + 1
    BY <2>2, <2>3, <2>4, <2>5 DEF Last
  <2>7. 1 <= Len(table[i].actions)
    BY NoneEmpty DEF Calls, Last
  <2>8. stack' # << >>
    BY <2>4, CallFacts
  <2> QED
    BY <2>2, <2>3, <2>4, <2>6, <2>7, <2>8 DEF Giving, Last
<1>3. CASE RequestRule
  BY <1>3 DEF RequestRule, Giving, Last
<1>4. CASE Forward \/ AskOrDrop
  <2>1. Running /\ GivesAway(Action) /\ stack' = Advance /\ table' = table
    BY <1>4 DEF Forward, AskOrDrop, GivesAway
  <2>2. gone' = gone + 1 /\ looking' = looking
    BY <1>4 DEF Forward, AskOrDrop
  <2>3. gone' = 1 /\ ~ looking'
    BY <2>1, <2>2, GivingEnds
  <2> QED
    BY <2>1, <2>3, GivingEnds DEF Giving, Last
<1>5. CASE Match
  <2>1. Running /\ GivesAway(Action) /\ stack' = Advance /\ table' = table
    BY <1>5 DEF Match, GivesAway
  <2>2. gone' = gone /\ looking'
    BY <1>5 DEF Match
  <2> QED
    BY <2>1, <2>2, GivingEnds DEF Giving, Last
<1>6. CASE SetAction \/ Function
  <2>1. Running /\ ~ GivesAway(Action) /\ stack' = Advance /\ UNCHANGED <<table, looking, gone>>
    BY <1>6 DEF SetAction, Function, GivesAway
  <2> QED
    BY <2>1, GivingGoesOn
<1>7. CASE Counted
  <2>1. /\ stack # << >> /\ ~ looking /\ Top.next > Len(Actions)
        /\ stack' = SubSeq(stack, 1, Len(stack) - 1) /\ UNCHANGED <<table, looking, gone>>
    BY <1>7 DEF Counted
  <2>2. Len(stack) \in DOMAIN stack /\ Top.next \in Nat /\ Last(Top.rule) \in Nat
    BY <2>1, TopFacts, RuleFacts DEF Calls
  <2>3. gone = 1
    BY <2>1, <2>2 DEF Giving, Top, Actions, Last
  <2>4. \A k \in DOMAIN stack' : k \in DOMAIN stack /\ stack'[k] = stack[k]
    BY <2>1, Left
  <2> QED
    BY <2>1, <2>3, <2>4 DEF Giving, Last
<1> QED
  BY <1>1, <1>2, <1>3, <1>4, <1>5, <1>6, <1>7 DEF Next

LEMMA WellFormedStep ==
  ASSUME Next
  PROVE  /\ table' = table /\ (WellFormed' <=> WellFormed) /\ (Settled' <=> Settled)
         /\ MatchRules' = MatchRules
<1>1. table' = table
  <2>1. CASE Arrive \/ RequestRule \/ Forward \/ AskOrDrop
    BY <2>1 DEF Arrive, RequestRule, Forward, AskOrDrop
  <2>2. CASE Function \/ Match \/ Counted
    BY <2>2 DEF Function, Match, Counted
  <2>3. CASE SetAction
    BY <2>3 DEF SetAction
  <2>4. CASE \E i \in DOMAIN table : MatchEntry(i)
    BY <2>4 DEF MatchEntry
  <2> QED
    BY <2>1, <2>2, <2>3, <2>4 DEF Next
<1> QED
  BY <1>1 DEF WellFormed, GivesAway, Settled, MatchRules, Marks, InRange
-----------------------------------------------------------------------------
(* The rules that wait, and their marks.                                   *)

LEMMA WaitingStep ==
  ASSUME Calls, Waiting, Next
  PROVE  Waiting'
<1>1. table' = table /\ MatchRules' = MatchRules
  BY WellFormedStep
<1>2. CASE Arrive
  BY <1>2 DEF Arrive, Idle, Waiting
<1>3. CASE \E i \in DOMAIN table : MatchEntry(i)
  <2>1. PICK i \in DOMAIN table : MatchEntry(i)
    BY <1>3
  <2>2. looking /\ looking' = FALSE /\ stack' = Append(stack, [rule |-> i, next |-> 1])
    BY <2>1 DEF MatchEntry
  <2>3. /\ Len(stack') = Len(stack) + 1 /\ DOMAIN stack' = 1 .. Len(stack) + 1
        /\ \A k \in DOMAIN stack : stack'[k] = stack[k]
    BY <2>2, Entered
  <2>4. \A k \in DOMAIN stack' : k < Len(stack') => k \in DOMAIN stack
    BY <2>3, CallFacts
  <2> QED
    BY <1>1, <2>2, <2>3, <2>4 DEF Waiting
<1>4. CASE RequestRule
  BY <1>1, <1>4 DEF RequestRule, Waiting
<1>5. CASE Forward \/ AskOrDrop \/ SetAction \/ Function
  <2>1. Running /\ stack' = Advance /\ looking' = looking
    BY <1>5 DEF Forward, AskOrDrop, SetAction, Function
  <2>2. /\ Len(stack') = Len(stack) /\ DOMAIN stack' = DOMAIN stack
        /\ \A k \in DOMAIN stack : stack'[k].rule = stack[k].rule
    BY <2>1, Advanced
  <2> QED
    BY <1>1, <2>1, <2>2 DEF Waiting
<1>6. CASE Match
  <2>1. Running /\ stack' = Advance /\ Action.type = "MATCH"
    BY <1>6 DEF Match
  <2>2. /\ Len(stack') = Len(stack) /\ DOMAIN stack' = DOMAIN stack
        /\ \A k \in DOMAIN stack : stack'[k].rule = stack[k].rule
    BY <2>1, Advanced
  <2>3. stack # << >> /\ Top.next <= Len(Actions)
    BY <2>1 DEF Running
  <2>4. Top.rule \in DOMAIN table /\ Top.next \in Nat /\ 1 <= Top.next
    BY <2>3, TopFacts DEF Calls, Top
  <2>5. Top.next \in DOMAIN table[Top.rule].actions
    BY <2>3, <2>4, RuleFacts DEF Calls, Actions, Last
  <2>6. Top.rule \in MatchRules
    BY <2>1, <2>4, <2>5 DEF MatchRules, Action, Actions
  <2>7. \A k \in DOMAIN stack : k = Len(stack) \/ k < Len(stack)
    BY CallFacts
  <2>8. \A k \in DOMAIN stack : stack[k].rule \in MatchRules
    BY <2>6, <2>7 DEF Waiting, Top
  <2> QED
    BY <1>1, <2>2, <2>8 DEF Waiting
<1>7. CASE Counted
  <2>1. /\ stack # << >> /\ ~ looking /\ looking' = looking
        /\ stack' = SubSeq(stack, 1, Len(stack) - 1)
    BY <1>7 DEF Counted
  <2>2. /\ Len(stack') = Len(stack) - 1 /\ DOMAIN stack' = 1 .. Len(stack) - 1
        /\ \A k \in DOMAIN stack' : k \in DOMAIN stack /\ stack'[k] = stack[k]
    BY <2>1, Left
  <2>3. \A k \in DOMAIN stack' : k < Len(stack)
    BY <2>2, CallFacts
  <2> QED
    BY <1>1, <2>1, <2>2, <2>3 DEF Waiting
<1> QED
  BY <1>2, <1>3, <1>4, <1>5, <1>6, <1>7 DEF Next

(* A rule with a MATCH cannot match while its mark is written over. *)
LEMMA NoMatchTwice ==
  ASSUME table \in Tables, Bytes, NEW i \in DOMAIN table, NEW w \in DOMAIN table[i].windows,
         NEW a \in DOMAIN table[i].actions, Marks(i, w, a), Gone(i, w)
  PROVE  ~ MayMatch(table[i])
<1> DEFINE win == table[i].windows[w]
<1>1. win \in Windows
  BY RuleFacts
<1>2. /\ win.op = "EQUAL" /\ win.size = 1 /\ InRange(win.lhs)
      /\ win.rhs.loc = "CONST" /\ win.rhs.at \in Byte /\ Value(win.lhs) # win.rhs.at
  BY DEF Marks, Gone
<1>3. win.lhs \in Places /\ win.rhs \in Places
  BY <1>1 DEF Windows
<1> HIDE DEF win
<1>4. Operand(win.rhs, win.size) = {win.rhs.at}
  BY <1>2 DEF Operand, InMemory
<1>5. win.rhs.at # UINT16_MAX
  BY <1>2 DEF Byte, UINT16_MAX
<1>6. \A x \in Operand(win.lhs, win.size) : x # win.rhs.at
  <2>1. win.lhs.loc \in {"PACKET", "STATUS"} /\ win.lhs.at \in DOMAIN Memory(win.lhs.loc)
    BY <1>2 DEF InRange, Bytes, Memory
  <2>2. ByteAt(win.lhs.loc, win.lhs.at) = {Value(win.lhs)}
    BY <2>1 DEF ByteAt, Memory, Value
  <2>3. Operand(win.lhs, win.size) \subseteq {UINT16_MAX} \cup {Value(win.lhs)}
    BY <1>2, <2>1, <2>2 DEF Operand, InMemory
  <2> QED
    BY <1>2, <1>5, <2>3
<1>7. TRUE \notin Outcomes(win)
  BY <1>2, <1>4, <1>6 DEF Outcomes, Compare
<1> QED
  BY <1>7 DEF MayMatch, win
-----------------------------------------------------------------------------
(* Settled rules: no rule is entered twice, and no mark comes back.        *)

Tidy == Distinct /\ Unmarked

(* When a lookup starts, every call waits past its mark. *)
LEMMA Lookup ==
  ASSUME WellFormed, Settled, Calls, Bytes, Giving, Waiting, Tidy, looking,
         NEW i \in DOMAIN table, MayMatch(table[i])
  PROVE  \A k \in DOMAIN stack : stack[k].rule # i
<1> SUFFICES ASSUME NEW k \in DOMAIN stack, stack[k].rule = i PROVE FALSE
  OBVIOUS
<1>1. gone = 0
  BY DEF Giving
<1>2. i \in MatchRules /\ \A j \in DOMAIN stack : stack[j].rule \in MatchRules
  BY DEF Waiting
<1>3. PICK w \in DOMAIN table[i].windows, a \in DOMAIN table[i].actions : Marks(i, w, a)
  BY <1>2 DEF Settled
<1>4. a < stack[k].next
  <2>1. stack[k].next = Last(i) + 1
    BY <1>1 DEF Giving
  <2>2. a \in 1 .. Last(i) /\ Last(i) \in Nat
    BY <1>3, RuleFacts DEF Calls
  <2> QED
    BY <2>1, <2>2
<1>5. Gone(i, w)
  BY <1>1, <1>2, <1>3, <1>4 DEF Tidy, Unmarked
<1> QED
  BY <1>3, <1>5, NoMatchTwice DEF Calls

ValueAfter(place) == IF place.loc = "PACKET" THEN packet'[place.at] ELSE status'[place.at]

LEMMA SamePlace ==
  ASSUME NEW p \in Places, NEW q \in Results, p.loc = q.loc, p.at = q.at
  PROVE  p = q
<1>1. p = [loc |-> p.loc, at |-> p.at]
  BY DEF Places
<1>2. q = [loc |-> q.loc, at |-> q.at]
  BY DEF Results
<1> QED
  BY <1>1, <1>2

LEMMA Stored ==
  ASSUME Bytes, NEW q \in Results, NEW b, Store(q, b), NEW p \in Places, InRange(p)
  PROVE  /\ p = q => ValueAfter(p) = b
         /\ p # q => ValueAfter(p) = Value(p)
<1>1. p # q => ~ (p.loc = q.loc /\ p.at = q.at)
  BY SamePlace
<1>2. q.loc \in {"PACKET", "STATUS"}
  BY DEF Results
<1> QED
  BY <1>1, <1>2 DEF Store, Value, ValueAfter, InRange, Bytes

LEMMA Added ==
  ASSUME NEW x \in Byte, NEW b \in DoOperation("ADD", x, 0)
  PROVE  b = x
<1>1. DoOperation("ADD", x, 0) = {(x + 0) % 256}
  BY DEF DoOperation
<1>2. (x + 0) % 256 = x
  BY DEF Byte
<1> QED
  BY <1>1, <1>2

(* The values the action in hand may compute. *)
Computed ==
  UNION {DoOperation(Action.op, l, r) :
           l \in Operand(Action.lhs, 1), r \in Operand(Action.rhs, 1)}

(* What a SET of the innermost call leaves in a marked place. *)
LEMMA SetKeepsMarks ==
  ASSUME Settled, Calls, Bytes, Tidy, Running, Action.type = "SET_",
         NEW b \in Computed, Store(Action.res, b),
         \A k \in DOMAIN stack : stack[k].rule \in MatchRules,
         NEW k \in DOMAIN stack,
         NEW w \in DOMAIN table[stack[k].rule].windows,
         NEW a \in DOMAIN table[stack[k].rule].actions,
         Marks(stack[k].rule, w, a),
         \/ a < stack[k].next /\ Gone(stack[k].rule, w)
         \/ k = Len(stack) /\ a = Top.next
  PROVE  ValueAfter(table[stack[k].rule].windows[w].lhs) # table[stack[k].rule].windows[w].rhs.at
<1> DEFINE i == stack[k].rule
           win == table[i].windows[w]
<1>1. i \in DOMAIN table /\ stack # << >> /\ Top.rule \in DOMAIN table /\ Top.next \in Nat
      /\ Len(stack) \in DOMAIN stack /\ 1 <= Top.next /\ Top.next <= Len(Actions)
  BY CallFacts, TopFacts DEF Running, Calls, Top
<1>2. Top.next \in DOMAIN table[Top.rule].actions /\ Action = table[Top.rule].actions[Top.next]
  BY <1>1, RuleFacts DEF Calls, Actions, Action, Last
<1>3. Action \in SetActions
  <2>1. Action \in SetActions \cup OtherActions
    BY <1>1, <1>2, RuleFacts DEF Calls
  <2> QED
    BY <2>1 DEF OtherActions
<1>4. Action.res \in Results
  BY <1>3 DEF SetActions
<1>5. win.lhs \in Places
  <2>1. win \in Windows
    BY <1>1, RuleFacts DEF Calls
  <2> QED
    BY <2>1 DEF Windows
<1>6. Top.rule \in MatchRules /\ Action.type = "SET_"
  BY <1>1 DEF Top
<1>7. /\ InRange(win.lhs) /\ win.rhs.at \in Byte
      /\ \A j \in MatchRules : \A m \in DOMAIN table[j].actions :
           (table[j].actions[m].type = "SET_" /\ table[j].actions[m].res = win.lhs)
             => j = i /\ m <= a
      /\ table[i].actions[a].res = win.lhs
      /\ table[i].actions[a].op = "ADD" /\ table[i].actions[a].lhs.loc = "CONST"
      /\ table[i].actions[a].rhs.loc = "NULL_LOC"
      /\ table[i].actions[a].lhs.at \in Byte \ {win.rhs.at}
  BY DEF Marks
<1>8. Action.res = win.lhs => Top.rule = i /\ Top.next <= a
  BY <1>2, <1>6, <1>7
<1>9. k = Len(stack) /\ a = Top.next => Action = table[i].actions[a]
  BY <1>2 DEF Top
<1> HIDE DEF win
<1>10. CASE Action.res = win.lhs
  <2>1. k = Len(stack)
    BY <1>1, <1>8, <1>10 DEF Tidy, Distinct, Top
  <2>2. a = Top.next
    <3>1. a \in Nat /\ Top.next \in Nat
      <4>1. table \in Tables
        BY DEF Calls
      <4>2. a \in DOMAIN table[i].actions
        OBVIOUS
      <4> HIDE DEF i
      <4> QED
        BY ONLY <1>1, <4>1, <4>2, RuleFacts
    <3>2. Top.next <= a
      BY <1>8, <1>10
    <3>3. a < stack[k].next \/ a = Top.next
      OBVIOUS
    <3>4. stack[k].next = Top.next
      BY <2>1 DEF Top
    <3> QED
      BY ONLY <3>1, <3>2, <3>3, <3>4
  <2>3. /\ Action.op = "ADD" /\ Action.lhs.loc = "CONST" /\ Action.rhs.loc = "NULL_LOC"
        /\ Action.lhs.at \in Byte /\ Action.lhs.at # win.rhs.at
    BY <1>7, <1>9, <2>1, <2>2
  <2>4. Operand(Action.lhs, 1) = {Action.lhs.at} /\ Operand(Action.rhs, 1) = {0}
    BY <2>3 DEF Operand, InMemory
  <2>5. b \in DoOperation("ADD", Action.lhs.at, 0)
    BY <2>3, <2>4 DEF Computed
  <2>6. b = Action.lhs.at
    BY <2>3, <2>5, Added
  <2>7. ValueAfter(win.lhs) = b
    BY <1>4, <1>5, <1>7, <1>10, Stored
  <2> QED
    BY <2>3, <2>6, <2>7 DEF win
<1>11. CASE Action.res # win.lhs
  <2>1. ValueAfter(win.lhs) = Value(win.lhs)
    BY <1>4, <1>5, <1>7, <1>11, Stored
  <2>2. ~ (k = Len(stack) /\ a = Top.next)
    BY <1>7, <1>9, <1>11
  <2>3. Value(win.lhs) # win.rhs.at
    BY <2>2 DEF Gone, win
  <2> QED
    BY <2>1, <2>3 DEF win
<1> QED
  BY <1>10, <1>11

(* Nothing is asked of the marks once the packet is given away. *)
LEMMA GivenIsUnmarked ==
  ASSUME gone' = 1
  PROVE  Unmarked'
BY DEF Unmarked

LEMMA SameRulesDistinct ==
  ASSUME Distinct, DOMAIN stack' = DOMAIN stack,
         \A k \in DOMAIN stack : stack'[k].rule = stack[k].rule
  PROVE  Distinct'
BY DEF Distinct

LEMMA UnmarkedAfter ==
  ASSUME table' = table,
         \A k \in DOMAIN stack' :
           \A w \in DOMAIN table[stack'[k].rule].windows, a \in DOMAIN table[stack'[k].rule].actions :
             gone' = 0 /\ (\A j \in DOMAIN stack' : stack'[j].rule \in MatchRules)
               /\ Marks(stack'[k].rule, w, a) /\ a < stack'[k].next
             => ValueAfter(table[stack'[k].rule].windows[w].lhs)
                  # table[stack'[k].rule].windows[w].rhs.at
  PROVE  Unmarked'
<1>1. table' = table /\ MatchRules' = MatchRules
  BY DEF MatchRules
<1>2. \A i, w, a : Marks(i, w, a)' <=> Marks(i, w, a)
  BY ONLY <1>1 DEF Marks, InRange
<1>3. \A i, w : Gone(i, w)' <=> ValueAfter(table[i].windows[w].lhs) # table[i].windows[w].rhs.at
  BY DEF Gone, Value, ValueAfter
<1> QED
  BY <1>1, <1>2, <1>3 DEF Unmarked

(* The rule goes on, with the packet and the register as they were.        *)
LEMMA MarksKept ==
  ASSUME WellFormed, Settled, Calls, Tidy, Running, Action.type # "SET_", stack' = Advance,
         UNCHANGED <<table, packet, status, gone>>
  PROVE  Tidy'
<1>1. /\ DOMAIN stack' = DOMAIN stack
      /\ \A k \in DOMAIN stack : stack'[k].rule = stack[k].rule
      /\ \A k \in DOMAIN stack : k # Len(stack) => stack'[k].next = stack[k].next
      /\ stack'[Len(stack)].next = stack[Len(stack)].next + 1
  BY Advanced
<1>2. Distinct'
  BY <1>1, SameRulesDistinct DEF Tidy
<1>3. ASSUME NEW k \in DOMAIN stack,
             NEW w \in DOMAIN table[stack[k].rule].windows,
             NEW a \in DOMAIN table[stack[k].rule].actions,
             gone = 0, \A j \in DOMAIN stack : stack[j].rule \in MatchRules,
             Marks(stack[k].rule, w, a), a < stack'[k].next
      PROVE  Value(table[stack[k].rule].windows[w].lhs) # table[stack[k].rule].windows[w].rhs.at
  <2>1. a < stack[k].next
    <3>1. CASE k # Len(stack)
      BY <1>1, <1>3, <3>1
    <3>2. CASE k = Len(stack)
      <4>1. a \in Nat /\ stack[k].next \in Nat /\ stack'[k].next = stack[k].next + 1
        <5>1. stack[k].rule \in DOMAIN table /\ stack[k].next \in Nat
          BY <1>3, CallFacts
        <5> QED
          BY <1>1, <1>3, <3>2, <5>1, RuleFacts DEF Calls
      <4>2. a # stack[k].next
        BY <1>3, <3>2 DEF Marks, Action, Actions, Top
      <4> QED
        BY <1>3, <4>1, <4>2
    <3> QED
      BY <3>1, <3>2
  <2> QED
    BY <1>3, <2>1 DEF Tidy, Unmarked, Gone
<1>4. \A p : ValueAfter(p) = Value(p)
  BY DEF ValueAfter, Value
<1>5. Unmarked'
  <2>1. ASSUME NEW k \in DOMAIN stack',
               NEW w \in DOMAIN table[stack'[k].rule].windows,
               NEW a \in DOMAIN table[stack'[k].rule].actions,
               gone' = 0, \A j \in DOMAIN stack' : stack'[j].rule \in MatchRules,
               Marks(stack'[k].rule, w, a), a < stack'[k].next
        PROVE  ValueAfter(table[stack'[k].rule].windows[w].lhs)
                 # table[stack'[k].rule].windows[w].rhs.at
    <3>1. k \in DOMAIN stack /\ stack'[k].rule = stack[k].rule /\ gone = 0
          /\ \A j \in DOMAIN stack : stack[j].rule \in MatchRules
      BY <1>1, <2>1
    <3> QED
      BY <1>3, <1>4, <2>1, <3>1
  <2> QED
    BY <2>1, UnmarkedAfter
<1> QED
  BY <1>2, <1>5 DEF Tidy

LEMMA SetStep ==
  ASSUME WellFormed, Settled, Calls, Bytes, Giving, Waiting, Tidy, SetAction
  PROVE  Tidy'
<1>1. PICK b \in Computed : Store(Action.res, b)
  BY DEF SetAction, Computed
<1>2. /\ Running /\ Action.type = "SET_" /\ stack' = Advance
      /\ UNCHANGED <<table, looking, gone>>
  BY DEF SetAction
<1>3. /\ DOMAIN stack' = DOMAIN stack
      /\ \A k \in DOMAIN stack : stack'[k].rule = stack[k].rule
      /\ \A k \in DOMAIN stack : k # Len(stack) => stack'[k].next = stack[k].next
      /\ stack'[Len(stack)].next = stack[Len(stack)].next + 1
  BY <1>2, Advanced
<1>4. Distinct'
  BY <1>3, SameRulesDistinct DEF Tidy
<1>5. ASSUME NEW k \in DOMAIN stack,
             NEW w \in DOMAIN table[stack[k].rule].windows,
             NEW a \in DOMAIN table[stack[k].rule].actions,
             gone = 0, \A j \in DOMAIN stack : stack[j].rule \in MatchRules,
             Marks(stack[k].rule, w, a), a < stack'[k].next
      PROVE  ValueAfter(table[stack[k].rule].windows[w].lhs)
               # table[stack[k].rule].windows[w].rhs.at
  <2>1. \/ a < stack[k].next
        \/ k = Len(stack) /\ a = Top.next
    <3>1. CASE k # Len(stack)
      BY <1>3, <1>5, <3>1
    <3>2. CASE k = Len(stack)
      <4>1. stack[k].rule \in DOMAIN table /\ stack[k].next \in Nat
        BY <1>5, CallFacts
      <4>2. a \in Nat /\ stack'[k].next = stack[k].next + 1
        BY <1>3, <1>5, <3>2, <4>1, RuleFacts DEF Calls
      <4> QED
        BY <1>5, <3>2, <4>1, <4>2 DEF Top
    <3> QED
      BY <3>1, <3>2
  <2>2. a < stack[k].next => Gone(stack[k].rule, w)
    BY <1>5 DEF Tidy, Unmarked
  <2>3. \/ a < stack[k].next /\ Gone(stack[k].rule, w)
        \/ k = Len(stack) /\ a = Top.next
    BY <2>1, <2>2
  <2>4. /\ Settled /\ Calls /\ Bytes /\ Tidy /\ Running /\ Action.type = "SET_"
        /\ b \in Computed /\ Store(Action.res, b)
    BY <1>1, <1>2
  <2> QED
    BY ONLY <1>5, <2>3, <2>4, SetKeepsMarks
<1>6. Unmarked'
  <2>1. ASSUME NEW k \in DOMAIN stack',
               NEW w \in DOMAIN table[stack'[k].rule].windows,
               NEW a \in DOMAIN table[stack'[k].rule].actions,
               gone' = 0, \A j \in DOMAIN stack' : stack'[j].rule \in MatchRules,
               Marks(stack'[k].rule, w, a), a < stack'[k].next
        PROVE  ValueAfter(table[stack'[k].rule].windows[w].lhs)
                 # table[stack'[k].rule].windows[w].rhs.at
    <3>1. k \in DOMAIN stack /\ stack'[k].rule = stack[k].rule /\ gone = 0
          /\ \A j \in DOMAIN stack : stack[j].rule \in MatchRules
      BY <1>2, <1>3, <2>1
    <3>2. /\ w \in DOMAIN table[stack[k].rule].windows
          /\ a \in DOMAIN table[stack[k].rule].actions
          /\ Marks(stack[k].rule, w, a) /\ a < stack'[k].next
      BY ONLY <2>1, <3>1
    <3>3. ValueAfter(table[stack[k].rule].windows[w].lhs) # table[stack[k].rule].windows[w].rhs.at
      BY ONLY <1>5, <3>1, <3>2
    <3> QED
      BY ONLY <3>1, <3>3
  <2> QED
    BY <1>2, <2>1, UnmarkedAfter
<1> QED
  BY <1>4, <1>6 DEF Tidy

LEMMA EnterStep ==
  ASSUME WellFormed, Settled, Calls, Bytes, Giving, Waiting, Tidy,
         NEW i \in DOMAIN table, MatchEntry(i)
  PROVE  Tidy'
<1>1. /\ looking /\ MayMatch(table[i])
      /\ stack' = Append(stack, [rule |-> i, next |-> 1])
      /\ UNCHANGED <<table, packet, status, gone>>
  BY DEF MatchEntry
<1>2. \A k \in DOMAIN stack : stack[k].rule # i
  BY <1>1, Lookup
<1>3. /\ DOMAIN stack' = 1 .. Len(stack) + 1
      /\ \A k \in DOMAIN stack : stack'[k] = stack[k]
      /\ stack'[Len(stack) + 1].rule = i /\ stack'[Len(stack) + 1].next = 1
  BY <1>1, Entered
<1>4. \A k \in DOMAIN stack' : k \in DOMAIN stack \/ k = Len(stack) + 1
  BY <1>3, CallFacts
<1>5. \A k \in DOMAIN stack : k \in DOMAIN stack'
  BY <1>3, CallFacts
<1>6. Distinct'
  <2> SUFFICES ASSUME NEW j \in DOMAIN stack', NEW k \in DOMAIN stack',
                      stack'[j].rule = stack'[k].rule
               PROVE  j = k
    BY DEF Distinct
  <2> QED
    BY <1>2, <1>3, <1>4 DEF Tidy, Distinct
<1>7. Unmarked'
  <2>1. ASSUME NEW k \in DOMAIN stack',
               NEW w \in DOMAIN table[stack'[k].rule].windows,
               NEW a \in DOMAIN table[stack'[k].rule].actions,
               gone' = 0, \A j \in DOMAIN stack' : stack'[j].rule \in MatchRules,
               Marks(stack'[k].rule, w, a), a < stack'[k].next
        PROVE  ValueAfter(table[stack'[k].rule].windows[w].lhs)
                 # table[stack'[k].rule].windows[w].rhs.at
    <3>1. CASE k \in DOMAIN stack
      <4>1. stack'[k] = stack[k] /\ gone = 0 /\ \A j \in DOMAIN stack : stack[j].rule \in MatchRules
        BY <1>1, <1>3, <1>5, <2>1, <3>1
      <4>2. Value(table[stack[k].rule].windows[w].lhs) # table[stack[k].rule].windows[w].rhs.at
        BY <2>1, <3>1, <4>1 DEF Tidy, Unmarked, Gone
      <4> QED
        BY <1>1, <4>1, <4>2 DEF Value, ValueAfter
    <3>2. CASE k = Len(stack) + 1
      <4>1. a \in 1 .. Last(i) /\ Last(i) \in Nat
        BY <1>3, <2>1, <3>2, RuleFacts DEF Calls
      <4> QED
        BY <1>3, <2>1, <3>2, <4>1
    <3> QED
      BY <1>4, <3>1, <3>2
  <2> QED
    BY <1>1, <2>1, UnmarkedAfter
<1> QED
  BY <1>6, <1>7 DEF Tidy

LEMMA TidyStep ==
  ASSUME WellFormed, Settled, Calls, Bytes, Giving, Waiting, Tidy, Next
  PROVE  Tidy'
<1>1. CASE Arrive
  <2>1. stack' = << >>
    BY <1>1 DEF Arrive, Idle
  <2> QED
    BY <2>1 DEF Tidy, Distinct, Unmarked
<1>2. CASE \E i \in DOMAIN table : MatchEntry(i)
  BY <1>2, EnterStep
<1>3. CASE RequestRule
  <2>1. gone' = 1 /\ stack' = stack
    BY <1>3 DEF RequestRule, Giving
  <2> QED
    BY <2>1, GivenIsUnmarked, SameRulesDistinct DEF Tidy
<1>4. CASE Forward \/ AskOrDrop
  <2>1. Running /\ GivesAway(Action) /\ stack' = Advance /\ table' = table /\ gone' = gone + 1
    BY <1>4 DEF Forward, AskOrDrop, GivesAway
  <2>2. gone' = 1
    BY <2>1, GivingEnds
  <2>3. /\ DOMAIN stack' = DOMAIN stack
        /\ \A k \in DOMAIN stack : stack'[k].rule = stack[k].rule
    BY <2>1, Advanced
  <2> QED
    BY <2>2, <2>3, GivenIsUnmarked, SameRulesDistinct DEF Tidy
<1>5. CASE SetAction
  BY <1>5, SetStep
<1>6. CASE Function \/ Match
  <2>1. Running /\ Action.type # "SET_" /\ stack' = Advance /\ UNCHANGED <<table, packet, status, gone>>
    BY <1>6 DEF Function, Match
  <2> QED
    BY <2>1, MarksKept
<1>7. CASE Counted
  <2>1. /\ stack # << >> /\ ~ looking /\ Top.next > Len(Actions)
        /\ stack' = SubSeq(stack, 1, Len(stack) - 1) /\ gone' = gone
    BY <1>7 DEF Counted
  <2>2. Len(stack) \in DOMAIN stack /\ Top.next \in Nat /\ Last(Top.rule) \in Nat
    BY <2>1, TopFacts, RuleFacts DEF Calls
  <2>3. gone = 1
    BY <2>1, <2>2 DEF Giving, Top, Actions, Last
  <2>4. \A k \in DOMAIN stack' : k \in DOMAIN stack /\ stack'[k] = stack[k]
    BY <2>1, Left
  <2>5. Distinct'
    BY <2>4 DEF Tidy, Distinct
  <2> QED
    BY <2>1, <2>3, <2>5, GivenIsUnmarked DEF Tidy
<1> QED
  BY <1>1, <1>2, <1>3, <1>4, <1>5, <1>6, <1>7 DEF Next
-----------------------------------------------------------------------------
LEMMA InvInit ==
  ASSUME Init
  PROVE  Inv
<1>1. stack = << >> /\ gone = 0 /\ looking = TRUE /\ table \in Tables
  BY DEF Init
<1>2. Bytes
  BY MatchAssumption DEF Init, Bytes
<1> QED
  BY <1>1, <1>2 DEF Inv, Calls, Giving, Waiting, Distinct, Unmarked

LEMMA InvStep ==
  ASSUME Inv, [Next]_vars
  PROVE  Inv'
<1>1. CASE Next
  <2>1. Calls' /\ Bytes'
    BY <1>1, CallsStep, BytesStep DEF Inv
  <2>2. (WellFormed' <=> WellFormed) /\ (Settled' <=> Settled)
    BY <1>1, WellFormedStep
  <2>3. WellFormed => Giving' /\ Waiting'
    BY <1>1, GivingStep, WaitingStep DEF Inv
  <2>4. WellFormed /\ Settled => Distinct' /\ Unmarked'
    <3>1. WellFormed /\ Settled => Tidy'
      BY <1>1, TidyStep DEF Inv, Tidy
    <3> QED
      BY <3>1 DEF Tidy
  <2> QED
    BY <2>1, <2>2, <2>3, <2>4 DEF Inv
<1>2. CASE UNCHANGED vars
  <2>1. UNCHANGED <<table, packet, status, stack, looking, gone>>
    BY <1>2 DEF vars
  <2>2. Calls' /\ Bytes' /\ (Giving => Giving')
    BY <2>1 DEF Inv, Calls, Bytes, Giving, Last
  <2>3. MatchRules' = MatchRules /\ (WellFormed' <=> WellFormed)
    BY <2>1 DEF MatchRules, WellFormed, GivesAway
  <2>4. (Settled' <=> Settled) /\ (Waiting => Waiting') /\ (Distinct => Distinct')
    BY <2>1, <2>3 DEF Settled, Marks, InRange, Waiting, Distinct
  <2>5. Unmarked => Unmarked'
    <3>1. \A i, w, a : Marks(i, w, a)' <=> Marks(i, w, a)
      BY <2>1, <2>3 DEF Marks, InRange
    <3>2. \A i, w : Gone(i, w)' <=> Gone(i, w)
      BY <2>1 DEF Gone, Value
    <3> QED
      BY <2>1, <2>3, <3>1, <3>2 DEF Unmarked
  <2> QED
    BY <2>2, <2>3, <2>4, <2>5 DEF Inv
<1> QED
  BY <1>1, <1>2

LEMMA Invariance == Spec => []Inv
<1>1. Init => Inv
  BY InvInit
<1>2. Inv /\ [Next]_vars => Inv'
  BY InvStep
<1> QED
  BY <1>1, <1>2, PTL DEF Spec

(* A packet is given away exactly once, and no rule touches it afterwards,   *)
(* however deep the MATCH actions of a table of well formed rules nest.      *)
THEOREM GivenExactlyOnce == Spec => []GivenOnce
<1>1. Inv => GivenOnce
  <2> SUFFICES ASSUME Inv, WellFormed
               PROVE  /\ gone <= 1
                      /\ gone = 1 =>
                           /\ ~ looking
                           /\ \A k \in DOMAIN stack :
                                stack[k].next > Len(table[stack[k].rule].actions)
                      /\ Idle => gone = 1
    BY DEF GivenOnce
  <2>1. Giving /\ Calls
    BY DEF Inv
  <2>2. \A k \in DOMAIN stack : Last(stack[k].rule) \in Nat
    BY <2>1, CallFacts, RuleFacts DEF Calls
  <2>3. \A k \in DOMAIN stack :
          stack[k].next = Last(stack[k].rule) + 1 => stack[k].next > Len(table[stack[k].rule].actions)
    BY <2>2 DEF Last
  <2> QED
    BY <2>1, <2>3 DEF Giving, Idle
<1> QED
  BY <1>1, Invariance, PTL

(* If each rule with a MATCH first undoes its own match for good, no rule is *)
(* entered twice for one packet: the calls nest once for each rule at most.  *)
THEOREM RulesEnteredOnce == Spec => []NoRuleTwice
<1>1. Inv => NoRuleTwice
  BY DEF Inv, Distinct, NoRuleTwice
<1> QED
  BY <1>1, Invariance, PTL
-----------------------------------------------------------------------------
(* Bytes: what SET stores, and where operands are read.                     *)

(* Every combination of eight bits is that of a byte. *)
LEMMA ByteOfBits ==
  ASSUME NEW v \in [0 .. 7 -> {0, 1}]
  PROVE  \E b \in Byte : \A i \in 0 .. 7 : Bit(b, i) = v[i]
<1> DEFINE b == v[0] + 2 * v[1] + 4 * v[2] + 8 * v[3] + 16 * v[4] + 32 * v[5]
                + 64 * v[6] + 128 * v[7]
<1>1. \A i \in 0 .. 7 : v[i] \in 0 .. 1
  OBVIOUS
<1>2. v[0] \in 0 .. 1 /\ v[1] \in 0 .. 1 /\ v[2] \in 0 .. 1 /\ v[3] \in 0 .. 1
  BY <1>1
<1>3. v[4] \in 0 .. 1 /\ v[5] \in 0 .. 1 /\ v[6] \in 0 .. 1 /\ v[7] \in 0 .. 1
  BY <1>1
<1>4. 2 ^ 0 = 1 /\ 2 ^ 1 = 2 /\ 2 ^ 2 = 4 /\ 2 ^ 3 = 8
  OBVIOUS
<1>5. 2 ^ 4 = 16 /\ 2 ^ 5 = 32 /\ 2 ^ 6 = 64 /\ 2 ^ 7 = 128
  OBVIOUS
<1>6. b \in Byte
  BY <1>2, <1>3 DEF Byte
<1>7. Bit(b, 0) = v[0] /\ Bit(b, 1) = v[1] /\ Bit(b, 2) = v[2] /\ Bit(b, 3) = v[3]
  BY <1>2, <1>3, <1>4 DEF Bit
<1>8. Bit(b, 4) = v[4] /\ Bit(b, 5) = v[5] /\ Bit(b, 6) = v[6] /\ Bit(b, 7) = v[7]
  BY <1>2, <1>3, <1>5 DEF Bit
<1>9. \A i \in 0 .. 7 :
        i = 0 \/ i = 1 \/ i = 2 \/ i = 3 \/ i = 4 \/ i = 5 \/ i = 6 \/ i = 7
  OBVIOUS
<1> HIDE DEF b
<1>10. \A i \in 0 .. 7 : Bit(b, i) = v[i]
  BY <1>7, <1>8, <1>9, Zenon
<1> QED
  BY <1>6, <1>10

LEMMA BitIsBit == \A x \in Int, i \in 0 .. 7 : Bit(x, i) \in {0, 1}
<1> SUFFICES ASSUME NEW x \in Int, NEW i \in 0 .. 7 PROVE (x \div 2 ^ i) % 2 \in {0, 1}
  BY DEF Bit
<1>1. 2 ^ 0 = 1 /\ 2 ^ 1 = 2 /\ 2 ^ 2 = 4 /\ 2 ^ 3 = 8
  OBVIOUS
<1>2. 2 ^ 4 = 16 /\ 2 ^ 5 = 32 /\ 2 ^ 6 = 64 /\ 2 ^ 7 = 128
  OBVIOUS
<1>3. i = 0 \/ i = 1 \/ i = 2 \/ i = 3 \/ i = 4 \/ i = 5 \/ i = 6 \/ i = 7
  OBVIOUS
<1> DEFINE pow(j) == 2 ^ j
           p == pow(i)
<1>4. p \in Nat /\ p > 0
  <2>1. pow(0) = 1 /\ pow(1) = 2 /\ pow(2) = 4 /\ pow(3) = 8
    BY <1>1
  <2>2. pow(4) = 16 /\ pow(5) = 32 /\ pow(6) = 64 /\ pow(7) = 128
    BY <1>2
  <2> HIDE DEF pow
  <2> QED
    BY <1>3, <2>1, <2>2
<1> HIDE DEF p, pow
<1>5. (x \div p) % 2 \in {0, 1}
  <2>1. x \div p \in Int
    BY <1>4
  <2> QED
    BY <2>1
<1> QED
  BY <1>5 DEF p, pow

(* AND, OR and XOR make a byte, whatever they combine. *)
LEMMA BitWiseIsByte ==
  ASSUME NEW f \in [0 .. 2 -> {0, 1}], NEW l \in Int, NEW r \in Int
  PROVE  BitWise(f, l, r) \in Byte
<1> DEFINE v == [i \in 0 .. 7 |-> f[Bit(l, i) + Bit(r, i)]]
<1>1. v \in [0 .. 7 -> {0, 1}]
  <2>1. \A i \in 0 .. 7 : Bit(l, i) + Bit(r, i) \in 0 .. 2
    BY BitIsBit
  <2> QED
    BY <2>1
<1>2. \A i \in 0 .. 7 : v[i] = f[Bit(l, i) + Bit(r, i)]
  OBVIOUS
<1> HIDE DEF v
<1>3. \E b \in Byte : \A i \in 0 .. 7 : Bit(b, i) = f[Bit(l, i) + Bit(r, i)]
  BY <1>1, <1>2, ByteOfBits
<1> QED
  BY <1>3 DEF BitWise

LEMMA IndexFacts == \A x : x \in Index <=> x \in Nat /\ x <= UINT16_MAX
<1>1. UINT16_MAX \in Nat
  BY DEF UINT16_MAX
<1> QED
  BY <1>1 DEF Index

LEMMA OperationIsByte ==
  ASSUME NEW op \in {"ADD", "SUB", "MUL", "DIV", "MOD", "AND", "OR", "XOR"},
         NEW l \in Index, NEW r \in Index
  PROVE  DoOperation(op, l, r) \subseteq Byte
<1>1. l \in Nat /\ r \in Nat
  BY IndexFacts
<1>2. CASE op = "ADD"
  BY <1>1, <1>2 DEF DoOperation, Byte
<1>3. CASE op = "SUB"
  BY <1>1, <1>3 DEF DoOperation, Byte
<1>4. CASE op = "MUL"
  <2>1. l % 256 \in Nat /\ r % 256 \in Nat
    BY <1>1
  <2>2. (l % 256) * (r % 256) \in Nat
    BY <2>1
  <2>3. ((l % 256) * (r % 256)) % 256 \in Byte
    BY <2>2 DEF Byte
  <2> QED
    BY <1>4, <2>3 DEF DoOperation
<1>5. CASE op = "DIV"
  <2>1. CASE r = 0
    BY <1>5, <2>1, MatchAssumption DEF DoOperation
  <2>2. CASE r # 0
    <3>1. l \div r \in Int
      BY <1>1, <2>2
    <3> QED
      BY <1>5, <2>2, <3>1 DEF DoOperation, Byte
  <2> QED
    BY <2>1, <2>2
<1>6. CASE op = "MOD"
  <2>1. CASE r = 0
    BY <1>6, <2>1, MatchAssumption DEF DoOperation
  <2>2. CASE r # 0
    <3>1. l % r \in Int
      BY <1>1, <2>2
    <3> QED
      BY <1>6, <2>2, <3>1 DEF DoOperation, Byte
  <2> QED
    BY <2>1, <2>2
<1> DEFINE and == [n \in 0 .. 2 |-> n \div 2]
           or  == [n \in 0 .. 2 |-> (n + 1) \div 2]
           xor == [n \in 0 .. 2 |-> n % 2]
<1>7. CASE op = "AND"
  <2>1. and \in [0 .. 2 -> {0, 1}]
    OBVIOUS
  <2>2. DoOperation(op, l, r) = {BitWise(and, l, r)}
    BY <1>7 DEF DoOperation
  <2> HIDE DEF and
  <2> QED
    BY <1>1, <2>1, <2>2, BitWiseIsByte
<1>8. CASE op = "OR"
  <2>1. or \in [0 .. 2 -> {0, 1}]
    OBVIOUS
  <2>2. DoOperation(op, l, r) = {BitWise(or, l, r)}
    BY <1>8 DEF DoOperation
  <2> HIDE DEF or
  <2> QED
    BY <1>1, <2>1, <2>2, BitWiseIsByte
<1>9. CASE op = "XOR"
  <2>1. xor \in [0 .. 2 -> {0, 1}]
    OBVIOUS
  <2>2. DoOperation(op, l, r) = {BitWise(xor, l, r)}
    BY <1>9 DEF DoOperation
  <2> HIDE DEF xor
  <2> QED
    BY <1>1, <2>1, <2>2, BitWiseIsByte
<1> QED
  BY <1>2, <1>3, <1>4, <1>5, <1>6, <1>7, <1>8, <1>9

(* The width of int, and what is written: bytes, and counts of 16 bits.     *)
Typed ==
  /\ int \in {16, 32}
  /\ packet \in [Cells -> Byte]
  /\ status \in [Registers -> Byte]
  /\ counts \in [DOMAIN table -> Index]
  /\ gone \in Nat /\ wild \in BOOLEAN

LEMMA ByteAtIsByte ==
  ASSUME Typed, NEW loc, NEW i
  PROVE  ByteAt(loc, i) \subseteq Byte
BY MatchAssumption DEF ByteAt, Memory, Typed

LEMMA OperandIsIndex ==
  ASSUME Typed, NEW o \in Places
  PROVE  Operand(o, 1) \subseteq Index
<1>1. o.at \in Index
  BY DEF Places
<1>2. ByteAt(o.loc, o.at) \subseteq Index
  BY ByteAtIsByte, IndexFacts DEF Byte, UINT16_MAX
<1>3. 0 \in Index /\ UINT16_MAX \in Index
  BY IndexFacts DEF UINT16_MAX
<1> QED
  BY <1>1, <1>2, <1>3 DEF Operand

(* An operand inside its limit is read inside it, save for two exceptions.   *)
LEMMA ReadInside ==
  ASSUME Typed, NEW o \in Places, NEW size \in {1, 2}
  PROVE  \/ Reads(o, size) \subseteq 0 .. Limit(o.loc)
         \/ int = 16 /\ size = 2 /\ o.at = UINT16_MAX
         \/ int = 16 /\ o.loc = "PACKET" /\ packet[LEN_INDEX] = 0
<1>1. o.at \in Nat /\ o.at <= UINT16_MAX
  <2>1. o.at \in Index
    BY DEF Places
  <2> QED
    BY <2>1, IndexFacts
<1>2. packet[LEN_INDEX] \in 0 .. 255 /\ NumStatus \in Nat \ {0}
  BY MatchAssumption DEF Typed, Byte, Cells, LEN_INDEX, NXH_INDEX
<1> DEFINE lim == Limit(o.loc)
<1>3. lim \in Int /\ lim >= -1
  BY <1>2 DEF Limit
<1>4. lim = -1 => o.loc = "PACKET" /\ packet[LEN_INDEX] = 0
  BY <1>2 DEF Limit
<1> HIDE DEF lim
<1> SUFFICES ASSUME NEW k \in 0 .. size - 1, InMemory(o), ~ Outside(o, size),
                    ~ (int = 16 /\ size = 2 /\ o.at = UINT16_MAX),
                    ~ (int = 16 /\ o.loc = "PACKET" /\ packet[LEN_INDEX] = 0)
             PROVE  Unsigned(o.at + k) \in 0 .. lim
  BY DEF Reads, lim
<1>5. Unsigned(o.at + size - 1) <= Unsigned(lim)
  <2>1. Unsigned(o.at + size - 1) \in Int /\ Unsigned(lim) \in Int
    BY <1>1, <1>3 DEF Unsigned, lim
  <2> QED
    BY <2>1 DEF Outside, lim
<1>6. CASE int = 32
  BY <1>1, <1>3, <1>5, <1>6 DEF Unsigned
<1>7. CASE int = 16
  <2>1. lim >= 0
    BY <1>3, <1>4, <1>7
  <2>2. /\ o.at + size - 1 \in Nat /\ o.at + size - 1 < 65536
        /\ o.at + k \in Nat /\ o.at + k <= o.at + size - 1
    BY <1>1, <1>7 DEF UINT16_MAX
  <2>3. Unsigned(o.at + size - 1) = o.at + size - 1 /\ Unsigned(o.at + k) = o.at + k
    BY <1>7, <2>2 DEF Unsigned
  <2>4. lim % 65536 <= lim
    BY <1>3, <2>1
  <2>5. Unsigned(lim) <= lim /\ Unsigned(lim) \in Int
    BY <1>3, <1>7, <2>4 DEF Unsigned
  <2> QED
    BY <1>1, <1>3, <1>5, <2>1, <2>2, <2>3, <2>5
<1> QED
  BY <1>6, <1>7 DEF Typed

(* The action that runs is one of its rule's. *)
LEMMA ActionFacts ==
  ASSUME Calls, Running
  PROVE  Action \in SetActions \cup OtherActions
<1>1. stack # << >> /\ Top.next <= Len(Actions)
  BY DEF Running
<1>2. Top.rule \in DOMAIN table /\ Top.next \in Nat /\ 1 <= Top.next
  BY <1>1, TopFacts DEF Calls, Top
<1>3. /\ Len(Actions) \in Nat /\ DOMAIN Actions = 1 .. Len(Actions)
      /\ \A k \in DOMAIN Actions : Actions[k] \in SetActions \cup OtherActions
  BY <1>2, RuleFacts DEF Actions, Last, Calls
<1>4. Top.next \in DOMAIN Actions
  BY <1>1, <1>2, <1>3
<1> QED
  BY <1>3, <1>4 DEF Action

LEMMA StoreTyped ==
  ASSUME Typed, NEW res \in Results, NEW b \in Byte, Store(res, b)
  PROVE  packet' \in [Cells -> Byte] /\ status' \in [Registers -> Byte] /\ wild' \in BOOLEAN
BY DEF Typed, Store

(* What a SET stores, and where, is named by one of the table's actions. *)
LEMMA SetStores ==
  ASSUME Calls, Typed, SetAction
  PROVE  /\ Top.rule \in DOMAIN table /\ Top.next \in Sets(table[Top.rule])
         /\ Action = table[Top.rule].actions[Top.next]
         /\ Action.res \in Results
         /\ \E b \in Byte : Store(Action.res, b)
<1>1. Running /\ Action.type = "SET_"
  BY DEF SetAction
<1>2. /\ Top.rule \in DOMAIN table /\ Top.next \in Nat /\ 1 <= Top.next
      /\ Top.next <= Len(Actions)
  BY <1>1, TopFacts DEF Calls, Top, Running
<1>3. Len(Actions) \in Nat /\ DOMAIN Actions = 1 .. Len(Actions)
  BY <1>2, RuleFacts DEF Actions, Last, Calls
<1>4. Top.next \in DOMAIN Actions
  BY <1>2, <1>3
<1>5. Action \in SetActions
  <2>1. Action \in SetActions \cup OtherActions
    BY <1>1, ActionFacts
  <2>2. Action \notin OtherActions
    BY <1>1 DEF OtherActions
  <2> QED
    BY <2>1, <2>2
<1>6. /\ Action.lhs \in Places /\ Action.rhs \in Places /\ Action.res \in Results
      /\ Action.op \in {"ADD", "SUB", "MUL", "DIV", "MOD", "AND", "OR", "XOR"}
  BY <1>5 DEF SetActions
<1>7. PICK l \in Operand(Action.lhs, 1), r \in Operand(Action.rhs, 1) :
        \E b \in DoOperation(Action.op, l, r) : Store(Action.res, b)
  BY DEF SetAction
<1>8. PICK b \in DoOperation(Action.op, l, r) : Store(Action.res, b)
  BY <1>7
<1>9. l \in Index /\ r \in Index
  BY <1>6, <1>7, OperandIsIndex
<1>10. b \in Byte
  BY <1>6, <1>8, <1>9, OperationIsByte
<1>11. \E c \in Byte : Store(Action.res, c)
  BY <1>8, <1>10
<1> QED
  BY <1>1, <1>2, <1>4, <1>6, <1>11 DEF Sets, Actions, Action

LEMMA TypedStep ==
  ASSUME Calls, Typed, Next
  PROVE  Typed'
<1>0. table' = table
  BY WellFormedStep
<1>1. CASE Arrive
  BY <1>0, <1>1, MatchAssumption DEF Arrive, Typed
<1>2. CASE SetAction
  <2>1. /\ Running /\ Action.type = "SET_"
        /\ UNCHANGED <<int, table, counts, gone>>
    BY <1>2 DEF SetAction
  <2>2. PICK b \in Byte : Store(Action.res, b)
    BY <1>2, SetStores
  <2>3. packet' \in [Cells -> Byte] /\ status' \in [Registers -> Byte] /\ wild' \in BOOLEAN
    BY <1>2, <2>2, SetStores, StoreTyped
  <2> QED
    BY <2>1, <2>3 DEF Typed
<1>3. CASE Forward
  <2>1. /\ Running /\ Action.type \in {"FORWARD_U", "FORWARD_B"}
        /\ packet' = [packet EXCEPT ![NXH_INDEX] = Action.nxh[1], ![NXH_INDEX + 1] = Action.nxh[2]]
        /\ gone' = gone + 1
        /\ UNCHANGED <<int, table, counts, status, wild>>
    BY <1>3 DEF Forward
  <2>2. Action \in SetActions \cup OtherActions
    BY <2>1, ActionFacts
  <2>3. Action.nxh \in Byte \X Byte
    BY <2>1, <2>2 DEF SetActions, OtherActions
  <2>4. packet' \in [Cells -> Byte]
    BY <2>1, <2>3 DEF Typed
  <2> QED
    BY <2>1, <2>4 DEF Typed
<1>4. CASE \E i \in DOMAIN table : MatchEntry(i)
  BY <1>4 DEF MatchEntry, Typed
<1>5. CASE RequestRule
  BY <1>5 DEF RequestRule, Typed
<1>6. CASE AskOrDrop
  BY <1>6 DEF AskOrDrop, Typed
<1>7. CASE Function \/ Match
  BY <1>7 DEF Function, Match, Typed
<1>8. CASE Counted
  <2>1. /\ stack # << >> /\ counts' = [counts EXCEPT ![Top.rule] = (@ + 1) % 65536]
        /\ UNCHANGED <<int, table, packet, status, gone, wild>>
    BY <1>8 DEF Counted
  <2>2. Top.rule \in DOMAIN table
    BY <2>1, TopFacts
  <2>3. counts[Top.rule] \in Nat
    BY <2>2, IndexFacts DEF Typed
  <2>4. (counts[Top.rule] + 1) % 65536 \in Index
    BY <2>3, IndexFacts DEF UINT16_MAX
  <2>5. counts' \in [DOMAIN table -> Index]
    BY <2>1, <2>2, <2>4 DEF Typed
  <2> QED
    BY <2>1, <2>5 DEF Typed
<1> QED
  BY <1>1, <1>2, <1>3, <1>4, <1>5, <1>6, <1>7, <1>8 DEF Next

LEMMA TypedInvariance == Spec => [](Inv /\ Typed)
<1>1. Init => Typed
  <2> SUFFICES ASSUME Init PROVE Typed
    OBVIOUS
  <2>1. 0 \in Index
    BY IndexFacts DEF UINT16_MAX
  <2>2. packet \in [Cells -> Byte] /\ status \in [Registers -> Byte]
    BY MatchAssumption DEF Init, Byte
  <2> QED
    BY <2>1, <2>2 DEF Init, Typed
<1>2. Inv /\ Typed /\ [Next]_vars => Typed'
  <2> SUFFICES ASSUME Inv, Typed, [Next]_vars PROVE Typed'
    OBVIOUS
  <2>1. CASE Next
    BY <2>1, TypedStep DEF Inv
  <2>2. CASE UNCHANGED vars
    BY <2>2 DEF vars, Typed
  <2> QED
    BY <2>1, <2>2
<1> QED
  BY <1>1, <1>2, Invariance, PTL DEF Spec

(* Packet and status register are bytes and the calls at their actions,      *)
(* whatever the rules compute.                                               *)
THEOREM TypeCorrect == Spec => []TypeOK
<1>1. Inv /\ Typed => TypeOK
  <2> SUFFICES ASSUME Inv, Typed PROVE TypeOK
    OBVIOUS
  <2>1. /\ table \in Tables /\ looking \in BOOLEAN
        /\ \A k \in DOMAIN stack : stack[k].rule \in DOMAIN table /\ stack[k].next \in Nat
        /\ \A k \in DOMAIN stack :
             1 <= stack[k].next /\ stack[k].next <= Len(table[stack[k].rule].actions) + 1
    BY CallFacts DEF Inv, Calls, Last
  <2>2. \A k \in DOMAIN stack : Len(table[stack[k].rule].actions) \in Nat
    BY <2>1, RuleFacts DEF Last
  <2>3. \A k \in DOMAIN stack :
          stack[k].next \in 1 .. Len(table[stack[k].rule].actions) + 1
    BY <2>1, <2>2
  <2> QED
    BY <2>1, <2>3 DEF TypeOK, Typed
<1> QED
  BY <1>1, TypedInvariance, PTL

(* Of a packet that came with a length of its own nothing writes the length, *)
(* unless a rule asks for it.                                                *)
LengthKept == Measured => packet[LEN_INDEX] \in 1 .. Size

LEMMA LengthStep ==
  ASSUME Calls, Typed, LengthKept, Next
  PROVE  LengthKept'
<1>0. table' = table /\ (Measured' <=> Measured)
  BY WellFormedStep DEF Measured, Sets
<1> SUFFICES ASSUME Measured PROVE packet'[LEN_INDEX] \in 1 .. Size
  BY <1>0 DEF LengthKept
<1>1. CASE Arrive
  BY <1>1 DEF Arrive, Measured
<1>2. CASE SetAction
  <2>1. PICK b \in Byte : Store(Action.res, b)
    BY <1>2, SetStores
  <2>2. Action.res \in Results /\ Action.res # [loc |-> "PACKET", at |-> LEN_INDEX]
    BY <1>2, SetStores DEF Measured
  <2>3. ~ (Action.res.loc = "PACKET" /\ Action.res.at = LEN_INDEX)
    BY <2>2 DEF Results
  <2>4. packet'[LEN_INDEX] = packet[LEN_INDEX]
    BY <2>1, <2>3 DEF Store, Typed
  <2> QED
    BY <2>4 DEF LengthKept
<1>3. CASE Forward
  <2>1. /\ packet' = [packet EXCEPT ![NXH_INDEX] = Action.nxh[1], ![NXH_INDEX + 1] = Action.nxh[2]]
        /\ packet \in [Cells -> Byte]
    BY <1>3 DEF Forward, Typed
  <2>2. LEN_INDEX \in Cells /\ LEN_INDEX # NXH_INDEX /\ LEN_INDEX # NXH_INDEX + 1
    BY MatchAssumption DEF Cells, LEN_INDEX, NXH_INDEX
  <2>3. packet'[LEN_INDEX] = packet[LEN_INDEX]
    BY <2>1, <2>2
  <2> QED
    BY <2>3 DEF LengthKept
<1>4. CASE packet' = packet
  BY <1>4 DEF LengthKept
<1>5. CASE \E i \in DOMAIN table : MatchEntry(i)
  BY <1>4, <1>5 DEF MatchEntry
<1>6. CASE RequestRule \/ AskOrDrop \/ Function \/ Match \/ Counted
  BY <1>4, <1>6 DEF RequestRule, AskOrDrop, Function, Match, Counted
<1> QED
  BY <1>1, <1>2, <1>3, <1>5, <1>6 DEF Next

LEMMA LengthInvariance == Spec => [](Inv /\ Typed /\ LengthKept)
<1>1. Init => LengthKept
  BY DEF Init, LengthKept, Measured
<1>2. Inv /\ Typed /\ LengthKept /\ [Next]_vars => LengthKept'
  <2> SUFFICES ASSUME Inv, Typed, LengthKept, [Next]_vars PROVE LengthKept'
    OBVIOUS
  <2>1. CASE Next
    BY <2>1, LengthStep DEF Inv
  <2>2. CASE UNCHANGED vars
    BY <2>2 DEF vars, LengthKept, Measured, Sets
  <2> QED
    BY <2>1, <2>2
<1> QED
  BY <1>1, <1>2, TypedInvariance, PTL DEF Spec

LEMMA OperandFacts ==
  ASSUME table \in Tables, NEW i \in DOMAIN table, NEW o \in Operands(table[i])
  PROVE  o.place \in Places /\ o.size \in {1, 2}
<1> DEFINE Fits(c) == c.place \in Places /\ c.size \in {1, 2}
<1>1. ASSUME NEW k \in DOMAIN table[i].windows
      PROVE  LET w == table[i].windows[k]
             IN  Fits([place |-> w.lhs, size |-> w.size]) /\ Fits([place |-> w.rhs, size |-> w.size])
  <2>1. table[i].windows[k] \in Windows
    BY RuleFacts
  <2> QED
    BY <2>1 DEF Windows
<1>2. ASSUME NEW k \in Sets(table[i])
      PROVE  LET a == table[i].actions[k]
             IN  Fits([place |-> a.lhs, size |-> 1]) /\ Fits([place |-> a.rhs, size |-> 1])
  <2>1. table[i].actions[k] \in SetActions \cup OtherActions /\ table[i].actions[k].type = "SET_"
    BY RuleFacts DEF Sets
  <2>2. table[i].actions[k] \in SetActions
    BY <2>1 DEF OtherActions
  <2> QED
    BY <2>2 DEF SetActions
<1> HIDE DEF Fits
<1>3. Fits(o)
  BY <1>1, <1>2 DEF Operands
<1> QED
  BY <1>3 DEF Fits

(* As long as no rule sets a packet's length, its operands are read inside    *)
(* the packet's block or the status register, the last index on a 16-bit     *)
(* target excepted; if one does, only a length beyond the block, or of zero   *)
(* on such a target, lets a read out of it.                                  *)
THEOREM OperandsInside == Spec => []ReadsInside
<1>1. Inv /\ Typed /\ LengthKept => ReadsInside
  <2> SUFFICES ASSUME Inv, Typed, LengthKept,
                      NEW i \in DOMAIN table, NEW o \in Operands(table[i]),
                      ~ (int = 16 /\ o.size = 2 /\ o.place.at = UINT16_MAX),
                      ~ (/\ ~ Measured /\ o.place.loc = "PACKET"
                         /\ packet[LEN_INDEX] > Size \/ (int = 16 /\ packet[LEN_INDEX] = 0))
               PROVE  Reads(o.place, o.size) \subseteq DOMAIN Memory(o.place.loc)
    BY Zenon DEF ReadsInside
  <2>1. o.place \in Places /\ o.size \in {1, 2}
    BY OperandFacts DEF Inv, Calls
  <2>2. packet[LEN_INDEX] \in 0 .. 255 /\ Size \in Nat /\ NumStatus \in Nat
    BY MatchAssumption DEF Typed, Byte, Cells, LEN_INDEX, NXH_INDEX
  <2>3. o.place.loc = "PACKET" =>
          packet[LEN_INDEX] <= Size /\ ~ (int = 16 /\ packet[LEN_INDEX] = 0)
    BY <2>2 DEF LengthKept
  <2>4. Reads(o.place, o.size) \subseteq 0 .. Limit(o.place.loc)
    BY <2>1, <2>3, ReadInside
  <2>5. CASE o.place.loc = "PACKET"
    <3>1. packet[LEN_INDEX] - 1 <= Size - 1
      BY <2>2, <2>3, <2>5
    <3>2. 0 .. packet[LEN_INDEX] - 1 \subseteq 0 .. Size - 1
      BY <2>2, <3>1
    <3>3. Reads(o.place, o.size) \subseteq 0 .. packet[LEN_INDEX] - 1
      BY <2>4, <2>5 DEF Limit
    <3>4. DOMAIN Memory(o.place.loc) = 0 .. Size - 1
      BY <2>5 DEF Memory, Typed, Cells
    <3> QED
      BY <3>2, <3>3, <3>4
  <2>6. CASE o.place.loc = "STATUS"
    BY <2>2, <2>4, <2>6 DEF Limit, Memory, Typed, Registers
  <2>7. CASE o.place.loc \notin {"PACKET", "STATUS"}
    BY <2>7 DEF Reads, InMemory
  <2> QED
    BY <2>5, <2>6, <2>7
<1> QED
  BY <1>1, LengthInvariance, PTL
=============================================================================
