----------------------------- MODULE FlowMatch ------------------------------
(***************************************************************************)
(* Matching a packet against the flow table (flowtable.c): the windows of  *)
(* a rule, the actions it runs on a match, and the MATCH action, which     *)
(* looks the same packet up again, from the first rule, before the rule    *)
(* that asked for it has returned.                                         *)
(*                                                                         *)
(* The rules are decoded records and every byte counts: windows and SET    *)
(* actions address the packet and the status register by index.  Memory    *)
(* next to them reads as any value of Stray; a write there ends the run.   *)
(* `int` is the width of the target's int: the bounds checks of an operand *)
(* are unsigned on a 16-bit target (MSP430) and signed on a 32-bit one.    *)
(***************************************************************************)
EXTENDS Integers, Sequences, FiniteSets

CONSTANTS
  Tables,       \* the flow tables looked at: sequences of rules
  Packets,      \* the packets that come to be matched
  Size,         \* bytes of a packet's block (MAX_PACKET_LENGTH and the rssi)
  NumStatus,    \* STATUS_REGISTER_SIZE (20 in the code)
  Stray,        \* bytes that memory outside the packet may hold
  MaxDepth,     \* bound: nested lookups
  MaxPackets    \* bound: packets matched

VARIABLES
  int,          \* bits of an int, fixed by the target
  table,        \* the rules, which matching only reads
  counts,       \* stats.count of each rule
  packet,       \* the bytes of the packet being matched
  status,       \* status_register
  stack,        \* the calls of match_entry that have matched, innermost last
  looking,      \* match_packet has been called and has not looked yet
  gone,         \* how often the packet was given away: sent, freed, requested
  handled,      \* packets so far
  wild          \* a SET has written outside the packet and the register

vars == <<int, table, counts, packet, status, stack, looking, gone, handled, wild>>
-----------------------------------------------------------------------------
Byte == 0 .. 255
LEN_INDEX == 1
NXH_INDEX == 8
Cells == 0 .. Size - 1
Registers == 0 .. NumStatus - 1

UINT16_MAX == 65535
Index == 0 .. UINT16_MAX
Places == [loc : {"NULL_LOC", "CONST", "PACKET", "STATUS"}, at : Index]

Windows ==
  [op : {"EQUAL", "NOT_EQUAL", "GREATER", "LESS", "GREATER_OR_EQUAL", "LESS_OR_EQUAL"},
   size : {1, 2}, lhs : Places, rhs : Places]

Results == [loc : {"PACKET", "STATUS"}, at : Index]

SetActions ==
  [type : {"SET_"}, op : {"ADD", "SUB", "MUL", "DIV", "MOD", "AND", "OR", "XOR"},
   lhs : Places, rhs : Places, res : Results]

OtherActions ==
       [type : {"FORWARD_U", "FORWARD_B"}, nxh : Byte \X Byte]
  \cup [type : {"ASK", "DROP", "MATCH", "FUNCTION"}]

Rules == [windows : Seq(Windows), actions : Seq(SetActions \cup OtherActions)]

ASSUME MatchAssumption ==
  /\ Tables \subseteq Seq(Rules)
  /\ Size \in Nat /\ Size > NXH_INDEX + 1
  /\ NumStatus \in Nat \ {0}
  /\ Packets \subseteq [Cells -> Byte]
  /\ Stray \subseteq Byte /\ Stray # {}

-----------------------------------------------------------------------------
(* Operands.                                                               *)

(* What a comparison with a uint16_t makes of x. *)
Unsigned(x) == IF int = 16 THEN x % 65536 ELSE x

Limit(loc) == (IF loc = "PACKET" THEN packet[LEN_INDEX] ELSE NumStatus) - 1

(* Mutant: the second byte of an operand is not looked at. *)
OutsideFirst(o, size) == o.at > Limit(o.loc)

Outside(o, size) == Unsigned(o.at + size - 1) > Unsigned(Limit(o.loc))

Memory(loc) == IF loc = "PACKET" THEN packet ELSE status

ByteAt(loc, i) == IF i \in DOMAIN Memory(loc) THEN {Memory(loc)[i]} ELSE Stray

InMemory(o) == o.loc \in {"PACKET", "STATUS"}

(* get_operand: the values an operand can have. *)
Operand(o, size) ==
  CASE o.loc = "CONST"                -> {o.at}
    [] o.loc = "NULL_LOC"             -> {0}
    [] InMemory(o) /\ Outside(o, size) -> {UINT16_MAX}
    [] OTHER ->
         IF size = 1 THEN ByteAt(o.loc, o.at)
         ELSE {256 * h + l : h \in ByteAt(o.loc, o.at),
                             l \in ByteAt(o.loc, Unsigned(o.at + 1))}

(* The indices it reads. *)
Reads(o, size) ==
  IF InMemory(o) /\ ~ Outside(o, size)
  THEN {Unsigned(o.at + k) : k \in 0 .. size - 1} ELSE {}

Compare(op, l, r) ==
  \/ op = "EQUAL" /\ l = r
  \/ op = "NOT_EQUAL" /\ l # r
  \/ op = "GREATER" /\ l > r
  \/ op = "LESS" /\ l < r
  \/ op = "GREATER_OR_EQUAL" /\ l >= r
  \/ op = "LESS_OR_EQUAL" /\ l <= r

(* match_window: what a window may come to. *)
Outcomes(w) ==
  {Compare(w.op, l, r) : l \in Operand(w.lhs, w.size), r \in Operand(w.rhs, w.size)}

(* match_entry's condition; a rule without windows matches nothing. *)
MayMatch(rule) ==
  rule.windows # << >> /\ \A i \in DOMAIN rule.windows : TRUE \in Outcomes(rule.windows[i])

MayMiss(rule) ==
  rule.windows = << >> \/ \E i \in DOMAIN rule.windows : FALSE \in Outcomes(rule.windows[i])

-----------------------------------------------------------------------------
(* SET_.                                                                   *)

Bit(x, i) == (x \div 2 ^ i) % 2

(* A bit of the result depends on how many of the two it is made of are set. *)
BitWise(f, l, r) ==
  CHOOSE b \in Byte : \A i \in 0 .. 7 : Bit(b, i) = f[Bit(l, i) + Bit(r, i)]

(* do_operation: the bytes that may be stored.  Dividing by zero is undefined. *)
DoOperation(op, l, r) ==
  CASE op = "ADD" -> {(l + r) % 256}
    [] op = "SUB" -> {(l - r) % 256}
    [] op = "MUL" -> {((l % 256) * (r % 256)) % 256}
    [] op = "DIV" -> IF r = 0 THEN Stray ELSE {(l \div r) % 256}
    [] op = "MOD" -> IF r = 0 THEN Stray ELSE {(l % r) % 256}
    [] op = "AND" -> {BitWise([n \in 0 .. 2 |-> n \div 2], l, r)}
    [] op = "OR"  -> {BitWise([n \in 0 .. 2 |-> (n + 1) \div 2], l, r)}
    [] op = "XOR" -> {BitWise([n \in 0 .. 2 |-> n % 2], l, r)}

(* Mutant: the location bit of the result is taken the other way round. *)
StoreSwapped(res, b) ==
  /\ packet' = IF res.loc = "STATUS" /\ res.at \in Cells
               THEN [packet EXCEPT ![res.at] = b] ELSE packet
  /\ status' = IF res.loc = "PACKET" /\ res.at \in Registers
               THEN [status EXCEPT ![res.at] = b] ELSE status
  /\ wild' = FALSE

(* set_action's result, written without a look at its index. *)
Store(res, b) ==
  /\ packet' = IF res.loc = "PACKET" /\ res.at \in Cells
               THEN [packet EXCEPT ![res.at] = b] ELSE packet
  /\ status' = IF res.loc = "STATUS" /\ res.at \in Registers
               THEN [status EXCEPT ![res.at] = b] ELSE status
  /\ wild' = (res.at \notin DOMAIN Memory(res.loc))

-----------------------------------------------------------------------------
(* The steps of match_packet.                                              *)

Init ==
  /\ int \in {16, 32}
  /\ table \in Tables
  /\ counts = [i \in DOMAIN table |-> 0]
  /\ packet \in Packets
  /\ status = [i \in Registers |-> 0]
  /\ stack = << >>
  /\ looking = TRUE
  /\ gone = 0
  /\ handled = 1
  /\ wild = FALSE

Idle == stack = << >> /\ ~ looking

(* A handler calls match_packet with the next packet. *)
Arrive ==
  /\ Idle /\ handled < MaxPackets
  /\ packet' \in Packets
  /\ looking' = TRUE /\ gone' = 0 /\ handled' = handled + 1
  /\ UNCHANGED <<int, table, counts, status, stack, wild>>

(* The first rule that matches starts to run its actions. *)
MatchEntry(i) ==
  /\ looking
  /\ MayMatch(table[i]) /\ \A j \in 1 .. i - 1 : MayMiss(table[j])
  /\ stack' = Append(stack, [rule |-> i, next |-> 1])
  /\ looking' = FALSE
  /\ UNCHANGED <<int, table, counts, packet, status, gone, handled, wild>>

(* Mutant: a packet no rule matches is left to its caller. *)
NoRequest ==
  /\ looking
  /\ \A j \in DOMAIN table : MayMiss(table[j])
  /\ looking' = FALSE
  /\ UNCHANGED <<int, table, counts, packet, status, stack, gone, handled, wild>>

(* No rule matches: create_and_send_request takes the packet. *)
RequestRule ==
  /\ looking
  /\ \A j \in DOMAIN table : MayMiss(table[j])
  /\ looking' = FALSE
  /\ gone' = gone + 1
  /\ UNCHANGED <<int, table, counts, packet, status, stack, handled, wild>>

Top == stack[Len(stack)]
Actions == table[Top.rule].actions
Running == ~ looking /\ stack # << >> /\ Top.next <= Len(Actions)
Action == Actions[Top.next]
Advance == [stack EXCEPT ![Len(stack)].next = @ + 1]

(* FORWARD_U and FORWARD_B write the next hop and hand the packet to the radio. *)
Forward ==
  /\ Running /\ Action.type \in {"FORWARD_U", "FORWARD_B"}
  /\ packet' = [packet EXCEPT ![NXH_INDEX] = Action.nxh[1], ![NXH_INDEX + 1] = Action.nxh[2]]
  /\ gone' = gone + 1
  /\ stack' = Advance
  /\ UNCHANGED <<int, table, counts, status, looking, handled, wild>>

(* ASK requests a rule with the packet; DROP and any unknown action free it. *)
AskOrDrop ==
  /\ Running /\ Action.type \in {"ASK", "DROP"}
  /\ gone' = gone + 1
  /\ stack' = Advance
  /\ UNCHANGED <<int, table, counts, packet, status, looking, handled, wild>>

SetAction ==
  /\ Running /\ Action.type = "SET_"
  /\ \E l \in Operand(Action.lhs, 1), r \in Operand(Action.rhs, 1) :
       \E b \in DoOperation(Action.op, l, r) : Store(Action.res, b)
  /\ stack' = Advance
  /\ UNCHANGED <<int, table, counts, looking, gone, handled>>

(* FUNCTION does nothing. *)
Function ==
  /\ Running /\ Action.type = "FUNCTION"
  /\ stack' = Advance
  /\ UNCHANGED <<int, table, counts, packet, status, looking, gone, handled, wild>>

(* MATCH calls match_packet: the rule goes on when that has returned. *)
Match ==
  /\ Running /\ Action.type = "MATCH"
  /\ Len(stack) < MaxDepth
  /\ stack' = Advance
  /\ looking' = TRUE
  /\ UNCHANGED <<int, table, counts, packet, status, gone, handled, wild>>

(* The last action has run: the rule is counted, in 16 bits. *)
Counted ==
  /\ ~ looking /\ stack # << >> /\ Top.next > Len(Actions)
  /\ counts' = [counts EXCEPT ![Top.rule] = (@ + 1) % 65536]
  /\ stack' = SubSeq(stack, 1, Len(stack) - 1)
  /\ UNCHANGED <<int, table, packet, status, looking, gone, handled, wild>>

Next ==
  /\ ~ wild
  /\ \/ Arrive
     \/ \E i \in DOMAIN table : MatchEntry(i)
     \/ RequestRule
     \/ Forward
     \/ AskOrDrop
     \/ SetAction
     \/ Function
     \/ Match
     \/ Counted

Spec == Init /\ [][Next]_vars
-----------------------------------------------------------------------------
(* Properties. *)

(* The packet is some bytes, and the calls running are at their actions.     *)
TypeOK ==
  /\ table \in Tables /\ counts \in [DOMAIN table -> Index]
  /\ packet \in [Cells -> Byte] /\ status \in [Registers -> Byte]
  /\ looking \in BOOLEAN /\ gone \in Nat /\ wild \in BOOLEAN
  /\ \A k \in DOMAIN stack :
       /\ stack[k].rule \in DOMAIN table
       /\ stack[k].next \in 1 .. Len(table[stack[k].rule].actions) + 1

GivesAway(act) == act.type \in {"FORWARD_U", "FORWARD_B", "ASK", "DROP", "MATCH"}

(* Rules that give their packet away, or pass it on to another lookup, as the *)
(* last thing they do.                                                       *)
WellFormed ==
  \A i \in DOMAIN table :
    LET acts == table[i].actions IN
    acts # << >> /\ \A k \in DOMAIN acts : GivesAway(acts[k]) <=> k = Len(acts)

(* However deep the lookups nest, a packet is given away exactly once, and no *)
(* rule touches it afterwards: match_packet, called again from inside a rule, *)
(* always takes the packet, and the rules waiting for it have nothing to do.  *)
GivenOnce ==
  WellFormed =>
    /\ gone <= 1
    /\ gone = 1 => /\ ~ looking
                   /\ \A k \in DOMAIN stack : stack[k].next > Len(table[stack[k].rule].actions)
    /\ Idle => gone = 1

MatchRules == {i \in DOMAIN table : \E k \in DOMAIN table[i].actions :
                                      table[i].actions[k].type = "MATCH"}

InRange(cell) ==
  \/ cell.loc = "PACKET" /\ cell.at \in Cells
  \/ cell.loc = "STATUS" /\ cell.at \in Registers

(* Window w of rule i asks for a value its action k replaces for good, and no *)
(* other rule with a MATCH writes there.                                     *)
Marks(i, w, k) ==
  LET win == table[i].windows[w]
      set == table[i].actions[k]
  IN  /\ win.op = "EQUAL" /\ win.size = 1 /\ InRange(win.lhs)
      /\ win.rhs.loc = "CONST" /\ win.rhs.at \in Byte
      /\ set.type = "SET_" /\ set.res = win.lhs
      /\ set.op = "ADD" /\ set.lhs.loc = "CONST" /\ set.rhs.loc = "NULL_LOC"
      /\ set.lhs.at \in Byte \ {win.rhs.at}
      /\ \A j \in MatchRules : \A m \in DOMAIN table[j].actions :
           (table[j].actions[m].type = "SET_" /\ table[j].actions[m].res = win.lhs)
             => j = i /\ m <= k

(* Each rule with a MATCH undoes its own match first. *)
Settled ==
  \A i \in MatchRules : \E w \in DOMAIN table[i].windows, k \in DOMAIN table[i].actions :
    Marks(i, w, k)

(* MATCH looks the packet up from the first rule, and may come back to the    *)
(* rule it started in; nothing bounds the calls.  They are bounded, by one    *)
(* for each rule, if each rule with a MATCH first writes over a byte that     *)
(* made it match: no rule is then entered twice for the same packet.  That    *)
(* byte may even be the packet's length.                                     *)
NoRuleTwice ==
  WellFormed /\ Settled =>
    \A j, k \in DOMAIN stack : stack[j].rule = stack[k].rule => j = k

Sets(rule) == {k \in DOMAIN rule.actions : rule.actions[k].type = "SET_"}

(* What the windows and the SETs of a rule look at. *)
Operands(rule) ==
  LET Win(k) == rule.windows[k]
      Act(k) == rule.actions[k]
  IN       {[place |-> Win(k).lhs, size |-> Win(k).size] : k \in DOMAIN rule.windows}
      \cup {[place |-> Win(k).rhs, size |-> Win(k).size] : k \in DOMAIN rule.windows}
      \cup {[place |-> Act(k).lhs, size |-> 1] : k \in Sets(rule)}
      \cup {[place |-> Act(k).rhs, size |-> 1] : k \in Sets(rule)}

(* Packets come with a length that is theirs, and no rule sets it. *)
Measured ==
  /\ \A p \in Packets : p[LEN_INDEX] \in 1 .. Size
  /\ \A i \in DOMAIN table : \A k \in Sets(table[i]) :
       table[i].actions[k].res # [loc |-> "PACKET", at |-> LEN_INDEX]

(* The bounds check goes by the packet's length field.  As long as that is    *)
(* not set by a rule, no operand is read outside the packet's block or the    *)
(* status register, whatever else rules write and however lookups nest;       *)
(* except on a 16-bit target, where the last index of all passes for a       *)
(* two-byte operand.  If it is set, reads leave the block when it says more   *)
(* than the block has, or, on a 16-bit target, nothing at all.               *)
ReadsInside ==
  \A i \in DOMAIN table : \A o \in Operands(table[i]) :
    \/ Reads(o.place, o.size) \subseteq DOMAIN Memory(o.place.loc)
    \/ int = 16 /\ o.size = 2 /\ o.place.at = UINT16_MAX
    \/ /\ ~ Measured /\ o.place.loc = "PACKET"
       /\ packet[LEN_INDEX] > Size \/ (int = 16 /\ packet[LEN_INDEX] = 0)
=============================================================================
