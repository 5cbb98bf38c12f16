----------------------------- MODULE RuleCodec ------------------------------
(***************************************************************************)
(* Rules on the wire (flowtable.c): how the payload of a RESPONSE becomes  *)
(* an entry of the flow table, and how an entry is written out again for   *)
(* a GET_RULE.                                                             *)
(*                                                                         *)
(* Byte 1 of an array counts the bytes of its windows, five a window; each *)
(* action follows behind its own size; the last two bytes are the ttl and  *)
(* the count.  Arrays are sequences from 1.                                *)
(***************************************************************************)
EXTENDS Integers, Sequences, SequencesExt

CONSTANT MaxPayload     \* MAX_PAYLOAD_LENGTH (106 in the code)

ASSUME PayloadAssumption == MaxPayload \in Nat

Byte == 0 .. 255
WINDOW_SIZE == 5
STATS_SIZE == 2

(* The bits of a window's first byte, and its two operands. *)
Operator == 0 .. 7
OperandSize == 0 .. 1
Location == 0 .. 3
Word == 0 .. 65535

Window == [op : Operator, size : OperandSize,
           lhs_location : Location, rhs_location : Location, lhs : Word, rhs : Word]

(* The type of an action and the bytes behind it. *)
Action == [type : Byte, bytes : Seq(Byte)]

(* A rule; its ttl and count are kept in 16 bits each. *)
Entry == [windows : Seq(Window), actions : Seq(Action), ttl : Word, count : Word]

Merge(h, l) == 256 * h + l

(* get_window_from_array *)
WindowFromArray(b) ==
  [op |-> b[1] \div 32, size |-> b[1] % 2,
   lhs_location |-> (b[1] \div 8) % 4, rhs_location |-> (b[1] \div 2) % 4,
   lhs |-> Merge(b[2], b[3]), rhs |-> Merge(b[4], b[5])]

(* Mutant: the two locations are written into each other's bits. *)
LocationsSwapped(w) ==
  <<w.op * 32 + w.rhs_location * 8 + w.lhs_location * 2 + w.size,
    w.lhs \div 256, w.lhs % 256, w.rhs \div 256, w.rhs % 256>>

(* get_array_from_window *)
ArrayFromWindow(w) ==
  <<w.op * 32 + w.lhs_location * 8 + w.rhs_location * 2 + w.size,
    w.lhs \div 256, w.lhs % 256, w.rhs \div 256, w.rhs % 256>>

(* get_action_from_array, behind the size *)
ActionFromArray(b) == [type |-> b[1], bytes |-> SubSeq(b, 2, Len(b))]

(* get_array_from_action *)
ArrayFromAction(a) == <<Len(a.bytes) + 1, a.type>> \o a.bytes

(* The windows of an array whose windows are n bytes long. *)
WindowsFromArray(b, n) ==
  [k \in 1 .. (n + WINDOW_SIZE - 1) \div WINDOW_SIZE |->
     WindowFromArray(SubSeq(b, WINDOW_SIZE * (k - 1) + 2, WINDOW_SIZE * k + 1))]

(* The actions from byte i on, and then the ttl and the count. *)
RestFromArray(b) ==
  LET rest[i \in 1 .. Len(b) + 256] ==
        IF i <= Len(b) - STATS_SIZE
        THEN [rest[i + 1 + b[i]] EXCEPT
                !.actions = <<ActionFromArray(SubSeq(b, i + 1, i + b[i]))>> \o @]
        ELSE [actions |-> << >>, ttl |-> b[i], count |-> b[i + 1]]
  IN  rest

(* get_entry_from_array, of an array that is whole. *)
EntryFromArray(b) ==
  LET windows == WindowsFromArray(b, b[1])
      rest == RestFromArray(b)[2 + WINDOW_SIZE * Len(windows)]
  IN  [windows |-> windows, actions |-> rest.actions, ttl |-> rest.ttl, count |-> rest.count]

(* get_array_from_entry: ttl and count go into a byte each. *)
ArrayFromEntry(e) ==
  <<WINDOW_SIZE * Len(e.windows)>>
    \o FlattenSeq([k \in DOMAIN e.windows |-> ArrayFromWindow(e.windows[k])])
    \o FlattenSeq([k \in DOMAIN e.actions |-> ArrayFromAction(e.actions[k])])
    \o <<e.ttl % 256, e.count % 256>>

(* get_array_from_entry_id: nothing for a position past the end. *)
ArrayFromEntryId(flowtable, id) ==
  IF id + 1 \in DOMAIN flowtable THEN ArrayFromEntry(flowtable[id + 1]) ELSE << >>

(* An array is whole if it is what its own rule is written out as. *)
Whole(b) ==
  /\ b \in Seq(Byte) /\ Len(b) <= MaxPayload
  /\ EntryFromArray(b) \in Entry /\ ArrayFromEntry(EntryFromArray(b)) = b

(* entry_cmp: the same windows in the same order. *)
SameEntry(e, f) == e.windows = f.windows

(* The entries but the last one with e's windows, which add_entry frees. *)
Without(flowtable, e) ==
  LET found == {i \in DOMAIN flowtable : SameEntry(e, flowtable[i])}
  IN  IF found = {} THEN flowtable
      ELSE RemoveAt(flowtable, CHOOSE i \in found : \A j \in found : j <= i)

(* Mutant: the entry goes to the head of the list. *)
AddFirst(flowtable, e) == <<e>> \o Without(flowtable, e)

AddEntry(flowtable, e) == Append(Without(flowtable, e), e)
=============================================================================
