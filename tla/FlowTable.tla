----------------------------- MODULE FlowTable -----------------------------
(***************************************************************************)
(* The flow table of one node (flowtable.c) and what fills it: RESPONSE    *)
(* packets from the controller and OPEN_PATH packets that pass through     *)
(* (packet-handler.c).                                                     *)
(*                                                                         *)
(* A rule is stored in blocks of four pools, one for its entry and one for *)
(* each window, action and argument byte.  Only a full entry pool is       *)
(* handled, by forgetting every rule; a window or an action that finds no  *)
(* block is written through a NULL pointer, after which nothing is claimed *)
(* until the node restarts, and bytes that find none are left out.         *)
(***************************************************************************)
EXTENDS Integers, Sequences, SequencesExt

CONSTANTS
  NumEntries,   \* blocks of entries_memb (10 in the code)
  NumWindows,   \* blocks of windows_memb (30)
  NumActions,   \* blocks of actions_memb (20)
  NumBytes,     \* blocks of bytes_memb (50)
  Addresses,
  Windows,      \* the windows of RESPONSE and OPEN_PATH packets
  Responses,    \* the rules RESPONSE packets may hold
  Paths,        \* the address lists of OPEN_PATH packets
  Extras        \* the windows an OPEN_PATH packet may add to its rules

VARIABLES
  table,        \* the list flowtable
  used,         \* how many blocks of each pool are allocated
  faulted,      \* a NULL pointer has been written through
  careful       \* the controller's rules never need more than an entry's share

vars == <<table, used, faulted, careful>>
-----------------------------------------------------------------------------
(* handle_open_path's own window, DST = a, and the others. *)
Dst(a) == <<"DST", a>>

AllWindows == Windows \cup {Dst(a) : a \in Addresses}

Action == [arg : Addresses, len : 0 .. 255]

Rule == [windows : Seq(AllWindows), actions : Seq(Action)]

(* A stored rule, with the number of bytes each of its actions really got. *)
Entry == [windows : Seq(AllWindows), actions : Seq(Action), kept : Seq(Nat)]

(* On the wire an action is preceded by its size, its type included. *)
Response == [windows : Seq(Windows),
             actions : Seq([arg : Addresses, size : 0 .. 255])]

ASSUME TableAssumption ==
  /\ NumEntries \in Nat \ {0}
  /\ NumWindows \in Nat
  /\ NumActions \in Nat
  /\ NumBytes \in Nat
  /\ Responses \subseteq Response
  /\ Paths \subseteq Seq(Addresses) \ {<< >>}
  /\ Extras \subseteq Seq(Windows)

(* The sums of a sequence's first elements: of none, of one, and so on. *)
Sums(n) ==
  LET sum[i \in 0 .. Len(n)] == IF i = 0 THEN 0 ELSE sum[i - 1] + n[i] IN sum

Sum(n) == Sums(n)[Len(n)]

BytesOf(e) == Sum(e.kept)

WindowsIn(es) == Sum([i \in DOMAIN es |-> Len(es[i].windows)])
ActionsIn(es) == Sum([i \in DOMAIN es |-> Len(es[i].actions)])
BytesIn(es) == Sum([i \in DOMAIN es |-> BytesOf(es[i])])
-----------------------------------------------------------------------------
(* Freeing entries frees what they hold.  The operators below take and      *)
(* return the table, the pools and whether a fault happened, as a record.   *)

Now == [table |-> table, used |-> used, faulted |-> faulted]

Becomes(f) ==
  /\ table' = f.table /\ used' = f.used /\ faulted' = f.faulted
  /\ UNCHANGED careful

(* Mutant: an action's bytes are not freed with it. *)
FreeWithoutBytes(u, es) ==
  [entries |-> u.entries - Len(es),
   windows |-> u.windows - WindowsIn(es),
   actions |-> u.actions - ActionsIn(es),
   bytes   |-> u.bytes]

(* entry_free, of each of es. *)
EntriesFree(u, es) ==
  [entries |-> u.entries - Len(es),
   windows |-> u.windows - WindowsIn(es),
   actions |-> u.actions - ActionsIn(es),
   bytes   |-> u.bytes - BytesIn(es)]

PurgeFlowtable(f) ==
  [table |-> << >>, used |-> EntriesFree(f.used, f.table), faulted |-> f.faulted]

(* Mutant: the table is purged one entry early. *)
PurgeEarly(f) ==
  IF f.used.entries < NumEntries - 1 THEN f ELSE PurgeFlowtable(f)

(* entry_allocate: a full pool is emptied first. *)
MakeRoom(f) ==
  IF f.used.entries < NumEntries THEN f ELSE PurgeFlowtable(f)

(* The bytes that each action wants. *)
Wanted(actions) == [i \in DOMAIN actions |-> actions[i].len]

(* Free blocks go to the actions in order, as long as there are any. *)
Kept(actions, free) ==
  LET want == Sums(Wanted(actions))
      got(i) == IF want[i] < free THEN want[i] ELSE free
  IN  [i \in DOMAIN actions |-> got(i) - got(i - 1)]

EntryOf(u, r) ==
  [windows |-> r.windows, actions |-> r.actions,
   kept |-> Kept(r.actions, NumBytes - u.bytes)]

(* get_entry_from_array and handle_open_path fill an entry: the table is     *)
(* not touched, and a pool without a block is the fault.                     *)
Faults(u, r) ==
  \/ u.windows + Len(r.windows) > NumWindows
  \/ u.actions + Len(r.actions) > NumActions

Taken(u, e) ==
  [entries |-> u.entries + 1,
   windows |-> u.windows + Len(e.windows),
   actions |-> u.actions + Len(e.actions),
   bytes   |-> u.bytes + BytesOf(e)]

(* entry_cmp: the same windows in the same order. *)
Same(e, tmp) == e.windows = tmp.windows

(* Mutants: an old rule with the same windows stays, or is taken off the     *)
(* list but not freed; the new rule goes first.                              *)
AddBeside(f, e) == [f EXCEPT !.table = Append(@, e)]

AddUnfreed(f, e) ==
  [f EXCEPT !.table = Append(SelectSeq(@, LAMBDA tmp : ~ Same(e, tmp)), e)]

AddFirst(f, e) ==
  LET found == {i \in DOMAIN f.table : Same(e, f.table[i])}
      last  == CHOOSE i \in found : \A j \in found : j <= i
  IN  IF found = {} THEN [f EXCEPT !.table = <<e>> \o @]
      ELSE [f EXCEPT !.table = <<e>> \o RemoveAt(@, last),
                     !.used = EntriesFree(@, <<f.table[last]>>)]

(* add_entry: the last rule found with the same windows is freed, and the    *)
(* new one goes to the end of the list.                                      *)
AddEntry(f, e) ==
  LET found == {i \in DOMAIN f.table : Same(e, f.table[i])}
      last  == CHOOSE i \in found : \A j \in found : j <= i
  IN  IF found = {} THEN [f EXCEPT !.table = Append(@, e)]
      ELSE [f EXCEPT !.table = Append(RemoveAt(@, last), e),
                     !.used = EntriesFree(@, <<f.table[last]>>)]

(* A rule is stored.  (Every allocated entry being in the table, the second  *)
(* attempt of entry_allocate cannot fail: see EntriesExact.)                 *)
Install(f, r) ==
  LET g == MakeRoom(f)
      e == EntryOf(g.used, r)
  IN  IF f.faulted \/ Faults(g.used, r)
        THEN [g EXCEPT !.faulted = TRUE]
        ELSE AddEntry([g EXCEPT !.used = Taken(@, e)], e)
-----------------------------------------------------------------------------
(* get_action_from_array subtracts the type's byte from a size of 0 too.     *)
RuleOf(p) ==
  [windows |-> p.windows,
   actions |-> [i \in DOMAIN p.actions |->
                  [arg |-> p.actions[i].arg, len |-> (p.actions[i].size - 1) % 256]]]

(* An entry's share of each pool. *)
Modest(rule) ==
  /\ Len(rule.windows) * NumEntries <= NumWindows
  /\ Len(rule.actions) * NumEntries <= NumActions
  /\ Sum(Wanted(rule.actions)) * NumEntries <= NumBytes

HandleResponse ==
  /\ ~ faulted
  /\ \E p \in Responses :
       /\ careful => Modest(RuleOf(p))
       /\ Becomes(Install(Now, RuleOf(p)))

(* What the i-th node of a path learns: how to reach its first address, by   *)
(* the node before, and its last, by the node after.                         *)
Towards(dst, nxh, extra) ==
  [windows |-> <<Dst(dst)>> \o extra, actions |-> <<[arg |-> nxh, len |-> 2]>>]

Back(path, i, extra) == Towards(path[1], path[i - 1], extra)

Forth(path, i, extra) == Towards(path[Len(path)], path[i + 1], extra)

OpenPath(path, i, extra) ==
  LET f == IF i > 1 THEN Install(Now, Back(path, i, extra)) ELSE Now
      g == IF i < Len(path) THEN Install(f, Forth(path, i, extra)) ELSE f
  IN  Becomes(g)

HandleOpenPath ==
  /\ ~ faulted
  /\ \E path \in Paths, extra \in Extras :
       /\ careful => Modest(Towards(path[1], path[1], extra))
       /\ \E i \in 1 .. Len(path) : OpenPath(path, i, extra)

Init ==
  /\ table = << >>
  /\ used = [entries |-> 0, windows |-> 0, actions |-> 0, bytes |-> 0]
  /\ faulted = FALSE
  /\ careful \in BOOLEAN

(* flowtable_init, after a reboot. *)
Reboot ==
  /\ table' = << >>
  /\ used' = [entries |-> 0, windows |-> 0, actions |-> 0, bytes |-> 0]
  /\ faulted' = FALSE
  /\ UNCHANGED careful

Next == HandleResponse \/ HandleOpenPath \/ Reboot

Spec == Init /\ [][Next]_vars
-----------------------------------------------------------------------------
(* Properties. *)

(* Every variable has its type. *)
TypeOK ==
  /\ table \in Seq(Entry)
  /\ used \in [entries : Int, windows : Int, actions : Int, bytes : Int]
  /\ faulted \in BOOLEAN /\ careful \in BOOLEAN

(* No two rules of the table have the same windows: what the controller     *)
(* sends for windows the table has replaces the rule it sent before.         *)
NoDuplicates ==
  \A i, j \in DOMAIN table : table[i].windows = table[j].windows => i = j

(* Every allocated entry is in the table: a purge makes room, always.       *)
EntriesExact ==
  ~ faulted => used.entries = Len(table) /\ Len(table) <= NumEntries

(* No block of any pool is lost and none is in two rules, however rules are  *)
(* replaced, cut short and purged.                                           *)
PoolsExact ==
  ~ faulted =>
    used = [entries |-> Len(table), windows |-> WindowsIn(table),
            actions |-> ActionsIn(table), bytes |-> BytesIn(table)]

(* Rules within an entry's share of the pools never run into an empty pool:  *)
(* no NULL is written through and every action has all its bytes.            *)
RulesWhole ==
  careful =>
    /\ ~ faulted
    /\ \A i \in DOMAIN table : \A a \in DOMAIN table[i].actions :
          table[i].kept[a] = table[i].actions[a].len

Knows(es, r) ==
  \E i \in DOMAIN es : es[i].windows = r.windows /\ es[i].actions = r.actions

(* A node inside a path knows both its directions afterwards, except that a  *)
(* table with room for one more rule forgets the first when it stores the    *)
(* second.                                                                   *)
PathLearnt ==
  [][\A path \in Paths, extra \in Extras : \A i \in 2 .. Len(path) - 1 :
       OpenPath(path, i, extra) /\ ~ faulted' =>
         /\ Knows(table', Forth(path, i, extra))
         /\ Len(table) # NumEntries - 1 => Knows(table', Back(path, i, extra))]_vars

(* Which of two rules a packet tries first never changes, unless the one it  *)
(* tried first is sent again and so goes to the end, or to the place before  *)
(* it, when an OPEN_PATH sends two.                                          *)
Precedes(es, x, y) ==
  \E i, j \in DOMAIN es : i < j /\ es[i].windows = x /\ es[j].windows = y

OfPath(e) == \E dst \in Addresses : (e.windows # << >> /\ e.windows[1] = Dst(dst))

AtEnd(es, x) ==
  \E k \in DOMAIN es :
    /\ es[k].windows = x
    /\ k = Len(es) \/ (k = Len(es) - 1 /\ OfPath(es[k]) /\ OfPath(es[k + 1]))

OrderKept ==
  [][\A i, j \in DOMAIN table :
       LET x == table[i].windows
           y == table[j].windows
       IN  i < j /\ Precedes(table', y, x) => AtEnd(table', x)]_vars
=============================================================================
