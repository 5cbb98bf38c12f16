------------------------------ MODULE Commands ------------------------------
(***************************************************************************)
(* A node under remote control (packet-handler.c): CONFIG packets read and *)
(* write its configuration and read its rules back one by one, RESPONSE    *)
(* packets add rules, and each passes handle_packet's filter first, which  *)
(* the written values change under the very packets that come next.        *)
(*                                                                         *)
(* The node is no sink.  A packet is seen on its last hop, where the next  *)
(* hop is the destination; the radio takes a unicast frame only under the  *)
(* link address the node booted with.  A reply goes to match_packet here   *)
(* and at every relay: rules take it on, or a node that has none for it    *)
(* wraps it in requests.  Wherever a packet is received, the rssi is        *)
(* written behind the payload, over a byte of a long reply.                 *)
(* The controller is external: it sends commands, and lists the rules by   *)
(* asking for position after position until a reply comes back empty.      *)
(***************************************************************************)
EXTENDS RuleCodec, FiniteSets

CONSTANTS
  NumPackets,   \* blocks of packets_memb (4 in the code)
  NumEntries,   \* blocks of entries_memb (10 in the code)
  LinkAddress,  \* the node's address at boot, two bytes
  Boot,         \* the configuration at boot: fields to bytes of memory
  Written,      \* Written[f]: the payloads a write of f may carry
  Payloads,     \* the rules the controller may add, as bytes
  PLD_INDEX,    \* the length of a header, 10 in the code
  Addresses,    \* next hops a packet may carry
  Nets,         \* networks a packet may be of
  Rssi,         \* signal strengths a packet may arrive with
  MaxReplies,   \* bound: replies on their way at once
  MaxCount,     \* bound: packets counted on a rule
  Unwritten

VARIABLES
  target,       \* where the build may access a word; it never changes
  conf,         \* each field, as its bytes in memory
  flowtable,    \* the rules
  lost,         \* packet blocks allocated and never freed
  replies,      \* replies on their way to the controller
  listed,       \* the rules the controller has read in its listing
  done,         \* its listing has come to an end
  written,      \* history: what a READ of each field should say
  due,          \* history: how many rules there were when the listing began
  shifted       \* history: a rule was replaced or purged since

vars == <<target, conf, flowtable, lost, replies, listed, done, written, due, shifted>>
-----------------------------------------------------------------------------
Readable == {"MY_NET", "MY_ADDRESS", "PACKET_TTL", "RSSI_MIN",
             "BEACON_PERIOD", "REPORT_PERIOD", "RULE_TTL"}
Writable == Readable \cup {"RESET_PERIOD"}
Fields == DOMAIN Boot
PartInit == 3           \* count, part and number of parts come before a packet

(* A two-byte integer may lie anywhere, or, on the MSP430, at even addresses *)
(* only.                                                                     *)
Targets == {"anywhere", "even"}

(* A field takes one byte or two. *)
IsValue(v) == v \in Seq(Byte) /\ Len(v) \in {1, 2}

ASSUME CommandsAssumption ==
  /\ NumPackets \in Nat \ {0} /\ NumEntries \in Nat \ {0}
  /\ Rssi \subseteq Byte
  /\ \A p \in Payloads : Whole(p)
  /\ Fields \subseteq Writable /\ {"MY_NET", "MY_ADDRESS", "RSSI_MIN"} \subseteq Fields
  /\ \A f \in Fields : IsValue(Boot[f])
  /\ Boot["MY_ADDRESS"] = LinkAddress /\ Len(LinkAddress) = 2
  /\ Len(Boot["MY_NET"]) = 1 /\ LinkAddress \in Addresses
  /\ PLD_INDEX \in Nat /\ MaxPayload >= PLD_INDEX + PartInit + 4
  /\ DOMAIN Written = Fields
  /\ \A f \in Fields : \A v \in Written[f] :
       IsValue(v) /\ Len(v) = Len(Boot[f]) /\ Unwritten # v

Reads == [op : {"READ"}, id : Fields]
Writes == UNION {[op : {"WRITE"}, id : {f}, value : Written[f]] : f \in Fields}
GetRules == [op : {"GET_RULE"}, position : 0 .. NumEntries]
Responses == [op : {"RESPONSE"}, payload : Payloads]
Resets == [op : {"RESET"}]

Commands == Reads \cup Writes \cup GetRules \cup Responses \cup Resets
-----------------------------------------------------------------------------
(* The configuration in memory.  Two-byte fields are integers of a           *)
(* little-endian target.  my_address is an array of bytes behind the one of  *)
(* my_net, at an odd offset, and is accessed as if it were an integer too:   *)
(* on a target with words at even addresses only, that is the word of my_net *)
(* and my_address's first byte.                                              *)

InMemory(value) == IF Len(value) = 1 THEN value ELSE <<value[2], value[1]>>

Misplaced(f) == f = "MY_ADDRESS" /\ target = "even"

(* Mutant: the two bytes are told as they lie in memory. *)
ReadAsIs(f) == conf[f]

ReadField(f) ==
  IF Misplaced(f) THEN <<conf["MY_ADDRESS"][1], conf["MY_NET"][1]>> ELSE InMemory(conf[f])

(* Mutant: the two bytes go into memory as they come. *)
WriteAsIs(f, value) == [conf EXCEPT ![f] = value]

WriteField(f, value) ==
  IF Misplaced(f)
    THEN [conf EXCEPT !["MY_NET"] = <<value[2]>>, !["MY_ADDRESS"] = <<value[1], @[2]>>]
    ELSE [conf EXCEPT ![f] = InMemory(value)]

(* What a READ should say after boot: my_address was not stored as a word.   *)
AtBoot == [f \in Fields |-> IF f = "MY_ADDRESS" THEN Unwritten ELSE InMemory(Boot[f])]

(* What a READ should say after a write: of two fields that share a word, the *)
(* one that was not written may say anything.                                *)
Promised(f, value) ==
  [g \in Fields |->
     IF g = f THEN value
     ELSE IF target = "even" /\ {f, g} = {"MY_NET", "MY_ADDRESS"} THEN Unwritten
     ELSE written[g]]

is_my_address(a) == conf["MY_ADDRESS"] = a

(* handle_packet's filter. *)
Passes(p) == p.rssi >= conf["RSSI_MIN"][1] /\ p.net = conf["MY_NET"][1]

(* Mutant: the signal strength is looked at for beacons only. *)
HearsWeak(p) == p.net = conf["MY_NET"][1] /\ is_my_address(p.to)

(* The packets a handler gets. *)
Hears(p) == Passes(p) /\ is_my_address(p.to)

-----------------------------------------------------------------------------
(* The controller and the radio (external).                                *)

(* A listing starts over, once there are no replies to an earlier one. *)
StartListing ==
  /\ \A r \in replies : r.op # "GET_RULE"
  /\ listed' = << >> /\ done' = FALSE
  /\ due' = Len(flowtable)
  /\ shifted' = FALSE
  /\ UNCHANGED <<conf, flowtable, lost, replies, written>>

(* A listing is followed only until the rules move under it. *)
Abandon ==
  /\ listed' = IF shifted' THEN << >> ELSE listed
  /\ done' = (done /\ ~ shifted')
  /\ due' = IF shifted' THEN 0 ELSE due

Rule(e) == [windows |-> e.windows, actions |-> e.actions]

(* The controller takes the reply it waits for into its listing. *)
TakeReply(r) ==
  /\ replies' = replies \ {r}
  /\ IF r.op = "GET_RULE" /\ r.position = Len(listed) /\ ~ done /\ ~ shifted
     THEN IF r.bytes = << >>
          THEN done' = TRUE /\ UNCHANGED listed
          ELSE listed' = Append(listed, Rule(EntryFromArray(r.bytes))) /\ UNCHANGED done
     ELSE UNCHANGED <<listed, done>>
  /\ UNCHANGED <<conf, flowtable, lost, written, due, shifted>>

LoseReply(r) ==
  /\ replies' = replies \ {r}
  /\ UNCHANGED <<conf, flowtable, lost, listed, done, written, due, shifted>>

-----------------------------------------------------------------------------
(* The node.                                                               *)

(* How a reply gets to the controller: by rules all the way, in requests of *)
(* this node, or in requests of a relay that it had reached.  In a packet it *)
(* lies behind the header and two bytes, in a request there are a header and *)
(* three bytes more before it; the rssi goes where the payload ends.         *)
RssiAt == MaxPayload - 1
PartAt == MaxPayload - PartInit - PLD_INDEX - 1

Overwritten ==
  [rules |-> {RssiAt}, requests |-> {PartAt}, relay |-> {RssiAt, PartAt}]

Received(bytes, way, rssi) ==
  [i \in DOMAIN bytes |-> IF i \in Overwritten[way] THEN rssi ELSE bytes[i]]

(* Only replies to GET_RULE are long enough to lose a byte. *)
Reply(r, way, rssi) ==
  /\ Cardinality(replies) < MaxReplies
  /\ replies' = replies \cup
       {IF r.op = "READ" THEN r
        ELSE [r EXCEPT !.bytes = Received(@, way, rssi), !.way = way]}

(* Blocks that create_and_send_request takes for a reply with n bytes. *)
Parts(n) == IF PLD_INDEX + 2 + n < MaxPayload THEN 1 ELSE 2

(* It finds some blocks free beside the reply's own; the first of two is lost *)
(* if there is no second.                                                    *)
Request(r, n, rssi) ==
  \E free \in 0 .. NumPackets - lost - 1 :
    \/ free >= Parts(n) /\ Reply(r, "requests", rssi) /\ UNCHANGED lost
    \/ free < Parts(n) /\ lost' = lost + free /\ UNCHANGED replies

CountRule(i) ==
  /\ flowtable[i].count < MaxCount
  /\ flowtable' = [flowtable EXCEPT ![i].count = (@ + 1) % 65536]

(* match_packet, of a reply with n bytes: a rule matches (FlowMatch) and      *)
(* sends it on or asks about it, or none does.                               *)
MatchReply(r, n) ==
  \E rssi \in Rssi :
    \/ /\ \E i \in DOMAIN flowtable : CountRule(i)
       /\ \/ \E way \in {"rules", "relay"} : Reply(r, way, rssi) /\ UNCHANGED lost
          \/ Request(r, n, rssi)
    \/ Request(r, n, rssi) /\ UNCHANGED flowtable

Read(cmd) ==
  /\ cmd.op = "READ"
  /\ LET value == IF cmd.id \in Readable THEN ReadField(cmd.id) ELSE << >>
     IN  MatchReply([op |-> "READ", id |-> cmd.id, value |-> value, wrote |-> written[cmd.id]],
                    Len(value))
  /\ UNCHANGED <<conf, written, shifted>>

Write(cmd) ==
  /\ cmd.op = "WRITE"
  /\ conf' = WriteField(cmd.id, cmd.value)
  /\ written' = Promised(cmd.id, cmd.value)
  /\ UNCHANGED <<flowtable, lost, replies, shifted>>

(* The array is written behind the command and the position. *)
GetRule(cmd) ==
  /\ cmd.op = "GET_RULE"
  /\ LET bytes == ArrayFromEntryId(flowtable, cmd.position)
     IN  MatchReply([op |-> "GET_RULE", position |-> cmd.position, bytes |-> bytes,
                     rule |-> [i \in {cmd.position + 1} \cap DOMAIN flowtable |-> flowtable[i]],
                     way |-> "rules"], Len(bytes))
  /\ UNCHANGED <<conf, written, shifted>>

(* handle_response; entry_allocate purges a full table first. *)
HandleResponse(cmd) ==
  /\ cmd.op = "RESPONSE"
  /\ LET e == EntryFromArray(cmd.payload)
         room == IF Len(flowtable) < NumEntries THEN flowtable ELSE << >>
     IN  /\ flowtable' = AddEntry(room, e)
         /\ shifted' = (shifted \/ Without(room, e) # flowtable)
  /\ UNCHANGED <<conf, lost, replies, written>>

(* Everything in memory is as after boot. *)
Reboot ==
  /\ conf' = Boot /\ flowtable' = << >> /\ lost' = 0
  /\ written' = AtBoot
  /\ shifted' = TRUE
  /\ UNCHANGED replies

Free == lost < NumPackets

(* A packet comes in, sent now or long ago.  Without a block for it, it is    *)
(* dropped; outside the filter it is freed; with another next hop it is kept *)
(* for good.                                                                 *)
Receive(p) ==
  /\ IF Free /\ Hears(p)
     THEN \/ Read(p.cmd) \/ Write(p.cmd) \/ GetRule(p.cmd) \/ HandleResponse(p.cmd)
          \/ p.cmd.op = "RESET" /\ Reboot
     ELSE /\ lost' = IF Free /\ Passes(p) THEN lost + 1 ELSE lost
          /\ UNCHANGED <<conf, flowtable, replies, written, shifted>>
  /\ Abandon

(* Another packet matches a rule: it is counted, in 16 bits. *)
CountMatch(i) ==
  /\ CountRule(i)
  /\ UNCHANGED <<conf, lost, replies, listed, done, written, due, shifted>>

(* The node loses its power for a while, or its watchdog bites (external).   *)
Restart == Reboot /\ Abandon

Init ==
  /\ target \in Targets
  /\ conf = Boot /\ flowtable = << >> /\ lost = 0
  /\ replies = {}
  /\ listed = << >> /\ done = FALSE
  /\ written = AtBoot
  /\ due = 0 /\ shifted = FALSE

(* Of a packet it does not matter whether its frame was a broadcast or a      *)
(* unicast one, which has the link address as next hop.                      *)
Packet == [to : Addresses, net : Nets, rssi : Rssi, cmd : Commands]

Next ==
  /\ \/ StartListing
     \/ \E r \in replies : TakeReply(r) \/ LoseReply(r)
     \/ \E p \in Packet : Receive(p)
     \/ \E i \in DOMAIN flowtable : CountMatch(i)
     \/ Restart
  /\ UNCHANGED target

Spec == Init /\ [][Next]_vars
-----------------------------------------------------------------------------
(* Properties. *)

(* The configuration keeps the sizes of its fields, and blocks are lost but    *)
(* never invented.                                                           *)
TypeOK ==
  /\ target \in Targets
  /\ DOMAIN conf = Fields
  /\ \A f \in Fields : IsValue(conf[f]) /\ Len(conf[f]) = Len(Boot[f])
  /\ lost \in 0 .. NumPackets

(* An array so short (93 bytes in the code) that what a request's rssi goes   *)
(* over is none of its windows and actions.                                  *)
Short(n) == n < PartAt + 2

(* What the node tells of itself is true.  A field is read as it was last     *)
(* written, or as it was at boot, MY_ADDRESS at boot excepted and, where it  *)
(* shares a word with MY_NET, what a write to the other has changed.  A rule *)
(* that came all the way by rules, or that is short, has the windows and     *)
(* actions of the rule in the table, and its ttl and count in a byte each    *)
(* unless an rssi went there.                                                *)
RepliesTrue ==
  \A r \in replies :
    /\ r.op = "READ" /\ r.id \in Readable /\ r.wrote # Unwritten => r.value = r.wrote
    /\ r.op = "GET_RULE" /\ (r.way = "rules" \/ Short(Len(r.bytes))) =>
         \A i \in DOMAIN r.rule :
           LET e == EntryFromArray(r.bytes)
               n == Len(r.bytes)
           IN  /\ Rule(e) = Rule(r.rule[i])
               /\ n - 1 \notin Overwritten[r.way] => e.ttl = r.rule[i].ttl % 256
               /\ n \notin Overwritten[r.way] => e.count = r.rule[i].count % 256

(* A listing by position is whole: no rule is missed or told twice, though    *)
(* rules are added and replies lost or late meanwhile, as long as none is    *)
(* replaced and the table not purged.  What is listed of a short rule is that *)
(* rule.                                                                     *)
ListWhole ==
  ~ shifted =>
    /\ \A i \in DOMAIN listed :
         /\ i \in DOMAIN flowtable
         /\ Short(Len(ArrayFromEntry(flowtable[i]))) => listed[i] = Rule(flowtable[i])
    /\ done => Len(listed) >= due

(* A node that was given an address answers to another one: to the two bytes *)
(* swapped, or, where my_address is misplaced, to the first byte with the    *)
(* old second one, in the net the second byte names.  The radio's unicast    *)
(* frames keep the link address: a node told the very address it has is out  *)
(* of their reach.                                                           *)
AnswersTo ==
  LET given == written["MY_ADDRESS"]
  IN  given # Unwritten =>
        \A p \in Packet : Hears(p) =>
          IF target = "even"
            THEN p.to = <<given[1], LinkAddress[2]>> /\ p.net = given[2]
            ELSE p.to = <<given[2], given[1]>>

(* The node has no block left, or hears nobody. *)
Deaf == lost = NumPackets \/ \A s \in Rssi : s < conf["RSSI_MIN"][1]

(* A node that a write has made deaf stays deaf and stays as it is: no        *)
(* command brings it back, only a restart by hand or watchdog.               *)
DeafUntilRestart == [][Deaf => Restart \/ (Deaf' /\ UNCHANGED <<conf, written>>)]_vars
=============================================================================
