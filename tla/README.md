# SDN-WISE for Contiki: a TLA+ verification project

SDN-WISE is the firmware of a software-defined wireless sensor network. Nodes
find a tree towards a *sink*, report their neighbours up the tree, and forward
packets by a *flow table* whose rules come from a controller behind the sink.
The firmware (`src/sdn-wise/`, C, Contiki protothreads, 16-bit targets) runs on
a few kilobytes of memory: every data structure is a fixed pool, results of
allocations and posts are seldom looked at, and there is no test suite beyond
five routines that print. This directory models its control, checks it with TLC
and proves its main invariants with TLAPS.

Contents: 1 Inventory - 2 Modules - 3 Runs - 4 Fairness - 5 Proofs -
6 Limits - 7 Results worth knowing - 8 Plan.

## 1. Inventory

| Component | State | Operations | Where it is hard | What makes it correct |
|---|---|---|---|---|
| Event loop, `sdn-wise.c` | Contiki's event queue, eight protothreads, four timers, `conf.is_active` | radio and UART callbacks, `main_proc`'s events, two send processes, timers | a post to a full queue is refused and nobody looks; activation is a flag and an event | queue bounded; activation reaches both timers; timers keep ticking |
| Packet pool, `packet-buffer.c` | `packets_memb`, 4 blocks, shared by pointer | allocate, deallocate, print (which frees) | ownership moves with events; NULL is posted | one owner per block; every block comes back |
| Handlers, `packet-handler.c` | none of their own | one handler per packet type | branches that forget the packet; NULL after partial allocation | each block forwarded, matched or freed exactly once |
| Requests, `packet-creator.c` | `requests_count` | beacon, report, data, request in one or two packets | one of two allocations fails | no leak; the packet is always freed |
| Sink discovery, `handle_beacon`, `node-conf.c`, `main_proc` | `nxh_vs_sink`, `hops_from_sink`, `distance_from_sink`, `sink_address`, `reset_period` of every node | beacon, adopt a parent, report, forget the distance, reboot | beacons are old when they arrive; ttl is never tested | parents form a tree; ttl never wraps; everyone is attached |
| Flow table storage, `flowtable.c` | the list `flowtable`; pools of 10 entries, 30 windows, 20 actions, 50 bytes | store a rule (RESPONSE, OPEN_PATH), replace, purge | only a full entry pool is handled; a purge forgets all | pools exact, rules unique and whole, order kept, paths learnt |
| Flow table matching, `flowtable.c` | `status_register` | match, run actions, SET arithmetic | the action loop goes on after the packet is given away; MATCH recurses | the packet has one owner while actions run |
| Open paths, `handle_open_path` | the flow tables of several nodes | each node of a list learns both directions and passes the list on | the packet is lost half-way; tables are purged; two lists cross | no loops; ways back have no holes |
| Configuration, `node-conf.c`, `handle_config` | `conf` | read, write, reset, read a rule back | values take effect at once; my_address is an array at an odd offset, accessed as an integer; replies go through the flow table like any packet | what is read is what was written; what a rule is told to be is that rule |
| Neighbour table, `neighbor-table.c` | list and pool of 35 | add on beacon, empty into a report | emptied before the report is sent; the longest report outgrows the payload | every neighbour heard, once, with its last rssi |
| UART framing, `uart_rx_callback` | buffer, index, expected length | one byte at a time, in an interrupt | no resynchronisation; comes between the statements of any process | frames in step; packets that wait keep their block |
| Rule codec, `flowtable.c` | none | array to entry and back | bytes and bits in their places; counts of 16 bits in a byte | what is written is what is read |
| Addresses, `address.c` | accepted addresses (filled by its own test only) | compare, swap | - | part of the filter; the list is empty in the models |
| Cooja motes (Java) | adapters with a sender and a logger thread (`AbstractCoojaMote.java:211-245`); core and queue are in a jar | radio, UART and clock of a simulated mote | retry of a busy radio | not modelled |
| Contiki | queue, `memb`, `list`, `etimer` | external (submodule without content) | - | modelled from its use |

How they interact: a callback copies a frame into a block of the pool and posts
its pointer to `main_proc`, which posts it to `packet_handler_proc`, which runs a
handler; the handler frees the block, posts it to a send process, or gives it to
the flow table, which runs a rule's actions or answers a miss with a request.
The send processes free it. Timers post ticks to `main_proc`, which creates
beacons and reports. Between nodes there are only packets.

`PROJECT.json` lists the components with their status, 40 hazards at the lines
where they bite, and which property watches each.

## 2. Modules

| Module | Models | Lines of code it stands for |
|---|---|---|
| `PacketLife` | abstract: the life of one block, `free -> main -> handler -> unicast or broadcast -> free`, with `lost` for what nobody intends | - |
| `SdnNode` | one node: pool, queue, processes, handlers, requests, action loop | `sdn-wise.c`, `packet-handler.c`, `packet-creator.c`, `packet-buffer.c`, part of `flowtable.c` |
| `SinkTree` | several nodes: beacons, parents, reports, reboots | `handle_beacon`, `handle_report`, `create_beacon`, `node_conf_init`, `main_proc` |
| `FlowTable` | one flow table and its four pools | `flowtable.c`, `handle_response`, `handle_open_path` |
| `FlowMatch` | one packet against the rules: windows, actions, nested lookups | `match_packet`, `match_entry`, `run_action`, `get_operand`, `compare`, `do_operation` |
| `RuleCodec` | pure: rules to bytes and back | `get_entry_from_array`, `get_array_from_entry` and their parts |
| `Commands` | a node, its controller and the radio between them; uses `RuleCodec` | `handle_config`, `handle_response`, `handle_packet`'s filter, `node-conf.c` |
| `OpenPath` | several nodes that learn paths and forward data by them | `handle_open_path`, `match_packet` |
| `Upstream` | reports and requests, byte by byte, from a node to the sink's UART | `neighbor-table.c`, `create_report`, `create_and_send_request`, `set_payload_at` |
| `UartSink` | a sink whose interrupt comes between the statements of its processes | `uart_rx_callback`, `rf_u_send_proc`, `print_packet_uart` |
| `MC_*` | constants for TLC | - |
| `*_proof` | theorems about the module of that name | - |

**SdnNode.** Variables: `mem` (a function from allocated blocks to contents),
`queue`, `active`, `timer`, and `cur`/`rest`, the packet in the action loop and
the actions that remain. A step delivers the head of the queue to its process,
or runs one action, or is a callback or an expiry; protothreads being
cooperative, that is the grain of the real interleaving, save that the UART's
interrupt may come in the middle of a step (section 6). `Post` refuses when the
queue is full, as `process_post` does, and every caller goes on regardless, as
the code does. What a packet says is abstracted to what the handlers branch on:
filter passed, type, whether next hop, destination and source are this node,
whether a request for it needs two packets, and the node's place in an open path
or the kind of a command. `Build` chooses between the three firmwares of `RUNME.sh`: at a
sink a received report, or a command for itself from elsewhere, is printed and
freed; a mobile node creates data packets. Which rule matches is a free choice
among `Rules`, so the checks hold whatever the table says. Reading a freed block
yields any frame. A second free of the same block (the sink's
`print_packet_uart` then `packet_deallocate`) is one free, nothing running
between the two in this model (in `UartSink` something does).

**SinkTree.** Variables are the `conf` fields of every node, one FIFO channel
`air[s][n]` per pair (what lies between `create_beacon` and `handle_beacon`:
send queue, radio, event queue), one `report` being watched, and the number of
`reboots`. A broadcast is heard by any subset of the neighbours. `Follows` is the condition of `handle_beacon`
for the non-mobile build; the mobile build's condition is the mutant
`AnyCloserNode`. Hop counts are bytes, counted modulo `ByteMod` (256 in the code), ttl too; `wrapped` records that a
hop count went past the last byte. The one report
stands for any, since reports do not influence each other or the tree. `Dist`, the length
of the shortest way to the sink, is read off `Reach`, the nodes reached in so many steps.

**FlowTable.** Variables are the list, the number of blocks allocated from each
pool, `careful`, a choice made at the start whether the controller only sends rules within one
entry's share of the pools, and `faulted`, set when the code would write through a NULL
pointer; after that nothing is claimed until a reboot. `MakeRoom` is
`entry_allocate`, `AddEntry` is `add_entry`, `EntriesFree` is `entry_free` of
several entries. `Kept` says how many bytes each action really got of the ones that were
free, from the sums (`Sums`) of what the actions before it asked for (`Wanted`).
`RuleOf` keeps the byte width of `action_size - 1`. `HandleOpenPath` does the two
rules of `handle_open_path` in order, in one step. Only address lists of whole
addresses are path inputs here; the ragged ones are in `SdnNode`.

**OpenPath.** Each node's table is a function from destinations to next hops,
which is what the two rules of `handle_open_path` amount to when nothing else is
stored; `Install` is `entry_allocate`'s purge and `add_entry`'s replacement,
as in `FlowTable`. A packet in `opens` is at the node that handles it next: a node
of its list learns (`LearnPath`), any other treats it as data (`PassOpenPath`).
Packets of several lists are on their way at once, get lost, and meet nodes that
rebooted. `data` is one packet being forwarded while all this goes on.

**FlowMatch.** The packet is its bytes and so is the status register; `stack` holds
the calls of `match_entry` that have matched and the action each has reached, so
that the recursion of MATCH (`run_action` calls `match_packet`, which starts from
the first rule) is explicit. `int` is the width of the target's `int`, on which
the bounds checks of `get_operand` depend; a read outside gives any byte of
`Stray`, and so does a division by zero; a SET that writes outside ends the run
(`wild`). Operators follow the code: `Operand`, `Compare`, `DoOperation`
(in bytes), `Store`. `WellFormed`, `Settled` and `Measured` say what the controller has to
observe for `GivenOnce`, `NoRuleTwice` and `ReadsInside`; tables that do not are in the run too.

**RuleCodec, Commands.** A field of `conf` is its bytes in memory: those of
integers are swapped on the way in and out, on a little-endian target.
`my_address` is an array of two bytes behind the one of `my_net`, accessed through a
pointer to integers: C leaves open what that does, and `target`, fixed at the start, chooses between
the two things it does in practice. Where a word may lie anywhere, the address's bytes
are swapped like an integer's; on the MSP430 of `RUNME.sh` a word lies at even
addresses, and the access meets `my_net` and the address's first byte (`Misplaced`). A packet is seen on
its last hop; a unicast frame is taken by the radio only under the link address
set at boot, and every frame passes `handle_packet`'s filter, which looks
at the configuration just written. A reply goes to `match_packet` (`MatchReply`): a rule
sends it on, which counts the rule, or asks with it, or none matches and `create_and_send_request`
wraps it in one or two requests (`Request`), losing the first if there is no block for the second; a relay on its way may do the
same. `way` is what became of it, and `Overwritten` which bytes of the array the rssi
went over: replies to GET_RULE carry the array two bytes further on than a RESPONSE does, so the last
byte but one of the longest rule lies where the next node writes the rssi, and in a
request another three bytes of its own and the packet's header come first. The controller is external: it lists the
rules by asking for one position after the other, and the arrays it sends are
`Whole`, that is, what their own rule is written out as.

**Upstream.** A packet is its length and the cells behind the header,
including those behind the payload that `set_payload_at` lets through: cell
`MaxPayload` is the rssi of `packet_info`, written by every receiver
(`Received`). The report writes the table and empties it; the request cuts a packet in one
part or two. Losses, refused posts and hops are between; at the end the
payload is printed.

**UartSink.** The interrupt's `uart_rx_callback` and the processes are actions
of one module; a process is cut where its statements matter to the interrupt: in
`rf_u_send_proc` between `print_packet_uart`, which frees the packet, and
the `packet_deallocate` after it. The controller sends frames byte by
byte; a byte may be lost, and noise may come in a frame or between two. A byte behind the buffer
(`overrun`) and a second free that hits somebody else's block (`misfreed`) are
recorded, and end the run: what C does then is undefined.

The link between `SdnNode` and `PacketLife` is a refinement mapping: `Stage`
computes a block's stage from pool, queue and action loop, and
`LifeSpec == Life!Spec` is checked by `handlers` and proved (`LivesAsPromised`). It says that a waiting packet
leaves a send queue only by being freed, that a lost block stays lost until a
reboot, and that no packet goes backwards.

## 3. Runs

| Run | Instance | Shows |
|---|---|---|
| `handlers` | mobile node, 2 blocks, 2 event slots, all four timers, one frame per branch, well-formed rules | `TypeOK`, `SingleOwner`, `LifeSpec`, `LeakOnlyKnown` |
| `sink` | a sink, 3 blocks, 3 slots, its own branches | `LeakOnlyKnown` |
| `live` | 2 blocks, 11 slots, a packet and two rules that give it away | `NoLeak`, `QueueBound`, `ActivationExact`, `BlockReturns`, `KeepsTicking` |
| `kite` | sink, a node, and two nodes in a triangle with it; a broadcast may miss anyone | `TypeOK`, `ParentNearer`, `NoCycle`, `Rooted`, `TtlSuffices`, `HopsNeverGrow` |
| `reboot` | a line of three, bytes modulo 5, new nodes at 3 hops, one reboot | `HopsHonest` |
| `tree_live` | one-way links: the sink to one node, that node to two more, which hear each other | `ReportEnds`, `EveryoneAttached` |
| `table` | 4 entries, 8 windows, 4 actions, 8 bytes; rules within and beyond an entry's share | `EntriesExact`, `RulesWhole`, `NoDuplicates`, `PoolsExact`, `PathLearnt`, `OrderKept` |
| `path` | 4 nodes, three paths that cross, one of which does not start at the sink; tables of 2 rules, 3 packets at once | `NoLoop`, `WayToSink`, `DataEnds` |
| `match` | 8 tables with every action, operator and place, 12 packets of 10 bytes, both widths of `int` | `GivenOnce`, `NoRuleTwice`, `ReadsInside` |
| `commands` | 3 blocks, 2 entries, three rules of 10, 12 and 16 bytes, headers of 2 and payloads of 16, both targets | `RepliesTrue`, `ListWhole`, `AnswersTo`, `DeafUntilRestart` |
| `upstream` | header of 4, payload of 10, four neighbours, two hops, packets of every length | `TableIsHeard`, `ReportHonest`, `RequestWhole` |
| `uart` | 2 blocks, buffer of 3, two frames, three values of a byte | `InStep`, `WaitingIntact` |

Bounds and why they are enough:

* *Blocks and event slots.* A leak of one kind needs one block; the partly
  failed long request needs one free block beside the packet; one owner too many
  needs two. Two slots
  make every post of a step fail in some state (activation posts three events);
  11 slots are three more than `QueueBound` gives for 2 blocks and two timers
  (2 + 4 + 2 = 8), so that a bound that is exceeded shows.
* *Frames and rules.* One representative per branch: two frames the handlers
  treat alike lead to the same states.
* *Network.* In `kite` one node has two neighbours at the same depth that hear each other,
  the smallest network in which a node could choose a descendant. One beacon in
  flight per direction is already one that is old when it is handled.
  `ResetPeriod` 0 forgets the distance at every report, the worst case;
  `Rssi = {1}` with `MaxDistance = 2` leaves "closer than what I remember" true
  exactly after a reset, so that stale hop counts decide everything.
* *Reboots.* `MaxReboots` bounds them and `MaxInFlight` the beacons in a channel; nothing
  bounds the counting upwards. In `reboot` a byte is modulo 5, so that two nodes
  that follow each other after a reboot soon wrap, as they do at 256
  after some ten minutes of beacons, before the distances are reset: of the run's million states
  those after the wrap have counts below the distance, and `HopsHonest` excepts them.
* In `tree_live` only one node hears the sink, so the others have to be attached
  over it.
* *Table.* The pools are four times the share of one entry
  (two windows, one action, two bytes), so the table is filled, replaced into and
  purged; the larger rules make bytes, actions and windows run out in the
  middle of a rule, each in some state.
* *Paths.* Two nodes in the middle that reach each other and both ends are the
  least for a loop; each of the three lists overlaps the others in opposite
  directions. Tables of two rules are purged by the third destination.
* *Matching.* Ten bytes are a header, so one-byte and two-byte operands lie
  inside, across the end and outside. `MaxDepth` 5 is two more than the longest
  chain of well-behaved rules; a table whose MATCH finds itself again reaches
  the bound and stops there.
* *Commands.* With headers of 2 and payloads of 16, a rule of ten bytes is short enough for
  any reply, one of twelve needs two requests and loses a byte of its actions there, and one of sixteen
  loses its ttl besides, in a reply that rules carry: in the code these cases begin at
  94 and 105 bytes. Three rules for two entries
  replace, fill and purge. `MaxCount` 256 lets a count pass the byte it is sent in. Three blocks are
  one for the reply and two for its requests; one or two of them may be lost.
* *Upstream.* Ten bytes of payload are three neighbours and one byte, as 106
  are 35 and one: the last neighbour of a full table lies across the
  end. Packets run from a bare header to `MaxPacket`, so each lies on either side of the
  cut and on it.
* *UART.* One frame fills the buffer, one is shorter; the byte values are those
  two lengths and 0, which no length is. Two blocks are one for the packet
  that is printed and one for a frame in between.

`CHECK_DEADLOCK FALSE` is set in four runs. In `handlers` and `sink` every block can be
lost and the queue be full of nothing: a node whose blocks are
gone really does stop receiving. In `match` the bound on nested lookups stops a
rule that matches again for ever, and a write outside memory ends the run. In
`uart` an overrun or a misdirected free does.

Each property has a mutant of the code (named in `PROJECT.json`, defined beside
the operator it changes) that breaks it in the same run.

## 4. Fairness

* `SdnNode`: `WF_vars(Step)`, because Contiki's scheduler calls
  `process_run` in an endless loop; and `SF_vars(TimerExpires(t))`, because the
  clock goes on and `etimer_process` polls until its post is accepted. Nothing is
  assumed of the radio or the UART.
* `SinkTree`: beacons that arrived are handled and a report in transit moves on (weak: queues
  are served). For every link, a beacon of the sender that the receiver hears
  is sent again and again (strong: the timer goes on, and a receiver that is
  always deaf has no link). Sending of reports is not assumed.
* `OpenPath`: `WF_vars(HandleData)`: a node handles the packets it has. That a
  packet's way ends is then a matter of the rules, not of luck: losses are
  possible and never assumed.

## 5. Proofs

Every invariant and every action property of the runs is proved, and so is the
refinement; the five liveness properties are left to TLC. All proofs are by
invariance; each proof module has a lemma per action. Where something is
summed, counted or joined over the data, the induction goes through the least element
of a set of natural numbers (`WFMin`): a first length, or a first position, at
which the claim fails is refuted from the one before.

| Module | Theorems about the runs' properties | Beyond the module's assumptions |
|---|---|---|
| `SdnNode_proof` | `TypeCorrect`, `Ownership`, `QueueBounded`, `ActivationIsExact`, `LivesAsPromised`, `LeaksAreKnown`, `NothingLost` | `WellFormedRules`; see below |
| `SinkTree_proof` | `TypeCorrect`, `TreeCorrect`, `TreeAcyclic`, `TreeRooted`, `TtlCorrect`, `HopsFall`, `HopsAreHonest` | the tree and the ttl: no reboots; the last: finitely many nodes, none farther than `PacketTTL`, and no count has wrapped |
| `FlowTable_proof` | `RulesUnique`, `EntriesCounted`, `PoolsCounted`, `SharesSuffice`, `OrderIsKept`, `PathsAreLearnt` | the last: two entries, no path that ends where it begins |
| `OpenPath_proof` | `LoopFree`, `WayBack` | - |
| `FlowMatch_proof` | `GivenExactlyOnce`, `RulesEnteredOnce`, `OperandsInside` | - |
| `Commands_proof` | `RepliesAreTrue`, `ListingsAreWhole`, `AnswersSwapped`, `DeafStaysDeaf` | - |
| `Upstream_proof` | `TableTrue`, `ReportsHonest`, `RequestsWhole` | the second: `MaxPayload % 3 # 2` |
| `UartSink_proof` | `FramesInStep`, `WaitingKept` | - |

**SdnNode_proof** begins with `TypeCorrect` and `Ownership`. Both, and all that
follows, stand under `WellFormedRules`: an action that gives the packet away is the last of its list.
The assumption is needed: the action loop of `match_entry` goes on after
such an action, and the code relies on the controller never to ask for that. (The runs take
rule sets that satisfy it.) The inductive invariant is type correctness with
`Own(mem, queue, cur)` and one more conjunct: of the actions that remain, only
the last gives the packet away. Ownership is proved
operator by operator: `OwnPost`, `OwnAlloc`, `OwnFree`, `OwnTail` say
how each operator moves or ends ownership, and the lemmas of the handlers
cite them.

*The queue.* A timer's events in the queue, its errands, are of three kinds: its expiry or
the event that starts it; its tick; and, for the two timers that create
packets, a send that found no block. The inductive invariant `Sched` says that they come in turns, at most one of each kind and
the older kinds in front, and that a timer whose expiry is not handled yet has not been set again. With `Ownership` this makes the
events of the queue distinct *keys*, a block or an errand of a timer; the positions of the
queue map one to one into `Keys`, and `QueueBound` is the cardinality of that set.
`ActivationIsExact` needs one more conjunct (`Started`: of an active node each gated timer is set, or the event that sets it is in the queue) and a queue in which the three posts of an activation fit,
`NumEvents >= QueueNeed`: for the code's 4 blocks and four timers 14 slots; Contiki's own default is 32.

*The life of a block.* A step touches only the block in its hands: of all others
the content and the events that carry them (`Carry`) stay. So the stage of every other block stays, and the
one in hand moves as `PacketLife` allows, case by case of the handlers
(`StageNow`, `StageThen`): `LivesAsPromised`. The same split proves
`LeaksAreKnown`: an operator that loses its block says why (`Loses`), and
the reasons are those of `LeakOnlyKnown`.

*Nothing is lost* (`NothingLost`) if frames and rules are `CleanFrames` and `CleanRules` (no packet
that `LeakOnlyKnown` blames on its content) and `NumEvents > QueueNeed`: then no
post fails, and what lies in the pool stays clean from step to step (`Clean`).

**SinkTree_proof** proves that the parents form a tree in *every* network.
That parents are nearer is not inductive: a node follows its parent's beacon
whatever it says, so the beacons still in the air matter. The strengthening
`Tree` says: the sink never changes (`SinkFixed`); a node has no parent, knows no
sink and counts `PacketTTL` hops, or has all three (`Attached`); a beacon in the
air carries a count no smaller than its sender's present one, and the sink's
address if it carries less than `PacketTTL` (`Airborne`); the beacons of one
channel carry counts that never rise (`Ordered`); a node's parent, and every
beacon of the parent that the node has still to handle, count less than the
node (`Nearer`); a report's ttl is at least its next hop's count
(`TtlLeft`). The point of the argument is that hop counts only fall: an old
beacon makes its sender look *farther*, never nearer. `TreeAcyclic` follows by taking a node of least hops in the group.
`HopsNeverBelow` needs another invariant, that every beacon in the air
carries at least the distance of its sender; it survives reboots, which the tree does
not, but not a count that goes past the last byte and starts again at 0. So it is claimed until
then (`wrapped`); that no count wraps without a reboot follows from the fact that hop
counts then only fall (`Wrapless`). It is stated for every distance function that is 0 at the sink and
grows by at most one along a link, of which `Dist` (checked by `reboot`) is
the largest. That `Dist` is such a function is proved too, by induction over the
steps of `Reach`, and gives `HopsAreHonest`; without the bound on distances a
node that is still unattached, and counts `PacketTTL`, would seem too near.

**FlowTable_proof** proves for all pool sizes and all rules that what is
allocated is what the table holds. The invariant (`Holds`) says it of each pool
as a sum over the table (`InTable`): of entries its length, of windows
and actions the lengths of the rules' lists, of bytes the ones kept. A step
adds a rule at the end, takes one out, or empties the table; what each does to a sum is
an induction over partial sums (`Removed` says what taking one
element out of a sequence leaves). `PoolsCounted` and `EntriesCounted` follow, and
with `Unique` (windows of different positions differ) `RulesUnique`. For
`SharesSuffice` the invariant `Whole` says that a careful controller's rules have all
their bytes: with room for one more entry, the sums leave one entry's share in each pool.
`OrderIsKept` and `PathsAreLearnt` follow from what the whole of `Install`,
with purge and replacement, does to the table (`Stored`). The latter
needs two entries (with one, the second rule of a path purges the first), and
that a path does not end where it begins (its two rules would be one).

**OpenPath_proof** proves `LoopFree` for every network and every set of
paths of which the controller has a common idea of distance: each step of a path
leads away from its first node and towards its last (`Descends`). The
invariant is that a rule for *d* points to a node nearer to *d*; a loop would have a
nearest node. `WayBack` needs more: rules for the sink come from lists that start
at the sink (assumption `SinkFirst`), and a list is at its *i*-th node only when
the one before it knows its way; so the invariant relates the packets on their way to
the tables behind them, as long as no table has been purged or lost.

**FlowMatch_proof** proves `GivenExactlyOnce` and `RulesEnteredOnce` for all
tables, packets and both widths of `int`. For the first: calls that wait for an inner
lookup have run their last action (`Waiting`), so nothing touches the packet when
that has given it away. For the second: a rule whose MATCH has run has
overwritten the value that made it match, and no other rule that leads to a
lookup writes there (`Marks`); so what is overwritten stays so (`Unmarked`), and
the rule cannot match again. SETs of all operators go through `SetKeepsMarks`. `OperandsInside` rests on type
correctness (`Typed`: whatever a SET computes, bits included, is stored as bytes),
on the arithmetic of the bounds check at both widths of `int` (`ReadInside`: reads lie within the length field), and
on the invariant that the length field stays within the block as long as packets came with such a length
and no rule sets it (`LengthKept`).

**UartSink_proof** proves `FramesInStep` and `WaitingKept` for every pool,
buffer and set of frames that fit it. `InStep` is strengthened by what the callback
expects: nothing before the length is in, the length of the frame afterwards
(`Expecting`). `WaitingKept` carries a disjointness of the blocks in both
queues through every step of the processes and of the interrupt.

**Upstream_proof** proves that the neighbour table is what was heard
(`TableTrue`), and that what is printed of reports and requests is what was sent
(`ReportsHonest`, `RequestsWhole`). Neither property is inductive, for both speak
of printed bytes only: the invariant is `Inv`, of which `Copies` says that
there is one value of the counter such that all packets on their way, and all
that is printed, are copies of the packets made with it (`Sent`), save for
the byte behind the payload once there was a hop. That a hop makes a copy of a
copy is `HopCopies`; what the packets look like that are sent follows from
`SetPayloadFacts`, field by field (`PartFacts`, `ReportFacts`). `ReportsHonest`
needs a payload that does not end between an address and its rssi
(`MaxPayload % 3 # 2`; 106 is such a length): otherwise it would be the rssi that a
hop overwrites.

**Commands_proof** proves the codec first. A window survives its way to the wire and back
(`WindowRoundTrip`), and a whole entry does (`EntryRoundTrip`), save for its
two counters, of which a byte each remains. `ArrayFromEntry` joins pieces of different lengths
(`FlattenSeq`); where each begins is an induction over the pieces (`Layout`), and
`get_entry_from_array`'s loop finds them again by an induction from the last
action downwards (`Decode`). Which of the reply's bytes are overwritten on the way
(`Received`) decides what is left: the layout before them, hence windows and
actions, if the reply came by rules or the rule is short. `RepliesAreTrue` is then each reply's by two invariants: every stored rule fits a
payload (`TableFits`), and memory has what should be read, in the target's order of bytes and, where my_address is
misplaced, in the word it shares with my_net (`MemoryOK`, `WrittenIsThere`).
`AnswersSwapped` follows from the same invariant, which there says what an address written
by the controller has become.
`ListingsAreWhole` needs an invariant of the answers that are on their way (`Tells`): until
the table is disturbed they speak of its present positions, since a new rule
is appended. `DeafStaysDeaf` rests on `TypeCorrect` (that
`rssi_min` stays a byte is what makes a strength comparable with it). The one assumption on
rules is that the controller sends whole ones.

Assumptions are those named in the modules (`NodeAssumption`,
`TreeAssumption`, `TableAssumption`, `PathAssumption`, `SinkFirst`,
`MatchAssumption`, `UartAssumption`, `UpstreamAssumption`, `CommandsAssumption`, `PayloadAssumption`)
and TLC evaluates them in every run.

Only model-checked: the liveness properties `BlockReturns`, `KeepsTicking`,
`ReportEnds`, `EveryoneAttached` and `DataEnds`. Liveness under
fairness is beyond this prover, as is `ENABLED`.

## 6. Limits

* The UART callback comes between the statements of a process (`UartSink`), never
  inside `memb_alloc` or `process_post`: their code is Contiki's and not here.
  In `SdnNode` it comes between events only.
* Contiki is not in the repository: the size of the event queue
  depends on its platform, and is a constant here.
* `SdnNode`, `SinkTree` and `OpenPath` abstract payloads to what their handlers
  branch on, and take the configuration `node_conf_init` sets; writing it is in
  `Commands`, for one node that is not a sink, with packets on their last hop.
* `RuleCodec` decodes arrays that hold a whole rule. On shorter ones
  `get_entry_from_array` computes a length that wraps on a 16-bit target
  (`flowtable.c:469`) and reads on; that is not modelled.
* In `FlowMatch` an action has all its arguments, and a SET's are decoded. A
  write outside packet and register ends the run.
* The list of accepted addresses is empty: only `address.c`'s own test fills it.
* `get_packet_from_array` copies as many bytes as the second byte of a frame says
  (`packet-buffer.c:123`), up to 255, into a block of less than half as many. Frames are taken to say a length that they
  have; a longer copy, and what it would overwrite, is not modelled.
* `QueueBound`, and what rests on it (`NoLeak`, `ActivationExact`), counts the
  application's events. Contiki's own, such as those of the callback timers that the
  radio stack uses, go through the same queue: the slots they take come on top.
* The Cooja motes are adapters of an emulator, not firmware. Their sender and logger
  threads are here (`AbstractCoojaMote.java:211-245`), but the core they take packets from, and the queue in between, are in a jar.
* After a hop count has wrapped, which takes a reboot, nothing is claimed of hop counts.
* `my_address` is accessed at an odd offset, which C leaves undefined: `Commands` covers a target that does it
  and one that rounds the address down, not one that traps.
* The tree is proved for the non-mobile build without reboots; after a
  reboot a cycle can exist for as long as the counts take to climb.

## 7. Results worth knowing

* *Event queue.* `QueueBound` gives, for 4 blocks, four timers and two timers
  that create packets, 4 + 8 + 2 = 14, and the same sum is proved for every pool and set of
  timers: with that many slots, beside those that Contiki's own events take, no post ever fails and, from the queue, no block is ever lost, at any period of the
  timers, 0 included. A platform that configures fewer can lose blocks, and a
  lost block is lost until a reboot.
* *Blocks are lost in four ways only* (proved, `LeaksAreKnown`): a refused post; a packet whose radio
  address and next hop disagree, or a ragged open path; a long request with
  exactly one block left; a rule that gives its packet to nobody.
* *Rules* of up to 3 windows, 2 actions and 5 argument bytes (an equal share of each pool)
  never meet an empty pool (proved, `SharesSuffice`); the rule in `test_flowtable` has 4 windows, and eight
  such rules would.
* A rule that is refreshed when the table is full purges the table first, itself
  included; and a refreshed rule goes behind all others.
* A node with room for exactly one rule that learns both directions of a path
  keeps only the second.

* *Open paths.* Ways back to the sink never have holes, because the list is walked
  outwards and each node learns the way back from one that has it. Ways out do:
  a second OPEN_PATH to the same destination that is lost half-way cuts a way
  that worked. Nothing but the controller's idea of distance prevents loops:
  no handler looks at a data packet's ttl.
* *Writing MY_ADDRESS* does not do what it says (proved, `AnswersSwapped`). Where a word may lie at any address the node answers to the
  two bytes swapped; on a target with words at even addresses only, as the MSP430 is, it answers to the
  first byte with its old second one, in the net that the second byte names. The radio keeps the
  link address of the boot, so that a node told the address it has hears no unicast frame any more.
* *Hop counts after a reboot.* A node that has rebooted and its former child can follow
  each other: each beacon adds two hops, and after 255 comes 0. Until then no count
  is below the true distance (proved, `HopsAreHonest`); from then on the two may look nearer than the sink itself.
* *RESET_PERIOD* can be written and not read.
* *Reading rules back.* A rule of 105 or 106 bytes loses its count or its ttl to the rssi
  of the next hop. If no rule matches the reply, or a relay has none for it, it is wrapped in requests, and there the
  92nd byte of the rule is lost: of a rule of 94 bytes or more a byte of a window
  or of an action. Its request may also cost the node a block. A listing by position is whole as long as no rule is
  replaced or purged meanwhile, losses and additions notwithstanding.
* *Reports and requests.* In a full table's report the last neighbour's
  address gets a byte of rssi; so does one byte of a request for a packet
  of more than 103 bytes.
* *Operands.* On a 16-bit target the last index of all passes the bounds check of a
  two-byte operand, and every index does once a rule has set the packet's length to zero. On any target
  a rule that sets the length beyond the block lets reads out of it. Rules that leave the length alone are safe (proved, `OperandsInside`).
* *MATCH* is safe, in ownership and in depth, if each rule that uses it first
  writes over the value that made it match.
* *The double free* of a packet that a sink prints for itself does harm only if a
  frame on the UART takes the block in between; then that frame's packet shares
  its block with the next.

## 8. Plan

Modelled, most important behaviour first: `SdnNode` with `PacketLife` (ownership,
leaks, queue, timers), `SinkTree` (tree, reports, reboots), `FlowTable` (storage of rules),
`OpenPath` (paths across tables), `FlowMatch` (matching), `Commands` with
`RuleCodec` (configuration and rules from afar), `Upstream` (neighbour table, payloads),
`UartSink` (the interrupt).

Left to model: the parent choice of the MOBILE build as a variant of `SinkTree` with its own
(weaker) properties; SET's arguments in their packed form; CONFIG at a sink.

Proved: all safety and action properties of the runs, and the refinement of `PacketLife`.

Left to prove: the same for what is left to model (of the MOBILE parent choice, that hop
counts stay honest; a SET's packed arguments through the lemmas on
`Operand`), and abstract specifications with a refinement for other components, the
most useful being a table as an ordered map from windows to actions
that `FlowTable` implements between purges.
