----------------------------- MODULE PacketLife -----------------------------
(***************************************************************************)
(* What the firmware promises about one block of the packet pool: where a  *)
(* packet can be, and in which order it passes through the processes.      *)
(*                                                                         *)
(*   free --> main --> handler --> unicast | broadcast --> free            *)
(*                                                                         *)
(* A packet the node creates itself (beacon, report, request) enters at    *)
(* its send queue; a packet received over the radio or the UART enters at  *)
(* main.  "lost" is the stage the code never intends: the block is still   *)
(* allocated and nothing refers to it.  A lost block stays lost until the  *)
(* watchdog reboots the node, and a packet waiting in a send queue can     *)
(* only leave it by being sent and freed.                                  *)
(***************************************************************************)
CONSTANT Blocks     \* the blocks of packets_memb

VARIABLE stage      \* where each block's packet is

Stages == {"free", "main", "handler", "unicast", "broadcast", "lost"}

(***************************************************************************)
(* The stages a block may move to in one step.  Data created by a mobile   *)
(* node goes straight to the flow table, the handler stage.                *)
(***************************************************************************)
Successors(s) ==
  CASE s = "free"      -> {"main", "handler", "unicast", "broadcast", "lost", "free"}
    [] s = "main"      -> {"handler", "lost"}
    [] s = "handler"   -> {"unicast", "broadcast", "free", "lost"}
    [] s = "unicast"   -> {"free"}
    [] s = "broadcast" -> {"free"}
    [] s = "lost"      -> {}

Init == stage = [b \in Blocks |-> "free"]

Progress == /\ stage' \in [Blocks -> Stages]
            /\ \A b \in Blocks : stage'[b] # stage[b] => stage'[b] \in Successors(stage[b])

Reboot == stage' = [b \in Blocks |-> "free"]

Next == Progress \/ Reboot

Spec == Init /\ [][Next]_stage
=============================================================================
