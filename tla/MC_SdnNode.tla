----------------------------- MODULE MC_SdnNode -----------------------------
(***************************************************************************)
(* Small instances of SdnNode for TLC.                                     *)
(***************************************************************************)
EXTENDS SdnNode

(* A packet of type t for this node, with the given destination and body. *)
Frame(t, dst, body) ==
  [typ |-> t, accepted |-> TRUE, nxh |-> "me", dst |-> dst, src |-> "other",
   long |-> FALSE, body |-> body]

Long(f) == [f EXCEPT !.long = TRUE]

Filtered == [Frame("DATA", "me", "none") EXCEPT !.accepted = FALSE]
Overheard == [Frame("DATA", "other", "none") EXCEPT !.nxh = "other"]

(* One packet for every branch of the handlers. *)
AllFrames ==
  {Filtered, Overheard, Frame("BEACON", "other", "none"), Frame("REPORT", "other", "none")}
  \cup {Frame(t, d, "none") : t \in {"DATA", "RESPONSE"}, d \in Peers}
  \cup {Frame("OPEN_PATH", "me", b) : b \in {"absent", "inner", "last", "ragged"}}
  \cup {Frame("CONFIG", d, b) : d \in Peers, b \in {"read", "write", "reset"}}

(* What reaches a sink: its controller sends commands in the sink's own name. *)
SinkFrames ==
  {Overheard, Frame("BEACON", "other", "none"), Frame("REPORT", "other", "none"),
   Frame("DATA", "other", "none"), Frame("CONFIG", "me", "write")}
  \cup {[Frame("CONFIG", "me", b) EXCEPT !.src = "me"] : b \in {"read", "write", "reset"}}

(* Actions of every kind; the last two lists give the packet to nobody. *)
AnyRules == {<<"FORWARD_U">>, <<"SET_", "MATCH">>, <<"ASK">>, <<"FUNCTION">>, << >>}

(* The liveness run: a packet that is matched; a rule that broadcasts it, and *)
(* one that asks for a rule with it.                                         *)
LiveFrames == {Frame("DATA", "other", "none")}
LiveRules == {<<"SET_", "FORWARD_B">>, <<"ASK">>}

SendTimers == {"beacon_timer_proc", "report_timer_proc"}
=============================================================================
