---------------------------- MODULE MC_SinkTree ----------------------------
(***************************************************************************)
(* Small networks for SinkTree: a sink n0 and the nodes n1, n2 and n3.     *)
(***************************************************************************)
EXTENDS SinkTree

CONSTANTS n0, n1, n2, n3

TwoWay(pairs) == pairs \cup {<<p[2], p[1]>> : p \in pairs}

(* n1 is next to the sink; n1, n2 and n3 hear each other. *)
Kite == TwoWay({<<n0, n1>>, <<n1, n2>>, <<n1, n3>>, <<n2, n3>>})

(* n1 is next to the sink, n2 hears n1 alone. *)
Line == TwoWay({<<n0, n1>>, <<n1, n2>>})

(* n1 alone hears the sink; n2 and n3 hear n1 and each other.  What n1 could *)
(* hear of them is left out.                                                *)
Fork == {<<n0, n1>>, <<n1, n2>>, <<n1, n3>>, <<n2, n3>>, <<n3, n2>>}
=============================================================================
