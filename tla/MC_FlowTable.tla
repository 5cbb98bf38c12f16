---------------------------- MODULE MC_FlowTable ----------------------------
(***************************************************************************)
(* Small tables for FlowTable.                                             *)
(***************************************************************************)
EXTENDS FlowTable

CONSTANTS a, b, c, w

Answer(windows, sizes) ==
  [windows |-> windows, actions |-> [i \in DOMAIN sizes |-> [arg |-> a, size |-> sizes[i]]]]

(* At most two windows, one action and two bytes: an entry's share. *)
SmallResponses == {Answer(<<w>>, <<3>>), Answer(<<w, w>>, <<1>>), Answer(<< >>, << >>)}

(* Three windows, two actions, and an action without even a type. *)
LargeResponses ==
  {Answer(<<w>>, <<3, 3>>), Answer(<<w, w, w>>, <<2>>), Answer(<<w, w>>, <<0>>)}

AllResponses == SmallResponses \cup LargeResponses

BothPaths == {<<a, b, c>>, <<c, b, a>>}

OneExtra == {<< >>, <<w>>}
=============================================================================
