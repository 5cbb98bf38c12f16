----------------------------- MODULE MC_OpenPath -----------------------------
(***************************************************************************)
(* A small network for OpenPath: a sink s, two nodes in the middle joined   *)
(* to each other, and an outer node e that both of them reach.              *)
(***************************************************************************)
EXTENDS OpenPath, TLC

CONSTANTS s, l, r, e

(* Two ways to e, one between the two halves, and one that does not start at *)
(* the sink and crosses it.                                                  *)
CrossPaths == {<<s, l, e>>, <<s, r, e>>, <<e, r, l>>}

(* Distances that agree with the three paths. *)
CrossCost ==
  [d \in {s, l, r, e} |->
     CASE d = s -> (s :> 0 @@ l :> 1 @@ r :> 2 @@ e :> 3)
       [] d = e -> (e :> 0 @@ r :> 1 @@ l :> 2 @@ s :> 3)
       [] d = r -> (r :> 0 @@ l :> 1 @@ e :> 1 @@ s :> 2)
       [] d = l -> (l :> 0 @@ s :> 1 @@ r :> 1 @@ e :> 2)]
=============================================================================
