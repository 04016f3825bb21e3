---------------------------- MODULE MCBzip2Expand ----------------------------
(* A TLC instance of Bzip2Expand: two calls for one output and a third for   *)
(* another; limits of one unit per entry, of the default, and none.          *)
EXTENDS Bzip2Expand, TLC

CONSTANTS c1, c2, c3

MCTarget == (c1 :> "out") @@ (c2 :> "out") @@ (c3 :> "other")
MCEntry  == (c1 :> 1) @@ (c2 :> 0) @@ (c3 :> -1)
MCTotal  == (c1 :> -1) @@ (c2 :> 1) @@ (c3 :> -1)
MCStream ==
  (c1 :> {[len |-> 1, clean |-> TRUE], [len |-> 2, clean |-> TRUE]})
  @@ (c2 :> {[len |-> 1, clean |-> TRUE], [len |-> 2, clean |-> TRUE]})
  @@ (c3 :> {[len |-> 3, clean |-> TRUE], [len |-> 1, clean |-> FALSE]})
=============================================================================
