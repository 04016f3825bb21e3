---------------------------- MODULE MCHttpGather ----------------------------
(* TLC instances of HttpGather. *)
EXTENDS HttpGather, TLC

CONSTANTS c1, c2

Body(d, l, e) == [ok |-> TRUE, declared |-> d, len |-> l, clean |-> e]
NotFound      == [ok |-> FALSE, declared |-> -1, len |-> 0, clean |-> TRUE]

(* One destination; c1 has a limit below the largest body, c2 has           *)
(* math.MaxInt64 as its limit.                                              *)
RaceTarget == (c1 :> "dst") @@ (c2 :> "dst")
RaceLimit  == (c1 :> 1) @@ (c2 :> MaxInt)
RaceReply  ==
  (c1 :> {NotFound, Body(1, 1, TRUE), Body(-1, MaxInt, TRUE), Body(MaxInt, MaxInt, TRUE),
          Body(1, 0, FALSE)})
  @@ (c2 :> {Body(MaxInt, MaxInt, TRUE), Body(-1, 1, FALSE)})

(* Servers that answer, break off and exceed the limit, for the liveness    *)
(* and refinement run; c2 has no limit.                                     *)
LiveTarget == (c1 :> "dst") @@ (c2 :> "dst")
LiveLimit  == (c1 :> 1) @@ (c2 :> 0)
LiveReply  ==
  (c1 :> {Body(-1, 1, TRUE), Body(-1, 2, TRUE), Body(2, 2, TRUE)})
  @@ (c2 :> {Body(2, 1, FALSE), Body(1, 1, TRUE)})
=============================================================================
