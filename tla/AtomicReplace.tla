---------------------------- MODULE AtomicReplace ----------------------------
(***************************************************************************)
(* What a call that installs one file promises its caller, whatever the    *)
(* steps it takes: the destination goes in one step from what it was to    *)
(* the complete file the call produced, and a call that fails, or dies     *)
(* before that step, leaves every destination as it found it.              *)
(*                                                                         *)
(* HttpGather (a download streamed into a temporary file) and Bzip2Expand  *)
(* (a decompressed stream) are both shown to implement it.  A call's       *)
(* complete output is represented by the call itself.                      *)
(***************************************************************************)
CONSTANTS
  Call,      \* concurrent calls
  Path,      \* destination paths
  Target,    \* the destination of each call
  Absent,    \* content of a path where nothing exists
  Original   \* content a path had before any call

VARIABLES
  content,   \* content of each path: Absent, Original, or a call's output
  status     \* progress of each call as its caller can tell

vars == <<content, status>>

Init ==
  /\ content \in [Path -> {Absent, Original}]
  /\ status = [c \in Call |-> "running"]

Install(c) ==
  /\ status[c] = "running"
  /\ status' = [status EXCEPT ![c] = "installed"]
  /\ content' = [content EXCEPT ![Target[c]] = c]

Return(c) ==
  /\ status[c] = "installed"
  /\ status' = [status EXCEPT ![c] = "ok"]
  /\ UNCHANGED content

Fail(c) ==
  /\ status[c] = "running"
  /\ status' = [status EXCEPT ![c] = "failed"]
  /\ UNCHANGED content

Die(c) ==
  /\ status[c] \in {"running", "installed"}
  /\ status' = [status EXCEPT ![c] = "dead"]
  /\ UNCHANGED content

Next == \E c \in Call : Install(c) \/ Return(c) \/ Fail(c) \/ Die(c)

Spec == Init /\ [][Next]_vars
=============================================================================
