----------------------------- MODULE Bzip2Proofs -----------------------------
(***************************************************************************)
(* Proofs about Bzip2Expand, for any number of calls, outputs, temporary   *)
(* names, streams and limits.  The inductive invariant says where a call's *)
(* file can be in the directory at each point and what it then holds.      *)
(***************************************************************************)
EXTENDS Bzip2Expand, TLAPS

Holding == {"copy", "chmod", "rename", "cleanup"}

(* A call that has a temporary file has it under its temporary name. *)
Drawn ==
  \A c \in Call : pc[c] \in Holding => tmp[c] \in TempName /\ entry[tmp[c]] = c

(* A call's file is under its temporary name, or renamed and complete. *)
Placed ==
  \A n \in Name, c \in Call : entry[n] = c =>
    \/ n \in TempName /\ n = tmp[c] /\ pc[c] \in Holding \cup {"failed", "crashed"}
    \/ /\ n = Target[c] /\ pc[c] \in {"return", "ok", "crashed"}
       /\ Whole(c) /\ mode[c] = 644

(* What was charged is within the stream, what was written within the limit. *)
Counted ==
  \A c \in Call :
    /\ copied[c] <= stream[c].len
    /\ pc[c] \in {"begin", "mktemp"} => copied[c] = 0 /\ length[c] = 0
    /\ pc[c] = "copy" => length[c] = copied[c] /\ length[c] <= Limit(c)

(* Only a whole stream gets past the copy, only a readable file past chmod. *)
Checked ==
  \A c \in Call :
    /\ pc[c] \in {"chmod", "rename", "return", "ok"} => Whole(c)
    /\ pc[c] \in {"rename", "return", "ok"} => mode[c] = 644

IInv == TypeOK /\ Drawn /\ Placed /\ Counted /\ Checked

-----------------------------------------------------------------------------

(* The enforced limit is a natural number, and no more than either option. *)
LEMMA LimitIsSmaller ==
  ASSUME NEW c \in Call
  PROVE  /\ Limit(c) \in Nat
         /\ Limit(c) <= Effective(EntryOption[c], DefaultEntry)
         /\ Limit(c) <= Effective(TotalOption[c], DefaultTotal)
         /\ Effective(EntryOption[c], DefaultEntry) \in Nat
         /\ Effective(TotalOption[c], DefaultTotal) \in Nat
  <1>1. /\ Effective(EntryOption[c], DefaultEntry) \in Nat
        /\ Effective(TotalOption[c], DefaultTotal) \in Nat
    BY ConstantsAssumption DEF Effective
  <1> QED
    BY <1>1 DEF Limit, SmallerOf

(* A file that holds its stream within the enforced limit is whole. *)
LEMMA WithinLimitIsWhole ==
  ASSUME NEW c \in Call, stream[c].clean, length[c] = stream[c].len,
         length[c] \in Nat, length[c] <= Limit(c)
  PROVE  Whole(c)
  BY LimitIsSmaller DEF Whole

LEMMA Names ==
  /\ \A c \in Call : /\ Target[c] \in Path /\ Target[c] \in Name
                     /\ Absent # c /\ Original # c
  /\ \A p \in Path : p \in Name /\ p \notin TempName
  /\ \A n \in TempName : n \in Name
  BY ConstantsAssumption DEF Name

LEMMA StreamFields ==
  ASSUME TypeOK, NEW c \in Call
  PROVE  /\ stream[c].len \in 0..MaxInt /\ stream[c].clean \in BOOLEAN
         /\ copied[c] \in 0..MaxInt /\ length[c] \in 0..MaxInt /\ MaxInt \in Nat
  BY ConstantsAssumption DEF TypeOK

-----------------------------------------------------------------------------

LEMMA InitIInv == Init => IInv
  <1> SUFFICES ASSUME Init PROVE IInv
    OBVIOUS
  <1>1. TypeOK
    BY ConstantsAssumption DEF Init, TypeOK, Label
  <1>2. \A c \in Call : copied[c] = 0 /\ length[c] = 0 /\ pc[c] = "begin"
    BY DEF Init
  <1>3. Counted
    <2>1. ASSUME NEW c \in Call PROVE copied[c] <= stream[c].len
      <3>1. stream[c].len \in 0..MaxInt /\ MaxInt \in Nat /\ copied[c] = 0
        BY <1>1, <1>2, StreamFields
      <3> QED
        BY <3>1
    <2> QED
      BY <1>2, <2>1 DEF Counted
  <1>4. \A n \in Name : entry[n] \in {Absent, Original}
    BY DEF Init
  <1>5. Drawn /\ Placed /\ Checked
    BY <1>2, <1>4, Names DEF Drawn, Placed, Checked, Holding
  <1> QED
    BY <1>1, <1>3, <1>5 DEF IInv

(* The moves of a call that leave the directory, the files and modes alone. *)
Moves(c, l) ==
  \/ pc[c] = "begin" /\ l \in {"mktemp", "failed"}
  \/ pc[c] = "mktemp" /\ l = "failed"
  \/ pc[c] = "copy" /\ l = "chmod" /\ Whole(c)
  \/ pc[c] \in Holding /\ l = "cleanup"
  \/ pc[c] = "return" /\ l = "ok"
  \/ l = "crashed"

(* Such a move keeps the invariant: every action's error paths are of it. *)
LEMMA MoveIInv ==
  ASSUME IInv, NEW c \in Call, NEW l \in Label, Moves(c, l),
         pc' = [pc EXCEPT ![c] = l],
         UNCHANGED <<stream, tmp, length, mode, entry>>,
         copied' \in [Call -> 0..MaxInt],
         \A d \in Call : /\ copied'[d] <= stream[d].len
                         /\ copied'[d] = copied[d] \/ (d = c /\ l = "cleanup")
  PROVE  IInv'
  <1>1. TypeOK'
    BY DEF IInv, TypeOK
  <1>2. pc'[c] = l /\ \A d \in Call \ {c} : pc'[d] = pc[d]
    BY DEF IInv, TypeOK
  <1>3. \A d \in Call : Whole(d)' = Whole(d)
    BY DEF Whole
  <1>4. Drawn'
    BY <1>2 DEF Moves, IInv, Drawn, Holding
  <1>5. Placed'
    BY <1>2, <1>3 DEF Moves, IInv, Placed, Holding
  <1>6. Counted'
    <2>1. \A d \in Call : Limit(d)' = Limit(d)
      BY DEF Limit
    <2> QED
      BY <1>2, <2>1 DEF Moves, IInv, Counted, Holding
  <1>7. Checked'
    BY <1>2, <1>3 DEF Moves, IInv, Checked, Holding
  <1> QED
    BY <1>1, <1>4, <1>5, <1>6, <1>7 DEF IInv

LEMMA BeginIInv == ASSUME IInv, NEW c \in Call, Begin(c) PROVE IInv'
  <1>1. PICK l \in Label : Moves(c, l) /\ pc' = [pc EXCEPT ![c] = l]
    BY DEF Begin, Goto, Moves, Label, Ended
  <1> QED
    BY <1>1, MoveIInv DEF Begin, IInv, TypeOK, Counted

LEMMA ReturnIInv == ASSUME IInv, NEW c \in Call, Return(c) PROVE IInv'
  <1>1. PICK l \in Label : Moves(c, l) /\ pc' = [pc EXCEPT ![c] = l]
    BY DEF Return, Goto, Moves, Label, Ended
  <1> QED
    BY <1>1, MoveIInv DEF Return, IInv, TypeOK, Counted

LEMMA CrashIInv == ASSUME IInv, NEW c \in Call, Crash(c) PROVE IInv'
  <1>1. PICK l \in Label : Moves(c, l) /\ pc' = [pc EXCEPT ![c] = l]
    BY DEF Crash, Moves, Label, Ended
  <1> QED
    BY <1>1, MoveIInv DEF Crash, IInv, TypeOK, Counted

(* A stream that ends without having met the limit is whole. *)
LEMMA CopyDoneIInv == ASSUME IInv, NEW c \in Call, CopyDone(c) PROVE IInv'
  <1>1. stream[c].clean => Whole(c)
    BY WithinLimitIsWhole, StreamFields DEF CopyDone, Goto, IInv, Counted
  <1>2. PICK l \in Label : Moves(c, l) /\ pc' = [pc EXCEPT ![c] = l]
    BY <1>1 DEF CopyDone, AfterCopy, Goto, Moves, Label, Holding
  <1> QED
    BY <1>2, MoveIInv DEF CopyDone, IInv, TypeOK, Counted

LEMMA CopyChunkIInv == ASSUME IInv, NEW c \in Call, CopyChunk(c) PROVE IInv'
  <1>0. /\ pc[c] = "copy" /\ copied[c] < stream[c].len
        /\ copied' = [copied EXCEPT ![c] = @ + 1]
        /\ UNCHANGED <<stream, tmp, mode, entry>>
    BY DEF CopyChunk
  <1>1. copied[c] + 1 \in 0..MaxInt /\ copied[c] + 1 <= stream[c].len
    BY <1>0, StreamFields DEF IInv
  <1>2. /\ copied'[c] = copied[c] + 1 /\ \A d \in Call \ {c} : copied'[d] = copied[d]
        /\ copied' \in [Call -> 0..MaxInt]
    BY <1>0, <1>1 DEF IInv, TypeOK
  <1>3. \A d \in Call : copied'[d] <= stream[d].len
    BY <1>1, <1>2 DEF IInv, Counted
  <1>4. CASE pc' = [pc EXCEPT ![c] = "cleanup"] /\ UNCHANGED length
    BY <1>0, <1>2, <1>3, <1>4, MoveIInv DEF Moves, Label, Holding
  <1>5. CASE /\ copied[c] + 1 <= Limit(c) /\ pc' = [pc EXCEPT ![c] = "copy"]
             /\ length' = [length EXCEPT ![c] = @ + 1]
    <2>1. pc' = pc
      BY <1>0, <1>5 DEF IInv, TypeOK
    <2>2. length[c] = copied[c]
      BY <1>0 DEF IInv, Counted
    <2>3. /\ length'[c] = copied[c] + 1 /\ \A d \in Call \ {c} : length'[d] = length[d]
          /\ length' \in [Call -> 0..MaxInt]
      BY <1>1, <1>5, <2>2 DEF IInv, TypeOK
    <2>4. TypeOK'
      BY <1>0, <1>2, <2>1, <2>3 DEF IInv, TypeOK
    <2>5. Drawn'
      BY <1>0, <2>1 DEF IInv, Drawn
    <2>6. \A d \in Call \ {c} : Whole(d)' = Whole(d)
      BY <1>0, <2>3 DEF Whole
    <2>7. Placed'
      BY <1>0, <2>1, <2>6 DEF IInv, Placed
    <2>8. Counted'
      <3>1. \A d \in Call : Limit(d)' = Limit(d)
        BY DEF Limit
      <3> QED
        BY <1>0, <1>2, <1>3, <1>5, <2>1, <2>3, <3>1 DEF IInv, Counted
    <2>9. Checked'
      BY <1>0, <2>1, <2>6 DEF IInv, Checked
    <2> QED
      BY <2>4, <2>5, <2>7, <2>8, <2>9 DEF IInv
  <1> QED
    BY <1>4, <1>5 DEF CopyChunk, Goto, Within

LEMMA CreateTempIInv == ASSUME IInv, NEW c \in Call, CreateTemp(c) PROVE IInv'
  <1>0. UNCHANGED <<stream, copied, length, mode>> /\ pc[c] = "mktemp"
    BY DEF CreateTemp, Goto
  <1>1. CASE pc' = [pc EXCEPT ![c] = "failed"] /\ UNCHANGED <<tmp, entry>>
    BY <1>0, <1>1, MoveIInv DEF Moves, Label, Ended, IInv, TypeOK, Counted
  <1>2. ASSUME NEW n \in TempName, entry[n] = Absent,
               pc' = [pc EXCEPT ![c] = "copy"], tmp' = [tmp EXCEPT ![c] = n],
               entry' = [entry EXCEPT ![n] = c]
        PROVE  IInv'
    <2>1. /\ pc'[c] = "copy" /\ tmp'[c] = n /\ entry'[n] = c
          /\ \A d \in Call \ {c} : pc'[d] = pc[d] /\ tmp'[d] = tmp[d]
          /\ \A m \in Name \ {n} : entry'[m] = entry[m]
      BY <1>2, Names DEF IInv, TypeOK
    <2>2. TypeOK'
      BY <1>0, <1>2 DEF IInv, TypeOK, Label
    <2>3. Drawn'
      BY <1>0, <1>2, <2>1, Names DEF IInv, Drawn, Holding
    <2>4. \A d \in Call : Whole(d)' = Whole(d)
      BY <1>0 DEF Whole
    <2>5. Placed'
      BY <1>0, <2>1, <2>4 DEF IInv, Placed, Holding
    <2>6. Counted'
      <3>1. \A d \in Call : Limit(d)' = Limit(d) /\ 0 <= Limit(d)
        BY LimitIsSmaller DEF Limit
      <3> QED
        BY <1>0, <2>1, <3>1 DEF IInv, Counted
    <2>7. Checked'
      BY <1>0, <2>1, <2>4 DEF IInv, Checked
    <2> QED
      BY <2>2, <2>3, <2>5, <2>6, <2>7 DEF IInv
  <1> QED
    BY <1>1, <1>2 DEF CreateTemp, Goto

LEMMA ChmodIInv == ASSUME IInv, NEW c \in Call, Chmod(c) PROVE IInv'
  <1>0. pc[c] = "chmod" /\ UNCHANGED <<stream, tmp, copied, length, entry>>
    BY DEF Chmod, Goto
  <1>1. CASE pc' = [pc EXCEPT ![c] = "cleanup"] /\ UNCHANGED mode
    BY <1>0, <1>1, MoveIInv DEF Moves, Label, Holding, IInv, TypeOK, Counted
  <1>2. CASE /\ pc' = [pc EXCEPT ![c] = "rename"]
             /\ mode' = [mode EXCEPT ![entry[tmp[c]]] = FinalMode]
    <2>1. entry[tmp[c]] = c
      BY <1>0 DEF IInv, Drawn, Holding
    <2>2. /\ pc'[c] = "rename" /\ mode'[c] = 644
          /\ \A d \in Call \ {c} : pc'[d] = pc[d] /\ mode'[d] = mode[d]
      BY <1>2, <2>1 DEF IInv, TypeOK, FinalMode
    <2>3. TypeOK'
      <3>1. mode' \in [Call -> {600, 644}]
        BY <1>2, <2>1 DEF IInv, TypeOK, FinalMode
      <3> QED
        BY <1>0, <1>2, <3>1 DEF IInv, TypeOK, Label
    <2>4. Drawn'
      BY <1>0, <2>2 DEF IInv, Drawn, Holding
    <2>5. \A d \in Call : Whole(d)' = Whole(d)
      BY <1>0 DEF Whole
    <2>6. Placed'
      BY <1>0, <2>2, <2>5 DEF IInv, Placed, Holding
    <2>7. Counted'
      <3>1. \A d \in Call : Limit(d)' = Limit(d)
        BY DEF Limit
      <3> QED
        BY <1>0, <2>2, <3>1 DEF IInv, Counted
    <2>8. Checked'
      BY <1>0, <2>2, <2>5 DEF IInv, Checked
    <2> QED
      BY <2>3, <2>4, <2>6, <2>7, <2>8 DEF IInv
  <1> QED
    BY <1>1, <1>2 DEF Chmod, Goto

LEMMA RenameIInv == ASSUME IInv, NEW c \in Call, Rename(c) PROVE IInv'
  <1>0. pc[c] = "rename" /\ UNCHANGED <<stream, tmp, copied, length, mode>>
    BY DEF Rename, Goto
  <1>1. CASE pc' = [pc EXCEPT ![c] = "cleanup"] /\ UNCHANGED entry
    BY <1>0, <1>1, MoveIInv DEF Moves, Label, Holding, IInv, TypeOK, Counted
  <1>2. CASE /\ pc' = [pc EXCEPT ![c] = "return"]
             /\ entry' = [entry EXCEPT ![Target[c]] = entry[tmp[c]], ![tmp[c]] = Absent]
    <2>1. /\ tmp[c] \in TempName /\ tmp[c] \in Name /\ entry[tmp[c]] = c
          /\ Target[c] \in Name /\ Target[c] # tmp[c] /\ Whole(c) /\ mode[c] = 644
      BY <1>0, Names DEF IInv, Drawn, Checked, Holding
    <2>2. /\ entry'[Target[c]] = c /\ entry'[tmp[c]] = Absent
          /\ \A n \in Name \ {Target[c], tmp[c]} : entry'[n] = entry[n]
          /\ pc'[c] = "return" /\ \A d \in Call \ {c} : pc'[d] = pc[d]
      BY <1>2, <2>1 DEF IInv, TypeOK
    <2>3. TypeOK'
      <3>1. entry' \in [Name -> {Absent, Original} \cup Call]
        BY <1>2, <2>1 DEF IInv, TypeOK
      <3> QED
        BY <1>0, <1>2, <3>1 DEF IInv, TypeOK, Label
    <2>4. Drawn'
      BY <1>0, <2>1, <2>2, Names DEF IInv, Drawn, Holding
    <2>5. \A d \in Call : Whole(d)' = Whole(d)
      BY <1>0 DEF Whole
    <2>6. Placed'
      BY <1>0, <2>1, <2>2, <2>5, Names DEF IInv, Placed, Holding
    <2>7. Counted'
      <3>1. \A d \in Call : Limit(d)' = Limit(d)
        BY DEF Limit
      <3> QED
        BY <1>0, <2>2, <3>1 DEF IInv, Counted
    <2>8. Checked'
      BY <1>0, <2>2, <2>5 DEF IInv, Checked
    <2> QED
      BY <2>3, <2>4, <2>6, <2>7, <2>8 DEF IInv
  <1> QED
    BY <1>1, <1>2 DEF Rename, Goto

LEMMA CleanupIInv == ASSUME IInv, NEW c \in Call, Cleanup(c) PROVE IInv'
  <1>0. /\ pc[c] = "cleanup" /\ pc' = [pc EXCEPT ![c] = "failed"]
        /\ UNCHANGED <<stream, tmp, copied, length, mode>>
        /\ entry' = [entry EXCEPT ![tmp[c]] = Absent] \/ entry' = entry
    BY DEF Cleanup, Goto
  <1>1. tmp[c] \in TempName /\ tmp[c] \in Name /\ entry[tmp[c]] = c
    BY <1>0, Names DEF IInv, Drawn, Holding
  <1>2. /\ entry'[tmp[c]] \in {Absent, c}
        /\ \A n \in Name \ {tmp[c]} : entry'[n] = entry[n]
        /\ pc'[c] = "failed" /\ \A d \in Call \ {c} : pc'[d] = pc[d]
    BY <1>0, <1>1 DEF IInv, TypeOK
  <1>3. TypeOK'
    BY <1>0 DEF IInv, TypeOK, Label, Ended
  <1>4. Drawn'
    BY <1>0, <1>1, <1>2, Names DEF IInv, Drawn, Holding
  <1>5. \A d \in Call : Whole(d)' = Whole(d)
    BY <1>0 DEF Whole
  <1>6. Placed'
    BY <1>0, <1>1, <1>2, <1>5, Names DEF IInv, Placed, Holding
  <1>7. Counted'
    <2>1. \A d \in Call : Limit(d)' = Limit(d)
      BY DEF Limit
    <2> QED
      BY <1>0, <1>2, <2>1 DEF IInv, Counted
  <1>8. Checked'
    BY <1>0, <1>2, <1>5 DEF IInv, Checked
  <1> QED
    BY <1>3, <1>4, <1>6, <1>7, <1>8 DEF IInv

LEMMA Inductive == IInv /\ [Next]_vars => IInv'
  <1> SUFFICES ASSUME IInv, [Next]_vars PROVE IInv'
    OBVIOUS
  <1>1. CASE Next
    BY <1>1, BeginIInv, CreateTempIInv, CopyChunkIInv, CopyDoneIInv, ChmodIInv,
       RenameIInv, CleanupIInv, ReturnIInv, CrashIInv
    DEF Next
  <1>2. CASE UNCHANGED vars
    <2>1. TypeOK' /\ Drawn'
      BY <1>2 DEF vars, IInv, TypeOK, Drawn
    <2>2. \A d \in Call : Whole(d)' = Whole(d) /\ Limit(d)' = Limit(d)
      BY <1>2 DEF vars, Whole, Limit
    <2>3. Placed' /\ Counted' /\ Checked'
      BY <1>2, <2>2 DEF vars, IInv, Placed, Counted, Checked
    <2> QED
      BY <2>1, <2>3 DEF IInv
  <1> QED
    BY <1>1, <1>2

(* Every reachable state satisfies the inductive invariant. *)
THEOREM Invariance == Spec => []IInv
  BY InitIInv, Inductive, PTL DEF Spec

(***************************************************************************)
(* The variables keep their types: what is counted never exceeds int64.    *)
(***************************************************************************)
THEOREM TypeCorrect == Spec => []TypeOK
  <1>1. IInv => TypeOK
    BY DEF IInv
  <1> QED
    BY <1>1, Invariance, PTL

(***************************************************************************)
(* An output is the file that was there or a whole stream within both      *)
(* limits and with mode 0644 (bzip2.go:76-113).                            *)
(***************************************************************************)
THEOREM OutputsWhole == Spec => []OutputWhole
  <1>1. IInv => OutputWhole
    BY Names DEF IInv, Placed, OutputWhole
  <1> QED
    BY <1>1, Invariance, PTL

-----------------------------------------------------------------------------

(* A move of a call that changes no output is a stutter, a failure, a      *)
(* death or a return of the abstract call.                                 *)
LEMMA MoveRefines ==
  ASSUME IInv, NEW c \in Call, NEW l \in Label,
         pc' = [pc EXCEPT ![c] = l], \A p \in Path : entry'[p] = entry[p],
         \/ pc[c] \notin Ended \cup {"return"} /\ l \notin {"ok", "return"}
         \/ pc[c] = "return" /\ l \in {"ok", "crashed"}
  PROVE  [Abstract!Next]_(Abstract!vars)
  <1> DEFINE content == [p \in Path |-> entry[p]]
             status  == [d \in Call |-> StatusOf(d)]
  <1>1. content' = content
    OBVIOUS
  <1>2. pc'[c] = l /\ \A d \in Call \ {c} : pc'[d] = pc[d]
    BY DEF IInv, TypeOK
  <1>3. status' = [status EXCEPT ![c] = StatusOf(c)']
    BY <1>2 DEF StatusOf
  <1>4. CASE StatusOf(c)' = StatusOf(c)
    <2>1. status' = status
      BY <1>3, <1>4
    <2> QED
      BY <1>1, <2>1 DEF Abstract!vars
  <1>5. CASE l = "failed" /\ pc[c] \notin Ended \cup {"return"}
    <2>1. status[c] = "running" /\ StatusOf(c)' = "failed"
      BY <1>2, <1>5 DEF StatusOf, Ended
    <2>2. Abstract!Fail(c)
      BY <1>1, <1>3, <2>1 DEF Abstract!Fail
    <2> QED
      BY <2>2 DEF Abstract!Next
  <1>6. CASE l = "crashed"
    <2>1. status[c] \in {"running", "installed"} /\ StatusOf(c)' = "dead"
      BY <1>2, <1>6 DEF StatusOf, Ended
    <2>2. Abstract!Die(c)
      BY <1>1, <1>3, <2>1 DEF Abstract!Die
    <2> QED
      BY <2>2 DEF Abstract!Next
  <1>7. CASE l = "ok" /\ pc[c] = "return"
    <2>1. status[c] = "installed" /\ StatusOf(c)' = "ok"
      BY <1>2, <1>7 DEF StatusOf
    <2>2. Abstract!Return(c)
      BY <1>1, <1>3, <2>1 DEF Abstract!Return
    <2> QED
      BY <2>2 DEF Abstract!Next
  <1>8. pc[c] \notin Ended \cup {"return"} /\ l \notin {"ok", "return", "failed", "crashed"}
          => StatusOf(c)' = StatusOf(c)
    BY <1>2 DEF StatusOf, Ended
  <1> QED
    BY <1>4, <1>5, <1>6, <1>7, <1>8

LEMMA InstallRefines ==
  ASSUME IInv, NEW c \in Call, pc[c] = "rename", pc' = [pc EXCEPT ![c] = "return"],
         entry' = [entry EXCEPT ![Target[c]] = entry[tmp[c]], ![tmp[c]] = Absent]
  PROVE  Abstract!Next
  <1> DEFINE content == [p \in Path |-> entry[p]]
             status  == [d \in Call |-> StatusOf(d)]
  <1>1. /\ tmp[c] \in TempName /\ entry[tmp[c]] = c
        /\ Target[c] \in Path /\ Target[c] # tmp[c]
    BY Names DEF IInv, Drawn, Holding
  <1>2. entry'[Target[c]] = c /\ \A p \in Path \ {Target[c]} : entry'[p] = entry[p]
    BY <1>1, Names DEF IInv, TypeOK
  <1>3. content' = [content EXCEPT ![Target[c]] = c]
    BY <1>1, <1>2
  <1>4. pc'[c] = "return" /\ \A d \in Call \ {c} : pc'[d] = pc[d]
    BY DEF IInv, TypeOK
  <1>5. status[c] = "running" /\ status' = [status EXCEPT ![c] = "installed"]
    BY <1>4 DEF StatusOf
  <1>6. Abstract!Install(c)
    BY <1>3, <1>5 DEF Abstract!Install
  <1> QED
    BY <1>6 DEF Abstract!Next

LEMMA InitRefines == Init => Abstract!Init
  <1> SUFFICES ASSUME Init PROVE Abstract!Init
    OBVIOUS
  <1>1. \A p \in Path : entry[p] \in {Absent, Original}
    BY Names DEF Init
  <1>2. \A c \in Call : StatusOf(c) = "running"
    BY DEF Init, StatusOf
  <1> QED
    BY <1>1, <1>2 DEF Abstract!Init

LEMMA StepRefines == IInv /\ [Next]_vars => [Abstract!Next]_(Abstract!vars)
  <1> SUFFICES ASSUME IInv, [Next]_vars PROVE [Abstract!Next]_(Abstract!vars)
    OBVIOUS
  <1>1. ASSUME NEW c \in Call, Rename(c) PROVE [Abstract!Next]_(Abstract!vars)
    <2>1. CASE pc' = [pc EXCEPT ![c] = "cleanup"] /\ entry' = entry
      BY <1>1, <2>1, MoveRefines DEF Rename, Goto, Label, Ended
    <2>2. CASE /\ pc' = [pc EXCEPT ![c] = "return"]
               /\ entry' = [entry EXCEPT ![Target[c]] = entry[tmp[c]], ![tmp[c]] = Absent]
      BY <1>1, <2>2, InstallRefines DEF Rename, Goto
    <2> QED
      BY <1>1, <2>1, <2>2 DEF Rename, Goto
  <1>2. ASSUME NEW c \in Call,
               \/ Begin(c) \/ CreateTemp(c) \/ CopyChunk(c) \/ CopyDone(c)
               \/ Chmod(c) \/ Cleanup(c)
        PROVE  [Abstract!Next]_(Abstract!vars)
    <2>1. PICK l \in Label \ {"ok", "return"} : pc' = [pc EXCEPT ![c] = l]
      BY <1>2
      DEF Begin, CreateTemp, CopyChunk, CopyDone, AfterCopy, Chmod, Cleanup, Goto,
          Label, Ended
    <2>2. pc[c] \notin Ended \cup {"return"}
      BY <1>2 DEF Begin, CreateTemp, CopyChunk, CopyDone, Chmod, Cleanup, Goto, Ended
    <2>3. \A p \in Path : entry'[p] = entry[p]
      <3>1. ASSUME NEW n \in TempName, NEW i, entry' = [entry EXCEPT ![n] = i]
            PROVE  \A p \in Path : entry'[p] = entry[p]
        BY <3>1, Names DEF IInv, TypeOK
      <3>2. pc[c] = "cleanup" => tmp[c] \in TempName
        BY DEF IInv, Drawn, Holding
      <3> QED
        BY <1>2, <3>1, <3>2
        DEF Begin, CreateTemp, CopyChunk, CopyDone, Chmod, Cleanup, Goto
    <2> QED
      BY <2>1, <2>2, <2>3, MoveRefines
  <1>3. ASSUME NEW c \in Call, Return(c) PROVE [Abstract!Next]_(Abstract!vars)
    BY <1>3, MoveRefines DEF Return, Goto, Label, Ended
  <1>4. ASSUME NEW c \in Call, Crash(c) PROVE [Abstract!Next]_(Abstract!vars)
    BY <1>4, MoveRefines DEF Crash, Label, Ended
  <1>5. CASE UNCHANGED vars
    <2>1. \A c \in Call : StatusOf(c)' = StatusOf(c)
      BY <1>5 DEF vars, StatusOf
    <2> QED
      BY <1>5, <2>1 DEF vars, Abstract!vars
  <1> QED
    BY <1>1, <1>2, <1>3, <1>4, <1>5 DEF Next

(***************************************************************************)
(* Expand replaces its output atomically: the calls implement              *)
(* AtomicReplace, the rename (bzip2.go:110) being the step that installs.  *)
(***************************************************************************)
THEOREM ExpandReplacesAtomically == Spec => ReplacesAtomically
  BY InitRefines, StepRefines, Invariance, PTL DEF Spec, ReplacesAtomically, Abstract!Spec
=============================================================================
