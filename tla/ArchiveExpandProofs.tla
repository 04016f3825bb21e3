-------------------------- MODULE ArchiveExpandProofs --------------------------
(***************************************************************************)
(* Proofs about ArchiveExpand: type correctness, the limits, what was      *)
(* there before, the cleanup after an error and the completeness of a      *)
(* success, for any calls, archives, limits and trees of paths.            *)
(*                                                                         *)
(* Every step changes a path in one of six ways, named below; the          *)
(* invariants about the tree follow from these ways, not from the actions. *)
(***************************************************************************)
EXTENDS ArchiveExpand, FiniteSetTheorems, TLAPS

-----------------------------------------------------------------------------
(* Type correctness. *)

(* Limits are numbers between 1 and MaxInt. *)
LEMMA LimitType ==
  ASSUME NEW c \in Call
  PROVE  /\ MaxEntry(c) \in 1..MaxInt /\ MaxTotal(c) \in 1..MaxInt
         /\ FilesLimit(c) \in 1..MaxInt
  BY ConstantsAssumption DEF MaxEntry, MaxTotal, FilesLimit, Effective

LEMMA SizesAreNumbers ==
  ASSUME NEW c \in Call
  PROVE  MaxInt \in Nat \ {0} /\ MaxTotal(c) \in Nat /\ FilesLimit(c) \in Nat
  <1>1. MaxInt \in Nat \ {0}  BY ConstantsAssumption
  <1> QED  BY <1>1, LimitType

(* An entry the loop is at is one of the archive's, named below the root. *)
LEMMA EntryAt ==
  ASSUME TypeOK, NEW c \in Call, NEW i \in 1..Len(archive[c])
  PROVE  /\ archive[c] \in Seq(Entry)
         /\ archive[c][i] \in Entry
         /\ Root[c] \in Above[archive[c][i].name] \cup {archive[c][i].name}
  <1>1. archive[c] \in Archives[c] /\ Archives[c] \in SUBSET Seq(Entry)
    BY ConstantsAssumption DEF TypeOK
  <1> QED  BY <1>1, ConstantsAssumption

(* A path without content has the type of one. *)
LEMMA PlainType ==
  ASSUME NEW k \in {"none", "dir", "file", "link"}, NEW a \in Call \cup {Nobody}
  PROVE  Plain(k, a) \in NodeState
  BY ConstantsAssumption DEF Plain, NodeState

LEMMA InitType == Init => TypeOK
  <1> SUFFICES ASSUME Init PROVE TypeOK  OBVIOUS
  <1>1. \A c \in Call : archive[c] \in Archives[c] /\ archive[c] \in Seq(Entry)
    BY ConstantsAssumption DEF Init
  <1>2. \A c \in Call : Len(archive[c]) \in Nat  BY <1>1
  <1>3. node \in [Node -> NodeState]
    <2>1. PICK kind \in [Node -> {"none", "dir", "file", "link"}] :
            node = [n \in Node |-> Plain(kind[n], Nobody)]
      BY DEF Init
    <2> QED  BY <2>1, PlainType
  <1> QED  BY <1>1, <1>2, <1>3, LimitType, ConstantsAssumption DEF Init, TypeOK, Label, Ended

(* The ways in which a step of c may change the path n. *)
Untouched(n) == node'[n] = node[n]

(* MkdirAll of a set of paths that holds whatever is above them. *)
Makeable(k) == node[Real(k)].kind = "dir" \/ (~Exists(Real(k)) /\ ~Exists(k))

Makes(c, P) ==
  /\ \A k \in P : k \in Node /\ Above[k] \subseteq P /\ Makeable(k)
  /\ MkdirAll(c, P)

Made(c, n) ==
  /\ pc[c] = "next" /\ ~Over(c) /\ At(c).kind # "meta" /\ pc'[c] # "cleanup"
  /\ ~Exists(n) /\ node'[n] = NewDir(c)
  /\ \E P \in SUBSET (Above[At(c).name] \cup {At(c).name}) :
       /\ Makes(c, P) /\ \E k \in P : n = Real(k)
       /\ At(c).kind = "file" => At(c).name \notin P

Opened(c, n) ==
  /\ pc[c] = "create" /\ pc'[c] = "copy" /\ n = Real(At(c).name) /\ CanCreate(At(c).name)
  /\ node'[n] = [kind |-> "file", of |-> c, at |-> pos[c], len |-> 0,
                 open |-> IF Exists(n) THEN node[n].open ELSE At(c).open]

Grown(c, n) ==
  /\ pc[c] = "copy" /\ pc'[c] = "copy"
  /\ node[n].kind = "file" /\ node[n].of = c /\ node[n].at = pos[c]
  /\ moved[c] < At(c).size
  /\ node'[n] = [node[n] EXCEPT !.len = @ + 1]

Adjusted(c, n) ==
  /\ pc[c] = "adjust" /\ pc'[c] \in {"adjust", "cleanup"} /\ Exists(n)
  /\ \E i \in seen[c] : /\ Real(archive[c][i].name) = n
                        /\ node'[n] = [node[n] EXCEPT !.open = archive[c][i].open]

Removed(c, n) ==
  /\ pc[c] = "cleanup" /\ pc'[c] = "failed" /\ created[c]
  /\ n \in Under(Root[c]) \ Kept(Root[c])
  /\ \A k \in Under(Root[c]) \ Kept(Root[c]) : node'[k] = Missing

Changed(c, n) ==
  \/ Untouched(n) \/ Made(c, n) \/ Opened(c, n)
  \/ Grown(c, n) \/ Adjusted(c, n) \/ Removed(c, n)

(* A call past "create" is at an entry of its archive. *)
LEMMA AtEntry ==
  ASSUME TypeOK, NEW c \in Call,
         pc[c] \in {"create", "copy"} \/ ~Over(c)
  PROVE  pos[c] \in 1..Len(archive[c]) /\ At(c) \in Entry /\ At(c).name \in Node
  <1>1. Len(archive[c]) \in Nat
    BY ConstantsAssumption DEF TypeOK
  <1>2. pos[c] \in 1..Len(archive[c])  BY <1>1 DEF TypeOK, Over
  <1> QED  BY <1>2, EntryAt DEF At, Entry

(* What a path stands for is a path. *)
LEMMA RealType ==
  ASSUME TypeOK, NEW n \in Node
  PROVE  Real(n) \in Node /\ leads[n] \in Node /\ IsLayout(leads)
  BY ConstantsAssumption DEF TypeOK, IsLayout, Real

(* Every step changes every path in one of these ways, and a call's own    *)
(* state only if it is the call's step.                                    *)
LEMMA StepChanges ==
  ASSUME TypeOK, NEW c \in Call, Step(c) \/ Crash(c)
  PROVE  \A n \in Node : Changed(c, n)
  <1> SUFFICES ASSUME NEW n \in Node PROVE Changed(c, n)  OBVIOUS
  <1> USE DEF TypeOK, Changed
  <1>1. CASE UNCHANGED node  BY <1>1 DEF Untouched
  <1>2. ASSUME NEW P \in SUBSET (Above[At(c).name] \cup {At(c).name}),
               Makes(c, P), pc[c] = "next", ~Over(c), At(c).kind # "meta", pc'[c] # "cleanup",
               At(c).kind = "file" => At(c).name \notin P
        PROVE  Changed(c, n)
    <2>1. CASE ~Exists(n) /\ \E k \in P : n = Real(k)
      <3>1. node'[n] = NewDir(c)  BY <1>2, <2>1 DEF Makes, MkdirAll
      <3> QED  BY <1>2, <2>1, <3>1 DEF Made
    <2>2. CASE ~(~Exists(n) /\ \E k \in P : n = Real(k))
      <3>1. node'[n] = node[n]  BY <1>2, <2>2 DEF Makes, MkdirAll
      <3> QED  BY <3>1 DEF Untouched
    <2> QED  BY <2>1, <2>2
  <1>3. CASE ExtractDir(c)
    <2>1. At(c).name \in Node  BY <1>3, AtEntry DEF ExtractDir
    <2>2. CASE node' = node  BY <2>2 DEF Untouched
    <2>3. CASE CanMkdirAll(At(c).name) /\ MkdirAll(c, Above[At(c).name] \cup {At(c).name})
               /\ Goto(c, "next", "next")
      <3>1. Makes(c, Above[At(c).name] \cup {At(c).name})
        BY <2>1, <2>3, ConstantsAssumption DEF Makes, Makeable, CanMkdirAll
      <3>2. At(c).kind = "dir" /\ ~Over(c)  BY <1>3 DEF ExtractDir
      <3>3. pc[c] = "next" /\ pc'[c] = "next"  BY <2>3 DEF Goto
      <3> QED  BY <1>2, <3>1, <3>2, <3>3
    <2> QED  BY <1>3, <2>2, <2>3 DEF ExtractDir
  <1>4. CASE MakeParents(c)
    <2>1. At(c).name \in Node /\ At(c).name \notin Above[At(c).name]
      BY <1>4, AtEntry, ConstantsAssumption DEF MakeParents
    <2>2. CASE node' = node  BY <2>2 DEF Untouched
    <2>3. CASE (\A a \in Above[At(c).name] : CanMkdirAll(a)) /\ MkdirAll(c, Above[At(c).name])
               /\ Goto(c, "next", "create")
      <3>1. Makes(c, Above[At(c).name])
        BY <2>1, <2>3, ConstantsAssumption DEF Makes, Makeable, CanMkdirAll
      <3>2. At(c).kind = "file" /\ ~Over(c)  BY <1>4 DEF MakeParents
      <3>3. pc[c] = "next" /\ pc'[c] = "create"  BY <2>3 DEF Goto
      <3> QED  BY <1>2, <2>1, <3>1, <3>2, <3>3
    <2> QED  BY <1>4, <2>2, <2>3 DEF MakeParents
  <1>5. CASE Create(c)
    BY <1>5 DEF Create, Goto, Untouched, Opened
  <1>6. CASE CopyChunk(c)
    <2>1. CASE node' = node  BY <2>1 DEF Untouched
    <2>2. CASE /\ Goto(c, "copy", "copy")
               /\ node' = [m \in Node |->
                    IF node[m].kind = "file" /\ node[m].of = c /\ node[m].at = pos[c]
                      THEN [node[m] EXCEPT !.len = @ + 1] ELSE node[m]]
      BY <1>6, <2>2 DEF CopyChunk, Goto, Untouched, Grown
    <2> QED  BY <1>6, <2>1, <2>2 DEF CopyChunk
  <1>7. CASE Adjust(c)
    <2>1. CASE node' = node  BY <2>1 DEF Untouched
    <2>2. ASSUME NEW i \in seen[c], pc[c] = "adjust", pc'[c] \in {"adjust", "cleanup"},
                 Exists(Real(archive[c][i].name)),
                 node' = [node EXCEPT ![Real(archive[c][i].name)].open = archive[c][i].open]
          PROVE  Changed(c, n)
      <3>1. Real(archive[c][i].name) \in Node  BY EntryAt, RealType DEF Entry
      <3>2. node'[n] = IF n = Real(archive[c][i].name)
                         THEN [node[n] EXCEPT !.open = archive[c][i].open] ELSE node[n]
        BY <2>2, <3>1
      <3> QED  BY <2>2, <3>2 DEF Untouched, Adjusted
    <2> QED  BY <1>7, <2>1, <2>2 DEF Adjust, Goto
  <1>8. CASE Cleanup(c)
    <2>1. \A k \in Under(Root[c]) : k \in Node  BY DEF Under
    <2> QED  BY <1>8, <2>1 DEF Cleanup, Goto, Untouched, Removed
  <1> QED
    BY <1>1, <1>3, <1>4, <1>5, <1>6, <1>8, <1>7
    DEF Step, Crash, Begin, StatDst, HeaderFails, SkipMeta, Reject, CopyDone,
        ArchiveEnds, AdjustDone, callVars, loopVars

(* A file of c is of an entry c has reached, and of the current one only    *)
(* once it is open.                                                         *)
Marked(c) ==
  \A n \in Node : node[n].of = c =>
    /\ node[n].at <= pos[c]
    /\ pc[c] \notin {"copy", "cleanup"} \cup Ended => node[n].at < pos[c]

(* While c copies, the file it opened, if it is still there, is one and     *)
(* holds what c has copied so far.                                          *)
Writing(c) ==
  pc[c] = "copy" => \A m, n \in Node :
    /\ node[n].of = c /\ node[n].at = pos[c] =>
         node[n].kind = "file" /\ node[n].len = moved[c]
    /\ node[m].of = c /\ node[m].at = pos[c] /\ node[n].of = c /\ node[n].at = pos[c] => m = n

LEMMA StepNodeType ==
  ASSUME TypeOK, NEW c \in Call, Writing(c), Step(c) \/ Crash(c)
  PROVE  node' \in [Node -> NodeState]
  <1> USE DEF TypeOK
  <1>1. CASE UNCHANGED node  BY <1>1
  <1>2. CASE ExtractDir(c) \/ MakeParents(c)
    <2>1. NewDir(c) \in NodeState  BY PlainType DEF NewDir
    <2>2. \A S : MkdirAll(c, S) => node' \in [Node -> NodeState]  BY <2>1 DEF MkdirAll
    <2> QED  BY <1>1, <1>2, <2>2 DEF ExtractDir, MakeParents
  <1>3. CASE Create(c)
    <2>1. At(c) \in Entry /\ pos[c] \in Nat /\ MaxInt \in Nat
      BY <1>3, AtEntry, ConstantsAssumption DEF Create
    <2>2. ASSUME NEW open \in BOOLEAN
          PROVE  [kind |-> "file", of |-> c, at |-> pos[c], len |-> 0, open |-> open] \in NodeState
      BY <2>1 DEF NodeState
    <2>3. Real(At(c).name) \in Node  BY <2>1, RealType DEF Entry
    <2>4. (IF Exists(Real(At(c).name)) THEN node[Real(At(c).name)].open ELSE At(c).open)
            \in BOOLEAN
      BY <2>1, <2>3 DEF NodeState, Entry
    <2> QED  BY <1>3, <2>2, <2>3, <2>4 DEF Create
  <1>4. CASE Adjust(c)
    <2>1. ASSUME NEW i \in seen[c],
                 node' = [node EXCEPT ![Real(archive[c][i].name)].open = archive[c][i].open]
          PROVE  node' \in [Node -> NodeState]
      <3>1. archive[c][i] \in Entry  BY EntryAt
      <3>2. \A s \in NodeState : [s EXCEPT !.open = archive[c][i].open] \in NodeState
        BY <3>1 DEF Entry, NodeState
      <3> QED  BY <2>1, <3>1, <3>2
    <2> QED  BY <1>1, <1>4, <2>1 DEF Adjust
  <1>5. CASE Cleanup(c)
    BY <1>5, PlainType DEF Cleanup, Missing
  <1>6. CASE CopyChunk(c)
    <2>1. /\ At(c).name \in Node /\ At(c).size \in 0..MaxInt /\ moved[c] < At(c).size
          /\ moved[c] + 1 \in 0..MaxInt
      <3>1. At(c) \in Entry  BY <1>6, AtEntry DEF CopyChunk
      <3>2. MaxInt \in Nat /\ moved[c] \in 0..MaxInt  BY ConstantsAssumption
      <3> QED  BY <1>6, <3>1, <3>2 DEF CopyChunk, Entry
    <2>2. CASE node' = [m \in Node |->
                 IF node[m].kind = "file" /\ node[m].of = c /\ node[m].at = pos[c]
                   THEN [node[m] EXCEPT !.len = @ + 1] ELSE node[m]]
      <3>1. pc[c] = "copy"  BY <1>6 DEF CopyChunk
      <3>2. \A m \in Node : node[m].of = c /\ node[m].at = pos[c] => node[m].len = moved[c]
        BY <3>1 DEF Writing
      <3>3. ASSUME NEW s \in NodeState, s.len = moved[c]
            PROVE  [s EXCEPT !.len = @ + 1] \in NodeState
        BY <2>1, <3>3 DEF NodeState
      <3>4. ASSUME NEW m \in Node PROVE node'[m] \in NodeState
        BY <2>2, <3>2, <3>3
      <3>5. DOMAIN node' = Node /\ node' = [m \in Node |-> node'[m]]  BY <2>2
      <3> QED  BY <3>4, <3>5
    <2> QED  BY <1>1, <1>6, <2>2 DEF CopyChunk
  <1> QED
    BY <1>1, <1>2, <1>3, <1>4, <1>5, <1>6
    DEF Step, Crash, Begin, StatDst, HeaderFails, SkipMeta, Reject, CopyDone, CopyChunk,
        ArchiveEnds, AdjustDone, callVars, loopVars

(* A step of c leaves the other calls where they are. *)
LEMMA StepKeeps ==
  ASSUME TypeOK, NEW c \in Call, Step(c) \/ Crash(c)
  PROVE  /\ archive' = archive /\ leads' = leads
         /\ \A d \in Call \ {c} :
              /\ pc'[d] = pc[d] /\ pos'[d] = pos[d] /\ count'[d] = count[d]
              /\ total'[d] = total[d] /\ moved'[d] = moved[d]
              /\ created'[d] = created[d] /\ seen'[d] = seen[d]
         /\ pc' = [pc EXCEPT ![c] = pc'[c]] /\ pos' = [pos EXCEPT ![c] = pos'[c]]
         /\ count' = [count EXCEPT ![c] = count'[c]]
         /\ total' = [total EXCEPT ![c] = total'[c]]
         /\ moved' = [moved EXCEPT ![c] = moved'[c]]
         /\ created' = [created EXCEPT ![c] = created'[c]]
         /\ seen' = [seen EXCEPT ![c] = seen'[c]]
  <1> USE DEF TypeOK, Goto, Count, callVars, loopVars
  <1>1. CASE Begin(c)        BY <1>1 DEF Begin
  <1>2. CASE StatDst(c)      BY <1>2 DEF StatDst
  <1>3. CASE HeaderFails(c)  BY <1>3 DEF HeaderFails
  <1>4. CASE SkipMeta(c)     BY <1>4 DEF SkipMeta
  <1>5. CASE Reject(c)       BY <1>5 DEF Reject
  <1>6. CASE ExtractDir(c)   BY <1>6 DEF ExtractDir
  <1>7. CASE MakeParents(c)  BY <1>7 DEF MakeParents
  <1>8. CASE Create(c)       BY <1>8 DEF Create
  <1>9. CASE CopyChunk(c)    BY <1>9 DEF CopyChunk
  <1>10. CASE CopyDone(c)    BY <1>10 DEF CopyDone
  <1>11. CASE ArchiveEnds(c) BY <1>11 DEF ArchiveEnds
  <1>12. CASE Adjust(c)      BY <1>12 DEF Adjust
  <1>13. CASE AdjustDone(c)  BY <1>13 DEF AdjustDone
  <1>14. CASE Cleanup(c)     BY <1>14 DEF Cleanup
  <1>15. CASE Crash(c)       BY <1>15 DEF Crash
  <1> QED
    BY <1>1, <1>2, <1>3, <1>4, <1>5, <1>6, <1>7, <1>8, <1>9, <1>10, <1>11, <1>12,
       <1>13, <1>14, <1>15 DEF Step

(* Until the budget is exceeded, which ends the extraction, it is not. *)
Charged(c) == pc[c] \notin {"cleanup"} \cup Ended => total[c] <= MaxTotal(c)

(* The part of the type that is about one call. *)
CallType(c) ==
  /\ pc[c] \in Label
  /\ pos[c] \in Nat \ {0} /\ pos[c] <= Len(archive[c]) + 1
  /\ pc[c] \in {"create", "copy"} => pos[c] <= Len(archive[c])
  /\ count[c] \in Nat
  /\ total[c] \in Nat /\ total[c] <= MaxTotal(c) + 1
  /\ moved[c] \in 0..MaxInt
  /\ created[c] \in BOOLEAN
  /\ seen[c] \in SUBSET Nat /\ seen[c] \subseteq 1..Len(archive[c])

LEMMA StepCallType ==
  ASSUME TypeOK, NEW c \in Call, Charged(c), Step(c) \/ Crash(c)
  PROVE  CallType(c)' /\ Charged(c)'
  <1>1. CallType(c)  BY DEF TypeOK, CallType
  <1>2. archive' = archive  BY StepKeeps
  <1>3. Len(archive[c]) \in Nat /\ MaxTotal(c) \in Nat
    BY LimitType, ConstantsAssumption DEF TypeOK
  <1>4. pc[c] \in {"create", "copy"} \/ ~Over(c) => pos[c] <= Len(archive[c])
    BY AtEntry
  <1>5. pc \in [Call -> Label] /\ DOMAIN pos = Call /\ DOMAIN count = Call
        /\ DOMAIN total = Call /\ DOMAIN moved = Call /\ DOMAIN created = Call
        /\ DOMAIN seen = Call
    BY DEF TypeOK
  <1>6. MaxTotal(c)' = MaxTotal(c)  BY DEF MaxTotal
  <1> USE <1>1, <1>2, <1>3, <1>4, <1>5, <1>6 DEF CallType, Charged, Goto, Count,
        callVars, loopVars, Label, Ended
  <1>7. CASE Begin(c)         BY <1>7 DEF Begin
  <1>8. CASE StatDst(c)
    <2>1. Created(c) \in BOOLEAN  BY DEF Created
    <2> QED  BY <1>8, <2>1 DEF StatDst
  <1>9. CASE HeaderFails(c)   BY <1>9 DEF HeaderFails
  <1>10. CASE SkipMeta(c)     BY <1>10 DEF SkipMeta
  <1>11. CASE Reject(c)       BY <1>11 DEF Reject
  <1>12. CASE ExtractDir(c)
    <2>1. CASE pc'[c] = "next" /\ pos'[c] = pos[c] + 1
               /\ seen'[c] = IF Format[c] = "zip" THEN seen[c]
                   ELSE {i \in seen[c] : archive[c][i].name # At(c).name} \cup {pos[c]}
      <3>1. pos[c] \in 1..Len(archive[c])  BY <1>12, AtEntry DEF ExtractDir
      <3>2. seen'[c] \subseteq seen[c] \cup {pos[c]}  BY <2>1
      <3>3. seen'[c] \subseteq 1..Len(archive[c]) /\ seen'[c] \subseteq Nat
        BY <3>1, <3>2
      <3> QED  BY <1>12, <2>1, <3>1, <3>3 DEF ExtractDir
    <2>2. CASE pc'[c] = "cleanup" /\ UNCHANGED <<pos, seen>>
      BY <1>12, <2>2 DEF ExtractDir
    <2> QED  BY <1>12, <2>1, <2>2 DEF ExtractDir
  <1>13. CASE MakeParents(c)  BY <1>13 DEF MakeParents
  <1>14. CASE Create(c)
    <2>1. 0 \in 0..MaxInt  BY ConstantsAssumption
    <2> QED  BY <1>14, <2>1 DEF Create
  <1>15. CASE CopyChunk(c)
    <2>1. moved[c] + 1 \in 0..MaxInt
      <3>1. At(c) \in Entry  BY <1>15, AtEntry DEF CopyChunk
      <3>2. MaxInt \in Nat /\ moved[c] \in 0..MaxInt  BY ConstantsAssumption
      <3> QED  BY <1>15, <3>1, <3>2 DEF CopyChunk, Entry
    <2>2. total'[c] = total[c] + 1 /\ total[c] <= MaxTotal(c)
      BY <1>15 DEF CopyChunk
    <2>3. pc'[c] = "copy" => total[c] + 1 <= MaxTotal(c)
      BY <1>15 DEF CopyChunk, OverBudget
    <2> QED  BY <1>15, <2>1, <2>2, <2>3 DEF CopyChunk
  <1>16. CASE CopyDone(c)
    <2>1. CASE pc'[c] = "next" /\ pos'[c] = pos[c] + 1
      <3>1. pos'[c] \in Nat \ {0} /\ pos'[c] <= Len(archive[c]) + 1
        BY <1>16, <2>1 DEF CopyDone
      <3> QED  BY <1>16, <2>1, <3>1 DEF CopyDone
    <2>2. CASE pc'[c] = "cleanup" /\ pos' = pos
      BY <1>16, <2>2 DEF CopyDone
    <2> QED  BY <1>16, <2>1, <2>2 DEF CopyDone
  <1>17. CASE ArchiveEnds(c)  BY <1>17 DEF ArchiveEnds, AfterEnd
  <1>18. CASE Adjust(c)       BY <1>18 DEF Adjust
  <1>19. CASE AdjustDone(c)   BY <1>19 DEF AdjustDone
  <1>20. CASE Cleanup(c)      BY <1>20 DEF Cleanup
  <1>21. CASE Crash(c)        BY <1>21 DEF Crash
  <1> QED
    BY <1>7, <1>8, <1>9, <1>10, <1>11, <1>12, <1>13, <1>14, <1>15, <1>16, <1>17,
       <1>18, <1>19, <1>20, <1>21 DEF Step

LEMMA StepType ==
  ASSUME TypeOK, NEW c \in Call, Writing(c), Charged(c), Step(c) \/ Crash(c)
  PROVE  TypeOK'
  <1>1. node' \in [Node -> NodeState]  BY StepNodeType
  <1>2. CallType(c)'  BY StepCallType
  <1>3. \A d \in Call : CallType(d)'
    <2> SUFFICES ASSUME NEW d \in Call \ {c} PROVE CallType(d)'  BY <1>2
    <2>1. CallType(d)  BY DEF TypeOK, CallType
    <2> QED  BY <2>1, StepKeeps DEF CallType, MaxTotal
  <1> QED  BY <1>1, <1>3, StepKeeps DEF TypeOK, CallType, MaxTotal

(* What another call wrote is unchanged as long as it is that call's. *)
LEMMA Foreign ==
  ASSUME TypeOK, NEW c \in Call, Step(c) \/ Crash(c), NEW d \in Call \ {c},
         NEW n \in Node, node'[n].of = d
  PROVE  /\ node[n].of = d /\ node'[n].kind = node[n].kind
         /\ node'[n].at = node[n].at /\ node'[n].len = node[n].len
  <1>1. node[n] \in NodeState /\ d # Nobody  BY ConstantsAssumption DEF TypeOK
  <1>2. Changed(c, n)  BY StepChanges
  <1> QED
    <2>1. CASE Untouched(n)    BY <2>1 DEF Untouched
    <2>2. CASE Made(c, n)      BY <2>2 DEF Made, NewDir, Plain
    <2>3. CASE Opened(c, n)    BY <2>3 DEF Opened
    <2>4. CASE Grown(c, n)     BY <1>1, <2>4 DEF Grown, NodeState
    <2>5. CASE Adjusted(c, n)  BY <1>1, <2>5 DEF Adjusted, NodeState
    <2>6. CASE Removed(c, n)   BY <1>1, <2>6 DEF Removed, Missing, Plain
    <2> QED  BY <1>2, <2>1, <2>2, <2>3, <2>4, <2>5, <2>6 DEF Changed

(* The position moves on only when an entry is done. *)
LEMMA StepPosition ==
  ASSUME TypeOK, NEW c \in Call, Step(c) \/ Crash(c)
  PROVE  /\ pos[c] \in Nat /\ pos'[c] \in {pos[c], pos[c] + 1}
         /\ pc[c] = "copy" => pos'[c] = pos[c] + 1 \/ pc'[c] \in {"copy", "cleanup"} \cup Ended
         /\ pc[c] \in {"cleanup"} \cup Ended => pc'[c] \in {"cleanup"} \cup Ended
         /\ pc'[c] = "copy" =>
              /\ pos'[c] = pos[c]
              /\ (Create(c) /\ pc[c] = "create") \/ (CopyChunk(c) /\ pc[c] = "copy")
  <1>1. pos[c] \in Nat /\ DOMAIN pos = Call /\ pc \in [Call -> Label]  BY DEF TypeOK
  <1> USE <1>1 DEF Goto, Ended, Label, callVars, loopVars
  <1>2. CASE Begin(c)        BY <1>2 DEF Begin
  <1>3. CASE StatDst(c)      BY <1>3 DEF StatDst
  <1>4. CASE HeaderFails(c)  BY <1>4 DEF HeaderFails
  <1>5. CASE SkipMeta(c)     BY <1>5 DEF SkipMeta
  <1>6. CASE Reject(c)       BY <1>6 DEF Reject
  <1>7. CASE ExtractDir(c)   BY <1>7 DEF ExtractDir
  <1>8. CASE MakeParents(c)  BY <1>8 DEF MakeParents
  <1>9. CASE Create(c)
    <2>1. pos' = pos /\ pc[c] = "create"  BY <1>9 DEF Create
    <2> QED  BY <1>9, <2>1
  <1>10. CASE CopyChunk(c)
    <2>1. pos' = pos /\ pc[c] = "copy" /\ pc'[c] \in {"copy", "cleanup"}
      BY <1>10 DEF CopyChunk
    <2> QED  BY <1>10, <2>1
  <1>11. CASE CopyDone(c)    BY <1>11 DEF CopyDone
  <1>12. CASE ArchiveEnds(c) BY <1>12 DEF ArchiveEnds, AfterEnd
  <1>13. CASE Adjust(c)      BY <1>13 DEF Adjust
  <1>14. CASE AdjustDone(c)  BY <1>14 DEF AdjustDone
  <1>15. CASE Cleanup(c)     BY <1>15 DEF Cleanup
  <1>16. CASE Crash(c)       BY <1>16 DEF Crash
  <1> QED
    BY <1>2, <1>3, <1>4, <1>5, <1>6, <1>7, <1>8, <1>9, <1>10, <1>11, <1>12, <1>13,
       <1>14, <1>15, <1>16 DEF Step

LEMMA StepMarked ==
  ASSUME TypeOK, NEW c \in Call, \A d \in Call : Marked(d), Step(c) \/ Crash(c)
  PROVE  \A d \in Call : Marked(d)'
  <1>1. ASSUME NEW d \in Call \ {c} PROVE Marked(d)'
    <2>1. pos'[d] = pos[d] /\ pc'[d] = pc[d]  BY StepKeeps
    <2> QED  BY <2>1, Foreign DEF Marked
  <1>2. Marked(c)'
    <2> SUFFICES ASSUME NEW n \in Node, node'[n].of = c
                 PROVE  /\ node'[n].at <= pos'[c]
                        /\ pc'[c] \notin {"copy", "cleanup"} \cup Ended => node'[n].at < pos'[c]
      BY DEF Marked
    <2>1. node[n] \in NodeState /\ node[n].at \in Nat /\ c # Nobody /\ pos[c] \in Nat \ {0}
      BY ConstantsAssumption DEF TypeOK, NodeState
    <2>2. Changed(c, n)  BY StepChanges
    <2>3. CASE node[n].of = c /\ node'[n].at = node[n].at
      <3>1. /\ node[n].at <= pos[c]
            /\ pc[c] \notin {"copy", "cleanup"} \cup Ended => node[n].at < pos[c]
        BY <2>3 DEF Marked
      <3> QED  BY <2>1, <2>3, <3>1, StepPosition
    <2>4. CASE Untouched(n)    BY <2>3, <2>4 DEF Untouched
    <2>5. CASE Made(c, n)
      <3>1. node'[n].at = 0  BY <2>5 DEF Made, NewDir, Plain
      <3> QED  BY <2>1, <3>1, StepPosition
    <2>6. CASE Opened(c, n)
      <3>1. node'[n].at = pos[c] /\ pc'[c] = "copy"  BY <2>6 DEF Opened
      <3> QED  BY <2>1, <3>1, StepPosition
    <2>7. CASE Grown(c, n)
      <3>1. node[n].of = c /\ node'[n].at = node[n].at  BY <2>1, <2>7 DEF Grown, NodeState
      <3> QED  BY <2>3, <3>1
    <2>8. CASE Adjusted(c, n)
      <3>1. node[n].of = c /\ node'[n].at = node[n].at  BY <2>1, <2>8 DEF Adjusted, NodeState
      <3> QED  BY <2>3, <3>1
    <2>9. CASE Removed(c, n)   BY <2>1, <2>9 DEF Removed, Missing, Plain
    <2> QED  BY <2>2, <2>4, <2>5, <2>6, <2>7, <2>8, <2>9 DEF Changed
  <1> QED  BY <1>1, <1>2

LEMMA StepWriting ==
  ASSUME TypeOK, NEW c \in Call, \A d \in Call : Marked(d) /\ Writing(d), Step(c) \/ Crash(c)
  PROVE  \A d \in Call : Writing(d)'
  <1>1. ASSUME NEW d \in Call \ {c} PROVE Writing(d)'
    <2>1. pos'[d] = pos[d] /\ moved'[d] = moved[d] /\ pc'[d] = pc[d]  BY StepKeeps
    <2>2. \A n \in Node : node'[n].of = d =>
            /\ node[n].of = d /\ node'[n].kind = node[n].kind
            /\ node'[n].at = node[n].at /\ node'[n].len = node[n].len
      BY Foreign
    <2> SUFFICES ASSUME pc[d] = "copy", NEW m \in Node, NEW n \in Node
                 PROVE  /\ node'[n].of = d /\ node'[n].at = pos[d] =>
                             node'[n].kind = "file" /\ node'[n].len = moved[d]
                        /\ /\ node'[m].of = d /\ node'[m].at = pos[d]
                           /\ node'[n].of = d /\ node'[n].at = pos[d]
                           => m = n
      BY <2>1 DEF Writing
    <2>3. Writing(d)  OBVIOUS
    <2> QED  BY <2>2, <2>3 DEF Writing
  <1>2. Writing(c)'
    <2> SUFFICES ASSUME pc'[c] = "copy" PROVE Writing(c)'  BY DEF Writing
    <2>1. DOMAIN node = Node /\ DOMAIN moved = Call /\ DOMAIN pc = Call /\ pos[c] \in Nat
      BY DEF TypeOK
    <2>2. CASE Create(c) /\ pc[c] = "create"
      <3> DEFINE r == Real(At(c).name)
      <3>1. r \in Node  BY <2>2, AtEntry, RealType
      <3>2. moved'[c] = 0 /\ pos'[c] = pos[c]  BY <2>1, <2>2 DEF Create, Goto
      <3>3. node'[r].kind = "file" /\ node'[r].len = 0
        BY <2>1, <2>2, <3>1 DEF Create, Goto
      <3>4. \A n \in Node : n # r => node'[n] = node[n]
        BY <2>1, <2>2, <3>1 DEF Create, Goto
      <3>5. \A n \in Node : node[n].of = c => node[n].at < pos[c]
        BY <2>2 DEF Marked, Ended
      <3>6. \A n \in Node : node[n].at \in Nat  BY DEF TypeOK, NodeState
      <3>7. \A n \in Node : node'[n].of = c /\ node'[n].at = pos'[c] => n = r
        BY <2>1, <3>2, <3>4, <3>5, <3>6
      <3> HIDE DEF r
      <3> QED  BY <3>2, <3>3, <3>7 DEF Writing
    <2>3. CASE CopyChunk(c) /\ pc[c] = "copy"
      <3>1. moved'[c] = moved[c] + 1 /\ pos'[c] = pos[c]
        BY <2>1, <2>3 DEF CopyChunk, Goto
      <3>2. node' = [m \in Node |->
              IF node[m].kind = "file" /\ node[m].of = c /\ node[m].at = pos[c]
                THEN [node[m] EXCEPT !.len = @ + 1] ELSE node[m]]
        BY <2>1, <2>3 DEF CopyChunk, Goto
      <3>3. \A n \in Node : /\ node'[n].kind = node[n].kind /\ node'[n].of = node[n].of
                             /\ node'[n].at = node[n].at
        BY <3>2 DEF TypeOK, NodeState
      <3>4. \A n \in Node :
              node[n].kind = "file" /\ node[n].of = c /\ node[n].at = pos[c]
                => node'[n].len = node[n].len + 1
        BY <3>2 DEF TypeOK, NodeState
      <3>5. \A n \in Node : node[n].of = c /\ node[n].at = pos[c] =>
              node[n].kind = "file" /\ node[n].len = moved[c]
        BY <2>3 DEF Writing
      <3>6. \A m, n \in Node :
              node[m].of = c /\ node[m].at = pos[c] /\ node[n].of = c /\ node[n].at = pos[c]
                => m = n
        BY <2>3 DEF Writing
      <3> QED  BY <3>1, <3>3, <3>4, <3>5, <3>6 DEF Writing
    <2> QED  BY <2>2, <2>3, StepPosition
  <1> QED  BY <1>1, <1>2

(* The inductive invariant behind the types. *)
TypeInv == TypeOK /\ \A c \in Call : Marked(c) /\ Writing(c) /\ Charged(c)

LEMMA InitTypeInv == Init => TypeInv
  <1> SUFFICES ASSUME Init PROVE TypeInv  OBVIOUS
  <1>1. \A n \in Node : node[n].of = Nobody  BY DEF Init, Plain
  <1>2. \A c \in Call : Marked(c)  BY <1>1, ConstantsAssumption DEF Marked
  <1> QED  BY <1>2, InitType, LimitType DEF Init, TypeInv, Writing, Charged

LEMMA StepTypeInv ==
  ASSUME TypeInv, NEW c \in Call, Step(c) \/ Crash(c)
  PROVE  TypeInv'
  <1>1. TypeOK' /\ \A d \in Call : Marked(d)' /\ Writing(d)'
    BY StepType, StepMarked, StepWriting DEF TypeInv
  <1>2. \A d \in Call : Charged(d)'
    BY StepCallType, StepKeeps DEF TypeInv, Charged, MaxTotal
  <1> QED  BY <1>1, <1>2 DEF TypeInv

(* Every reachable state is well typed: the counters stay in their ranges,  *)
(* the position inside the archive, and no file outgrows its entry.         *)
THEOREM TypeCorrect == Spec => []TypeOK
  <1>1. TypeInv /\ [Next]_vars => TypeInv'
    <2> SUFFICES ASSUME TypeInv, [Next]_vars PROVE TypeInv'  OBVIOUS
    <2>1. CASE UNCHANGED vars
      BY <2>1 DEF TypeInv, TypeOK, Marked, Writing, Charged, MaxTotal, At, vars, callVars, loopVars
    <2> QED  BY <2>1, StepTypeInv DEF Next
  <1> QED  BY <1>1, InitTypeInv, PTL DEF Spec, TypeInv

-----------------------------------------------------------------------------
(* What was there before. *)

(* The tree is closed: above what exists there are directories. *)
Rooted == \A n \in Node : Exists(n) => \A a \in Above[n] : node[a].kind = "dir"

(* A link stands where the layout has one, and what was there before and is *)
(* not where the layout leaves it is a link.                                *)
OldLinks ==
  \A n \in Node : /\ node[n].kind = "link" => leads[n] # n
                  /\ Exists(n) /\ node[n].of = Nobody /\ leads[n] # n => node[n].kind = "link"

(* os.MkdirAll leaves directories above whatever it made, also below the    *)
(* target of a link.                                                        *)
LEMMA MadeRooted ==
  ASSUME TypeOK, Rooted, OldLinks, NEW c \in Call, NEW P, Makes(c, P), NEW k \in P,
         ~Exists(Real(k)), NEW a \in Above[Real(k)]
  PROVE  node'[a].kind = "dir"
  <1>1. /\ P \subseteq Node /\ Above[k] \subseteq P /\ \A b \in P : Makeable(b)
        /\ Real(k) \in Node /\ a \in Node
    BY RealType, ConstantsAssumption DEF Makes
  <1>2. \A b \in Node : node[b].kind = "dir" => node'[b].kind = "dir"
    BY DEF Makes, MkdirAll, Exists
  <1>3. \A b \in P : Real(b) \in Node /\ node'[Real(b)].kind = "dir"
    <2> SUFFICES ASSUME NEW b \in P PROVE Real(b) \in Node /\ node'[Real(b)].kind = "dir"
      OBVIOUS
    <2>1. Real(b) \in Node  BY <1>1, RealType
    <2>2. CASE Exists(Real(b))
      <3>1. node[Real(b)].kind = "dir"  BY <1>1, <2>2 DEF Makeable
      <3> QED  BY <1>2, <2>1, <3>1
    <2>3. CASE ~Exists(Real(b))
      <3>1. node'[Real(b)] = NewDir(c)  BY <2>1, <2>3 DEF Makes, MkdirAll
      <3> QED  BY <2>1, <3>1 DEF NewDir, Plain
    <2> QED  BY <2>2, <2>3
  <1>4. CASE \A l \in Above[k] \cup {k} : node[l].kind # "link"
    <2>1. Real(k) = k  BY <1>4 DEF Real
    <2>2. a \in Above[k] /\ Above[a] \subseteq Above[k]  BY <1>1, <2>1, ConstantsAssumption
    <2>3. Real(a) = a  BY <1>4, <2>2 DEF Real
    <2> QED  BY <1>1, <1>3, <2>2, <2>3
  <1>5. CASE \E l \in Above[k] \cup {k} : node[l].kind = "link"
    <2>1. Real(k) = leads[k]  BY <1>5 DEF Real
    <2>2. node[k].kind = "none"  BY <1>1 DEF Makeable, Exists
    <2>3. PICK l \in Above[k] : node[l].kind = "link"  BY <1>5, <2>2
    <2>4. l \in P /\ l \in Node /\ k \in Node  BY <1>1, <2>3
    <2>5. leads[l] # l  BY <2>3, <2>4 DEF OldLinks
    <2>6. Real(l) = leads[l]  BY <2>3 DEF Real
    <2>7. \/ a \in Above[leads[l]] \cup {leads[l]}
          \/ \E b \in Above[k] : l \in Above[b] /\ leads[b] = a
      <3>1. IsLayout(leads)  BY <2>4, RealType
      <3> QED  BY <2>1, <2>3, <2>4, <2>5, <3>1 DEF IsLayout
    <2>8. CASE a \in Above[leads[l]] \cup {leads[l]}
      <3>1. node[leads[l]].kind = "dir" /\ leads[l] \in Node
        <4>1. Exists(l)  BY <2>3 DEF Exists
        <4>2. Makeable(l)  BY <1>1, <2>4
        <4> QED  BY <1>3, <2>4, <2>6, <4>1, <4>2 DEF Makeable
      <3>2. node[a].kind = "dir"  BY <2>8, <3>1 DEF Rooted, Exists
      <3> QED  BY <1>1, <1>2, <3>2
    <2>9. ASSUME NEW b \in Above[k], l \in Above[b], leads[b] = a PROVE node'[a].kind = "dir"
      <3>1. Real(b) = a  BY <2>3, <2>9 DEF Real
      <3> QED  BY <1>1, <1>3, <3>1
    <2> QED  BY <2>7, <2>8, <2>9
  <1> QED  BY <1>4, <1>5

(* A step removes only what it lists, and never a directory from above what *)
(* it leaves.                                                               *)
LEMMA StepRooted ==
  ASSUME TypeOK, Rooted, OldLinks, NEW c \in Call, Step(c) \/ Crash(c)
  PROVE  Rooted'
  <1> SUFFICES ASSUME NEW n \in Node, Exists(n)', NEW a \in Above[n]
               PROVE  node'[a].kind = "dir"
    BY DEF Rooted
  <1>1. a \in Node /\ node[n] \in NodeState /\ node[a] \in NodeState
        /\ Above[a] \subseteq Above[n]
    BY ConstantsAssumption DEF TypeOK
  <1>2. Changed(c, n) /\ Changed(c, a)  BY <1>1, StepChanges
  <1>3. CASE Made(c, n)
    <2>1. ~Exists(n)  BY <1>3 DEF Made
    <2>2. PICK P : Makes(c, P) /\ \E k \in P : n = Real(k)  BY <1>3 DEF Made
    <2>3. PICK k \in P : n = Real(k)  BY <2>2
    <2>4. Makes(c, P) /\ ~Exists(Real(k)) /\ a \in Above[Real(k)]  BY <2>1, <2>2, <2>3
    <2> QED  BY <2>4, MadeRooted
  <1>4. CASE Removed(c, n)  BY <1>4 DEF Removed, Exists, Missing, Plain
  <1>5. CASE Removed(c, a)
    <2>1. n \in Under(Root[c])
      BY <1>1, <1>5 DEF Removed, Under
    <2>2. n \in Kept(Root[c])
      BY <1>5, <2>1 DEF Removed, Exists, Missing, Plain
    <2>3. PICK k \in Under(Root[c]) :
            /\ Exists(k) /\ (k = n \/ n \in Above[k])
            /\ \E b \in Above[k] \cap Under(Root[c]) : Shut(b)
      BY <2>2 DEF Kept
    <2>4. k \in Node /\ a \in Above[k]
      BY <1>1, <2>3, ConstantsAssumption DEF Under
    <2>5. a \in Kept(Root[c])
      BY <1>5, <2>3, <2>4 DEF Kept, Removed
    <2> QED  BY <1>5, <2>5 DEF Removed
  <1>6. CASE node[a].kind = "dir" /\ ~Removed(c, a)
    <2>1. ~Opened(c, a)
      <3>1. Opened(c, a) => ~Exists(a) \/ node[a].kind = "file"  BY DEF Opened, CanCreate
      <3> QED  BY <1>6, <3>1 DEF Exists
    <2>2. ~Made(c, a) /\ ~Grown(c, a)  BY <1>6 DEF Made, Grown, Exists
    <2>3. Untouched(a) => node'[a].kind = "dir"  BY <1>6 DEF Untouched
    <2>4. Adjusted(c, a) => node'[a].kind = "dir"  BY <1>1, <1>6 DEF Adjusted, NodeState
    <2> QED  BY <1>2, <1>6, <2>1, <2>2, <2>3, <2>4 DEF Changed
  <1>7. CASE Opened(c, n)
    <2>1. node[a].kind = "dir"  BY <1>7 DEF Opened, CanCreate
    <2> QED  BY <1>5, <1>6, <2>1
  <1>8. CASE Untouched(n) \/ Grown(c, n) \/ Adjusted(c, n)
    <2>1. Exists(n)
      BY <1>1, <1>8 DEF Untouched, Grown, Adjusted, Exists, NodeState
    <2>2. node[a].kind = "dir"  BY <2>1 DEF Rooted
    <2> QED  BY <1>5, <1>6, <2>2
  <1> QED  BY <1>2, <1>3, <1>4, <1>7, <1>8 DEF Changed

(* Nothing appears that no call wrote. *)
LEMMA NobodyWrites ==
  ASSUME TypeOK, NEW c \in Call, Step(c) \/ Crash(c), NEW n \in Node,
         Exists(n)', node'[n].of = Nobody
  PROVE  Exists(n) /\ node[n].of = Nobody /\ node'[n].kind = node[n].kind
  <1>1. node[n] \in NodeState /\ c # Nobody  BY ConstantsAssumption DEF TypeOK
  <1>2. Changed(c, n)  BY StepChanges
  <1>3. CASE Untouched(n)    BY <1>3 DEF Untouched, Exists
  <1>4. CASE Made(c, n)      BY <1>1, <1>4 DEF Made, NewDir, Plain
  <1>5. CASE Opened(c, n)    BY <1>1, <1>5 DEF Opened
  <1>6. CASE Grown(c, n)     BY <1>1, <1>6 DEF Grown, NodeState
  <1>7. CASE Adjusted(c, n)  BY <1>1, <1>7 DEF Adjusted, NodeState
  <1>8. CASE Removed(c, n)   BY <1>8 DEF Removed, Missing, Plain, Exists
  <1> QED  BY <1>2, <1>3, <1>4, <1>5, <1>6, <1>7, <1>8 DEF Changed

(* No step makes a link. *)
LEMMA StepOldLinks ==
  ASSUME TypeOK, OldLinks, NEW c \in Call, Step(c) \/ Crash(c)
  PROVE  OldLinks'
  <1>1. leads' = leads  BY StepKeeps
  <1>2. ASSUME NEW n \in Node, node'[n].kind = "link" PROVE node[n].kind = "link"
    <2>1. node[n] \in NodeState  BY DEF TypeOK
    <2>2. Changed(c, n)  BY StepChanges
    <2>3. Untouched(n) => node[n].kind = "link"  BY <1>2 DEF Untouched
    <2>4. ~Made(c, n)  BY <1>2 DEF Made, NewDir, Plain
    <2>5. ~Opened(c, n)  BY <1>2 DEF Opened
    <2>6. Grown(c, n) \/ Adjusted(c, n) => node[n].kind = "link"
      BY <1>2, <2>1 DEF Grown, Adjusted, NodeState
    <2>7. ~Removed(c, n)  BY <1>2 DEF Removed, Missing, Plain
    <2> QED  BY <2>2, <2>3, <2>4, <2>5, <2>6, <2>7 DEF Changed
  <1>3. ASSUME NEW n \in Node, Exists(n)', node'[n].of = Nobody, leads[n] # n
        PROVE  node'[n].kind = "link"
    BY <1>3, NobodyWrites DEF OldLinks
  <1> QED  BY <1>1, <1>2, <1>3 DEF OldLinks, Exists

(* Only StatDst decides whose the destination is. *)
LEMMA CreatedOnce ==
  ASSUME TypeOK, NEW c \in Call, Step(c) \/ Crash(c)
  PROVE  \/ created' = created
         \/ StatDst(c)
  BY DEF Step, Crash, Begin, HeaderFails, SkipMeta, Reject, ExtractDir, MakeParents, Create,
     CopyChunk, CopyDone, ArchiveEnds, Adjust, AdjustDone, Cleanup, callVars

(* In a destination the call found missing nothing is older than the calls, *)
(* unless the destination is a link, which leads nowhere.                   *)
Fresh(c) ==
  created[c] => \A n \in Under(Root[c]) :
    Exists(n) /\ node[n].of = Nobody => n = Root[c] /\ node[n].kind = "link"

LEMMA StepFresh ==
  ASSUME TypeOK, Rooted, OldLinks, NEW c \in Call, Step(c) \/ Crash(c), NEW d \in Call, Fresh(d)
  PROVE  Fresh(d)'
  <1> SUFFICES ASSUME created'[d], NEW n \in Under(Root[d]), node'[n].of = Nobody, Exists(n)'
               PROVE  n = Root[d] /\ node'[n].kind = "link"
    BY DEF Fresh, Under
  <1>1. n \in Node /\ Root[d] \in Node  BY ConstantsAssumption DEF Under
  <1>2. Exists(n) /\ node[n].of = Nobody /\ node'[n].kind = node[n].kind
    BY <1>1, NobodyWrites
  <1>3. CASE created[d]  BY <1>2, <1>3 DEF Fresh
  <1>4. CASE StatDst(c) /\ c = d
    <2>1. ~Exists(Real(Root[d]))  BY <1>4 DEF StatDst, Created, TypeOK
    <2>2. \A a \in Above[Root[d]] : node[a].kind # "link"
      <3>1. IsLayout(leads)  BY <1>1, RealType
      <3>2. \A a \in Above[Root[d]] : a \in Node /\ leads[a] = a
        BY <1>1, <3>1, ConstantsAssumption DEF IsLayout
      <3> QED  BY <3>2 DEF OldLinks
    <2>3. CASE node[Root[d]].kind # "link"
      <3>1. Real(Root[d]) = Root[d]  BY <2>2, <2>3 DEF Real
      <3>2. node[Root[d]].kind = "dir" \/ n = Root[d]  BY <1>1, <1>2 DEF Under, Rooted
      <3> QED  BY <1>2, <2>1, <3>1, <3>2 DEF Exists
    <2>4. CASE node[Root[d]].kind = "link"
      <3>1. n = Root[d]
        <4>1. n # Root[d] => node[Root[d]].kind = "dir"  BY <1>1, <1>2 DEF Under, Rooted
        <4> QED  BY <2>4, <4>1
      <3> QED  BY <1>2, <2>4, <3>1
    <2> QED  BY <2>3, <2>4
  <1> QED  BY <1>3, <1>4, CreatedOnce, StepKeeps

TreeInv == TypeInv /\ Rooted /\ OldLinks /\ \A c \in Call : Fresh(c)

LEMMA InitTreeInv == Init => TreeInv
  <1> SUFFICES ASSUME Init PROVE TreeInv  OBVIOUS
  <1>1. PICK kind \in [Node -> {"none", "dir", "file", "link"}] :
          /\ \A n \in Node : \A a \in Above[n] : kind[n] # "none" => kind[a] = "dir"
          /\ \A n \in Node : kind[n] # "none" => (kind[n] = "link" <=> leads[n] # n)
          /\ node = [n \in Node |-> Plain(kind[n], Nobody)]
    BY DEF Init
  <1>2. \A n \in Node : node[n].kind = kind[n]  BY <1>1 DEF Plain
  <1>3. Rooted  BY <1>1, <1>2, ConstantsAssumption DEF Rooted, Exists
  <1>4. OldLinks  BY <1>1, <1>2 DEF OldLinks, Exists
  <1> QED  BY <1>3, <1>4, InitTypeInv DEF Init, Fresh, TreeInv

LEMMA StepTreeInv == TreeInv /\ [Next]_vars => TreeInv'
  <1> SUFFICES ASSUME TreeInv, [Next]_vars PROVE TreeInv'  OBVIOUS
  <1>1. CASE UNCHANGED vars
    BY <1>1 DEF TreeInv, TypeInv, TypeOK, Marked, Writing, Charged, MaxTotal, At, Rooted, OldLinks,
       Fresh, Exists, vars, callVars, loopVars
  <1>2. ASSUME NEW c \in Call, Step(c) \/ Crash(c) PROVE TreeInv'
    BY <1>2, StepTypeInv, StepRooted, StepOldLinks, StepFresh DEF TreeInv, TypeInv
  <1> QED  BY <1>1, <1>2 DEF Next

THEOREM TreeInvariance == Spec => []TreeInv
  BY InitTreeInv, StepTreeInv, PTL DEF Spec

(* What was there before and is found under a name is what the name leads   *)
(* to over the links of the start.                                          *)
LEMMA FoundIsAimed ==
  ASSUME TypeOK, OldLinks, NEW k \in Node, Exists(Real(k)), node[Real(k)].of = Nobody
  PROVE  leads[k] = Real(k)
  <1>1. CASE \E l \in Above[k] \cup {k} : node[l].kind = "link"  BY <1>1 DEF Real
  <1>2. CASE \A l \in Above[k] \cup {k} : node[l].kind # "link"
    <2>1. Real(k) = k  BY <1>2 DEF Real
    <2> QED  BY <1>2, <2>1 DEF OldLinks
  <1> QED  BY <1>1, <1>2

(* What was there before any call is as it was after every step of every    *)
(* call, the cleanups included, unless an entry names it, itself or through *)
(* a link, or it is a link at a destination.                                *)
THEOREM Preexisting == Spec => PreexistingKept
  <1> DEFINE Keeps == \A n \in Node :
               /\ Exists(n) /\ node[n].of = Nobody /\ ~Aimed(n)
               /\ node[n].kind = "link" => \A c \in Call : n # Root[c]
               => node'[n] = node[n]
  <1>1. TreeInv /\ [Next]_vars => [Keeps]_vars
    <2> SUFFICES ASSUME TreeInv, NEW c \in Call, Step(c) \/ Crash(c),
                        NEW n \in Node, Exists(n), node[n].of = Nobody, ~Aimed(n),
                        node[n].kind = "link" => n # Root[c]
                 PROVE  node'[n] = node[n]
      BY DEF Next
    <2>1. TypeOK /\ OldLinks /\ c # Nobody /\ Fresh(c)
      BY ConstantsAssumption DEF TreeInv, TypeInv
    <2>2. \A i \in 1..Len(archive[c]) : n # Real(archive[c][i].name)
      <3> SUFFICES ASSUME NEW i \in 1..Len(archive[c]), n = Real(archive[c][i].name) PROVE FALSE
        OBVIOUS
      <3>1. archive[c][i].name \in Node  BY <2>1, EntryAt DEF Entry
      <3>2. leads[archive[c][i].name] = n  BY <2>1, <3>1, FoundIsAimed
      <3> QED  BY <3>2 DEF Aimed
    <2>3. Changed(c, n)  BY <2>1, StepChanges
    <2>4. CASE Untouched(n)  BY <2>4 DEF Untouched
    <2>5. CASE Made(c, n)    BY <2>5 DEF Made
    <2>6. CASE Opened(c, n)
      <3>1. pos[c] \in 1..Len(archive[c])  BY <2>1, <2>6, AtEntry DEF Opened
      <3> QED  BY <2>2, <2>6, <3>1 DEF Opened, At
    <2>7. CASE Grown(c, n)   BY <2>1, <2>7 DEF Grown
    <2>8. CASE Adjusted(c, n)
      BY <2>1, <2>2, <2>8 DEF Adjusted, TypeOK
    <2>9. CASE Removed(c, n)
      BY <2>1, <2>9 DEF Removed, Fresh
    <2> QED  BY <2>3, <2>4, <2>5, <2>6, <2>7, <2>8, <2>9 DEF Changed
  <1> QED  BY <1>1, TreeInvariance, PTL DEF Spec, PreexistingKept

-----------------------------------------------------------------------------
(* The limits. *)

LEMMA AtMostOneMore ==
  ASSUME NEW S, IsFiniteSet(S), NEW x, NEW T, T \subseteq S \cup {x}
  PROVE  IsFiniteSet(T) /\ Cardinality(T) <= Cardinality(S) + 1
  <1>1. IsFiniteSet(S \cup {x}) /\ Cardinality(S \cup {x}) <= Cardinality(S) + 1
        /\ Cardinality(S) \in Nat /\ Cardinality(S \cup {x}) \in Nat
    BY FS_AddElement, FS_CardinalityType
  <1>2. IsFiniteSet(T) /\ Cardinality(T) <= Cardinality(S \cup {x}) /\ Cardinality(T) \in Nat
    BY <1>1, FS_Subset, FS_CardinalityType
  <1> QED  BY <1>1, <1>2

(* What a call has on disk is finite. *)
LEMMA FiniteOutput ==
  ASSUME NEW c \in Call
  PROVE  /\ IsFiniteSet(UnitsOf(c)) /\ Cardinality(UnitsOf(c)) \in Nat
         /\ IsFiniteSet(FilesOf(c)) /\ Cardinality(FilesOf(c)) \in Nat
  <1>1. IsFiniteSet(1..MaxInt)
    <2>1. MaxInt \in Int /\ 1 \in Int  BY SizesAreNumbers
    <2> QED  BY <2>1, FS_Interval
  <1>2. IsFiniteSet(Node \X (1..MaxInt))  BY <1>1, ConstantsAssumption, FS_Product
  <1>3. IsFiniteSet(UnitsOf(c))  BY <1>2, FS_Subset DEF UnitsOf
  <1>4. IsFiniteSet(FilesOf(c))  BY ConstantsAssumption, FS_Subset DEF FilesOf
  <1> QED  BY <1>3, <1>4, FS_CardinalityType

(* Only a copied chunk adds a unit, and only opening a file adds a file. *)
LEMMA StepOutput ==
  ASSUME TypeOK, NEW c \in Call, Writing(c), Step(c) \/ Crash(c)
  PROVE  /\ \A d \in Call \ {c} :
              UnitsOf(d)' \subseteq UnitsOf(d) /\ FilesOf(d)' \subseteq FilesOf(d)
         /\ IF pc[c] = "copy" /\ pc'[c] = "copy"
              THEN \E u : UnitsOf(c)' \subseteq UnitsOf(c) \cup {u}
              ELSE UnitsOf(c)' \subseteq UnitsOf(c)
         /\ IF pc[c] = "create" /\ pc'[c] = "copy"
              THEN FilesOf(c)' \subseteq FilesOf(c) \cup {Real(At(c).name)}
              ELSE FilesOf(c)' \subseteq FilesOf(c)
  <1>1. ASSUME NEW d \in Call \ {c}
        PROVE  UnitsOf(d)' \subseteq UnitsOf(d) /\ FilesOf(d)' \subseteq FilesOf(d)
    BY Foreign DEF UnitsOf, FilesOf
  <1>2. ASSUME NEW n \in Node, node'[n].of = c, NEW k \in 1..MaxInt, k <= node'[n].len
        PROVE  \/ node[n].of = c /\ k <= node[n].len
               \/ /\ pc[c] = "copy" /\ pc'[c] = "copy"
                  /\ node[n].of = c /\ node[n].at = pos[c] /\ k = moved[c] + 1
    <2>1. node[n] \in NodeState /\ c # Nobody  BY ConstantsAssumption DEF TypeOK
    <2>2. Changed(c, n)  BY StepChanges
    <2>3. CASE Untouched(n)    BY <1>2, <2>3 DEF Untouched
    <2>4. CASE Made(c, n)      BY <1>2, <2>4 DEF Made, NewDir, Plain
    <2>5. CASE Opened(c, n)    BY <1>2, <2>5 DEF Opened
    <2>6. CASE Grown(c, n)
      <3>1. node'[n].len = node[n].len + 1 /\ node[n].len \in Nat
        BY <2>1, <2>6 DEF Grown, NodeState
      <3>2. node[n].len = moved[c]  BY <2>6 DEF Grown, Writing
      <3> QED  BY <1>2, <2>6, <3>1, <3>2 DEF Grown
    <2>7. CASE Adjusted(c, n)  BY <1>2, <2>1, <2>7 DEF Adjusted, NodeState
    <2>8. CASE Removed(c, n)   BY <1>2, <2>1, <2>8 DEF Removed, Missing, Plain
    <2> QED  BY <2>2, <2>3, <2>4, <2>5, <2>6, <2>7, <2>8 DEF Changed
  <1>3. ASSUME NEW n \in Node, node'[n].kind = "file", node'[n].of = c
        PROVE  \/ node[n].kind = "file" /\ node[n].of = c
               \/ pc[c] = "create" /\ pc'[c] = "copy" /\ n = Real(At(c).name)
    <2>1. node[n] \in NodeState /\ c # Nobody  BY ConstantsAssumption DEF TypeOK
    <2>2. Changed(c, n)  BY StepChanges
    <2>3. CASE Untouched(n)    BY <1>3, <2>3 DEF Untouched
    <2>4. CASE Made(c, n)      BY <1>3, <2>4 DEF Made, NewDir, Plain
    <2>5. CASE Opened(c, n)    BY <2>5 DEF Opened
    <2>6. CASE Grown(c, n)     BY <1>3, <2>1, <2>6 DEF Grown, NodeState
    <2>7. CASE Adjusted(c, n)  BY <1>3, <2>1, <2>7 DEF Adjusted, NodeState
    <2>8. CASE Removed(c, n)   BY <1>3, <2>1, <2>8 DEF Removed, Missing, Plain
    <2> QED  BY <2>2, <2>3, <2>4, <2>5, <2>6, <2>7, <2>8 DEF Changed
  <1>4. \A u \in UnitsOf(c)' :
          \/ u \in UnitsOf(c)
          \/ /\ pc[c] = "copy" /\ pc'[c] = "copy"
             /\ node[u[1]].of = c /\ node[u[1]].at = pos[c] /\ u = <<u[1], moved[c] + 1>>
    <2> SUFFICES ASSUME NEW u \in Node \X (1..MaxInt), node'[u[1]].of = c, u[2] <= node'[u[1]].len
                 PROVE  \/ node[u[1]].of = c /\ u[2] <= node[u[1]].len
                        \/ /\ pc[c] = "copy" /\ pc'[c] = "copy"
                           /\ node[u[1]].of = c /\ node[u[1]].at = pos[c]
                           /\ u = <<u[1], moved[c] + 1>>
      BY DEF UnitsOf
    <2>1. u[1] \in Node /\ u[2] \in 1..MaxInt /\ u = <<u[1], u[2]>>  OBVIOUS
    <2> QED  BY <1>2, <2>1
  <1>5. ASSUME pc[c] = "copy" PROVE \E u : UnitsOf(c)' \subseteq UnitsOf(c) \cup {u}
    <2>1. CASE \E p \in Node : node[p].of = c /\ node[p].at = pos[c]
      <3>1. PICK p \in Node : node[p].of = c /\ node[p].at = pos[c]  BY <2>1
      <3>2. \A n \in Node : node[n].of = c /\ node[n].at = pos[c] => n = p
        BY <1>5, <3>1 DEF Writing
      <3>3. \A u \in UnitsOf(c)' : u[1] \in Node  BY DEF UnitsOf
      <3>4. UnitsOf(c)' \subseteq UnitsOf(c) \cup {<<p, moved[c] + 1>>}
        BY <1>4, <3>2, <3>3
      <3> QED  BY <3>4
    <2>2. CASE ~\E p \in Node : node[p].of = c /\ node[p].at = pos[c]
      <3>1. \A u \in UnitsOf(c)' : u[1] \in Node  BY DEF UnitsOf
      <3>2. UnitsOf(c)' \subseteq UnitsOf(c) \cup {c}  BY <1>4, <2>2, <3>1
      <3> QED  BY <3>2
    <2> QED  BY <2>1, <2>2
  <1> QED  BY <1>1, <1>3, <1>4, <1>5 DEF FilesOf

(* The bytes on disk are among those charged, and the files among the       *)
(* entries counted.                                                         *)
UnitsWithin(c) ==
  Cardinality(UnitsOf(c)) <= total[c] /\ Cardinality(UnitsOf(c)) <= MaxTotal(c)

FilesWithin(c) ==
  /\ Cardinality(FilesOf(c)) <= FilesLimit(c)
  /\ Format[c] = "tar" =>
       /\ Cardinality(FilesOf(c)) <= count[c]
       /\ pc[c] = "create" => Cardinality(FilesOf(c)) < count[c] /\ count[c] <= FilesLimit(c)
  /\ Format[c] = "zip" =>
       /\ pc[c] \in {"begin", "stat", "next", "create"} => Cardinality(FilesOf(c)) < pos[c]
       /\ pc[c] = "copy" => Cardinality(FilesOf(c)) <= pos[c]
       /\ pc[c] \in {"next", "create", "copy"} => Len(archive[c]) <= FilesLimit(c)

LEMMA StepUnits ==
  ASSUME TypeOK, NEW c \in Call, Writing(c), Step(c) \/ Crash(c), UnitsWithin(c)
  PROVE  UnitsWithin(c)'
  <1>1. /\ total[c] \in Nat /\ MaxTotal(c) \in Nat /\ MaxTotal(c)' = MaxTotal(c)
        /\ DOMAIN total = Call /\ pc \in [Call -> Label]
    BY LimitType, ConstantsAssumption DEF TypeOK, MaxTotal
  <1>2. IsFiniteSet(UnitsOf(c)) /\ Cardinality(UnitsOf(c)) \in Nat  BY FiniteOutput
  <1>3. CASE pc[c] = "copy" /\ pc'[c] = "copy"
    <2>1. total'[c] = total[c] + 1 /\ total[c] + 1 <= MaxTotal(c)
      BY <1>1, <1>3 DEF Step, Crash, Begin, StatDst, HeaderFails, SkipMeta, Reject, ExtractDir,
         MakeParents, Create, CopyChunk, OverBudget, CopyDone, ArchiveEnds, Adjust, AdjustDone,
         Cleanup, Goto, Ended, Label
    <2>2. IsFiniteSet(UnitsOf(c)') /\ Cardinality(UnitsOf(c)') <= Cardinality(UnitsOf(c)) + 1
      BY <1>2, <1>3, StepOutput, AtMostOneMore
    <2>3. Cardinality(UnitsOf(c)') \in Nat  BY <2>2, FS_CardinalityType
    <2> QED  BY <1>1, <1>2, <2>1, <2>2, <2>3 DEF UnitsWithin
  <1>4. CASE ~(pc[c] = "copy" /\ pc'[c] = "copy")
    <2>1. total'[c] \in {total[c], total[c] + 1}
      BY <1>1 DEF Step, Crash, Begin, StatDst, HeaderFails, SkipMeta, Reject, ExtractDir,
         MakeParents, Create, CopyChunk, CopyDone, ArchiveEnds, Adjust, AdjustDone,
         Cleanup, loopVars
    <2>2. UnitsOf(c)' \subseteq UnitsOf(c)  BY <1>4, StepOutput
    <2>3. Cardinality(UnitsOf(c)') <= Cardinality(UnitsOf(c)) /\ Cardinality(UnitsOf(c)') \in Nat
      BY <1>2, <2>2, FS_Subset, FS_CardinalityType
    <2> QED  BY <1>1, <1>2, <2>1, <2>3 DEF UnitsWithin
  <1> QED  BY <1>3, <1>4

LEMMA StepFiles ==
  ASSUME TypeOK, NEW c \in Call, Writing(c), Step(c) \/ Crash(c), FilesWithin(c)
  PROVE  FilesWithin(c)'
  <1>1. /\ count[c] \in Nat /\ FilesLimit(c) \in Nat /\ FilesLimit(c)' = FilesLimit(c)
        /\ DOMAIN count = Call /\ DOMAIN pos = Call /\ pc \in [Call -> Label]
        /\ pos[c] \in Nat \ {0} /\ Len(archive[c]) \in Nat
        /\ archive' = archive /\ Format[c] \in {"tar", "zip"}
    <2>1. archive' = archive  BY StepKeeps
    <2>2. Format[c] \in {"tar", "zip"} /\ archive[c] \in Seq(Entry)
      BY ConstantsAssumption DEF TypeOK
    <2> QED  BY <2>1, <2>2, SizesAreNumbers DEF TypeOK, FilesLimit
  <1>2. IsFiniteSet(FilesOf(c)) /\ Cardinality(FilesOf(c)) \in Nat  BY FiniteOutput
  <1>3. CASE pc[c] = "create" /\ pc'[c] = "copy"
    <2>1. pos'[c] = pos[c] /\ count'[c] = count[c]
      BY <1>1, <1>3 DEF Step, Crash, Begin, StatDst, HeaderFails, SkipMeta, Reject, ExtractDir,
         MakeParents, Create, CopyChunk, CopyDone, ArchiveEnds, Adjust, AdjustDone,
         Cleanup, Goto, Ended, Label
    <2>2. IsFiniteSet(FilesOf(c)') /\ Cardinality(FilesOf(c)') <= Cardinality(FilesOf(c)) + 1
      BY <1>2, <1>3, StepOutput, AtMostOneMore
    <2>3. Cardinality(FilesOf(c)') \in Nat  BY <2>2, FS_CardinalityType
    <2>4. pos[c] <= Len(archive[c])  BY <1>3, AtEntry
    <2> QED  BY <1>1, <1>2, <1>3, <2>1, <2>2, <2>3, <2>4 DEF FilesWithin
  <1>4. CASE ~(pc[c] = "create" /\ pc'[c] = "copy")
    <2>1. FilesOf(c)' \subseteq FilesOf(c)  BY <1>4, StepOutput
    <2>2. Cardinality(FilesOf(c)') <= Cardinality(FilesOf(c)) /\ Cardinality(FilesOf(c)') \in Nat
      BY <1>2, <2>1, FS_Subset, FS_CardinalityType
    <2> USE <1>1, <1>2, <1>4, <2>2 DEF FilesWithin, Goto, Count, loopVars
    <2>3. CASE Begin(c)        BY <2>3 DEF Begin
    <2>4. CASE StatDst(c)      BY <2>4 DEF StatDst, TooMany
    <2>5. CASE HeaderFails(c)  BY <2>5 DEF HeaderFails
    <2>6. CASE SkipMeta(c)     BY <2>6 DEF SkipMeta
    <2>7. CASE Reject(c)       BY <2>7 DEF Reject
    <2>8. CASE ExtractDir(c)   BY <2>8 DEF ExtractDir
    <2>9. CASE MakeParents(c)  BY <2>9 DEF MakeParents, Rejected, Counts
    <2>10. CASE Create(c)      BY <2>10 DEF Create
    <2>11. CASE CopyChunk(c)   BY <2>11 DEF CopyChunk
    <2>12. CASE CopyDone(c)    BY <2>12 DEF CopyDone
    <2>13. CASE ArchiveEnds(c) BY <2>13 DEF ArchiveEnds, AfterEnd
    <2>14. CASE Adjust(c)      BY <2>14 DEF Adjust
    <2>15. CASE AdjustDone(c)  BY <2>15 DEF AdjustDone
    <2>16. CASE Cleanup(c)     BY <2>16 DEF Cleanup
    <2>17. CASE Crash(c)       BY <2>17 DEF Crash
    <2> QED
      BY <2>3, <2>4, <2>5, <2>6, <2>7, <2>8, <2>9, <2>10, <2>11, <2>12, <2>13,
         <2>14, <2>15, <2>16, <2>17 DEF Step
  <1> QED  BY <1>3, <1>4

LimitInv == TypeInv /\ \A c \in Call : UnitsWithin(c) /\ FilesWithin(c)

LEMMA InitLimitInv == Init => LimitInv
  <1> SUFFICES ASSUME Init, NEW c \in Call PROVE UnitsWithin(c) /\ FilesWithin(c)
    BY InitTypeInv DEF LimitInv
  <1>1. \A n \in Node : node[n].of = Nobody  BY DEF Init, Plain
  <1>2. UnitsOf(c) = {} /\ FilesOf(c) = {}
    BY <1>1, ConstantsAssumption DEF UnitsOf, FilesOf
  <1>3. MaxTotal(c) \in 1..MaxInt /\ FilesLimit(c) \in 1..MaxInt  BY LimitType
  <1>4. Cardinality({}) = 0 BY FS_EmptySet
  <1> QED  BY <1>2, <1>3, <1>4 DEF Init, UnitsWithin, FilesWithin

LEMMA StepLimitInv == LimitInv /\ [Next]_vars => LimitInv'
  <1> SUFFICES ASSUME LimitInv, [Next]_vars PROVE LimitInv'  OBVIOUS
  <1>1. CASE UNCHANGED vars
    <2>1. TypeInv'
      BY <1>1 DEF LimitInv, TypeInv, TypeOK, Marked, Writing, Charged, MaxTotal, At,
         vars, callVars, loopVars
    <2>2. ASSUME NEW c \in Call PROVE UnitsWithin(c)' /\ FilesWithin(c)'
      <3>1. UnitsWithin(c) /\ FilesWithin(c)  BY DEF LimitInv
      <3> QED  BY <1>1, <3>1 DEF UnitsWithin, FilesWithin, UnitsOf, FilesOf, FilesLimit, MaxTotal,
               vars, callVars, loopVars
    <2> QED  BY <2>1, <2>2 DEF LimitInv
  <1>2. ASSUME NEW c \in Call, Step(c) \/ Crash(c) PROVE LimitInv'
    <2>1. TypeInv' /\ TypeOK /\ Writing(c)  BY <1>2, StepTypeInv DEF LimitInv, TypeInv
    <2>2. UnitsWithin(c)' /\ FilesWithin(c)'
      BY <1>2, <2>1, StepUnits, StepFiles DEF LimitInv
    <2>3. ASSUME NEW d \in Call \ {c} PROVE UnitsWithin(d)' /\ FilesWithin(d)'
      <3>1. UnitsOf(d)' \subseteq UnitsOf(d) /\ FilesOf(d)' \subseteq FilesOf(d)
        BY <1>2, <2>1, StepOutput
      <3>2. /\ Cardinality(UnitsOf(d)') <= Cardinality(UnitsOf(d))
            /\ Cardinality(FilesOf(d)') <= Cardinality(FilesOf(d))
            /\ Cardinality(UnitsOf(d)') \in Nat /\ Cardinality(UnitsOf(d)) \in Nat
            /\ Cardinality(FilesOf(d)') \in Nat /\ Cardinality(FilesOf(d)) \in Nat
        BY <3>1, FiniteOutput, FS_Subset, FS_CardinalityType
      <3>3. /\ total[d] \in Nat /\ count[d] \in Nat /\ pos[d] \in Nat
            /\ MaxTotal(d) \in Nat /\ FilesLimit(d) \in Nat
        BY <2>1, SizesAreNumbers DEF TypeOK
      <3>4. /\ archive' = archive /\ pc'[d] = pc[d] /\ pos'[d] = pos[d]
            /\ count'[d] = count[d] /\ total'[d] = total[d]
        BY <1>2, <2>1, StepKeeps
      <3>5. UnitsWithin(d) /\ FilesWithin(d)  BY DEF LimitInv
      <3> QED  BY <3>2, <3>3, <3>4, <3>5 DEF UnitsWithin, FilesWithin, MaxTotal, FilesLimit
    <2> QED  BY <2>1, <2>2, <2>3 DEF LimitInv
  <1> QED  BY <1>1, <1>2 DEF Next

(* Whatever an archive declares, and however calls interleave, a call has   *)
(* never more units on disk than the total limit, nor more files than the   *)
(* entry limit.                                                             *)
THEOREM LimitsKept == Spec => []WithinLimits
  <1>1. LimitInv => WithinLimits  BY DEF LimitInv, UnitsWithin, FilesWithin, WithinLimits
  <1> QED  BY <1>1, InitLimitInv, StepLimitInv, PTL DEF Spec
=============================================================================
