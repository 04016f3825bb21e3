------------------------- MODULE ArchiveOutcomeProofs -------------------------
(***************************************************************************)
(* Proofs about how an extraction ends, for a call that has its            *)
(* destination to itself: what a success has put there and what a failure  *)
(* leaves.                                                                 *)
(***************************************************************************)
EXTENDS ArchiveExpandProofs

Active == {"next", "create", "copy", "adjust"}

(* Where a call is in its archive, and which directories it remembers. *)
Progress(c) ==
  /\ pc[c] \in {"begin", "stat"} => pos[c] = 1 /\ seen[c] = {} /\ ~created[c]
  /\ pc[c] \in {"create", "copy"} => At(c).kind = "file"
  /\ pc[c] \in {"adjust", "ok"} => Over(c)
  /\ pc[c] = "ok" \/ Format[c] = "zip" => seen[c] = {}
  /\ \A i \in seen[c] : i < pos[c] /\ archive[c][i].kind = "dir"
  /\ \A i \in 1..Len(archive[c]) : \A j \in seen[c] :
       Final(archive[c], i) /\ archive[c][i].name = archive[c][j].name
         /\ archive[c][i].kind = "dir" /\ i < pos[c] => i = j

(* Only an adjusted directory is shut. *)
ShutByEntry ==
  \A n \in Node : Shut(n) =>
    \E c \in Call : \E i \in 1..Len(archive[c]) :
      /\ n \in {archive[c][i].name, leads[archive[c][i].name]}
      /\ archive[c][i].kind = "dir" /\ ~archive[c][i].open

(* What is in the destination is the call's, once it has started, or older. *)
Mine(c) ==
  \A n \in Under(Root[c]) : Exists(n) =>
    node[n].of = Nobody \/ (node[n].of = c /\ pc[c] \notin {"begin", "stat"})

(* The entries behind the current one are on disk, up to the directory modes *)
(* that are still to be set, and the current one as far as it is copied.     *)
Settled(c, i) ==
  LET e == archive[c][i] IN
  IF e.kind = "dir"
    THEN /\ node[e.name].kind = "dir"
         /\ Format[c] = "tar" => i \in seen[c] \/ node[e.name].open = e.open
    ELSE /\ node[e.name].kind = "file" /\ node[e.name].of = c
         /\ node[e.name].at = i /\ node[e.name].len = e.size
         /\ ~e.broken

Complete(c) ==
  /\ pc[c] \in Active \cup {"ok"} =>
       \A i \in 1..Len(archive[c]) : i < pos[c] /\ Final(archive[c], i) => Settled(c, i)
  /\ pc[c] \in Active => \A i \in seen[c] : node[archive[c][i].name].kind = "dir"
  /\ pc[c] = "copy" => LET f == node[At(c).name] IN
       f.kind = "file" /\ f.of = c /\ f.at = pos[c] /\ f.len = moved[c]

Blocked(c) == \E a \in Above[Root[c]] : node[a].kind = "file"

(* What is in the destination is an entry, or above one. *)
Traced(c) ==
  \A n \in Under(Root[c]) : Exists(n) =>
    \E i \in 1..Len(archive[c]) :
      archive[c][i].kind # "meta" /\ n \in Above[archive[c][i].name] \cup {archive[c][i].name}

(* What a failure may leave: a destination that is not the call's to remove  *)
(* stays somebody else's or cannot come to be, and one that is can be        *)
(* removed because nothing is in it but entries and what is above them.      *)
Leaving(c) ==
  /\ ~created[c] /\ pc[c] \in Active \cup {"cleanup", "failed"} =>
       \/ Exists(Root[c]) /\ node[Root[c]].of = Nobody
       \/ (\A n \in Under(Root[c]) : ~Exists(n)) /\ (pc[c] = "failed" \/ Blocked(c))
  /\ created[c] /\ pc[c] \in Active \cup {"cleanup"} => Traced(c)
  /\ created[c] /\ pc[c] = "failed" => \A n \in Under(Root[c]) : ~Exists(n)

OutcomeInv ==
  /\ TreeInv /\ ShutByEntry
  /\ \A c \in Call :
       /\ Progress(c)
       /\ Alone(c) => Mine(c) /\ Complete(c)
       /\ Alone(c) /\ Removable(c) => Leaving(c)

-----------------------------------------------------------------------------
(* Calls that share no destination share no path below it. *)

(* What another call names, and what lies above that, is neither inside the  *)
(* destination of a call that is alone there nor, inside its own, above it.  *)
LEMMA Apart ==
  ASSUME NEW c \in Call, Alone(c), NEW d \in Call \ {c}, NEW x \in Under(Root[d])
  PROVE  /\ \A n \in Above[x] \cup {x} : n \notin Under(Root[c])
         /\ x \notin Above[Root[c]]
  <1>1. /\ Root[c] \in Node /\ Root[d] \in Node /\ x \in Node
        /\ Root[d] = x \/ Root[d] \in Above[x]
    BY ConstantsAssumption DEF Under
  <1>2. Root[d] \notin Under(Root[c]) /\ Root[c] \notin Under(Root[d])
    BY DEF Alone
  <1>3. Root[c] # Root[d] /\ Root[c] \notin Above[Root[d]] /\ Root[d] \notin Above[Root[c]]
    BY <1>1, <1>2 DEF Under
  <1>4. \A n \in Above[x] \cup {x} : n \in Node /\ Above[n] \subseteq Above[x]
    BY <1>1, ConstantsAssumption
  <1>5. Root[c] # x /\ Root[c] \notin Above[x]
    <2>1. Root[d] = x => Root[c] # x /\ Root[c] \notin Above[x]  BY <1>3
    <2>2. Root[d] \in Above[x] => Root[c] # x /\ Root[c] \notin Above[x]
      BY <1>1, <1>3, ConstantsAssumption
    <2> QED  BY <1>1, <2>1, <2>2
  <1>6. \A n \in Above[x] \cup {x} : n \notin Under(Root[c])
    BY <1>4, <1>5 DEF Under
  <1>7. x \notin Above[Root[c]]
    BY <1>1, <1>3, ConstantsAssumption
  <1> QED  BY <1>6, <1>7

(* In and above a destination without links every name stands for itself. *)
LEMMA InPlace ==
  ASSUME NEW c \in Call, Alone(c), NEW k \in Node,
         \E n \in {k, leads[k], Real(k)} : n \in Under(Root[c]) \cup Above[Root[c]]
  PROVE  Real(k) = k /\ leads[k] = k
  <1>1. Real(k) \in {k, leads[k]}  BY DEF Real
  <1>2. leads[k] = k  BY <1>1 DEF Alone, Unlinked
  <1> QED  BY <1>1, <1>2

LEMMA NameUnder ==
  ASSUME TypeOK, NEW c \in Call, NEW i \in 1..Len(archive[c])
  PROVE  archive[c][i].name \in Under(Root[c]) /\ archive[c][i].name \in Node
  BY EntryAt DEF Entry, Under

LEMMA NameInPlace ==
  ASSUME TypeOK, NEW c \in Call, Alone(c), NEW i \in 1..Len(archive[c])
  PROVE  Real(archive[c][i].name) = archive[c][i].name
  BY NameUnder, InPlace

(* A directory in or above the destination of a call that is alone there is  *)
(* shut only by an entry of its own name.                                    *)
LEMMA ShutHere ==
  ASSUME TypeOK, ShutByEntry, NEW c \in Call, Alone(c),
         NEW n \in Node, n \in Under(Root[c]) \cup Above[Root[c]], Shut(n)
  PROVE  \E d \in Call : \E i \in 1..Len(archive[d]) :
           /\ archive[d][i].name = n /\ archive[d][i].kind = "dir" /\ ~archive[d][i].open
  <1>1. PICK d \in Call : \E i \in 1..Len(archive[d]) :
          /\ n \in {archive[d][i].name, leads[archive[d][i].name]}
          /\ archive[d][i].kind = "dir" /\ ~archive[d][i].open
    BY DEF ShutByEntry
  <1>2. PICK i \in 1..Len(archive[d]) :
          /\ n \in {archive[d][i].name, leads[archive[d][i].name]}
          /\ archive[d][i].kind = "dir" /\ ~archive[d][i].open
    BY <1>1
  <1>3. archive[d][i].name \in Node  BY NameUnder
  <1>4. leads[archive[d][i].name] = archive[d][i].name  BY <1>2, <1>3, InPlace
  <1> QED  BY <1>2, <1>4

(* A step of another call changes nothing in the destination of a call that  *)
(* is alone there, and leaves a file above it a file.                        *)
LEMMA Strangers ==
  ASSUME TypeOK, NEW c \in Call, Alone(c), Mine(c), NEW d \in Call \ {c}, Step(d) \/ Crash(d)
  PROVE  /\ \A n \in Under(Root[c]) : node'[n] = node[n]
         /\ \A a \in Above[Root[c]] : node[a].kind = "file" => node'[a].kind = "file"
  <1>1. ASSUME NEW x \in Under(Root[d]) PROVE x \notin Under(Root[c]) \cup Above[Root[c]]
    BY Apart
  <1>2. ASSUME NEW n \in Under(Root[c]) PROVE Untouched(n)
    <2>1. n \in Node /\ Changed(d, n)  BY StepChanges DEF Under
    <2>2. ~Made(d, n)
      <3> SUFFICES ASSUME Made(d, n) PROVE FALSE  OBVIOUS
      <3>1. At(d).name \in Under(Root[d]) /\ At(d).name \in Node
        BY AtEntry, NameUnder DEF Made, At
      <3>2. PICK k \in Above[At(d).name] \cup {At(d).name} : n = Real(k)  BY DEF Made
      <3>3. k \in Node  BY <3>1, <3>2, ConstantsAssumption
      <3>4. k = n  BY <3>2, <3>3, InPlace
      <3> QED  BY <3>1, <3>2, <3>4, Apart
    <2>3. ~Opened(d, n)
      <3> SUFFICES ASSUME Opened(d, n) PROVE FALSE  OBVIOUS
      <3>1. At(d).name \in Under(Root[d]) /\ At(d).name \in Node
        BY AtEntry, NameUnder DEF Opened, At
      <3>2. n = Real(At(d).name)  BY DEF Opened
      <3>3. At(d).name = n  BY <3>1, <3>2, InPlace
      <3> QED  BY <1>1, <3>1, <3>3
    <2>4. ~Grown(d, n)
      <3>1. d # Nobody  BY ConstantsAssumption
      <3> QED  BY <3>1 DEF Grown, Mine, Exists
    <2>5. ~Adjusted(d, n)
      <3> SUFFICES ASSUME Adjusted(d, n) PROVE FALSE  OBVIOUS
      <3>1. PICK i \in seen[d] : Real(archive[d][i].name) = n  BY DEF Adjusted
      <3>2. i \in 1..Len(archive[d])  BY DEF TypeOK
      <3>3. archive[d][i].name \in Under(Root[d]) /\ archive[d][i].name \in Node
        BY <3>2, NameUnder
      <3>4. archive[d][i].name = n  BY <3>1, <3>3, InPlace
      <3> QED  BY <1>1, <3>3, <3>4
    <2>6. ~Removed(d, n)  BY <1>1 DEF Removed
    <2> QED  BY <2>1, <2>2, <2>3, <2>4, <2>5, <2>6 DEF Changed
  <1>3. ASSUME NEW a \in Above[Root[c]], node[a].kind = "file" PROVE node'[a].kind = "file"
    <2>1. a \in Node  BY ConstantsAssumption
    <2>2. Changed(d, a) /\ node[a] \in NodeState  BY <2>1, StepChanges DEF TypeOK
    <2>3. ~Removed(d, a)  BY <1>1 DEF Removed
    <2>4. ~Made(d, a)  BY <1>3 DEF Made, Exists
    <2>5. CASE Untouched(a)    BY <1>3, <2>5 DEF Untouched
    <2>6. CASE Opened(d, a)    BY <2>6 DEF Opened
    <2>7. CASE Grown(d, a)     BY <1>3, <2>2, <2>7 DEF Grown, NodeState
    <2>8. CASE Adjusted(d, a)  BY <1>3, <2>2, <2>8 DEF Adjusted, NodeState
    <2> QED  BY <2>2, <2>3, <2>4, <2>5, <2>6, <2>7, <2>8 DEF Changed
  <1> QED  BY <1>2, <1>3 DEF Untouched

-----------------------------------------------------------------------------
(* Progress through the archive. *)

LEMMA StepProgress ==
  ASSUME TypeOK, NEW c \in Call, Step(c) \/ Crash(c), Progress(c)
  PROVE  Progress(c)'
  <1>1. /\ archive' = archive /\ DOMAIN pos = Call /\ DOMAIN seen = Call
        /\ DOMAIN created = Call /\ pc \in [Call -> Label]
        /\ pos[c] \in Nat \ {0} /\ Len(archive[c]) \in Nat
        /\ seen[c] \subseteq 1..Len(archive[c]) /\ Format[c] \in {"tar", "zip"}
    <2>1. archive[c] \in Seq(Entry) /\ Format[c] \in {"tar", "zip"}
      BY ConstantsAssumption DEF TypeOK
    <2> QED  BY <2>1, StepKeeps DEF TypeOK
  <1>2. ~Over(c) => pos[c] \in 1..Len(archive[c])  BY AtEntry
  <1> USE <1>1, <1>2 DEF Progress, Goto, At, Over, callVars, loopVars, Ended
  <1>3. CASE Begin(c)        BY <1>3 DEF Begin
  <1>4. CASE StatDst(c)      BY <1>4 DEF StatDst
  <1>5. CASE HeaderFails(c)  BY <1>5 DEF HeaderFails
  <1>6. CASE SkipMeta(c)
    <2>1. pos'[c] = pos[c] + 1 /\ pc'[c] = "next" /\ seen' = seen
          /\ archive[c][pos[c]].kind = "meta"
      BY <1>6 DEF SkipMeta
    <2>2. \A i \in Nat : i < pos'[c] <=> i < pos[c] \/ i = pos[c]  BY <2>1
    <2> QED  BY <2>1, <2>2
  <1>7. CASE Reject(c)       BY <1>7 DEF Reject
  <1>8. CASE ExtractDir(c)
    <2>1. CASE pc'[c] = "cleanup"
      BY <1>8, <2>1 DEF ExtractDir
    <2>2. CASE /\ pc'[c] = "next" /\ pos'[c] = pos[c] + 1
               /\ seen'[c] = IF Format[c] = "zip" THEN seen[c]
                   ELSE {i \in seen[c] : archive[c][i].name # At(c).name} \cup {pos[c]}
      <3>1. \A i \in Nat : i < pos'[c] <=> i < pos[c] \/ i = pos[c]  BY <2>2
      <3>2. pos[c] \in 1..Len(archive[c]) /\ archive[c][pos[c]].kind = "dir"
        BY <1>8 DEF ExtractDir
      <3>3. \A j \in seen'[c] : j < pos'[c] /\ archive[c][j].kind = "dir"
        BY <2>2, <3>1, <3>2
      <3>4. ASSUME NEW i \in 1..Len(archive[c]), NEW j \in seen'[c], Final(archive[c], i),
                   archive[c][i].name = archive[c][j].name, archive[c][i].kind = "dir",
                   i < pos'[c]
            PROVE  i = j
        <4>1. CASE i = pos[c] /\ Format[c] = "tar"
          BY <2>2, <3>4, <4>1
        <4>2. CASE i < pos[c] /\ j \in seen[c]
          BY <3>4, <4>2
        <4>3. CASE i < pos[c] /\ j = pos[c]
          BY <3>2, <3>4, <4>3 DEF Final
        <4>4. CASE Format[c] = "zip" /\ i = pos[c]
          BY <2>2, <3>4, <4>4
        <4> QED  BY <2>2, <3>1, <3>4, <4>1, <4>2, <4>3, <4>4
      <3> QED  BY <2>2, <3>3, <3>4
    <2> QED  BY <1>8, <2>1, <2>2 DEF ExtractDir
  <1>9. CASE MakeParents(c)  BY <1>9 DEF MakeParents
  <1>10. CASE Create(c)      BY <1>10 DEF Create
  <1>11. CASE CopyChunk(c)   BY <1>11 DEF CopyChunk
  <1>12. CASE CopyDone(c)
    <2>1. CASE pc'[c] = "cleanup"  BY <1>12, <2>1 DEF CopyDone
    <2>2. CASE pc'[c] = "next" /\ pos'[c] = pos[c] + 1 /\ seen' = seen
      <3>1. \A i \in Nat : i < pos'[c] <=> i < pos[c] \/ i = pos[c]  BY <2>2
      <3>2. archive[c][pos[c]].kind = "file"  BY <1>12 DEF CopyDone
      <3> QED  BY <2>2, <3>1, <3>2
    <2> QED  BY <1>12, <2>1, <2>2 DEF CopyDone
  <1>13. CASE ArchiveEnds(c) BY <1>13 DEF ArchiveEnds, AfterEnd
  <1>14. CASE Adjust(c)      BY <1>14 DEF Adjust
  <1>15. CASE AdjustDone(c)  BY <1>15 DEF AdjustDone
  <1>16. CASE Cleanup(c)     BY <1>16 DEF Cleanup
  <1>17. CASE Crash(c)       BY <1>17 DEF Crash
  <1> QED
    BY <1>3, <1>4, <1>5, <1>6, <1>7, <1>8, <1>9, <1>10, <1>11, <1>12, <1>13,
       <1>14, <1>15, <1>16, <1>17 DEF Step

-----------------------------------------------------------------------------
(* The tree. *)

LEMMA StepShut ==
  ASSUME TypeOK, ShutByEntry, NEW c \in Call, Progress(c), Step(c) \/ Crash(c)
  PROVE  ShutByEntry'
  <1> DEFINE By(n) == \E d \in Call : \E i \in 1..Len(archive[d]) :
                        /\ n \in {archive[d][i].name, leads[archive[d][i].name]}
                        /\ archive[d][i].kind = "dir" /\ ~archive[d][i].open
  <1> SUFFICES ASSUME NEW n \in Node, Shut(n)' PROVE By(n)
    BY StepKeeps DEF ShutByEntry
  <1>1. Changed(c, n) /\ node[n] \in NodeState  BY StepChanges DEF TypeOK
  <1>2. Shut(n) => By(n)  BY DEF ShutByEntry
  <1>3. CASE Adjusted(c, n)
    <2>1. PICK i \in seen[c] : Real(archive[c][i].name) = n
                             /\ node'[n] = [node[n] EXCEPT !.open = archive[c][i].open]
      BY <1>3 DEF Adjusted
    <2>2. node'[n].open = archive[c][i].open  BY <1>1, <2>1 DEF NodeState
    <2>3. i \in 1..Len(archive[c]) /\ archive[c][i].kind = "dir"
      BY DEF Progress, TypeOK
    <2>4. n \in {archive[c][i].name, leads[archive[c][i].name]}  BY <2>1 DEF Real
    <2> QED  BY <2>2, <2>3, <2>4 DEF Shut
  <1> HIDE DEF By
  <1>4. CASE Untouched(n)    BY <1>2, <1>4 DEF Untouched, Shut
  <1>5. CASE Made(c, n)      BY <1>5 DEF Made, NewDir, Plain, Shut
  <1>6. CASE Opened(c, n)    BY <1>6 DEF Opened, Shut
  <1>7. CASE Grown(c, n)     BY <1>1, <1>2, <1>7 DEF Grown, Shut, NodeState
  <1>8. CASE Removed(c, n)   BY <1>8 DEF Removed, Missing, Plain, Shut
  <1> QED  BY <1>1, <1>3, <1>4, <1>5, <1>6, <1>7, <1>8 DEF Changed

(* A call never goes back, and only Cleanup and Begin end it as failed. *)
LEMMA Forward ==
  ASSUME TypeOK, NEW c \in Call, Step(c) \/ Crash(c)
  PROVE  /\ pc'[c] # "begin"
         /\ pc'[c] = "stat" => pc[c] = "begin"
         /\ pc'[c] \in {"create", "copy", "next", "adjust", "cleanup", "ok"} =>
              pc[c] \in Active \/ StatDst(c)
         /\ pc'[c] = "failed" => Begin(c) \/ Cleanup(c)
         /\ pc[c] \notin Ended
  BY DEF TypeOK, Step, Crash, Begin, StatDst, HeaderFails, SkipMeta, Reject, ExtractDir,
     MakeParents, Create, CopyChunk, CopyDone, ArchiveEnds, AfterEnd, Adjust, AdjustDone,
     Cleanup, Goto, Active, Label, Ended

LEMMA StepMine ==
  ASSUME TypeOK, NEW c \in Call, Step(c) \/ Crash(c), Mine(c)
  PROVE  Mine(c)'
  <1> SUFFICES ASSUME NEW n \in Under(Root[c]), Exists(n)', node'[n].of # Nobody
               PROVE  node'[n].of = c /\ pc'[c] \notin {"begin", "stat"}
    BY DEF Mine, Under
  <1>1. n \in Node /\ node[n] \in NodeState  BY DEF Under, TypeOK
  <1>2. Changed(c, n)  BY <1>1, StepChanges
  <1>3. Exists(n) /\ node[n].of # Nobody => node[n].of = c /\ pc[c] \notin {"begin", "stat"}
    BY DEF Mine
  <1>4. pc'[c] \in {"begin", "stat"} => pc[c] = "begin"  BY Forward
  <1>5. CASE Untouched(n)    BY <1>3, <1>4, <1>5 DEF Untouched, Exists
  <1>6. CASE Made(c, n)      BY <1>4, <1>6 DEF Made, NewDir, Plain
  <1>7. CASE Opened(c, n)    BY <1>4, <1>7 DEF Opened
  <1>8. CASE Grown(c, n)     BY <1>1, <1>4, <1>8 DEF Grown, NodeState
  <1>9. CASE Adjusted(c, n)  BY <1>1, <1>3, <1>4, <1>9 DEF Adjusted, NodeState
  <1>10. CASE Removed(c, n)  BY <1>10 DEF Removed, Missing, Plain
  <1> QED  BY <1>2, <1>5, <1>6, <1>7, <1>8, <1>9, <1>10 DEF Changed

(* Directories stay directories until the destination is removed. *)
LEMMA DirectoryStays ==
  ASSUME TypeOK, NEW c \in Call, Step(c) \/ Crash(c), pc[c] # "cleanup",
         NEW n \in Node, node[n].kind = "dir"
  PROVE  node'[n].kind = "dir"
  <1>1. node[n] \in NodeState /\ Changed(c, n)  BY StepChanges DEF TypeOK
  <1> QED
    BY <1>1 DEF Changed, Untouched, Made, Opened, CanCreate, Grown, Adjusted, Removed,
       NodeState, Exists

-----------------------------------------------------------------------------
(* What a success has put on disk. *)

(* An entry that no later one replaces keeps what it left. *)
LEMMA StaysSettled ==
  ASSUME TypeOK, NEW c \in Call, Step(c) \/ Crash(c), Progress(c), pc'[c] \in Active \cup {"ok"},
         pc[c] \in Active, Alone(c),
         NEW i \in 1..Len(archive[c]), i < pos[c], Final(archive[c], i), Settled(c, i)
  PROVE  Settled(c, i)'
  <1> DEFINE n == archive[c][i].name
  <1>1. n \in Node /\ node[n] \in NodeState /\ archive[c][i] \in Entry
    BY EntryAt DEF Entry, TypeOK
  <1>2. Changed(c, n) /\ archive' = archive  BY <1>1, StepChanges, StepKeeps
  <1>3. CASE archive[c][i].kind = "dir"
    <2>1. node'[n].kind = "dir"  BY <1>1, <1>3, DirectoryStays DEF Settled, Active
    <2>2. CASE Format[c] # "tar"  BY <1>2, <1>3, <2>1, <2>2 DEF Settled
    <2>3. CASE Adjust(c)
      <3>1. \A j \in seen[c] : archive[c][j].name = n => j = i
        BY <1>3 DEF Progress
      <3>2. PICK j \in seen[c] :
              /\ node' = [node EXCEPT ![Real(archive[c][j].name)].open = archive[c][j].open]
              /\ seen' = [seen EXCEPT ![c] = @ \ {j}]
        BY <2>3, Forward DEF Adjust, Goto, TypeOK, Active
      <3>3. j \in 1..Len(archive[c]) /\ Real(archive[c][j].name) = archive[c][j].name
        BY NameInPlace DEF TypeOK
      <3>4. seen'[c] = seen[c] \ {j}  BY <3>2 DEF TypeOK
      <3>5. CASE j = i
        <4>1. node'[n].open = archive[c][i].open  BY <1>1, <3>2, <3>3, <3>5 DEF TypeOK, NodeState
        <4> QED  BY <1>2, <1>3, <2>1, <4>1 DEF Settled
      <3>6. CASE j # i
        <4>1. archive[c][j].name # n  BY <3>1, <3>6
        <4>2. node'[n] = node[n]  BY <1>1, <3>2, <3>3, <4>1 DEF TypeOK
        <4> QED  BY <1>2, <1>3, <2>1, <3>6, <3>4, <4>2 DEF Settled
      <3> QED  BY <3>5, <3>6
    <2>4. CASE ~Adjust(c)
      <3>1. i \in seen[c] => i \in seen'[c]
        <4>1. CASE ExtractDir(c)
          <5>1. CASE seen' = seen  BY <5>1
          <5>2. CASE seen' = [seen EXCEPT ![c] =
                     IF Format[c] = "zip" THEN @
                     ELSE {k \in @ : archive[c][k].name # At(c).name} \cup {pos[c]}]
            <6>1. archive[c][i].name # At(c).name
              <7>1. pos[c] \in i + 1..Len(archive[c]) /\ At(c).kind = "dir"
                BY <4>1, AtEntry DEF ExtractDir
              <7> QED  BY <7>1 DEF Final, At
            <6> QED  BY <5>2, <6>1 DEF TypeOK
          <5> QED  BY <4>1, <5>1, <5>2 DEF ExtractDir
        <4>2. CASE ~ExtractDir(c)
          BY <2>4, <4>2 DEF Step, Crash, Begin, StatDst, HeaderFails, SkipMeta, Reject,
             MakeParents, Create, CopyChunk, CopyDone, ArchiveEnds, AdjustDone, Cleanup, loopVars
        <4> QED  BY <4>1, <4>2
      <3>2. node'[n].open = node[n].open
        <4>1. pc[c] # "adjust" \/ node' = node
          BY <2>4 DEF Step, Crash, Begin, StatDst, HeaderFails, SkipMeta, Reject, ExtractDir,
             MakeParents, Create, CopyChunk, CopyDone, ArchiveEnds, AdjustDone, Cleanup, Goto
        <4>2. ~Adjusted(c, n) \/ node' = node  BY <4>1 DEF Adjusted
        <4>3. node[n].kind = "dir"  BY <1>3 DEF Settled
        <4> QED  BY <1>1, <1>2, <4>2, <4>3
                 DEF Changed, Untouched, Made, Opened, CanCreate, Grown, Removed, Exists,
                     NodeState, Active
      <3> QED  BY <1>2, <1>3, <2>1, <3>1, <3>2 DEF Settled
    <2> QED  BY <2>2, <2>3, <2>4
  <1>4. CASE archive[c][i].kind # "dir"
    <2>1. /\ node[n].kind = "file" /\ node[n].of = c /\ node[n].at = i
          /\ node[n].len = archive[c][i].size /\ ~archive[c][i].broken
      BY <1>4 DEF Settled
    <2>2. ~Opened(c, n)
      <3> SUFFICES ASSUME Opened(c, n) PROVE FALSE  OBVIOUS
      <3>1. pos[c] \in i + 1..Len(archive[c])  BY AtEntry DEF Opened
      <3>2. At(c).kind = "file" /\ Real(At(c).name) = n  BY DEF Opened, Progress
      <3>3. Real(At(c).name) = At(c).name  BY <3>1, AtEntry, NameInPlace DEF At, Opened
      <3> QED  BY <3>1, <3>2, <3>3 DEF Final, At
    <2>3. ~Made(c, n) /\ ~Grown(c, n) /\ ~Removed(c, n)
      BY <2>1 DEF Made, Grown, Removed, Exists, Active, TypeOK
    <2>4. /\ node'[n].kind = node[n].kind /\ node'[n].of = node[n].of
          /\ node'[n].at = node[n].at /\ node'[n].len = node[n].len
      BY <1>1, <1>2, <2>2, <2>3 DEF Changed, Untouched, Adjusted, NodeState
    <2> QED  BY <1>2, <1>4, <2>1, <2>4 DEF Settled
  <1> QED  BY <1>3, <1>4

(* A directory entry that was extracted is a directory. *)
LEMMA DirExtracted ==
  ASSUME TypeOK, NEW c \in Call, Alone(c), ExtractDir(c), pc'[c] = "next"
  PROVE  /\ node'[At(c).name].kind = "dir" /\ pos'[c] = pos[c] + 1
         /\ seen'[c] = IF Format[c] = "zip" THEN seen[c]
              ELSE {i \in seen[c] : archive[c][i].name # At(c).name} \cup {pos[c]}
  <1>1. At(c).name \in Node /\ Real(At(c).name) = At(c).name
    BY AtEntry, NameInPlace DEF ExtractDir, At
  <1>2. /\ CanMkdirAll(At(c).name)
        /\ MkdirAll(c, Above[At(c).name] \cup {At(c).name})
        /\ pos' = [pos EXCEPT ![c] = @ + 1]
        /\ seen' = [seen EXCEPT ![c] =
                     IF Format[c] = "zip" THEN @
                     ELSE {i \in @ : archive[c][i].name # At(c).name} \cup {pos[c]}]
    BY DEF ExtractDir, Goto, TypeOK
  <1>3. node'[At(c).name].kind = "dir"
    BY <1>1, <1>2 DEF CanMkdirAll, MkdirAll, Exists, NewDir, Plain, TypeOK, NodeState
  <1> QED  BY <1>2, <1>3 DEF TypeOK

LEMMA StepComplete ==
  ASSUME TypeOK, NEW c \in Call, Alone(c), Step(c) \/ Crash(c), Progress(c), Complete(c)
  PROVE  Complete(c)'
  <1>1. /\ archive' = archive /\ pc \in [Call -> Label]
        /\ pos[c] \in Nat \ {0} /\ seen[c] \subseteq 1..Len(archive[c])
    BY StepKeeps DEF TypeOK
  <1>2. CASE StatDst(c)
    <2>1. pos'[c] = 1 /\ seen'[c] = {}  BY <1>2 DEF StatDst, Goto, Progress, loopVars
    <2>2. pc'[c] # "copy"  BY <1>1, <1>2 DEF StatDst, Goto
    <2> QED  BY <1>1, <2>1, <2>2 DEF Complete
  <1>3. CASE pc[c] \in Active /\ pc'[c] \in Active \cup {"ok"}
    <2>1. pc[c] # "cleanup"  BY <1>3 DEF Active
    <2>2. ASSUME NEW i \in 1..Len(archive[c]), i < pos'[c], Final(archive[c], i)
          PROVE  Settled(c, i)'
      <3>1. CASE i < pos[c]
        <4>1. Settled(c, i)  BY <1>3, <2>2, <3>1 DEF Complete
        <4> QED  BY <1>3, <2>2, <3>1, <4>1, StaysSettled
      <3>2. CASE ~(i < pos[c])
        <4>1. pos'[c] # pos[c]  BY <2>2, <3>2
        <4>2. CASE SkipMeta(c)
          <5>1. pos'[c] = pos[c] + 1  BY <4>2 DEF SkipMeta, TypeOK
          <5>2. i = pos[c]  BY <1>1, <2>2, <3>2, <5>1
          <5> QED  BY <2>2, <4>2, <5>2 DEF SkipMeta, Final, At
        <4>3. CASE ExtractDir(c)
          <5>1. pc'[c] = "next"  BY <1>1, <1>3, <4>3 DEF ExtractDir, Goto, Active
          <5>2. i = pos[c]
            <6>1. pos'[c] = pos[c] + 1  BY <4>3, <5>1, DirExtracted
            <6> QED  BY <1>1, <2>2, <3>2, <6>1
          <5>3. archive[c][i].kind = "dir" /\ At(c) = archive[c][i]  BY <4>3, <5>2 DEF ExtractDir, At
          <5>4. Format[c] = "tar" => i \in seen'[c]  BY <4>3, <5>1, <5>2, DirExtracted
          <5> QED  BY <1>1, <4>3, <5>1, <5>3, <5>4, DirExtracted DEF Settled
        <4>4. CASE CopyDone(c)
          <5>1. /\ pos'[c] = pos[c] + 1 /\ node' = node /\ pc[c] = "copy"
                /\ moved[c] = At(c).size /\ ~At(c).broken
            BY <4>1, <4>4 DEF CopyDone, TypeOK
          <5>2. i = pos[c]  BY <1>1, <2>2, <3>2, <5>1
          <5>3. At(c).kind = "file" /\ At(c) = archive[c][i]  BY <5>1, <5>2 DEF Progress, At
          <5>4. LET f == node[At(c).name] IN
                  f.kind = "file" /\ f.of = c /\ f.at = pos[c] /\ f.len = moved[c]
            BY <5>1 DEF Complete
          <5> QED  BY <1>1, <5>1, <5>2, <5>3, <5>4 DEF Settled
        <4> QED
          BY <4>1, <4>2, <4>3, <4>4
          DEF Step, Crash, Begin, StatDst, HeaderFails, Reject, MakeParents, Create,
              CopyChunk, ArchiveEnds, Adjust, AdjustDone, Cleanup, loopVars
      <3> QED  BY <3>1, <3>2
    <2>3. ASSUME NEW i \in seen'[c] PROVE node'[archive[c][i].name].kind = "dir"
      <3>1. CASE i \in seen[c]
        <4>1. archive[c][i].name \in Node  BY <1>1, <3>1, NameUnder
        <4>2. node[archive[c][i].name].kind = "dir"  BY <1>3, <3>1 DEF Complete
        <4> QED  BY <2>1, <4>1, <4>2, DirectoryStays
      <3>2. CASE i \notin seen[c]
        <4>1. ExtractDir(c)
          <5>1. ~Adjust(c)
            <6> SUFFICES ASSUME Adjust(c) PROVE FALSE  OBVIOUS
            <6>1. seen' = seen \/ \E j \in seen[c] : seen' = [seen EXCEPT ![c] = @ \ {j}]
              BY DEF Adjust
            <6> QED  BY <2>3, <3>2, <6>1 DEF TypeOK
          <5>2. seen' # seen  BY <2>3, <3>2
          <5> QED  BY <5>1, <5>2 DEF Step, Crash, Begin, StatDst, HeaderFails, SkipMeta, Reject,
             MakeParents, Create, CopyChunk, CopyDone, ArchiveEnds, AdjustDone, Cleanup, loopVars
        <4>2. pc'[c] = "next"  BY <1>1, <1>3, <4>1 DEF ExtractDir, Goto, Active
        <4>3. i = pos[c]  BY <2>3, <3>2, <4>1, <4>2, DirExtracted
        <4> QED  BY <4>1, <4>2, <4>3, DirExtracted DEF At
      <3> QED  BY <3>1, <3>2
    <2>4. ASSUME pc'[c] = "copy"
          PROVE  LET n == At(c).name IN
                   /\ node'[n].kind = "file" /\ node'[n].of = c /\ node'[n].at = pos[c]
                   /\ node'[n].len = moved'[c] /\ pos'[c] = pos[c]
      <3>1. CASE Create(c)
        <4>1. At(c).name \in Node /\ Real(At(c).name) = At(c).name
          BY <3>1, AtEntry, NameInPlace DEF Create, At
        <4> QED  BY <1>1, <2>4, <3>1, <4>1 DEF Create, Goto, TypeOK
      <3>2. CASE CopyChunk(c)
        <4> DEFINE n == At(c).name
        <4>1. n \in Node /\ node[n] \in NodeState  BY <3>2, AtEntry DEF CopyChunk, TypeOK
        <4>2. node[n].kind = "file" /\ node[n].of = c /\ node[n].at = pos[c]
              /\ node[n].len = moved[c]
          BY <3>2 DEF CopyChunk, Complete
        <4>3. /\ node' = [m \in Node |->
                   IF node[m].kind = "file" /\ node[m].of = c /\ node[m].at = pos[c]
                     THEN [node[m] EXCEPT !.len = @ + 1] ELSE node[m]]
              /\ moved' = [moved EXCEPT ![c] = @ + 1] /\ pos' = pos
          BY <1>1, <2>4, <3>2, <4>2 DEF CopyChunk, Goto
        <4>4. node'[n] = [node[n] EXCEPT !.len = @ + 1]  BY <4>1, <4>2, <4>3
        <4>5. moved'[c] = moved[c] + 1  BY <4>3 DEF TypeOK
        <4> QED  BY <4>1, <4>2, <4>3, <4>4, <4>5 DEF NodeState
      <3> QED
        BY <1>1, <2>4, <3>1, <3>2
        DEF Step, Crash, Begin, StatDst, HeaderFails, SkipMeta, Reject, ExtractDir,
            MakeParents, CopyDone, ArchiveEnds, AfterEnd, Adjust, AdjustDone, Cleanup, Goto
    <2>5. At(c)' = At(c) \/ pc'[c] # "copy"  BY <1>1, <2>4 DEF At
    <2> QED  BY <1>1, <2>2, <2>3, <2>4, <2>5 DEF Complete
  <1>4. CASE pc'[c] \notin Active \cup {"ok"}
    BY <1>4 DEF Complete, Active
  <1> QED  BY <1>2, <1>3, <1>4, Forward DEF Active

-----------------------------------------------------------------------------
(* What a failure leaves. *)

(* Nothing comes to be below a file. *)
LEMMA BlockedStays ==
  ASSUME TypeOK, Rooted, OldLinks, NEW c \in Call, Step(c) \/ Crash(c), ~created[c], Blocked(c)
  PROVE  Blocked(c)' /\ \A n \in Under(Root[c]) : ~Exists(n)'
  <1>1. PICK a \in Above[Root[c]] : node[a].kind = "file"  BY DEF Blocked
  <1>2. a \in Node /\ node[a] \in NodeState  BY <1>1, ConstantsAssumption DEF TypeOK
  <1>3. node'[a].kind = "file"
    <2>1. Changed(c, a)  BY <1>2, StepChanges
    <2>2. ~Made(c, a) /\ ~Removed(c, a)  BY <1>1 DEF Made, Removed, Exists
    <2>3. CASE Untouched(a)    BY <1>1, <2>3 DEF Untouched
    <2>4. CASE Opened(c, a)    BY <2>4 DEF Opened
    <2>5. CASE Grown(c, a)     BY <1>1, <1>2, <2>5 DEF Grown, NodeState
    <2>6. CASE Adjusted(c, a)  BY <1>1, <1>2, <2>6 DEF Adjusted, NodeState
    <2> QED  BY <2>1, <2>2, <2>3, <2>4, <2>5, <2>6 DEF Changed
  <1>4. ASSUME NEW n \in Under(Root[c]) PROVE ~Exists(n)'
    <2>1. n \in Node /\ a \in Above[n]
      BY <1>1, ConstantsAssumption DEF Under
    <2>2. Rooted'  BY StepRooted
    <2> QED  BY <1>3, <2>1, <2>2 DEF Rooted
  <1> QED  BY <1>3, <1>4 DEF Blocked

(* A destination that stat did not find missing is somebody else's, or there *)
(* is a file above it.                                                       *)
LEMMA StatFinds ==
  ASSUME TypeOK, Rooted, ShutByEntry, NEW c \in Call, Alone(c), Mine(c), pc[c] \in {"begin", "stat"}
  PROVE  /\ Exists(Root[c]) => node[Root[c]].of = Nobody
         /\ ~Exists(Root[c]) => \A n \in Under(Root[c]) : ~Exists(n)
         /\ ~Exists(Root[c]) /\ ~Created(c) => Blocked(c)
  <1>1. Root[c] \in Under(Root[c]) /\ Root[c] \in Node  BY ConstantsAssumption DEF Under
  <1>2. Exists(Root[c]) => node[Root[c]].of = Nobody  BY <1>1 DEF Mine
  <1>3. ~Exists(Root[c]) => \A n \in Under(Root[c]) : ~Exists(n)
    BY DEF Rooted, Under, Exists
  <1>4. ASSUME NEW a \in Above[Root[c]], Shut(a) PROVE FALSE
    <2>1. a \in Node  BY <1>1, <1>4, ConstantsAssumption
    <2>2. PICK d \in Call : \E i \in 1..Len(archive[d]) : archive[d][i].name = a
      BY <1>4, <2>1, ShutHere
    <2>3. a \in Under(Root[d])  BY <2>2, NameUnder
    <2>4. CASE d = c
      <3>1. a = Root[c] \/ Root[c] \in Above[a]  BY <2>3, <2>4 DEF Under
      <3> QED  BY <1>1, <1>4, <2>1, <3>1, ConstantsAssumption
    <2>5. CASE d # c  BY <1>4, <2>3, <2>5, Apart
    <2> QED  BY <2>4, <2>5
  <1>5. ~Exists(Root[c]) /\ ~Created(c) => Blocked(c)
    <2>1. Real(Root[c]) = Root[c]  BY <1>1, InPlace
    <2> QED  BY <1>4, <2>1 DEF Created, Blocked
  <1> QED  BY <1>2, <1>3, <1>5

(* Whatever a step adds to the destination is an entry or above one. *)
LEMMA StepTraced ==
  ASSUME TypeOK, NEW c \in Call, Step(c) \/ Crash(c), Alone(c), Progress(c), Traced(c)
  PROVE  Traced(c)'
  <1> DEFINE In(n) == \E i \in 1..Len(archive[c]) :
               /\ archive[c][i].kind # "meta"
               /\ n \in Above[archive[c][i].name] \cup {archive[c][i].name}
  <1> SUFFICES ASSUME NEW n \in Under(Root[c]), Exists(n)' PROVE In(n)
    BY StepKeeps DEF Traced, Under
  <1>1. n \in Node /\ node[n] \in NodeState  BY DEF Under, TypeOK
  <1>2. Changed(c, n)  BY <1>1, StepChanges
  <1>3. Exists(n) => In(n)  BY DEF Traced
  <1>4. CASE Made(c, n)
    <2>1. pos[c] \in 1..Len(archive[c]) /\ At(c).name \in Node  BY <1>4, AtEntry DEF Made
    <2>2. PICK k \in Above[At(c).name] \cup {At(c).name} : n = Real(k)  BY <1>4 DEF Made
    <2>3. k \in Node  BY <2>1, <2>2, ConstantsAssumption
    <2>4. k = n  BY <2>2, <2>3, InPlace
    <2>5. At(c).kind # "meta"  BY <1>4 DEF Made
    <2> QED  BY <2>1, <2>2, <2>4, <2>5 DEF At
  <1>5. CASE Opened(c, n)
    <2>1. pos[c] \in 1..Len(archive[c])  BY <1>5, AtEntry DEF Opened
    <2>2. n = At(c).name  BY <1>5, <2>1, NameInPlace DEF Opened, At
    <2>3. At(c).kind = "file"  BY <1>5 DEF Opened, Progress
    <2> QED  BY <2>1, <2>2, <2>3 DEF At
  <1> HIDE DEF In
  <1>6. CASE Untouched(n)    BY <1>3, <1>6 DEF Untouched, Exists
  <1>7. CASE Grown(c, n)     BY <1>1, <1>3, <1>7 DEF Grown, Exists, NodeState
  <1>8. CASE Adjusted(c, n)  BY <1>3, <1>8 DEF Adjusted
  <1>9. CASE Removed(c, n)   BY <1>9 DEF Removed, Exists, Missing, Plain
  <1> QED  BY <1>2, <1>4, <1>5, <1>6, <1>7, <1>8, <1>9 DEF Changed

(* os.RemoveAll can empty a destination that holds nothing but the entries   *)
(* of such an archive, because no directory it must enter is shut.           *)
LEMMA NothingKept ==
  ASSUME TypeOK, ShutByEntry, NEW c \in Call, Alone(c), Removable(c), Traced(c)
  PROVE  Kept(Root[c]) = {}
  <1> SUFFICES ASSUME NEW k \in Under(Root[c]), Exists(k),
                      NEW a \in Above[k] \cap Under(Root[c]), Shut(a)
               PROVE  FALSE
    BY DEF Kept
  <1>1. PICK j \in 1..Len(archive[c]) :
          archive[c][j].kind # "meta" /\ k \in Above[archive[c][j].name] \cup {archive[c][j].name}
    BY DEF Traced
  <1>2. archive[c][j].name \in Node /\ a \in Node  BY NameUnder DEF Under
  <1>3. a \in Above[archive[c][j].name]  BY <1>1, <1>2, ConstantsAssumption
  <1>4. PICK d \in Call : \E i \in 1..Len(archive[d]) :
          /\ archive[d][i].name = a /\ archive[d][i].kind = "dir" /\ ~archive[d][i].open
    BY <1>2, ShutHere
  <1>5. d = c
    <2> SUFFICES ASSUME d # c PROVE FALSE  OBVIOUS
    <2>1. a \in Under(Root[d])  BY <1>4, NameUnder
    <2> QED  BY <2>1, Apart
  <1> QED  BY <1>1, <1>3, <1>4, <1>5 DEF Removable

LEMMA StepLeaving ==
  ASSUME TypeOK, Rooted, OldLinks, ShutByEntry, NEW c \in Call, Step(c) \/ Crash(c),
         Alone(c), Removable(c), Progress(c), Mine(c), Complete(c), Fresh(c), Leaving(c)
  PROVE  Leaving(c)'
  <1>1. Root[c] \in Under(Root[c]) /\ Root[c] \in Node /\ Under(Root[c]) \subseteq Node
    BY ConstantsAssumption DEF Under
  <1>2. CASE Begin(c)
    <2>1. node' = node /\ ~created'[c] /\ pc[c] = "begin"
          /\ pc'[c] \in {"stat", "failed"}
      BY <1>2 DEF Begin, Goto, Progress, callVars, TypeOK
    <2> QED  BY <1>1, <2>1, StatFinds DEF Leaving, Active, Exists, Blocked
  <1>3. CASE StatDst(c)
    <2>1. node' = node /\ created'[c] = Created(c) /\ pc[c] = "stat"
          /\ pc'[c] \in {"next", "cleanup"}
      BY <1>3 DEF StatDst, Goto, TypeOK
    <2>2. Created(c) => \A n \in Under(Root[c]) : ~Exists(n)
      <3>1. Real(Root[c]) = Root[c]  BY <1>1, InPlace
      <3> QED  BY <2>1, <3>1, StatFinds DEF Created
    <2>3. Created(c) => Traced(c)'  BY <1>1, <2>1, <2>2 DEF Traced, Exists
    <2> QED  BY <1>1, <2>1, <2>3, StatFinds DEF Leaving, Exists, Blocked
  <1>4. CASE ~Begin(c) /\ ~StatDst(c)
    <2>1. created' = created /\ (pc[c] \in Active \cup {"cleanup"} \/ pc'[c] = "crashed")
      <3>1. created' = created  BY <1>4, CreatedOnce
      <3>2. Adjust(c) => pc[c] \in Active  BY DEF Adjust, Active
      <3>3. ~Adjust(c) => pc[c] \in Active \cup {"cleanup"} \/ pc'[c] = "crashed"
        BY <1>4 DEF Step, Crash, HeaderFails, SkipMeta, Reject, ExtractDir, MakeParents, Create,
             CopyChunk, CopyDone, ArchiveEnds, AdjustDone, Cleanup, Goto, Active, TypeOK
      <3> QED  BY <3>1, <3>2, <3>3
    <2>2. CASE pc'[c] = "crashed"  BY <2>2 DEF Leaving, Active
    <2>3. CASE ~created[c] /\ pc'[c] # "crashed"
      <3>1. \/ Exists(Root[c]) /\ node[Root[c]].of = Nobody
            \/ (\A n \in Under(Root[c]) : ~Exists(n)) /\ Blocked(c)
        BY <2>1, <2>3 DEF Leaving, Active
      <3>2. CASE Exists(Root[c]) /\ node[Root[c]].of = Nobody
        <4>1. Changed(c, Root[c]) /\ node[Root[c]] \in NodeState /\ c # Nobody
          BY <1>1, StepChanges, ConstantsAssumption DEF TypeOK
        <4>2. ~Opened(c, Root[c])
          <5> SUFFICES ASSUME Opened(c, Root[c]) PROVE FALSE  OBVIOUS
          <5>1. pos[c] \in 1..Len(archive[c])  BY AtEntry DEF Opened
          <5>2. At(c).kind = "file" /\ At(c).name = Root[c]
            BY <5>1, NameInPlace DEF Opened, Progress, At
          <5> QED  BY <5>1, <5>2 DEF Removable, At
        <4>3. Exists(Root[c])' /\ node'[Root[c]].of = Nobody
          BY <2>3, <3>2, <4>1, <4>2 DEF Changed, Untouched, Made, Grown, Adjusted, Removed,
             Exists, NodeState
        <4> QED  BY <2>1, <2>3, <4>3 DEF Leaving, Exists
      <3>3. CASE (\A n \in Under(Root[c]) : ~Exists(n)) /\ Blocked(c)
        <4>1. Blocked(c)' /\ \A n \in Under(Root[c]) : ~Exists(n)'
          BY <2>3, <3>3, BlockedStays
        <4> QED  BY <2>1, <2>3, <4>1 DEF Leaving, Exists
      <3> QED  BY <3>1, <3>2, <3>3
    <2>4. CASE created[c] /\ pc'[c] = "failed"
      <3>1. Cleanup(c)  BY <1>4, <2>4, Forward
      <3>2. Traced(c)  BY <2>4, <3>1 DEF Leaving, Cleanup, Goto
      <3>3. Kept(Root[c]) = {}  BY <3>2, NothingKept
      <3>4. \A n \in Under(Root[c]) : node'[n] = Missing
        BY <1>1, <2>4, <3>1, <3>3 DEF Cleanup
      <3>5. \A n \in Under(Root[c]) : ~Exists(n)'  BY <3>4 DEF Exists, Missing, Plain
      <3> QED  BY <2>1, <2>4, <3>5 DEF Leaving, Exists, Active
    <2>5. CASE created[c] /\ pc'[c] \in Active \cup {"cleanup"}
      <3>1. Traced(c)  BY <2>1, <2>5 DEF Leaving, Active
      <3>2. Traced(c)'  BY <3>1, StepTraced
      <3> QED  BY <2>1, <2>5, <3>2 DEF Leaving, Active
    <2>6. CASE created[c] /\ pc'[c] \notin Active \cup {"cleanup", "failed", "crashed"}
      BY <2>1, <2>6 DEF Leaving
    <2> QED  BY <2>1, <2>2, <2>3, <2>4, <2>5, <2>6 DEF TypeOK
  <1> QED  BY <1>2, <1>3, <1>4

-----------------------------------------------------------------------------
(* The invariant, and what follows. *)

(* For a call that is alone nothing that others do matters. *)
LEMMA OthersOutcome ==
  ASSUME TypeOK, NEW c \in Call, Alone(c), Mine(c), NEW d \in Call \ {c}, Step(d) \/ Crash(d)
  PROVE  /\ Mine(c)'
         /\ Progress(c) /\ Complete(c) => Complete(c)'
         /\ Leaving(c) => Leaving(c)'
  <1>1. /\ archive' = archive /\ pc'[c] = pc[c] /\ pos'[c] = pos[c] /\ moved'[c] = moved[c]
        /\ created'[c] = created[c] /\ seen'[c] = seen[c]
    BY StepKeeps
  <1>2. /\ \A n \in Under(Root[c]) : node'[n] = node[n]
        /\ \A a \in Above[Root[c]] : node[a].kind = "file" => node'[a].kind = "file"
    BY Strangers
  <1>3. Mine(c)'
    BY <1>1, <1>2 DEF Mine, Exists
  <1>4. \A i \in 1..Len(archive[c]) : node'[archive[c][i].name] = node[archive[c][i].name]
    BY <1>2, NameUnder
  <1>5. Complete(c) => Complete(c)'
    <2> SUFFICES ASSUME Complete(c) PROVE Complete(c)'  OBVIOUS
    <2>1. At(c)' = At(c)  BY <1>1 DEF At
    <2>2. pc[c] = "copy" => node'[At(c).name] = node[At(c).name]
      BY <1>4, AtEntry DEF At
    <2>3. \A i \in seen[c] : i \in 1..Len(archive[c])  BY DEF TypeOK
    <2>4. \A i \in 1..Len(archive[c]) : Settled(c, i) => Settled(c, i)'
      BY <1>1, <1>4 DEF Settled
    <2> QED  BY <1>1, <1>4, <2>1, <2>2, <2>3, <2>4 DEF Complete
  <1>6. Leaving(c) => Leaving(c)'
    <2> SUFFICES ASSUME Leaving(c) PROVE Leaving(c)'  OBVIOUS
    <2>1. Root[c] \in Under(Root[c])  BY ConstantsAssumption DEF Under
    <2>2. Blocked(c) => Blocked(c)'  BY <1>2 DEF Blocked
    <2>3. \A n \in Under(Root[c]) : Exists(n)' <=> Exists(n)  BY <1>2 DEF Exists
    <2>4. Traced(c) => Traced(c)'  BY <1>1, <2>3 DEF Traced
    <2> QED  BY <1>1, <1>2, <2>1, <2>2, <2>3, <2>4 DEF Leaving
  <1> QED  BY <1>3, <1>5, <1>6

LEMMA OthersProgress ==
  ASSUME TypeOK, NEW c \in Call, NEW d \in Call \ {c}, Step(d) \/ Crash(d), Progress(c)
  PROVE  Progress(c)'
  BY StepKeeps DEF Progress, At, Over

LEMMA InitOutcome == Init => OutcomeInv
  <1> SUFFICES ASSUME Init PROVE OutcomeInv  OBVIOUS
  <1>1. \A n \in Node : node[n].open /\ node[n].of = Nobody  BY DEF Init, Plain
  <1>2. ShutByEntry  BY <1>1 DEF ShutByEntry, Shut
  <1>3. ASSUME NEW c \in Call PROVE Progress(c) /\ Mine(c) /\ Complete(c) /\ Leaving(c)
    <2>1. pc[c] = "begin" /\ pos[c] = 1 /\ seen[c] = {} /\ ~created[c]  BY DEF Init
    <2>2. Under(Root[c]) \subseteq Node  BY DEF Under
    <2> QED  BY <1>1, <2>1, <2>2 DEF Progress, Mine, Complete, Leaving, Active
  <1> QED  BY <1>2, <1>3, InitTreeInv DEF OutcomeInv

LEMMA StepOutcome == OutcomeInv /\ [Next]_vars => OutcomeInv'
  <1> SUFFICES ASSUME OutcomeInv, [Next]_vars PROVE OutcomeInv'  OBVIOUS
  <1>1. TreeInv'  BY StepTreeInv DEF OutcomeInv
  <1>2. CASE UNCHANGED vars
    <2>1. ShutByEntry'  BY <1>2 DEF OutcomeInv, ShutByEntry, Shut, vars, callVars
    <2>2. ASSUME NEW c \in Call
          PROVE  /\ Progress(c)' <=> Progress(c)
                 /\ Mine(c)' <=> Mine(c)
                 /\ Complete(c)' <=> Complete(c)
                 /\ Leaving(c)' <=> Leaving(c)
                 /\ Removable(c)' <=> Removable(c)
                 /\ Alone(c)' <=> Alone(c)
      BY <1>2 DEF Progress, Mine, Complete, Settled, Leaving, Traced, Removable, Alone, Unlinked, Blocked,
         At, Over, Exists, Shut, vars, callVars, loopVars
    <2> QED  BY <1>1, <2>1, <2>2 DEF OutcomeInv
  <1>3. ASSUME NEW c \in Call, Step(c) \/ Crash(c) PROVE OutcomeInv'
    <2>1. /\ TypeOK /\ Rooted /\ OldLinks /\ ShutByEntry /\ Fresh(c)
          /\ \A d \in Call : Progress(d)
      BY DEF OutcomeInv, TreeInv, TypeInv
    <2>2. \A d \in Call : (Removable(d)' <=> Removable(d)) /\ (Alone(d)' <=> Alone(d))
      <3>1. archive' = archive /\ leads' = leads  BY <1>3, <2>1, StepKeeps
      <3> QED  BY <3>1 DEF Removable, Alone, Unlinked
    <2>3. ShutByEntry' /\ Progress(c)'  BY <1>3, <2>1, StepShut, StepProgress
    <2>4. Alone(c) => Mine(c)' /\ Complete(c)'
      BY <1>3, <2>1, StepMine, StepComplete DEF OutcomeInv
    <2>5. Alone(c) /\ Removable(c) => Leaving(c)'
      BY <1>3, <2>1, StepLeaving DEF OutcomeInv
    <2>6. ASSUME NEW d \in Call \ {c}
          PROVE  /\ Progress(d)'
                 /\ Alone(d) => Mine(d)' /\ Complete(d)'
                 /\ Alone(d) /\ Removable(d) => Leaving(d)'
      <3>1. c \in Call \ {d}  OBVIOUS
      <3>2. Progress(d)'  BY <1>3, <2>1, <3>1, OthersProgress
      <3>3. ASSUME Alone(d) PROVE Mine(d)' /\ Complete(d)' /\ (Removable(d) => Leaving(d)')
        BY <1>3, <2>1, <3>1, <3>3, OthersOutcome DEF OutcomeInv
      <3> QED  BY <3>2, <3>3
    <2> QED  BY <1>1, <2>2, <2>3, <2>4, <2>5, <2>6 DEF OutcomeInv
  <1> QED  BY <1>2, <1>3 DEF Next

THEOREM OutcomeInvariance == Spec => []OutcomeInv
  BY InitOutcome, StepOutcome, PTL DEF Spec

(* A call that is alone in its destination and returns no error has put     *)
(* every entry there, whole and with its mode, for every archive and every  *)
(* order in which the modes are set.                                        *)
THEOREM Completeness == Spec => []SuccessIsComplete
  <1>1. OutcomeInv => SuccessIsComplete
    <2> SUFFICES ASSUME OutcomeInv, NEW c \in Call, pc[c] = "ok", Alone(c),
                        NEW i \in 1..Len(archive[c]), Final(archive[c], i)
                 PROVE  Delivered(c, i)
      BY DEF SuccessIsComplete
    <2>1. Over(c) /\ seen[c] = {} /\ Complete(c)  BY DEF OutcomeInv, Progress
    <2>2. i < pos[c]
      <3>1. Len(archive[c]) \in Nat /\ pos[c] \in Nat
        BY ConstantsAssumption DEF OutcomeInv, TreeInv, TypeInv, TypeOK
      <3> QED  BY <2>1, <3>1 DEF Over
    <2> QED  BY <2>1, <2>2 DEF Complete, Settled, Delivered
  <1> QED  BY <1>1, OutcomeInvariance, PTL

(* A failed call that is alone in its destination leaves nothing in one it  *)
(* created, unless its archive shuts a directory around another entry or    *)
(* replaces the destination with a file.                                    *)
THEOREM FailureRemoves == Spec => []FailedRemoved
  <1>1. OutcomeInv => FailedRemoved
    BY DEF OutcomeInv, Leaving, FailedRemoved, NothingLeft, TreeInv, TypeInv, TypeOK
  <1> QED  BY <1>1, OutcomeInvariance, PTL

(* The destination that a call which is alone in it removes is the one it   *)
(* made itself: what two calls can do to each other takes a shared one.     *)
THEOREM AloneRemovesOwn ==
  Spec => [][\A c \in Call :
               Alone(c) /\ pc[c] = "cleanup" /\ pc'[c] = "failed" /\ Exists(Root[c])
                 /\ node'[Root[c]].kind = "none"
               => node[Root[c]].of = c]_vars
  <1> DEFINE Own == \A c \in Call :
               Alone(c) /\ pc[c] = "cleanup" /\ pc'[c] = "failed" /\ Exists(Root[c])
                 /\ node'[Root[c]].kind = "none"
               => node[Root[c]].of = c
  <1>1. OutcomeInv /\ [Next]_vars => [Own]_vars
    <2> SUFFICES ASSUME OutcomeInv, NEW d \in Call, Step(d) \/ Crash(d), NEW c \in Call,
                        Alone(c), pc[c] = "cleanup", pc'[c] = "failed", Exists(Root[c]),
                        node'[Root[c]].kind = "none"
                 PROVE  node[Root[c]].of = c
      BY DEF Next
    <2>1. TypeOK /\ OldLinks /\ Fresh(c) /\ Mine(c)  BY DEF OutcomeInv, TreeInv, TypeInv
    <2>2. d = c  BY <2>1, StepKeeps
    <2>3. Root[c] \in Under(Root[c]) /\ Root[c] \in Node  BY ConstantsAssumption DEF Under
    <2>4. created[c] \/ node' = node
      BY <2>1, <2>2 DEF Step, Crash, Begin, StatDst, HeaderFails, SkipMeta, Reject, ExtractDir,
         MakeParents, Create, CopyChunk, CopyDone, ArchiveEnds, Adjust, AdjustDone, Cleanup, Goto,
         TypeOK
    <2>5. node[Root[c]].kind # "link"
      <3>1. leads[Root[c]] = Root[c]  BY <2>3, InPlace
      <3> QED  BY <2>1, <2>3, <3>1 DEF OldLinks
    <2> QED  BY <2>1, <2>3, <2>4, <2>5 DEF Exists, Mine, Fresh
  <1> QED  BY <1>1, OutcomeInvariance, PTL DEF Spec
=============================================================================
