---------------------------- MODULE GatheringProofs ----------------------------
(***************************************************************************)
(* Proofs about Gathering, for any number of calls, any tree, sources and  *)
(* servers: a call returns metadata or an error.  What a call is about to  *)
(* return is settled in several places, a deferred function may change it, *)
(* and a file is closed both when it was saved alone and inside a copy.    *)
(***************************************************************************)
EXTENDS Gathering, SequenceTheorems, TLAPS

Functions == DOMAIN pc = Call /\ DOMAIN meta = Call /\ DOMAIN stack = Call

(* Metadata exists only on the way out of a call: when a saved file is about *)
(* to be closed, and at the deferred function of a git or OCI gather.        *)
Settled(c) ==
  /\ pc[c] = "ok" => meta[c] # {}
  /\ pc[c] = "close" => (meta[c] = {} <=> stack[c] # <<>>)
  /\ pc[c] = "chmod" => stack[c] # <<>>
  /\ pc[c] \notin {"close", "cleanup", "closing", "ok", "crashed"} => meta[c] = {}

IInv == Functions /\ \A c \in Call : Settled(c)

(* A step of c leaves the other calls where they are. *)
StepOf(c) ==
  /\ Functions'
  /\ \A d \in Call \ {c} : pc'[d] = pc[d] /\ meta'[d] = meta[d] /\ stack'[d] = stack[d]

(* A step of c that keeps what is settled about it keeps the invariant. *)
LEMMA StepKeeps ==
  ASSUME IInv, NEW c \in Call, StepOf(c), Settled(c)'
  PROVE  IInv'
  BY DEF IInv, Settled, StepOf

LEMMA InitIInv == Init => IInv
  BY DEF Init, IInv, Functions, Settled

-----------------------------------------------------------------------------

(* The copies make no metadata, and save makes it last. *)
LEMMA CopyKeeps ==
  ASSUME IInv, NEW c \in Call, CopyStep(c)
  PROVE  StepOf(c) /\ Settled(c)'
  <1> USE DEF IInv, Functions, Settled, StepOf, Goto, Failing, callVars, copyVars
  <1>1. CASE Enter(c)
    BY <1>1 DEF Enter, SetTop
  <1>2. CASE EnterConfined(c)
    BY <1>2 DEF EnterConfined, SetTop
  <1>3. CASE Mkdir(c)
    BY <1>3 DEF Mkdir
  <1>4. CASE ChmodDir(c)
    BY <1>4 DEF ChmodDir
  <1>5. CASE List(c)
    BY <1>5 DEF List, SetTop
  <1>6. CASE Ascend(c)
    BY <1>6 DEF Ascend
  <1>7. CASE pc[c] = "next" /\ \E e \in Top(c).todo : Descend(c, e) \/ Refuse(c, e) \/ TakeFile(c, e)
    <2> PICK e \in Top(c).todo : Descend(c, e) \/ Refuse(c, e) \/ TakeFile(c, e)
      BY <1>7
    <2>1. CASE Descend(c, e)
      BY <2>1 DEF Descend, Without, SetTop
    <2>2. CASE Refuse(c, e)
      BY <2>2 DEF Refuse
    <2>3. CASE TakeFile(c, e)
      BY <2>3 DEF TakeFile, Without, SetTop
    <2> QED
      BY <2>1, <2>2, <2>3
  <1>8. CASE Create(c)
    BY <1>8 DEF Create
  <1>9. CASE Write(c)
    BY <1>9 DEF Write
  <1>10. CASE ReadFails(c)
    BY <1>10 DEF ReadFails
  <1>11. CASE WriteDone(c)
    <2>1. CASE stack[c] = <<>>
      BY <1>11, <2>1 DEF WriteDone
    <2>2. CASE stack[c] # <<>>
      BY <1>11, <2>2 DEF WriteDone
    <2> QED
      BY <2>1, <2>2
  <1>12. CASE Chmod(c)
    BY <1>12 DEF Chmod
  <1>13. CASE Close(c)
    BY <1>13 DEF Close
  <1>14. CASE CloseFails(c)
    <2>1. CASE stack[c] = <<>>
      BY <1>14, <2>1 DEF CloseFails, MetaReset
    <2>2. CASE stack[c] # <<>>
      BY <1>14, <2>2 DEF CloseFails
    <2> QED
      BY <2>1, <2>2
  <1>15. CASE CopyFault(c)
    BY <1>15 DEF CopyFault, CopyLabel
  <1> QED
    BY <1>1, <1>2, <1>3, <1>4, <1>5, <1>6, <1>7, <1>8, <1>9, <1>10, <1>11, <1>12, <1>13,
       <1>14, <1>15 DEF CopyStep

LEMMA FileKeeps ==
  ASSUME IInv, NEW c \in Call, FileStep(c)
  PROVE  StepOf(c) /\ Settled(c)'
  <1> USE DEF IInv, Functions, Settled, StepOf, Goto, callVars, copyVars
  <1>1. CASE FileBegin(c)
    BY <1>1 DEF FileBegin
  <1>2. CASE FileStat(c)
    BY <1>2 DEF FileStat, Push
  <1>3. CASE Sniff(c)
    BY <1>3 DEF Sniff
  <1>4. CASE GetExpander(c)
    BY <1>4 DEF GetExpander
  <1>5. CASE Expand(c)
    BY <1>5 DEF Expand
  <1>6. CASE DirSize(c)
    BY <1>6 DEF DirSize
  <1>7. CASE ParseSave(c)
    BY <1>7 DEF ParseSave
  <1>8. CASE FileFault(c)
    BY <1>8 DEF FileFault
  <1> QED
    BY <1>1, <1>2, <1>3, <1>4, <1>5, <1>6, <1>7, <1>8 DEF FileStep

(* Every way out of a git gather leads to its deferred function. *)
LEMMA GitKeeps ==
  ASSUME IInv, NEW c \in Call, GitStep(c) \/ Fetch(c) \/ FetchFails(c)
  PROVE  StepOf(c) /\ Settled(c)'
  <1> USE DEF IInv, Functions, Settled, StepOf, Goto, callVars, copyVars
  <1>1. CASE GitBegin(c)
    BY <1>1 DEF GitBegin
  <1>2. CASE MkTemp(c)
    BY <1>2 DEF MkTemp
  <1>3. CASE PlainInit(c)
    BY <1>3 DEF PlainInit
  <1>4. CASE Checkout(c)
    BY <1>4 DEF Checkout
  <1>5. CASE EnterSubdir(c)
    BY <1>5 DEF EnterSubdir, Push
  <1>6. CASE HeadRef(c)
    BY <1>6 DEF HeadRef
  <1>7. CASE Cleanup(c)
    BY <1>7 DEF Cleanup, Return
  <1>8. CASE CleanupFails(c)
    BY <1>8 DEF CleanupFails, Return
  <1>9. CASE GitFault(c)
    BY <1>9 DEF GitFault
  <1>10. CASE Fetch(c)
    BY <1>10 DEF Fetch
  <1>11. CASE FetchFails(c)
    BY <1>11 DEF FetchFails
  <1> QED
    BY <1>1, <1>2, <1>3, <1>4, <1>5, <1>6, <1>7, <1>8, <1>9, <1>10, <1>11 DEF GitStep

(* A close error takes back the metadata of a finished pull. *)
LEMMA OciKeeps ==
  ASSUME IInv, NEW c \in Call,
         \/ OciStep(c) \/ Resolve(c) \/ Repeat(c) \/ RequestFails(c)
         \/ \E t \in pull[c].todo : Pull(c, t)
  PROVE  StepOf(c) /\ Settled(c)'
  <1> USE DEF IInv, Functions, Settled, StepOf, Goto, callVars, copyVars
  <1>1. CASE OciBegin(c)
    BY <1>1 DEF OciBegin
  <1>2. CASE OpenStore(c)
    BY <1>2 DEF OpenStore
  <1>3. CASE Pulled(c)
    BY <1>3 DEF Pulled
  <1>4. CASE CloseStore(c)
    BY <1>4 DEF CloseStore
  <1>5. CASE CloseStoreFails(c)
    BY <1>5 DEF CloseStoreFails, MetaReset
  <1>6. CASE OciFault(c)
    BY <1>6 DEF OciFault
  <1>7. CASE Resolve(c)
    BY <1>7 DEF Resolve
  <1>8. CASE Repeat(c)
    BY <1>8 DEF Repeat
  <1>9. CASE RequestFails(c)
    BY <1>9 DEF RequestFails, Requesting
  <1>10. CASE \E t \in pull[c].todo : Pull(c, t)
    BY <1>10 DEF Pull
  <1> QED
    BY <1>1, <1>2, <1>3, <1>4, <1>5, <1>6, <1>7, <1>8, <1>9, <1>10 DEF OciStep

-----------------------------------------------------------------------------

LEMMA StepIInv ==
  ASSUME IInv, [Next]_vars
  PROVE  IInv'
  <1>1. ASSUME NEW c \in Call, Local(c) \/ Answered(c) \/ Unanswered(c) \/ Repeat(c)
        PROVE  IInv'
    BY <1>1, CopyKeeps, FileKeeps, GitKeeps, OciKeeps, StepKeeps
    DEF Local, Answered, Unanswered
  <1>2. ASSUME NEW c \in Call, Cancel(c)
        PROVE  IInv'
    BY <1>2 DEF Cancel, IInv, Functions, Settled, copyVars
  <1>3. ASSUME NEW c \in Call, Crash(c)
        PROVE  IInv'
    <2>1. StepOf(c) /\ Settled(c)'
      BY <1>3 DEF Crash, IInv, Functions, Settled, StepOf, copyVars
    <2> QED
      BY <2>1, StepKeeps
  <1>4. ASSUME NEW c \in Call, Again(c)
        PROVE  IInv'
    <2>1. StepOf(c) /\ Settled(c)'
      BY <1>4 DEF Again, IInv, Functions, Settled, StepOf, copyVars
    <2> QED
      BY <2>1, StepKeeps
  <1>5. CASE Elsewhere
    BY <1>5 DEF Elsewhere, PushCommit, MoveTag, IInv, Functions, Settled, callVars, copyVars
  <1>6. CASE UNCHANGED vars
    BY <1>6 DEF vars, IInv, Functions, Settled, callVars, copyVars
  <1> QED
    BY <1>1, <1>2, <1>3, <1>4, <1>5, <1>6 DEF Next

THEOREM Invariance == Spec => []IInv
  BY InitIInv, StepIInv, PTL DEF Spec

(***************************************************************************)
(* file.go:203-208, oci.go:146-151, git.go:135: a call that returns has    *)
(* either metadata or an error, also when a deferred function decides.     *)
(***************************************************************************)
THEOREM ReturnsMetadataOrError == Spec => []MetadataOrError
  <1>1. IInv => MetadataOrError
    BY DEF IInv, Settled, MetadataOrError
  <1> QED
    BY <1>1, Invariance, PTL

-----------------------------------------------------------------------------
(* The stack of a copy. *)

(* A sequence of whatever a stack holds. *)
IsStack(s) == \E S : s \in Seq(S)

LEMMA StackPush ==
  ASSUME NEW s, IsStack(s), NEW f
  PROVE  /\ IsStack(Append(s, f)) /\ Append(s, f) # <<>>
         /\ Len(s) \in Nat /\ Len(Append(s, f)) = Len(s) + 1
         /\ \A i \in 1..Len(s) : Append(s, f)[i] = s[i]
         /\ Append(s, f)[Len(s) + 1] = f
  <1> PICK S : s \in Seq(S)
    BY DEF IsStack
  <1> DEFINE T == S \cup {f}
  <1>1. s \in Seq(T)
    OBVIOUS
  <1>2. Append(s, f) \in Seq(T) /\ Len(Append(s, f)) = Len(s) + 1 /\ Len(s) \in Nat
    BY <1>1
  <1> HIDE DEF T
  <1> QED
    BY <1>1, <1>2 DEF IsStack

LEMMA StackTop ==
  ASSUME NEW s, IsStack(s), s # <<>>, NEW f
  PROVE  /\ IsStack([s EXCEPT ![Len(s)] = f]) /\ [s EXCEPT ![Len(s)] = f] # <<>>
         /\ Len(s) \in Nat \ {0} /\ Len([s EXCEPT ![Len(s)] = f]) = Len(s)
         /\ \A i \in 1..Len(s) - 1 : [s EXCEPT ![Len(s)] = f][i] = s[i]
         /\ [s EXCEPT ![Len(s)] = f][Len(s)] = f
  <1> PICK S : s \in Seq(S)
    BY DEF IsStack
  <1> DEFINE T == S \cup {f}
             t == [s EXCEPT ![Len(s)] = f]
  <1>1. s \in Seq(T) /\ f \in T /\ Len(s) \in Nat \ {0}
    OBVIOUS
  <1> HIDE DEF T
  <1>2. t \in Seq(T) /\ Len(t) = Len(s)
    BY <1>1
  <1>3. t[Len(s)] = f /\ \A i \in 1..Len(s) - 1 : t[i] = s[i]
    BY <1>1
  <1>4. t # <<>>
    BY <1>1, <1>2
  <1> QED
    BY <1>1, <1>2, <1>3, <1>4 DEF IsStack

(* A prefix of a sequence. *)
LEMMA Prefixes ==
  ASSUME NEW S, NEW s \in Seq(S), NEW n \in 0..Len(s)
  PROVE  /\ SubSeq(s, 1, n) \in Seq(S) /\ Len(SubSeq(s, 1, n)) = n
         /\ \A i \in 1..n : SubSeq(s, 1, n)[i] = s[i]
  <1> DEFINE t == SubSeq(s, 1, n)
  <1>1. n \in Int /\ 1 \in Int /\ \A i \in 1..n : s[i] \in S
    OBVIOUS
  <1>2. /\ t \in Seq(S)
        /\ Len(t) = IF 1 <= n THEN n - 1 + 1 ELSE 0
        /\ \A i \in 1..n - 1 + 1 : t[i] = s[1 + i - 1]
    BY <1>1, SubSeqProperties
  <1> HIDE DEF t
  <1>3. Len(t) = n /\ \A i \in 1..n : t[i] = s[i]
    BY <1>2
  <1> QED
    BY <1>2, <1>3 DEF t

LEMMA StackPop ==
  ASSUME NEW s, IsStack(s), s # <<>>, NEW t, t = SubSeq(s, 1, Len(s) - 1)
  PROVE  /\ IsStack(t) /\ (Len(s) # 1 => t # <<>>)
         /\ Len(s) \in Nat \ {0} /\ Len(t) = Len(s) - 1
         /\ \A i \in 1..Len(s) - 1 : t[i] = s[i]
  <1> PICK S : s \in Seq(S)
    BY DEF IsStack
  <1>1. Len(s) \in Nat \ {0}
    OBVIOUS
  <1>2. Len(s) - 1 \in 0..Len(s)
    BY <1>1
  <1>3. /\ t \in Seq(S) /\ Len(t) = Len(s) - 1
        /\ \A i \in 1..Len(s) - 1 : t[i] = s[i]
    BY <1>2, Prefixes, Zenon
  <1>4. Len(s) # 1 => Len(t) # 0
    BY <1>1, <1>3
  <1>5. t = <<>> => Len(t) = 0
    BY EmptySeq, Zenon
  <1> QED
    BY <1>1, <1>3, <1>4, <1>5, Zenon DEF IsStack

-----------------------------------------------------------------------------
(* Where a call of each kind can be. *)

Job == FileJob \cup GitJob \cup OciJob

Place(c) ==
  \/ pc[c] \in {"begin", "ok", "failed", "crashed"}
  \/ IsFile(c) /\ pc[c] \in CopyLabel \cup FileLabel \cup {"panic"}
  \/ IsGit(c) /\ pc[c] \in CopyLabel \cup
       {"tmp", "init", "fetch", "checkout", "subdir", "copied", "head", "cleanup"}
  \/ IsOci(c) /\ pc[c] \in {"store", "resolve", "pull", "closing"}

(* A call that walks a directory has it on its stack, a git gather always    *)
(* copies out of a directory.                                                *)
Walking(c) ==
  \/ pc[c] \in {"enter", "mkdir", "chdir", "list", "next", "chmod"}
  \/ IsGit(c) /\ pc[c] \in CopyLabel
  => stack[c] # <<>>

(* A git gather of a hash stands on it once it is checked out, one whose     *)
(* source names nothing that can be cloned never gets that far, and an OCI   *)
(* gather of a digest pulls that digest.                                     *)
GitPins(c) ==
  /\ clone[c].head \in Nat
  /\ meta[c] # {} => \E n \in Nat : meta[c] = {n}
  /\ Url(c).ref.kind = "hash" =>
       /\ pc[c] \in CopyLabel \cup {"subdir", "copied", "head"} =>
            clone[c].head = Url(c).ref.hash
       /\ meta[c] # {} => meta[c] = {Url(c).ref.hash}
  /\ Url(c).depth = BadDepth =>
       pc[c] \in {"begin", "cleanup", "failed", "crashed"} /\ meta[c] = {}
  /\ Url(c).ref.kind = "unknown" =>
       pc[c] \in {"begin", "tmp", "init", "fetch", "cleanup", "failed", "crashed"} /\ meta[c] = {}

OciPins(c) ==
  LET asked(n) == n \in Nat \ {0} /\ (job[c].ref # 0 => n = job[c].ref) IN
  /\ DOMAIN pull[c] = {"plain", "digest", "todo", "tries"}
  /\ pc[c] = "pull" => asked(pull[c].digest)
  /\ meta[c] # {} => \E n \in Nat : asked(n) /\ meta[c] = {n}

(* What a call that gathers again is asked for, as GetPinnedURL makes it. *)
AskedAgain(c) ==
  \/ IsGit(c) /\ (Url(c).depth = BadDepth \/ Url(c).ref.kind = "unknown")
  \/ IsGit(c) /\ Url(c).ref.kind = "hash" /\ first[c].meta = {Url(c).ref.hash}
  \/ IsOci(c) /\ job[c].ref # 0 /\ first[c].meta = {job[c].ref}

Pins(c) ==
  /\ IsGit(c) => GitPins(c)
  /\ IsOci(c) => OciPins(c)
  /\ first[c].meta # {} => AskedAgain(c)

Typed ==
  /\ job \in [Call -> Job]
  /\ DOMAIN clone = Call /\ DOMAIN pull = Call /\ DOMAIN first = Call
  /\ tip \in Nat /\ tag \in Nat \ {0}

PInv == Typed /\ \A c \in Call : IsStack(stack[c]) /\ Place(c) /\ Walking(c) /\ Pins(c)

Mine(c) == <<pc[c], job[c], meta[c], clone[c], pull[c], first[c], stack[c]>>

OnlyOf(c) == \A d \in Call \ {c} : Mine(d)' = Mine(d)

LEMMA OthersPinned ==
  ASSUME PInv, NEW c \in Call, Typed', OnlyOf(c),
         IsStack(stack'[c]), Place(c)', Walking(c)', Pins(c)'
  PROVE  PInv'
  <1>1. ASSUME NEW d \in Call \ {c}
        PROVE  IsStack(stack'[d]) /\ (Place(d) /\ Walking(d) /\ Pins(d))'
    <2>1. /\ pc'[d] = pc[d] /\ job'[d] = job[d] /\ meta'[d] = meta[d] /\ stack'[d] = stack[d]
          /\ clone'[d] = clone[d] /\ pull'[d] = pull[d] /\ first'[d] = first[d]
      BY <1>1 DEF OnlyOf, Mine
    <2>2. IsStack(stack[d]) /\ Place(d) /\ Walking(d) /\ Pins(d)
      BY <1>1 DEF PInv
    <2>3. (Place(d) /\ Walking(d))'
      BY <2>1, <2>2 DEF Place, Walking, IsFile, IsGit, IsOci
    <2>4. (IsGit(d) => GitPins(d))'
      BY <2>1, <2>2 DEF Pins, GitPins, IsGit, Url
    <2>5. (IsOci(d) => OciPins(d))'
      BY <2>1, <2>2 DEF Pins, OciPins, IsOci
    <2>6. (first[d].meta # {} => AskedAgain(d))'
      BY <2>1, <2>2 DEF Pins, AskedAgain, IsGit, IsOci, Url
    <2> QED
      BY <2>1, <2>2, <2>3, <2>4, <2>5, <2>6 DEF Pins
  <1> QED
    BY <1>1 DEF PInv

LEMMA InitPInv == Init => PInv
  <1> SUFFICES ASSUME Init PROVE PInv  OBVIOUS
  <1>1. Typed
    BY ScenarioAssumption DEF Init, Typed, Job
  <1>2. IsStack(<<>>)
    BY EmptySeq, Zenon DEF IsStack
  <1>3. ASSUME NEW c \in Call
        PROVE  IsStack(stack[c]) /\ Place(c) /\ Walking(c) /\ Pins(c)
    BY <1>2, <1>3 DEF Init, Place, Walking, CopyLabel, Pins, GitPins, OciPins, NoClone, NoPull,
       Before, Typed, Job, FileJob, GitJob, OciJob, GitUrl, IsGit, IsOci, Url
  <1> QED
    BY <1>1, <1>3 DEF PInv

-----------------------------------------------------------------------------

(* How a copy moves on. *)
Moves(c) ==
  /\ pc[c] \in CopyLabel /\ UNCHANGED job
  /\ IsStack(stack'[c])
  /\ \/ pc'[c] \in {"create", "write", "close"} /\ (stack[c] # <<>> => stack'[c] # <<>>)
     \/ pc'[c] \in CopyLabel /\ stack'[c] # <<>>
     \/ pc'[c] = "copied" /\ stack[c] # <<>>
     \/ pc'[c] = "ok" /\ stack[c] = <<>>
     \/ pc'[c] = Failing(c)
  /\ stack[c] # <<>> => UNCHANGED meta

LEMMA SetTopKeeps ==
  ASSUME NEW c \in Call, DOMAIN stack = Call, IsStack(stack[c]), stack[c] # <<>>, NEW f
  PROVE  /\ IsStack(SetTop(c, f)[c]) /\ SetTop(c, f)[c] # <<>>
         /\ Len(stack[c]) \in Nat \ {0} /\ Len(SetTop(c, f)[c]) = Len(stack[c])
         /\ \A i \in 1..Len(stack[c]) - 1 : SetTop(c, f)[c][i] = stack[c][i]
         /\ SetTop(c, f)[c][Len(stack[c])] = f
         /\ \A d \in Call \ {c} : SetTop(c, f)[d] = stack[d]
  <1>1. SetTop(c, f)[c] = [stack[c] EXCEPT ![Len(stack[c])] = f]
    BY DEF SetTop
  <1>2. \A d \in Call \ {c} : SetTop(c, f)[d] = stack[d]
    BY DEF SetTop
  <1> DEFINE s == stack[c]
  <1>3. /\ IsStack([s EXCEPT ![Len(s)] = f]) /\ [s EXCEPT ![Len(s)] = f] # <<>>
        /\ Len(s) \in Nat \ {0} /\ Len([s EXCEPT ![Len(s)] = f]) = Len(s)
        /\ \A i \in 1..Len(s) - 1 : [s EXCEPT ![Len(s)] = f][i] = s[i]
        /\ [s EXCEPT ![Len(s)] = f][Len(s)] = f
    BY StackTop
  <1> QED
    BY <1>1, <1>2, <1>3, Zenon

LEMMA CopyMoves ==
  ASSUME IInv, PInv, NEW c \in Call, CopyStep(c)
  PROVE  Moves(c)
  <1> USE DEF IInv, Functions, Goto, Failing, callVars, copyVars
  <1>0. /\ IsStack(stack[c]) /\ Walking(c) /\ DOMAIN pc = Call /\ DOMAIN stack = Call
        /\ pc[c] = "chmod" => stack[c] # <<>>
        /\ pc[c] \in CopyLabel => ~IsOci(c)
    BY DEF PInv, Settled, Place, CopyLabel, IsFile, IsGit, IsOci
  <1>1. CASE Enter(c)
    <2>1. stack[c] # <<>> /\ pc[c] = "enter"
      BY <1>0, <1>1 DEF Enter, Walking
    <2>2. CASE UNCHANGED stack
      BY <1>0, <1>1, <2>1, <2>2 DEF Enter, Moves, CopyLabel, IsOci, Confined
    <2>3. ASSUME NEW f, stack' = SetTop(c, f)
          PROVE  IsStack(stack'[c]) /\ stack'[c] # <<>>
      BY <1>0, <2>1, <2>3, SetTopKeeps, Zenon
    <2>4. CASE stack' = SetTop(c, [Top(c) EXCEPT !.mode = fs[Real(Top(c).src)].mode])
      <3>1. IsStack(stack'[c]) /\ stack'[c] # <<>>
        BY <2>3, <2>4
      <3> QED
        BY <1>0, <1>1, <2>1, <3>1 DEF Enter, Moves, CopyLabel, IsOci, Confined
    <2> QED
      BY <1>1, <2>2, <2>4 DEF Enter
  <1>2. CASE EnterConfined(c)
    BY <1>0, <1>2, StackTop DEF EnterConfined, SetTop, Moves, CopyLabel, Walking, Confined
  <1>3. CASE Mkdir(c)
    BY <1>0, <1>3 DEF Mkdir, Moves, CopyLabel, Walking
  <1>4. CASE ChmodDir(c)
    BY <1>0, <1>4 DEF ChmodDir, Moves, CopyLabel, Walking
  <1>5. CASE List(c)
    BY <1>0, <1>5, StackTop DEF List, SetTop, Moves, CopyLabel, Walking
  <1>6. CASE Ascend(c)
    BY <1>0, <1>6, StackPop DEF Ascend, Moves, CopyLabel, Walking
  <1>7. CASE pc[c] = "next" /\ \E e \in Top(c).todo : Descend(c, e) \/ Refuse(c, e) \/ TakeFile(c, e)
    <2> PICK e \in Top(c).todo : Descend(c, e) \/ Refuse(c, e) \/ TakeFile(c, e)
      BY <1>7
    <2>0. stack[c] # <<>>
      <3>1. pc[c] = "next"
        BY <1>7
      <3> QED
        BY <1>0, <3>1 DEF Walking
    <2>1. CASE Descend(c, e)
      BY <1>0, <1>7, <2>0, <2>1, StackTop, StackPush DEF Descend, Without, SetTop, Moves, CopyLabel
    <2>2. CASE Refuse(c, e)
      BY <1>0, <1>7, <2>0, <2>2 DEF Refuse, Moves, CopyLabel
    <2>3. CASE TakeFile(c, e)
      <3>1. stack' = SetTop(c, [Top(c) EXCEPT !.todo = @ \ {e}]) /\ pc[c] = "next"
            /\ pc'[c] = "create" /\ UNCHANGED <<job, meta>>
        BY <2>3 DEF TakeFile, Without
      <3>2. ASSUME NEW f, stack' = SetTop(c, f)
            PROVE  IsStack(stack'[c]) /\ stack'[c] # <<>>
        BY <1>0, <2>0, <3>2, SetTopKeeps, Zenon
      <3>3. IsStack(stack'[c]) /\ stack'[c] # <<>>
        BY <3>1, <3>2
      <3> QED
        BY <3>1, <3>3 DEF Moves, CopyLabel
    <2> QED
      BY <2>1, <2>2, <2>3
  <1>8. CASE Create(c)
    BY <1>0, <1>8 DEF Create, Moves, CopyLabel
  <1>9. CASE Write(c)
    BY <1>0, <1>9 DEF Write, Moves, CopyLabel
  <1>10. CASE ReadFails(c)
    BY <1>0, <1>10 DEF ReadFails, Moves, CopyLabel
  <1>11. CASE WriteDone(c)
    BY <1>0, <1>11 DEF WriteDone, Moves, CopyLabel
  <1>12. CASE Chmod(c)
    BY <1>0, <1>12 DEF Chmod, Moves, CopyLabel
  <1>13. CASE Close(c)
    BY <1>0, <1>13 DEF Close, Moves, CopyLabel
  <1>14. CASE CloseFails(c)
    <2>1. CASE stack[c] = <<>>
      BY <1>0, <1>14, <2>1 DEF CloseFails, Moves, CopyLabel, Walking, IsOci, IsGit
    <2>2. CASE stack[c] # <<>>
      BY <1>0, <1>14, <2>2 DEF CloseFails, Moves, CopyLabel
    <2> QED
      BY <2>1, <2>2
  <1>15. CASE CopyFault(c)
    BY <1>0, <1>15 DEF CopyFault, CopyLabel, Moves
  <1> QED
    BY <1>1, <1>2, <1>3, <1>4, <1>5, <1>6, <1>7, <1>8, <1>9, <1>10, <1>11, <1>12, <1>13,
       <1>14, <1>15 DEF CopyStep

LEMMA CopyPins ==
  ASSUME IInv, PInv, NEW c \in Call, CopyStep(c), UNCHANGED <<gitVars, ociVars, first>>
  PROVE  PInv'
  <1>1. Moves(c) /\ StepOf(c)
    BY CopyMoves, CopyKeeps
  <1>2. Typed' /\ OnlyOf(c)
    BY <1>1 DEF PInv, Typed, Moves, StepOf, OnlyOf, Mine, gitVars, ociVars
  <1>3. Place(c)'
    BY <1>1 DEF PInv, Place, Moves, CopyLabel, FileLabel, Failing, Walking, IsFile, IsGit, IsOci
  <1>4. Walking(c)'
    BY <1>1 DEF PInv, Walking, Moves, CopyLabel, Failing, IsGit, Place
  <1>5. meta' = meta \/ IsFile(c)
    BY <1>1 DEF PInv, Moves, Walking, Place, CopyLabel, IsGit, IsFile, IsOci
  <1>6. Pins(c)'
    <2>1. CASE IsGit(c)
      BY <1>1, <1>5, <2>1 DEF PInv, Pins, GitPins, AskedAgain, Moves, CopyLabel, Failing, gitVars,
         ociVars, IsGit, IsOci, IsFile, Url
    <2>2. CASE ~IsGit(c)
      <3>1. IsFile(c)
        BY <1>1, <2>2 DEF PInv, Place, Moves, CopyLabel, IsGit, IsFile, IsOci
      <3> QED
        BY <1>1, <3>1 DEF PInv, Pins, AskedAgain, Moves, IsGit, IsOci, IsFile
    <2> QED
      BY <2>1, <2>2
  <1> QED
    BY <1>1, <1>2, <1>3, <1>4, <1>6, OthersPinned DEF Moves

LEMMA ExpandedPath ==
  ASSUME NEW c \in Call, NEW p \in Path, job[c].home \subseteq Path
  PROVE  ExpandPath(c, p) \subseteq Path
  <1>1. CASE p # <<>> /\ p[1] = "~"
    <2>1. Tail(p) \in Seq(Name)
      BY <1>1, HeadTailProperties DEF Path
    <2>2. \A h \in job[c].home : h \o Tail(p) \in Seq(Name)
      BY <2>1, ConcatProperties DEF Path
    <2> QED
      BY <1>1, <2>2 DEF ExpandPath, Path
  <1>2. CASE ~(p # <<>> /\ p[1] = "~")
    BY <1>2, Zenon DEF ExpandPath
  <1> QED
    BY <1>1, <1>2

LEMMA FilePins ==
  ASSUME IInv, PInv, NEW c \in Call, FileStep(c), UNCHANGED <<gitVars, ociVars, first>>
  PROVE  PInv'
  <1> USE DEF Goto, callVars, copyVars
  <1>0. /\ IsStack(stack[c]) /\ Walking(c) /\ Place(c) /\ job[c] \in Job
        /\ DOMAIN pc = Call /\ DOMAIN stack = Call /\ DOMAIN job = Call
    BY DEF PInv, Typed, IInv, Functions
  <1>1. /\ IsFile(c) /\ IsStack(stack'[c])
        /\ pc'[c] \in FileLabel \cup {"panic", "failed", "ok", "create", "enter"}
        /\ pc'[c] = "enter" => stack'[c] # <<>>
    <2>1. CASE FileStat(c)
      BY <1>0, <2>1, StackPush DEF FileStat, FileLabel, Push, IsDir, Exists, Is, Place, IsFile,
         IsGit, IsOci, CopyLabel
    <2>2. CASE ~FileStat(c)
      BY <1>0, <2>2 DEF FileStep, FileBegin, Sniff, GetExpander, Expand, DirSize, ParseSave,
         FileFault, FileLabel, Place, IsFile, IsGit, IsOci, CopyLabel
    <2> QED
      BY <2>1, <2>2
  <1>2. /\ job'[c].kind = "file" /\ job' \in [Call -> Job]
        /\ \A d \in Call \ {c} : job'[d] = job[d]
    <2>1. CASE UNCHANGED job
      BY <1>0, <1>1, <2>1 DEF IsFile, PInv, Typed
    <2>2. CASE ~UNCHANGED job
      <3>1. PICK s \in ExpandPath(c, job[c].src), d \in ExpandPath(c, job[c].dst) :
              job' = [job EXCEPT ![c].src = s, ![c].dst = d]
        BY <2>2 DEF FileStep, FileBegin, FileStat, Sniff, GetExpander, Expand, DirSize, ParseSave,
           FileFault
      <3>2. s \in Path /\ d \in Path
        BY <1>0, <1>1, ExpandedPath DEF IsFile, Job, FileJob, GitJob, OciJob
      <3>3. job[c] \in FileJob
        BY <1>0, <1>1 DEF IsFile, Job, FileJob, GitJob, OciJob
      <3>4. [job[c] EXCEPT !.src = s, !.dst = d] \in FileJob
        BY <3>2, <3>3 DEF FileJob
      <3>5. job' = [job EXCEPT ![c] = [job[c] EXCEPT !.src = s, !.dst = d]]
        BY <3>1
      <3> QED
        BY <1>0, <3>4, <3>5 DEF FileJob, Job, PInv, Typed
    <2> QED
      BY <2>1, <2>2
  <1>3. StepOf(c)
    BY FileKeeps
  <1>4. Typed' /\ OnlyOf(c)
    BY <1>2, <1>3 DEF PInv, Typed, StepOf, OnlyOf, Mine, gitVars, ociVars
  <1>5. (Place(c) /\ Walking(c))'
    BY <1>1, <1>2 DEF Place, Walking, FileLabel, CopyLabel, IsFile, IsGit
  <1>6. Pins(c)'
    BY <1>1, <1>2 DEF PInv, Pins, AskedAgain, IsFile, IsGit, IsOci
  <1> QED
    BY <1>1, <1>4, <1>5, <1>6, OthersPinned

LEMMA GitStepPins ==
  ASSUME IInv, PInv, NEW c \in Call, GitStep(c) \/ Fetch(c) \/ FetchFails(c),
         UNCHANGED <<ociVars, first>>
  PROVE  PInv'
  <1> USE DEF Goto, callVars, copyVars, gitVars, ociVars
  <1>0. /\ IsStack(stack[c]) /\ Walking(c) /\ Place(c) /\ Pins(c)
        /\ job[c] \in Job /\ tip \in Nat
        /\ pc[c] \notin {"close", "cleanup", "closing", "ok", "crashed"} => meta[c] = {}
        /\ DOMAIN pc = Call /\ DOMAIN meta = Call /\ DOMAIN stack = Call /\ DOMAIN clone = Call
    BY DEF PInv, Typed, IInv, Functions, Settled
  <1>1. StepOf(c)
    BY GitKeeps
  <1>2. IsGit(c) /\ UNCHANGED job
    BY <1>0 DEF GitStep, GitBegin, MkTemp, PlainInit, Fetch, FetchFails, Checkout, EnterSubdir,
       HeadRef, Cleanup, CleanupFails, Return, GitFault, Place, IsGit, IsFile, IsOci, CopyLabel,
       FileLabel
  <1>3. GitPins(c) /\ Url(c) \in GitUrl
    BY <1>0, <1>2 DEF Pins, IsGit, Job, FileJob, GitJob, OciJob, Url
  <1>4. UNCHANGED Url(c)
    BY <1>2 DEF Url
  <1> DEFINE Result == /\ IsStack(stack'[c]) /\ (Place(c) /\ Walking(c) /\ GitPins(c))'
                       /\ \A d \in Call \ {c} : clone'[d] = clone[d]
                       /\ DOMAIN clone' = Call /\ tip' \in Nat
  <1> USE DEF Place, Walking, CopyLabel, FileLabel, IsGit
  <1>5. ASSUME GitBegin(c) PROVE Result
    BY <1>0, <1>2, <1>3, <1>4, <1>5 DEF GitBegin, GitPins
  <1>6. ASSUME MkTemp(c) PROVE Result
    BY <1>0, <1>2, <1>3, <1>4, <1>6 DEF MkTemp, GitPins
  <1>7. ASSUME PlainInit(c) PROVE Result
    BY <1>0, <1>2, <1>3, <1>4, <1>7 DEF PlainInit, GitPins, NoClone
  <1>8. ASSUME Fetch(c) PROVE Result
    BY <1>0, <1>2, <1>3, <1>4, <1>8 DEF Fetch, GitPins, GitUrl
  <1>9. ASSUME FetchFails(c) PROVE Result
    BY <1>0, <1>2, <1>3, <1>4, <1>9 DEF FetchFails, GitPins
  <1>10. ASSUME Checkout(c) PROVE Result
    BY <1>0, <1>2, <1>3, <1>4, <1>10 DEF Checkout, GitPins, Revision, GitUrl
  <1>11. ASSUME EnterSubdir(c) PROVE Result
    BY <1>0, <1>2, <1>3, <1>4, <1>11, StackPush DEF EnterSubdir, GitPins, Push
  <1>12. ASSUME HeadRef(c) PROVE Result
    BY <1>0, <1>2, <1>3, <1>4, <1>12 DEF HeadRef, GitPins, HeadOf
  <1>13. ASSUME Cleanup(c) PROVE Result
    BY <1>0, <1>2, <1>3, <1>4, <1>13 DEF Cleanup, Return, GitPins
  <1>14. ASSUME CleanupFails(c) PROVE Result
    BY <1>0, <1>2, <1>3, <1>4, <1>14 DEF CleanupFails, Return, GitPins
  <1>15. ASSUME GitFault(c) PROVE Result
    BY <1>0, <1>2, <1>3, <1>4, <1>15 DEF GitFault, GitPins
  <1>16. Result
    BY <1>5, <1>6, <1>7, <1>8, <1>9, <1>10, <1>11, <1>12, <1>13, <1>14, <1>15 DEF GitStep
  <1>17. Typed' /\ OnlyOf(c)
    BY <1>1, <1>2, <1>16 DEF PInv, Typed, StepOf, OnlyOf, Mine
  <1>18. Pins(c)'
    BY <1>2, <1>16 DEF PInv, Pins, AskedAgain, IsOci, Url
  <1> QED
    BY <1>16, <1>17, <1>18, OthersPinned

LEMMA OciStepPins ==
  ASSUME IInv, PInv, NEW c \in Call, UNCHANGED <<gitVars, first>>,
         \/ OciStep(c) \/ Resolve(c) \/ Repeat(c) \/ RequestFails(c)
         \/ \E t \in pull[c].todo : Pull(c, t)
  PROVE  PInv'
  <1> USE DEF Goto, callVars, copyVars, gitVars, ociVars
  <1>0. /\ IsStack(stack[c]) /\ Walking(c) /\ Place(c) /\ Pins(c)
        /\ job[c] \in Job /\ tag \in Nat \ {0}
        /\ pc[c] \notin {"close", "cleanup", "closing", "ok", "crashed"} => meta[c] = {}
        /\ DOMAIN pc = Call /\ DOMAIN meta = Call /\ DOMAIN pull = Call
    BY DEF PInv, Typed, IInv, Functions, Settled
  <1>1. StepOf(c)
    BY OciKeeps
  <1>2. IsOci(c) /\ UNCHANGED <<job, stack, tag>>
    BY <1>0 DEF OciStep, OciBegin, OpenStore, Pulled, CloseStore, CloseStoreFails, OciFault,
       Resolve, Repeat, RequestFails, Requesting, Pull, Place, IsGit, IsFile, IsOci, CopyLabel,
       FileLabel
  <1>3. OciPins(c) /\ job[c].ref \in Nat
    BY <1>0, <1>2 DEF Pins, IsOci, Job, FileJob, GitJob, OciJob
  <1> DEFINE Result == /\ (Place(c) /\ Walking(c) /\ OciPins(c))'
                       /\ \A d \in Call \ {c} : pull'[d] = pull[d]
                       /\ DOMAIN pull' = Call
  <1> USE DEF Place, Walking, CopyLabel, FileLabel, IsOci, IsGit
  <1>4. ASSUME OciBegin(c) PROVE Result
    BY <1>0, <1>2, <1>3, <1>4 DEF OciBegin, NoPull, OciPins
  <1>5. ASSUME OpenStore(c) PROVE Result
    BY <1>0, <1>2, <1>3, <1>5 DEF OpenStore, OciPins
  <1>6. ASSUME Pulled(c) PROVE Result
    BY <1>0, <1>2, <1>3, <1>6 DEF Pulled, OciPins
  <1>7. ASSUME CloseStore(c) PROVE Result
    BY <1>0, <1>2, <1>3, <1>7 DEF CloseStore, OciPins
  <1>8. ASSUME CloseStoreFails(c) PROVE Result
    BY <1>0, <1>2, <1>3, <1>8 DEF CloseStoreFails, MetaReset, OciPins
  <1>9. ASSUME OciFault(c) PROVE Result
    BY <1>0, <1>2, <1>3, <1>9 DEF OciFault, OciPins
  <1>10. ASSUME Resolve(c) PROVE Result
    BY <1>0, <1>2, <1>3, <1>10 DEF Resolve, Digest, OciPins
  <1>11. ASSUME Repeat(c) PROVE Result
    BY <1>0, <1>2, <1>3, <1>11 DEF Repeat, Requesting, OciPins
  <1>12. ASSUME RequestFails(c) PROVE Result
    BY <1>0, <1>2, <1>3, <1>12 DEF RequestFails, Requesting, OciPins
  <1>13. ASSUME NEW t \in pull[c].todo, Pull(c, t) PROVE Result
    BY <1>0, <1>2, <1>3, <1>13 DEF Pull, OciPins
  <1>14. Result
    BY <1>4, <1>5, <1>6, <1>7, <1>8, <1>9, <1>10, <1>11, <1>12, <1>13 DEF OciStep
  <1>15. Typed' /\ OnlyOf(c)
    BY <1>1, <1>2, <1>14 DEF PInv, Typed, StepOf, OnlyOf, Mine
  <1>16. Pins(c)'
    BY <1>2, <1>14 DEF PInv, Pins, AskedAgain, Url
  <1> QED
    BY <1>0, <1>2, <1>14, <1>15, <1>16, OthersPinned

LEMMA PinnedUrl ==
  ASSUME NEW u \in GitUrl, NEW n \in Nat
  PROVE  /\ GitPinned(u, n) \in GitUrl
         /\ \/ GitPinned(u, n).depth = BadDepth \/ GitPinned(u, n).ref.kind = "unknown"
            \/ GitPinned(u, n).ref.kind = "hash" /\ GitPinned(u, n).ref.hash = n
  <1> <<>> \in Path
    BY EmptySeq DEF Path
  <1>1. CASE ~u.depthFirst
    <2>1. GitPinned(u, n)
            = [u EXCEPT !.ref = [kind |-> "hash", hash |-> n], !.querySub = <<>>, !.depth = 0]
      BY <1>1 DEF GitPinned
    <2>2. PICK r \in [kind: {"none", "branch", "hash", "unknown"}, hash: Nat] :
            r = [kind |-> "hash", hash |-> n]
      OBVIOUS
    <2>3. PICK e \in Path : e = <<>>
      OBVIOUS
    <2>4. GitPinned(u, n) = [u EXCEPT !.ref = r, !.querySub = e, !.depth = 0]
      BY <2>1, <2>2, <2>3
    <2>5. r.kind = "hash" /\ r.hash = n
      BY <2>2
    <2>6. ASSUME NEW v, v = [u EXCEPT !.ref = r, !.querySub = e, !.depth = 0]
          PROVE  v \in GitUrl /\ v.ref = r
      BY <2>6 DEF GitUrl
    <2> QED
      BY <2>4, <2>5, <2>6
  <1>2. CASE u.depthFirst /\ u.ref.kind = "none"
    <2>1. GitPinned(u, n) = [u EXCEPT !.depth = BadDepth]
      BY <1>2 DEF GitPinned
    <2> QED
      BY <2>1 DEF GitUrl
  <1>3. CASE u.depthFirst /\ u.ref.kind # "none"
    <2>1. GitPinned(u, n) = [u EXCEPT !.ref = [u.ref EXCEPT !.kind = "unknown"]]
      BY <1>3 DEF GitPinned
    <2>2. [u.ref EXCEPT !.kind = "unknown"]
             \in [kind: {"none", "branch", "hash", "unknown"}, hash: Nat]
          /\ [u.ref EXCEPT !.kind = "unknown"].kind = "unknown"
      BY DEF GitUrl
    <2> QED
      BY <2>1, <2>2 DEF GitUrl
  <1> QED
    BY <1>1, <1>2, <1>3

(* The second gather is asked for what the first one reported. *)
LEMMA AgainPins ==
  ASSUME IInv, PInv, NEW c \in Call, Again(c)
  PROVE  PInv'
  <1>0. /\ IsStack(stack[c]) /\ Pins(c) /\ job[c] \in Job /\ meta[c] # {}
        /\ DOMAIN pc = Call /\ DOMAIN meta = Call /\ DOMAIN clone = Call /\ DOMAIN pull = Call
        /\ DOMAIN first = Call /\ job \in [Call -> Job]
    BY DEF PInv, Typed, IInv, Functions, Settled, Again
  <1>1. job' = [job EXCEPT ![c] = Pinned(c)] /\ job[c].kind \in {"git", "oci"}
    BY DEF Again
  <1>2. PICK n \in Nat : meta[c] = {n} /\ (IsOci(c) => n # 0)
    BY <1>0, <1>1 DEF Pins, GitPins, OciPins, IsGit, IsOci
  <1>3. (CHOOSE m \in meta[c] : TRUE) = n
    BY <1>2
  <1> DEFINE j == [job[c] EXCEPT !.dst = job[c].again, !.again = <<>>]
  <1>4. /\ Pinned(c) \in Job /\ Pinned(c).kind = job[c].kind
        /\ IsGit(c) => LET u == Pinned(c).url IN
             \/ u.depth = BadDepth \/ u.ref.kind = "unknown"
             \/ u.ref.kind = "hash" /\ u.ref.hash = n
        /\ IsOci(c) => Pinned(c).ref = n
    <2>1. CASE IsGit(c)
      <3>1. job[c] \in GitJob
        BY <1>0, <2>1 DEF Job, FileJob, GitJob, OciJob, IsGit
      <3>2. j \in GitJob /\ j.url = Url(c)
        BY <3>1, EmptySeq DEF GitJob, Url, Path
      <3>3. Pinned(c) = [j EXCEPT !.url = GitPinned(j.url, n)]
        BY <1>3, <2>1 DEF Pinned
      <3>4. /\ GitPinned(j.url, n) \in GitUrl
            /\ LET u == GitPinned(j.url, n) IN
                 \/ u.depth = BadDepth \/ u.ref.kind = "unknown"
                 \/ u.ref.kind = "hash" /\ u.ref.hash = n
        BY <1>2, <3>1, <3>2, PinnedUrl DEF GitJob
      <3> QED
        BY <2>1, <3>1, <3>2, <3>3, <3>4 DEF GitJob, Job, IsGit, IsOci
    <2>2. CASE IsOci(c)
      <3>1. job[c] \in OciJob
        BY <1>0, <2>2 DEF Job, FileJob, GitJob, OciJob, IsOci
      <3>2. j \in OciJob
        BY <3>1, EmptySeq DEF OciJob, Path
      <3>3. Pinned(c) = [j EXCEPT !.ref = n]
        BY <1>3, <2>2 DEF Pinned, IsGit, IsOci
      <3> QED
        BY <2>2, <3>1, <3>2, <3>3 DEF OciJob, Job, IsGit, IsOci
    <2> QED
      BY <1>1, <2>1, <2>2 DEF IsGit, IsOci
  <1> HIDE DEF j
  <1>5. /\ job'[c] = Pinned(c) /\ job' \in [Call -> Job] /\ pc'[c] = "begin" /\ meta'[c] = {}
        /\ first'[c].meta = {n} /\ clone'[c] = NoClone /\ pull'[c] = NoPull
        /\ UNCHANGED <<stack, tip, tag>>
    <2>1. job'[c] = Pinned(c) /\ job' \in [Call -> Job]
      <3> HIDE DEF Pinned
      <3> QED
        BY <1>0, <1>1, <1>4, Zenon
    <2>2. first'[c].meta = {n}
      BY <1>0, <1>2 DEF Again
    <2>3. pc'[c] = "begin" /\ meta'[c] = {} /\ clone'[c] = NoClone /\ pull'[c] = NoPull
          /\ UNCHANGED <<stack, tip, tag>>
      BY <1>0 DEF Again, copyVars
    <2> QED
      BY <2>1, <2>2, <2>3
  <1>6. Typed' /\ OnlyOf(c)
    BY <1>5 DEF PInv, Typed, Again, OnlyOf, Mine, IInv, Functions
  <1>7. (Place(c) /\ Walking(c))'
    BY <1>5 DEF Place, Walking, CopyLabel
  <1>8. Pins(c)'
    <2>1. (IsGit(c) => GitPins(c))'
      BY <1>1, <1>5 DEF GitPins, IsGit, Url, NoClone, CopyLabel
    <2>2. (IsOci(c) => OciPins(c))'
      BY <1>1, <1>5 DEF OciPins, IsOci, NoPull
    <2>3. AskedAgain(c)'
      <3>1. job'[c] = Pinned(c) /\ first'[c].meta = {n}
        BY <1>5
      <3>2. CASE IsGit(c)
        BY <1>4, <3>1, <3>2 DEF AskedAgain, IsGit, Url
      <3>3. CASE IsOci(c)
        BY <1>2, <1>4, <3>1, <3>3 DEF AskedAgain, IsOci
      <3> QED
        BY <1>1, <3>2, <3>3 DEF IsGit, IsOci
    <2> QED
      BY <2>1, <2>2, <2>3 DEF Pins
  <1> QED
    BY <1>0, <1>5, <1>6, <1>7, <1>8, OthersPinned

LEMMA StepPInv ==
  ASSUME IInv, PInv, [Next]_vars
  PROVE  PInv'
  <1>1. ASSUME NEW c \in Call, Local(c) \/ Answered(c) \/ Unanswered(c)
               \/ (Repeat(c) /\ UNCHANGED <<gitVars, first>>)
        PROVE  PInv'
    BY <1>1, CopyPins, FilePins, GitStepPins, OciStepPins DEF Local, Answered, Unanswered
  <1> USE DEF callVars, copyVars, gitVars, ociVars
  <1>2. ASSUME UNCHANGED <<pc, job, meta, clone, pull, first, stack, tip>>, tag' \in Nat \ {0}
        PROVE  PInv'
    <2>1. Typed'
      BY <1>2 DEF PInv, Typed
    <2>2. ASSUME NEW c \in Call
          PROVE  IsStack(stack'[c]) /\ (Place(c) /\ Walking(c) /\ Pins(c))'
      BY <1>2, <2>2 DEF PInv, Place, Walking, Pins, GitPins, OciPins, AskedAgain, IsFile, IsGit,
         IsOci, Url
    <2> QED
      BY <2>1, <2>2 DEF PInv
  <1>3. ASSUME NEW c \in Call, Cancel(c)
        PROVE  PInv'
    BY <1>2, <1>3 DEF Cancel, PInv, Typed
  <1>4. ASSUME NEW c \in Call, Crash(c)
        PROVE  PInv'
    <2>1. /\ pc'[c] = "crashed" /\ UNCHANGED <<job, meta, clone, pull, first, stack, tip, tag>>
          /\ \A d \in Call \ {c} : pc'[d] = pc[d]
      BY <1>4 DEF Crash, IInv, Functions
    <2>2. Typed' /\ OnlyOf(c)
      BY <2>1 DEF PInv, Typed, OnlyOf, Mine
    <2>3. IsStack(stack'[c]) /\ (Place(c) /\ Walking(c))'
      BY <2>1 DEF PInv, Place, Walking, CopyLabel
    <2>4. Pins(c)'
      BY <2>1 DEF PInv, Pins, GitPins, OciPins, AskedAgain, IsGit, IsOci, Url, CopyLabel
    <2> QED
      BY <2>2, <2>3, <2>4, OthersPinned
  <1>5. ASSUME NEW c \in Call, Again(c)
        PROVE  PInv'
    BY <1>5, AgainPins
  <1>6. CASE Elsewhere
    <2>1. CASE PushCommit /\ UNCHANGED <<ociVars, first>>
      <3>1. Typed'
        BY <2>1 DEF PushCommit, PInv, Typed
      <3>2. ASSUME NEW c \in Call
            PROVE  IsStack(stack'[c]) /\ (Place(c) /\ Walking(c) /\ Pins(c))'
        BY <2>1, <3>2 DEF PushCommit, PInv, Place, Walking, Pins, GitPins, OciPins, AskedAgain,
           IsFile, IsGit, IsOci, Url
      <3> QED
        BY <3>1, <3>2 DEF PInv
    <2>2. CASE MoveTag /\ UNCHANGED <<gitVars, first>>
      BY <1>2, <2>2, SourceAssumption DEF MoveTag
    <2> QED
      BY <1>6, <2>1, <2>2 DEF Elsewhere
  <1>7. CASE UNCHANGED vars
    BY <1>2, <1>7 DEF vars, PInv, Typed
  <1> QED
    BY <1>1, <1>3, <1>4, <1>5, <1>6, <1>7 DEF Next

THEOREM PinInvariance == Spec => []PInv
  BY InitIInv, StepIInv, InitPInv, StepPInv, PTL DEF Spec

(***************************************************************************)
(* git.go:200-220, oci.go:188-204: a gather of the URL that GetPinnedURL   *)
(* makes of a result reports the commit or digest of that result, or fails.*)
(***************************************************************************)
THEOREM PinnedAgain == Spec => []PinnedReportsSame
  <1>1. IInv /\ PInv => PinnedReportsSame
    <2> SUFFICES ASSUME IInv, PInv, NEW c \in Call, pc[c] = "ok", first[c].meta # {}
                 PROVE  meta[c] = first[c].meta
      BY DEF PinnedReportsSame
    <2>1. meta[c] # {} /\ Pins(c) /\ AskedAgain(c)
      BY DEF IInv, Settled, PInv, Pins
    <2>2. CASE IsGit(c)
      BY <2>1, <2>2 DEF Pins, GitPins, AskedAgain, IsGit, IsOci
    <2>3. CASE IsOci(c)
      BY <2>1, <2>3 DEF Pins, OciPins, AskedAgain, IsGit, IsOci
    <2> QED
      BY <2>1, <2>2, <2>3 DEF AskedAgain
  <1> QED
    BY <1>1, Invariance, PinInvariance, PTL
=============================================================================
