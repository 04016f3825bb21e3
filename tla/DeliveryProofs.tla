---------------------------- MODULE DeliveryProofs ----------------------------
(***************************************************************************)
(* Proofs about what a call of Gathering that returns has delivered, for   *)
(* any number of calls on one tree.  A call delivers when its destination  *)
(* is secluded: no other call is given a path in it or above it, and no    *)
(* link of the tree or of a commit leads there.  Then no step of another   *)
(* call changes anything in it, whatever the links in between, and what    *)
(* the call has written so far is what it has written.  A copy delivers    *)
(* when its source is left alone too: then each path of it is still to     *)
(* come in the walk, or is in the destination.                             *)
(***************************************************************************)
EXTENDS ConfinementProofs

(* A path that has nothing to do with the place at r. *)
Off(p, r) == p \in Path /\ ~Overlap(p, r)

(* No link leads out of a commit to the place at r. *)
OutOff(r) ==
  \A n \in DOMAIN Commits : \A p \in Leads(Commits[n]) :
    Commits[n][p].to[1] = Outside => ~Overlap(Tail(Commits[n][p].to), r)

(* A link is in the place at r, or neither it nor what it leads to has to do *)
(* with it.                                                                  *)
LinkOff(p, to, r) == (Under(p, r) /\ p # r) \/ (Off(p, r) /\ Off(to, r))

LinksOff(r) == \A p \in DOMAIN fs : fs[p].kind = "link" => LinkOff(p, fs[p].to, r)

(* A tree that differs from this one outside the place at r only, by no link *)
(* that leads there.                                                         *)
Spares(r, t) ==
  /\ \A p \in DOMAIN t :
       \/ p \in DOMAIN fs /\ t[p] = fs[p]
       \/ p \in Path /\ ~Under(p, r) /\ (t[p].kind = "link" => LinkOff(p, t[p].to, r))
  /\ \A p \in DOMAIN fs \ DOMAIN t : ~Under(p, r)

-----------------------------------------------------------------------------
(* Paths off a place stay off it. *)

LEMMA OverlapBothWays ==
  ASSUME NEW p \in Path, NEW q \in Path, ~Overlap(p, q)
  PROVE  ~Overlap(q, p)
  BY DEF Overlap, Path

LEMMA ConcatOff ==
  ASSUME NEW r \in Path, NEW p, Off(p, r), NEW q \in Path
  PROVE  Off(p \o q, r)
  <1>1. p \in Path /\ ~Overlap(p, r)
    BY DEF Off
  <1>2. /\ p \o q \in Path /\ Len(p) <= Len(p \o q)
        /\ \A i \in 1..Len(p) : (p \o q)[i] = p[i]
    BY <1>1, ConcatPath
  <1> QED
    BY <1>1, <1>2, ExtensionAway DEF Off

LEMMA AppendOff ==
  ASSUME NEW r \in Path, NEW p, Off(p, r), NEW n \in Name
  PROVE  Off(Append(p, n), r)
  <1>1. p \in Path /\ ~Overlap(p, r)
    BY DEF Off
  <1>2. /\ Append(p, n) \in Path /\ Len(p) <= Len(Append(p, n))
        /\ \A i \in 1..Len(p) : Append(p, n)[i] = p[i]
    BY <1>1, AppendPath
  <1> QED
    BY <1>1, <1>2, ExtensionAway DEF Off

LEMMA LinkOnOff ==
  ASSUME FsOk, NEW r \in Path, LinksOff(r), NEW p, Off(p, r), NEW i \in 1..Len(p),
         Is(SubSeq(p, 1, i), "link")
  PROVE  Off(fs[SubSeq(p, 1, i)].to, r)
  <1> DEFINE q == SubSeq(p, 1, i)
  <1>1. LinkOff(q, fs[q].to, r)
    BY DEF LinksOff, Is
  <1>2. i \in 0..Len(p) /\ p \in Path /\ ~Overlap(p, r)
    BY DEF Off
  <1>3. ~Under(q, r)
    BY <1>2, PrefixOut
  <1> QED
    BY <1>1, <1>3 DEF LinkOff

LEMMA RealOff ==
  ASSUME FsOk, NEW r \in Path, LinksOff(r), NEW p, Off(p, r)
  PROVE  Off(Real(p), r)
  <1>1. p \in Path
    BY DEF Off
  <1>2. ASSUME NEW i \in 1..Len(p), Is(SubSeq(p, 1, i), "link"),
               Real(p) = fs[SubSeq(p, 1, i)].to \o SubSeq(p, i + 1, Len(p))
        PROVE  Off(Real(p), r)
    BY <1>1, <1>2, LinkOnOff, SuffixPath, ConcatOff
  <1> QED
    BY <1>1, <1>2, RealCases

LEMMA EntryOff ==
  ASSUME FsOk, NEW r \in Path, LinksOff(r), NEW p, Off(p, r)
  PROVE  Off(Entry(p), r)
  <1>1. p \in Path
    BY DEF Off
  <1>2. CASE p = <<>>
    BY <1>2 DEF Entry
  <1>3. CASE p # <<>>
    <2> DEFINE d == Parent(p)
    <2>1. /\ d \in Path /\ Len(d) = Len(p) - 1 /\ Len(p) \in Nat \ {0} /\ p[Len(p)] \in Name
          /\ p = Append(d, p[Len(p)]) /\ Entry(p) = Append(Real(d), p[Len(p)])
          /\ \A i \in 1..Len(p) - 1 : SubSeq(d, 1, i) = SubSeq(p, 1, i)
      BY <1>1, <1>3, ParentPath DEF Entry
    <2> HIDE DEF d
    <2>2. CASE Real(d) = d
      BY <2>1, <2>2
    <2>3. ASSUME NEW i \in 1..Len(d), Is(SubSeq(d, 1, i), "link"),
                 Real(d) = fs[SubSeq(d, 1, i)].to \o SubSeq(d, i + 1, Len(d))
          PROVE  Off(Entry(p), r)
      <3>1. i \in 1..Len(p) /\ SubSeq(d, 1, i) = SubSeq(p, 1, i)
        BY <2>1, <2>3
      <3>2. Off(fs[SubSeq(d, 1, i)].to, r)
        BY <2>3, <3>1, LinkOnOff
      <3>3. SubSeq(d, i + 1, Len(d)) \in Path
        BY <2>1, <2>3, SuffixPath
      <3>4. Off(Real(d), r)
        BY <2>3, <3>2, <3>3, ConcatOff
      <3> QED
        BY <2>1, <3>4, AppendOff
    <2> QED
      BY <2>1, <2>2, <2>3, RealCases
  <1> QED
    BY <1>2, <1>3

-----------------------------------------------------------------------------
(* What is written off a place spares it. *)

LEMMA SameSpares ==
  ASSUME NEW r
  PROVE  Spares(r, fs)
  BY DEF Spares

LEMMA OverSpares ==
  ASSUME NEW r, NEW t, Spares(r, t), NEW u,
         \A p \in DOMAIN u : /\ p \in Path /\ ~Under(p, r)
                             /\ u[p].kind = "link" => LinkOff(p, u[p].to, r)
  PROVE  Spares(r, Over(u, t))
  BY DEF Spares, Over

LEMMA PutSpares ==
  ASSUME NEW r, NEW t, Spares(r, t), NEW p \in Path, ~Under(p, r), NEW n, n.kind # "link"
  PROVE  Spares(r, Put(p, n, t))
  <1>1. /\ DOMAIN Put(p, n, t) = DOMAIN t \cup {p} /\ Put(p, n, t)[p] = n
        /\ \A q \in DOMAIN t \ {p} : Put(p, n, t)[q] = t[q]
    BY DEF Put
  <1> QED
    BY <1>1 DEF Spares

LEMMA CutSpares ==
  ASSUME NEW r, NEW S, \A p \in S \cap DOMAIN fs : ~Under(p, r)
  PROVE  Spares(r, [p \in DOMAIN fs \ S |-> fs[p]])
  BY DEF Spares

LEMMA MkdirSpares ==
  ASSUME NEW r \in Path, NEW p, Off(p, r), NEW mode
  PROVE  Spares(r, AfterMkdirAll(p, mode))
  <1>1. ASSUME NEW q \in Makeable(p, mode)
        PROVE  q \in Path /\ ~Under(q, r)
    <2>1. PICK i \in 1..Len(p) : q = SubSeq(p, 1, i)
      BY <1>1 DEF Makeable
    <2>2. i \in 0..Len(p) /\ p \in Path /\ ~Overlap(p, r)
      BY <2>1 DEF Off
    <2> QED
      BY <2>1, <2>2, PrefixOut, PrefixPath
  <1> QED
    BY <1>1 DEF Spares, AfterMkdirAll, Dir

LEMMA CreateSpares ==
  ASSUME NEW r \in Path, NEW p, Off(p, r), NEW mode
  PROVE  Spares(r, AfterCreate(p, mode))
  BY SameSpares, PutSpares, AwayOut DEF AfterCreate, Off, File

LEMMA RewriteSpares ==
  ASSUME FsOk, NEW r \in Path, LinksOff(r), NEW p, Off(p, r), NEW mode, NEW data
  PROVE  Spares(r, WithMode(p, mode)) /\ Spares(r, WithData(p, data))
  <1>1. p \in Path /\ ~Under(p, r)
    BY AwayOut DEF Off
  <1>2. CASE p \in DOMAIN fs
    <2>1. DOMAIN fs[p] = {"kind", "mode", "data", "to"}
      BY <1>2 DEF FsOk, NodeOk
    <2>2. fs[p].kind = "link" => LinkOff(p, fs[p].to, r)
      BY <1>2 DEF LinksOff
    <2>3. /\ [fs[p] EXCEPT !.mode = mode].kind = fs[p].kind
          /\ [fs[p] EXCEPT !.mode = mode].to = fs[p].to
          /\ [fs[p] EXCEPT !.data = data].kind = fs[p].kind
          /\ [fs[p] EXCEPT !.data = data].to = fs[p].to
      BY <2>1
    <2>4. Spares(r, [fs EXCEPT ![p] = [fs[p] EXCEPT !.mode = mode]])
      BY <1>1, <1>2, <2>2, <2>3 DEF Spares
    <2>5. Spares(r, [fs EXCEPT ![p] = [fs[p] EXCEPT !.data = data]])
      BY <1>1, <1>2, <2>2, <2>3 DEF Spares
    <2> QED
      BY <1>2, <2>4, <2>5 DEF WithMode, WithData
  <1>3. CASE p \notin DOMAIN fs
    BY <1>3, SameSpares DEF WithMode, WithData
  <1> QED
    BY <1>2, <1>3

LEMMA RemoveSpares ==
  ASSUME FsOk, NEW r \in Path, NEW p, Off(p, r), NEW S \in SUBSET Tree(p)
  PROVE  Spares(r, [q \in DOMAIN fs \ S |-> fs[q]])
  <1>1. ASSUME NEW q \in S
        PROVE  ~Under(q, r)
    BY BelowAway, AwayOut DEF Tree, FsOk, NodeOk, Off
  <1> QED
    BY <1>1, CutSpares

(* A commit checked out off a place. *)
LEMMA PlacedSpares ==
  ASSUME NEW r \in Path, OutOff(r), NEW n \in DOMAIN Commits, NEW base, Off(base, r),
         NEW p \in DOMAIN Placed(n, base)
  PROVE  /\ p \in Path /\ ~Under(p, r)
         /\ Placed(n, base)[p].kind = "link" => LinkOff(p, Placed(n, base)[p].to, r)
  <1> DEFINE t == Commits[n]
  <1>1. PICK q \in DOMAIN t : p = base \o q
    BY DEF Placed
  <1>2. /\ q \in Path /\ t[q] \in Node
        /\ t[q].kind = "link" => q # <<>> /\ t[q].to # <<>>
    BY SourceAssumption
  <1>3. base \in Path /\ Rest(p, base) = q
    BY <1>1, <1>2, RestConcat DEF Off
  <1>4. Off(p, r)
    BY <1>1, <1>2, ConcatOff
  <1> DEFINE new == IF t[q].kind # "link" THEN [t[q] EXCEPT !.mode = @ \ Umask]
                    ELSE IF t[q].to[1] = Outside THEN [t[q] EXCEPT !.to = Tail(@)]
                    ELSE [t[q] EXCEPT !.to = base \o @]
  <1>5. Placed(n, base)[p] = new
    BY <1>3 DEF Placed
  <1>6. new.kind = t[q].kind
    BY <1>2 DEF Node
  <1>7. CASE t[q].kind = "link"
    <2>1. t[q].to \in Path /\ t[q].to # <<>>
      BY <1>2, <1>7 DEF Node
    <2>2. CASE t[q].to[1] = Outside
      <3>1. q \in Leads(t) /\ new.to = Tail(t[q].to)
        BY <1>2, <1>7, <2>2 DEF Leads, Node
      <3>2. Off(new.to, r)
        BY <2>1, <2>2, <3>1 DEF OutOff, Off, Path
      <3> QED
        BY <1>4, <1>5, <3>2, AwayOut DEF LinkOff, Off
    <2>3. CASE t[q].to[1] # Outside
      <3>1. new.to = base \o t[q].to
        BY <1>2, <1>7, <2>3 DEF Node
      <3>2. Off(new.to, r)
        BY <2>1, <3>1, ConcatOff
      <3> QED
        BY <1>4, <1>5, <3>2, AwayOut DEF LinkOff, Off
    <2> QED
      BY <2>2, <2>3
  <1> QED
    BY <1>4, <1>5, <1>6, <1>7, AwayOut DEF Off

-----------------------------------------------------------------------------
(* What a call has in its hands: what it was given to write to, its          *)
(* temporary directory, and the destinations its copy has come to.           *)

Given(c) ==
  LET dst == {job[c].dst} \cup
               (IF IsFile(c) /\ pc[c] = "begin" THEN ExpandPath(c, job[c].dst) ELSE {})
  IN  dst \cup (IF IsFile(c) THEN {UrlPath(p) : p \in dst} ELSE {job[c].again} \ {<<>>})

StackOff(s, r) == \A i \in 1..Len(s) : Off(s[i].dst, r)

CurOff(at, f, r) == at \in {"create", "write", "chmod", "close"} => Off(f.dst, r)

HandsOff(c, r) ==
  /\ \A p \in Given(c) : Off(p, r)
  /\ IsGit(c) => Off(job[c].root, r)
  /\ StackOff(stack[c], r) /\ CurOff(pc[c], cur[c], r)

LEMMA StackOffPush ==
  ASSUME NEW s, IsStack(s), NEW r, StackOff(s, r), NEW f, Off(f.dst, r)
  PROVE  StackOff(Append(s, f), r)
  BY StackPush DEF StackOff

LEMMA StackOffTop ==
  ASSUME NEW s, IsStack(s), s # <<>>, NEW r, StackOff(s, r), NEW f, Off(f.dst, r)
  PROVE  StackOff([s EXCEPT ![Len(s)] = f], r)
  <1> DEFINE t == [s EXCEPT ![Len(s)] = f]
  <1>1. /\ Len(s) \in Nat \ {0} /\ Len(t) = Len(s) /\ t[Len(s)] = f
        /\ \A i \in 1..Len(s) - 1 : t[i] = s[i]
    BY StackTop
  <1> HIDE DEF t
  <1>2. ASSUME NEW i \in 1..Len(t)
        PROVE  Off(t[i].dst, r)
    <2>1. i = Len(s) \/ i \in 1..Len(s) - 1
      BY <1>1, <1>2
    <2> QED
      BY <1>1, <2>1 DEF StackOff
  <1>3. StackOff(t, r)
    BY <1>2 DEF StackOff
  <1> QED
    BY <1>3 DEF t

LEMMA StackOffPop ==
  ASSUME NEW s, IsStack(s), s # <<>>, NEW r, StackOff(s, r),
         NEW t, t = SubSeq(s, 1, Len(s) - 1)
  PROVE  StackOff(t, r)
  <1>1. /\ Len(s) \in Nat \ {0} /\ Len(t) = Len(s) - 1
        /\ \A i \in 1..Len(s) - 1 : t[i] = s[i]
    BY StackPop
  <1> QED
    BY <1>1 DEF StackOff

LEMMA TopOff ==
  ASSUME NEW c, IsStack(stack[c]), stack[c] # <<>>, NEW r, StackOff(stack[c], r)
  PROVE  Off(Top(c).dst, r)
  <1>1. Len(stack[c]) \in Nat \ {0}
    BY StackTop
  <1> QED
    BY <1>1 DEF StackOff, Top

(* A copy writes where its destination leads. *)
LEMMA CopySpares ==
  ASSUME CInv, NEW c \in Call, Walking(c), CopyStep(c),
         NEW r \in Path, LinksOff(r), HandsOff(c, r)
  PROVE  Spares(r, fs')
  <1> USE DEF Goto
  <1>0. /\ FsOk /\ CurOff(pc[c], cur[c], r) /\ (stack[c] # <<>> => Off(Top(c).dst, r))
    BY TopOff DEF CInv, CallOk, StackOk, HandsOff
  <1>1. CASE UNCHANGED fs
    BY <1>1, SameSpares
  <1>2. CASE Mkdir(c)
    <2>1. Off(Top(c).dst, r) /\ fs' = AfterMkdirAll(Entry(Top(c).dst), Top(c).mode)
      BY <1>0, <1>2 DEF Mkdir, Walking
    <2> QED
      BY <1>0, <2>1, EntryOff, MkdirSpares
  <1>3. CASE ChmodDir(c)
    <2>1. Off(Top(c).dst, r) /\ fs' = WithMode(Real(Top(c).dst), Top(c).mode)
      BY <1>0, <1>3 DEF ChmodDir, Walking
    <2> QED
      BY <1>0, <2>1, RealOff, RewriteSpares
  <1>4. CASE Create(c)
    <2>1. Off(cur[c].dst, r)
      BY <1>0, <1>4 DEF Create, CurOff
    <2>2. fs' = fs \/ \E mode : fs' = AfterCreate(Real(cur[c].dst), mode)
      BY <1>4 DEF Create
    <2> QED
      BY <1>0, <2>1, <2>2, RealOff, CreateSpares, SameSpares
  <1>5. CASE Write(c)
    <2>1. Off(cur[c].dst, r)
      BY <1>0, <1>5 DEF Write, CurOff
    <2>2. fs' = fs \/ \E data : fs' = WithData(Real(cur[c].dst), data)
      BY <1>5 DEF Write
    <2> QED
      BY <1>0, <2>1, <2>2, RealOff, RewriteSpares, SameSpares
  <1>6. CASE Chmod(c)
    <2>1. Off(cur[c].dst, r)
      BY <1>0, <1>6 DEF Chmod, CurOff
    <2>2. fs' = fs \/ fs' = WithMode(Real(cur[c].dst), FileMode(c))
      BY <1>6 DEF Chmod
    <2> QED
      BY <1>0, <2>1, <2>2, RealOff, RewriteSpares, SameSpares
  <1>7. CASE CloseFails(c)
    <2>1. Off(cur[c].dst, r)
      BY <1>0, <1>7 DEF CloseFails, CurOff
    <2>2. \E data : fs' = WithData(Real(cur[c].dst), data)
      BY <1>7 DEF CloseFails
    <2> QED
      BY <1>0, <2>1, <2>2, RealOff, RewriteSpares
  <1> QED
    BY <1>1, <1>2, <1>3, <1>4, <1>5, <1>6, <1>7
    DEF CopyStep, Enter, EnterConfined, List, Ascend, Descend, Refuse, TakeFile, ReadFails,
        WriteDone, Close, CopyFault

LEMMA CopyHandsOff ==
  ASSUME IInv, CInv, NEW c \in Call, Walking(c), CopyStep(c),
         NEW r \in Path, HandsOff(c, r)
  PROVE  StackOff(stack'[c], r) /\ CurOff(pc'[c], cur'[c], r)
  <1> USE DEF Goto, Failing, callVars, copyVars
  <1>0. /\ StackOk(c, stack[c]) /\ IsStack(stack[c])
        /\ StackOff(stack[c], r) /\ CurOff(pc[c], cur[c], r)
        /\ stack[c] # <<>> => FrameOk(c, Top(c)) /\ Off(Top(c).dst, r)
        /\ DOMAIN pc = Call /\ DOMAIN stack = Call /\ DOMAIN cur = Call
    BY TopOk, TopOff DEF CInv, CallOk, StackOk, IInv, Functions, HandsOff
  <1> DEFINE Result == StackOff(stack'[c], r) /\ CurOff(pc'[c], cur'[c], r)
  <1>1. ASSUME NEW f, Off(f.dst, r), stack' = SetTop(c, f), stack[c] # <<>>
        PROVE  StackOff(stack'[c], r)
    <2>1. stack'[c] = [stack[c] EXCEPT ![Len(stack[c])] = f]
      BY <1>0, <1>1 DEF SetTop
    <2> QED
      BY <1>0, <1>1, <2>1, StackOffTop
  <1>2. ASSUME Enter(c) \/ EnterConfined(c) \/ List(c) PROVE Result
    <2>1. stack[c] # <<>> /\ CurOff(pc'[c], cur'[c], r)
      BY <1>0, <1>2 DEF Enter, EnterConfined, List, Walking, CurOff
    <2>2. DOMAIN Top(c) = {"src", "dst", "mode", "todo"} /\ Off(Top(c).dst, r)
      BY <1>0, <2>1 DEF FrameOk
    <2>3. stack' = stack \/ \E f : f.dst = Top(c).dst /\ stack' = SetTop(c, f)
      BY <1>2, <2>2 DEF Enter, EnterConfined, List
    <2> QED
      BY <1>0, <1>1, <2>1, <2>2, <2>3
  <1>3. ASSUME Ascend(c) PROVE Result
    <2>1. stack[c] # <<>> /\ stack'[c] = SubSeq(stack[c], 1, Len(stack[c]) - 1)
      BY <1>0, <1>3 DEF Ascend, Walking
    <2> QED
      BY <1>0, <1>3, <2>1, StackOffPop DEF Ascend, CurOff
  <1>4. ASSUME NEW e \in Top(c).todo, pc[c] = "next"
        PROVE  /\ stack[c] # <<>> /\ Off(TargetOf(c, e), r)
               /\ [Top(c) EXCEPT !.todo = @ \ {e}].dst = Top(c).dst
    <2>1. stack[c] # <<>> /\ FrameOk(c, Top(c)) /\ e.name \in Name
      BY <1>0, <1>4 DEF Walking, FrameOk
    <2> QED
      BY <1>0, <2>1, AppendOff DEF TargetOf, FrameOk
  <1>5. ASSUME NEW e \in Top(c).todo, pc[c] = "next", Descend(c, e) PROVE Result
    <2> DEFINE f == [Top(c) EXCEPT !.todo = @ \ {e}]
               s == [stack[c] EXCEPT ![Len(stack[c])] = f]
    <2>1. PICK g : stack'[c] = Append(s, g) /\ g.dst = TargetOf(c, e)
      BY <1>0, <1>5 DEF Descend, Without, SetTop, Frame
    <2>2. Off(f.dst, r) /\ Off(g.dst, r) /\ stack[c] # <<>>
      BY <1>0, <1>4, <1>5, <2>1
    <2> HIDE DEF f
    <2>3. StackOff(s, r) /\ IsStack(s)
      BY <1>0, <2>2, StackOffTop, StackTop
    <2> HIDE DEF s
    <2> QED
      BY <1>0, <1>5, <2>1, <2>2, <2>3, StackOffPush, ZenonT(60) DEF Descend, CurOff
  <1>6. ASSUME NEW e \in Top(c).todo, Refuse(c, e) PROVE Result
    BY <1>0, <1>6 DEF Refuse, CurOff
  <1>7. ASSUME NEW e \in Top(c).todo, pc[c] = "next", TakeFile(c, e) PROVE Result
    <2>1. stack' = SetTop(c, [Top(c) EXCEPT !.todo = @ \ {e}])
      BY <1>7 DEF TakeFile, Without
    <2>2. StackOff(stack'[c], r)
      BY <1>0, <1>1, <1>4, <1>7, <2>1
    <2>3. cur'[c].dst = TargetOf(c, e)
      BY <1>0, <1>7 DEF TakeFile
    <2> QED
      BY <1>4, <1>7, <2>2, <2>3 DEF CurOff
  <1>8. ASSUME Write(c) PROVE Result
    <2>1. DOMAIN cur[c] = {"src", "dst", "off", "mode"}
      BY DEF CInv, CallOk, CurOk
    <2> QED
      BY <1>0, <1>8, <2>1 DEF Write, CurOff
  <1>9. ASSUME Mkdir(c) \/ ChmodDir(c) \/ Create(c) \/ ReadFails(c) PROVE Result
    BY <1>0, <1>9 DEF Mkdir, ChmodDir, Create, ReadFails, CurOff
  <1>10. ASSUME WriteDone(c) \/ Chmod(c) \/ Close(c) PROVE Result
    BY <1>0, <1>10 DEF WriteDone, Chmod, Close, CurOff
  <1>11. ASSUME CloseFails(c) \/ CopyFault(c) PROVE Result
    BY <1>0, <1>11 DEF CloseFails, CopyFault, CurOff
  <1>12. Result
    BY <1>2, <1>3, <1>5, <1>6, <1>7, <1>8, <1>9, <1>10, <1>11 DEF CopyStep
  <1> QED
    BY <1>12

(* What a step that is no copy leaves in the hands of a call. *)
LEMMA FileHandsOff ==
  ASSUME IInv, PInv, CInv, NEW c \in Call, FileStep(c), NEW r \in Path, HandsOff(c, r)
  PROVE  StackOff(stack'[c], r) /\ CurOff(pc'[c], cur'[c], r)
  <1> USE DEF Goto, callVars, copyVars
  <1>0. /\ IsStack(stack[c]) /\ StackOff(stack[c], r) /\ CurOff(pc[c], cur[c], r) /\ Place(c)
        /\ DOMAIN pc = Call /\ DOMAIN stack = Call /\ DOMAIN cur = Call
        /\ Off(job[c].dst, r) /\ (IsFile(c) => Off(UrlPath(job[c].dst), r))
    BY DEF HandsOff, Given, IInv, Functions, PInv, CInv
  <1>1. IsFile(c)
    BY <1>0 DEF FileStep, FileBegin, FileStat, Sniff, GetExpander, Expand, DirSize, ParseSave,
       FileFault, Place, IsGit, IsFile, IsOci, CopyLabel, FileLabel
  <1>2. StackOff(stack'[c], r)
    <2>1. CASE stack' = Push(c, Frame(job[c].src, job[c].dst, {}))
      <3>1. stack'[c] = Append(stack[c], Frame(job[c].src, job[c].dst, {}))
        BY <1>0, <2>1 DEF Push
      <3> QED
        BY <1>0, <3>1, StackOffPush DEF Frame
    <2> QED
      BY <1>0, <2>1 DEF FileStep, FileBegin, FileStat, Sniff, GetExpander, Expand, DirSize,
         ParseSave, FileFault
  <1>3. CurOff(pc'[c], cur'[c], r)
    <2>1. CASE ParseSave(c)
      BY <1>0, <1>1, <2>1 DEF ParseSave, CurOff, NoFile
    <2>2. CASE ~ParseSave(c)
      BY <1>0, <2>2 DEF FileStep, FileBegin, FileStat, Sniff, GetExpander, Expand, DirSize,
         FileFault, CurOff
    <2> QED
      BY <2>1, <2>2
  <1> QED
    BY <1>2, <1>3

LEMMA CloneHandsOff ==
  ASSUME IInv, PInv, CInv, NEW c \in Call, CloneStep(c), NEW r \in Path, HandsOff(c, r)
  PROVE  StackOff(stack'[c], r) /\ CurOff(pc'[c], cur'[c], r)
  <1> USE DEF Goto, callVars, copyVars
  <1>0. /\ IsStack(stack[c]) /\ StackOff(stack[c], r) /\ Off(job[c].dst, r)
        /\ DOMAIN pc = Call /\ DOMAIN stack = Call
    BY DEF HandsOff, Given, IInv, Functions, PInv
  <1>1. StackOff(stack'[c], r)
    <2>1. CASE EnterSubdir(c) /\ stack' # stack
      <3>1. stack'[c] = Append(stack[c], Frame(job[c].root \o Subdir(Url(c)), job[c].dst, {}))
        BY <1>0, <2>1 DEF EnterSubdir, Push
      <3> QED
        BY <1>0, <3>1, StackOffPush DEF Frame
    <2>2. CASE stack' = stack
      BY <1>0, <2>2
    <2> QED
      BY <2>1, <2>2 DEF CloneStep, GitStep, GitBegin, MkTemp, PlainInit, Fetch, FetchFails,
         Checkout, HeadRef, Cleanup, CleanupFails, GitFault
  <1>2. CurOff(pc'[c], cur'[c], r)
    BY <1>0 DEF CloneStep, GitStep, GitBegin, MkTemp, PlainInit, Fetch, FetchFails, Checkout,
       EnterSubdir, HeadRef, Cleanup, CleanupFails, Return, GitFault, CurOff
  <1> QED
    BY <1>1, <1>2

(* The steps of an OCI gather. *)
PullStep(c) ==
  \/ OciStep(c) \/ Resolve(c) \/ Repeat(c) \/ RequestFails(c)
  \/ \E t \in pull[c].todo : Pull(c, t)

LEMMA PullKeeps ==
  ASSUME IInv, PInv, NEW c \in Call, PullStep(c)
  PROVE  /\ IsOci(c) /\ UNCHANGED <<job, stack, cur>>
         /\ pc'[c] \notin CopyLabel \cup {"begin"}
  <1>0. DOMAIN pc = Call /\ Place(c)
    BY DEF IInv, Functions, PInv
  <1> QED
    BY <1>0 DEF PullStep, OciStep, OciBegin, OpenStore, Pulled, CloseStore, CloseStoreFails,
       OciFault, Resolve, Repeat, RequestFails, Requesting, Pull, Place, IsGit, IsFile, IsOci,
       CopyLabel, FileLabel, Goto, callVars, copyVars

(* What GetPinnedURL makes of a job. *)
LEMMA PinnedJob ==
  ASSUME PInv, NEW c \in Call, Again(c)
  PROVE  /\ job'[c].kind = job[c].kind /\ job'[c].dst = job[c].again /\ job'[c].again = <<>>
         /\ IsGit(c) => job'[c].root = job[c].root
         /\ job[c].again # <<>> /\ ~IsFile(c) /\ \A d \in Call \ {c} : job'[d] = job[d]
  <1> DEFINE j == [job[c] EXCEPT !.dst = job[c].again, !.again = <<>>]
  <1>0. /\ job[c] \in Job /\ job \in [Call -> Job] /\ (IsGit(c) \/ IsOci(c)) /\ ~IsFile(c)
        /\ job' = [job EXCEPT ![c] = Pinned(c)] /\ job[c].again # <<>>
    BY DEF PInv, Typed, Again, IsGit, IsOci, IsFile
  <1>1. CASE IsGit(c)
    <2>1. job[c] \in GitJob
      BY <1>0, <1>1 DEF Job, FileJob, GitJob, OciJob, IsGit
    <2>2. PICK u : Pinned(c) = [j EXCEPT !.url = u]
      BY <1>1 DEF Pinned
    <2> QED
      BY <1>0, <1>1, <2>1, <2>2 DEF GitJob
  <1>2. CASE IsOci(c)
    <2>1. job[c] \in OciJob /\ ~IsGit(c)
      BY <1>0, <1>2 DEF Job, FileJob, GitJob, OciJob, IsOci, IsGit
    <2>2. PICK n : Pinned(c) = [j EXCEPT !.ref = n]
      BY <2>1 DEF Pinned
    <2> QED
      BY <1>0, <2>1, <2>2 DEF OciJob
  <1> QED
    BY <1>0, <1>1, <1>2

(* A call is given nothing new to write to. *)
LEMMA GivenShrinks ==
  ASSUME IInv, PInv, NEW c \in Call, ByCall(c)
  PROVE  Given(c)' \subseteq Given(c)
  <1> USE DEF Goto, callVars, copyVars
  <1>0. DOMAIN pc = Call /\ job[c] \in Job /\ job \in [Call -> Job]
    BY DEF IInv, Functions, PInv, Typed
  <1>1. CASE UNCHANGED job /\ pc'[c] # "begin"
    BY <1>1, ZenonT(60) DEF Given, IsFile, UrlPath
  <1>2. CASE FileBegin(c) /\ job' # job
    <2>1. PICK s \in ExpandPath(c, job[c].src), d \in ExpandPath(c, job[c].dst) :
            job' = [job EXCEPT ![c] = [job[c] EXCEPT !.src = s, !.dst = d]]
      BY <1>2 DEF FileBegin
    <2>2. job[c] \in FileJob
      BY <1>0, <1>2 DEF FileBegin, IsFile, Job, FileJob, GitJob, OciJob
    <2>3. job'[c].kind = "file" /\ job'[c].dst = d /\ pc'[c] = "stat" /\ pc[c] = "begin"
      BY <1>0, <1>2, <2>1, <2>2 DEF FileJob, FileBegin
    <2> QED
      BY <2>3, <1>2, ZenonT(30) DEF Given, IsFile, UrlPath, FileBegin
  <1>3. CASE Again(c)
    BY <1>3, PinnedJob DEF Given, IsFile
  <1>4. CASE CopyStep(c)
    <2>1. Moves(c)
      BY <1>4, CopyMoves DEF PInv
    <2> QED
      BY <1>1, <2>1 DEF Moves, Failing, CopyLabel
  <1>5. CASE FileStep(c)
    BY <1>0, <1>1, <1>2, <1>5 DEF FileStep, FileBegin, FileStat, Sniff, GetExpander, Expand,
       DirSize, ParseSave, FileFault
  <1>6. CASE CloneStep(c)
    BY <1>0, <1>1, <1>6 DEF CloneStep, GitStep, GitBegin, MkTemp, PlainInit, Fetch, FetchFails,
       Checkout, EnterSubdir, HeadRef, Cleanup, CleanupFails, Return, GitFault
  <1>7. CASE PullStep(c)
    BY <1>1, <1>7, PullKeeps
  <1>8. CASE Crash(c)
    BY <1>0, <1>1, <1>8 DEF Crash
  <1> QED
    BY <1>3, <1>4, <1>5, <1>6, <1>7, <1>8
    DEF ByCall, Local, Answered, Unanswered, CloneStep, PullStep

-----------------------------------------------------------------------------
(* A step of a call that has a place off its hands changes nothing there.    *)

LEMMA ExpandSpares ==
  ASSUME FsOk, NEW c \in Call, Expand(c), NEW r \in Path, LinksOff(r), Off(job[c].dst, r)
  PROVE  Spares(r, fs')
  <1> DEFINE rest == Tail(fs[Real(job[c].src)].data)
             room == AfterMkdirAll(Entry(job[c].dst), Permission)
             inner == Append(Real(job[c].dst), Inner)
             whole == Put(inner, File(Permission \ Umask, rest), room)
  <1>1. Spares(r, room)
    BY EntryOff, MkdirSpares
  <1>2. Off(inner, r)
    BY RealOff, AppendOff, SourceAssumption
  <1>3. Spares(r, whole)
    <2>1. inner \in Path /\ ~Under(inner, r)
      BY <1>2, AwayOut DEF Off
    <2> HIDE DEF room, inner
    <2> QED
      BY <1>1, <2>1, PutSpares DEF File
  <1>4. fs' = fs \/ fs' = whole
    BY DEF Expand
  <1> HIDE DEF whole
  <1> QED
    BY <1>3, <1>4, SameSpares

LEMMA BaseOff ==
  ASSUME FsOk, NEW c \in Call, NEW r \in Path, LinksOff(r),
         Off(job[c].dst, r), Off(job[c].root, r)
  PROVE  Off(Real(Base(c)), r) /\ Off(Entry(Base(c)), r)
  <1>1. Off(Base(c), r)
    BY DEF Base
  <1> QED
    BY <1>1, RealOff, EntryOff

LEMMA CloneSpares ==
  ASSUME CInv, NEW c \in Call, IsGit(c), CloneStep(c),
         NEW r \in Path, OutOff(r), LinksOff(r), Off(job[c].dst, r), Off(job[c].root, r)
  PROVE  Spares(r, fs')
  <1> USE DEF Goto
  <1>0. /\ RootsOk /\ FsOk /\ CloneOk(c) /\ tip \in DOMAIN Commits
        /\ Off(job[c].dst, r) /\ Off(job[c].root, r)
        /\ Off(Real(Base(c)), r) /\ Off(Entry(Base(c)), r)
    BY BaseOff DEF CInv, CallOk
  <1>1. CASE UNCHANGED fs
    BY <1>1, SameSpares
  <1>2. CASE MkTemp(c)
    <2>1. fs' = Put(job[c].root, Dir(Permission \ Umask), fs)
      BY <1>2 DEF MkTemp
    <2>2. job[c].root \in Path /\ ~Under(job[c].root, r)
      BY <1>0, AwayOut DEF Off
    <2> QED
      BY <2>1, <2>2, SameSpares, PutSpares DEF Dir
  <1>3. CASE PlainInit(c)
    <2> DEFINE git == Append(Real(Base(c)), DotGit)
               new == AfterMkdirAll(Entry(Base(c)), Permission)
    <2>1. Spares(r, new)
      BY <1>0, MkdirSpares
    <2>2. git \in Path /\ ~Under(git, r)
      BY <1>0, AppendOff, AwayOut, SourceAssumption DEF Off
    <2>3. fs' = fs \/ fs' = Put(git, Dir(Permission \ Umask), new)
      BY <1>3 DEF PlainInit
    <2> HIDE DEF git, new
    <2> QED
      BY <2>1, <2>2, <2>3, SameSpares, PutSpares DEF Dir
  <1>4. CASE Fetch(c)
    <2> DEFINE base == Real(Base(c))
    <2>1. fs' = Over(Placed(tip, base), fs) /\ Off(base, r)
      BY <1>0, <1>4 DEF Fetch
    <2> HIDE DEF base
    <2> QED
      BY <1>0, <2>1, PlacedSpares, SameSpares, OverSpares
  <1>5. CASE FetchFails(c)
    <2>1. PICK S \in SUBSET Tree(Real(Base(c))) : fs' = [q \in DOMAIN fs \ S |-> fs[q]]
      BY <1>5 DEF FetchFails
    <2> QED
      BY <1>0, <2>1, RemoveSpares
  <1>6. CASE Checkout(c) /\ Revision(c) \in clone[c].have
    <2> DEFINE base == Real(Base(c))
               n == Revision(c)
               old == DOMAIN Placed(clone[c].head, base)
               kept == [p \in DOMAIN fs \ (old \ {base}) |-> fs[p]]
    <2>1. n \in DOMAIN Commits /\ clone[c].head \in DOMAIN Commits
      BY <1>0, <1>6 DEF CloneOk, Checkout
    <2>2. fs' = Over(Placed(n, base), kept) /\ Off(base, r)
      BY <1>0, <1>6 DEF Checkout
    <2> HIDE DEF base, n
    <2>3. \A p \in old \ {base} : ~Under(p, r)
      BY <2>1, <2>2, PlacedSpares
    <2> HIDE DEF old
    <2>4. Spares(r, kept)
      BY <2>3, CutSpares
    <2> HIDE DEF kept
    <2> QED
      BY <2>1, <2>2, <2>4, PlacedSpares, OverSpares
  <1>7. CASE Checkout(c) /\ Revision(c) \notin clone[c].have
    BY <1>1, <1>7 DEF Checkout
  <1>8. CASE Cleanup(c)
    <2>1. PICK S \in SUBSET Tree(job[c].root) : fs' = [q \in DOMAIN fs \ S |-> fs[q]]
      BY <1>8 DEF Cleanup
    <2> QED
      BY <1>0, <2>1, RemoveSpares
  <1> QED
    BY <1>1, <1>2, <1>3, <1>4, <1>5, <1>6, <1>7, <1>8
    DEF CloneStep, GitStep, GitBegin, EnterSubdir, HeadRef, CleanupFails, GitFault

LEMMA BlobSpares ==
  ASSUME FsOk, NEW r \in Path, LinksOff(r), NEW d, Off(d, r), NEW t \in Name, NEW data
  PROVE  LET p == Real(Append(d, t)) IN
         /\ Spares(r, AfterCreate(p, Permission))
         /\ Spares(r, [AfterCreate(p, Permission) EXCEPT ![p].data = data])
  <1> DEFINE p == Real(Append(d, t))
             new == AfterCreate(p, Permission)
  <1>1. Off(p, r)
    BY AppendOff, RealOff
  <1> HIDE DEF p
  <1>2. Spares(r, new)
    BY <1>1, CreateSpares
  <1>3. PICK mode : new[p] = File(mode, <<>>)
    BY DEF AfterCreate, Put
  <1>4. [new[p] EXCEPT !.data = data].kind # "link"
    BY <1>3 DEF File
  <1>5. p \in Path /\ ~Under(p, r)
    BY <1>1, AwayOut DEF Off
  <1> HIDE DEF new
  <1>6. Spares(r, [new EXCEPT ![p] = [new[p] EXCEPT !.data = data]])
    BY <1>2, <1>4, <1>5 DEF Spares
  <1> QED
    BY <1>2, <1>6 DEF p, new

LEMMA PullSpares ==
  ASSUME IInv, PInv, CInv, NEW c \in Call, PullStep(c),
         NEW r \in Path, LinksOff(r), Off(job[c].dst, r)
  PROVE  Spares(r, fs')
  <1>0. FsOk /\ Off(job[c].dst, r) /\ pull[c].todo \subseteq Name
    BY PullKeeps DEF CInv, CallOk
  <1>1. CASE UNCHANGED fs
    BY <1>1, SameSpares
  <1>2. CASE OpenStore(c)
    <2>1. fs' = AfterMkdirAll(Entry(job[c].dst), Permission)
      BY <1>2 DEF OpenStore
    <2> QED
      BY <1>0, <2>1, EntryOff, MkdirSpares
  <1>3. CASE RequestFails(c) /\ fs' # fs
    <2>1. PICK t \in pull[c].todo : fs' = AfterCreate(Real(Append(job[c].dst, t)), Permission)
      BY <1>3 DEF RequestFails
    <2> QED
      BY <1>0, <2>1, BlobSpares
  <1>4. ASSUME NEW t \in pull[c].todo, Pull(c, t)
        PROVE  Spares(r, fs')
    <2>1. fs' = [AfterCreate(Real(Append(job[c].dst, t)), Permission)
                   EXCEPT ![Real(Append(job[c].dst, t))].data = PullOf(c)[t]]
      BY <1>4 DEF Pull
    <2> QED
      BY <1>0, <2>1, BlobSpares
  <1> QED
    BY <1>1, <1>2, <1>3, <1>4
    DEF PullStep, OciStep, OciBegin, Pulled, CloseStore, CloseStoreFails, OciFault, Resolve,
        Repeat, copyVars

(* What a call does spares a place it has off its hands, which stays off.    *)
LEMMA StepSpares ==
  ASSUME IInv, PInv, CInv, NEW c \in Call, ByCall(c),
         NEW r \in Path, OutOff(r), LinksOff(r), HandsOff(c, r)
  PROVE  Spares(r, fs') /\ HandsOff(c, r)'
  <1> DEFINE Result == Spares(r, fs') /\ StackOff(stack'[c], r) /\ CurOff(pc'[c], cur'[c], r)
  <1>0. Walking(c) /\ FsOk /\ Off(job[c].dst, r)
    BY DEF PInv, CInv, HandsOff, Given
  <1>1. ASSUME CopyStep(c) PROVE Result
    BY <1>0, <1>1, CopySpares, CopyHandsOff
  <1>2. ASSUME FileStep(c) PROVE Result
    <2>1. Spares(r, fs')
      BY <1>0, <1>2, ExpandSpares, SameSpares
      DEF FileStep, FileBegin, FileStat, Sniff, GetExpander, DirSize, ParseSave, FileFault
    <2> QED
      BY <1>2, <2>1, FileHandsOff
  <1>3. ASSUME CloneStep(c) PROVE Result
    <2>1. IsGit(c)
      BY <1>3 DEF PInv, Place, CloneStep, GitStep, GitBegin, MkTemp, PlainInit, Fetch, FetchFails,
         Checkout, EnterSubdir, HeadRef, Cleanup, CleanupFails, Return, GitFault, Goto, IsGit,
         IsFile, IsOci, CopyLabel, FileLabel
    <2>2. Off(job[c].root, r)
      BY <2>1 DEF HandsOff
    <2> QED
      BY <1>0, <1>3, <2>1, <2>2, CloneSpares, CloneHandsOff
  <1>4. ASSUME PullStep(c) PROVE Result
    BY <1>0, <1>4, PullSpares, PullKeeps DEF HandsOff, CurOff, CopyLabel
  <1>5. ASSUME Crash(c) PROVE Result
    BY <1>5, SameSpares DEF Crash, HandsOff, CurOff, copyVars, IInv, Functions
  <1>6. ASSUME Again(c) PROVE Result
    BY <1>6, SameSpares DEF Again, HandsOff, CurOff, copyVars, IInv, Functions
  <1>7. Result
    BY <1>1, <1>2, <1>3, <1>4, <1>5, <1>6
    DEF ByCall, Local, Answered, Unanswered, CloneStep, PullStep
  <1>8. RootsKept
    BY ByCallGood DEF Good
  <1>9. Given(c)' \subseteq Given(c)
    BY GivenShrinks
  <1>10. \A p \in Given(c)' : Off(p, r)
    BY <1>9 DEF HandsOff
  <1>11. IsGit(c)' => IsGit(c) /\ job'[c].root = job[c].root
    BY <1>8 DEF RootsKept, Owners, IsGit
  <1> QED
    BY <1>7, <1>10, <1>11 DEF HandsOff

-----------------------------------------------------------------------------
(* A place nobody but c has in hands, and that no link outside it leads to.  *)

Fenced(c, r) ==
  /\ r \in Path \ {<<>>} /\ OutOff(r) /\ LinksOff(r)
  /\ \A d \in Call \ {c} : HandsOff(d, r)

(* The destinations of a git or OCI gather: now, the next time, the first.   *)
Places(c) == {job[c].dst, job[c].again, first[c].dst} \ {<<>>}

(* What the caller has to see to before the calls: the destinations of c lie *)
(* apart from what the others are given, and no link leads there.            *)
Secluded(c) ==
  /\ job[c].dst # <<>>
  /\ \A r \in {job[c].dst, job[c].again} \ {<<>>} :
       /\ OutOff(r)
       /\ \A d \in Call \ {c} : \A p \in Targets(job[d]) : ~Overlap(p, r)
       /\ \A p \in Leads(fs) : ~Overlap(p, r) /\ ~Overlap(fs[p].to, r)

LEMMA InitFenced ==
  ASSUME Init, NEW c \in Call, ~IsFile(c), Secluded(c)
  PROVE  job[c].dst # <<>> /\ \A r \in Places(c) : Fenced(c, r)
  <1> SUFFICES ASSUME NEW r \in {job[c].dst, job[c].again} \ {<<>>}
               PROVE  Fenced(c, r)
    BY DEF Init, Before, Places, Secluded
  <1>1. /\ job \in Scenario /\ r \in Targets(job[c]) /\ r \in Path \ {<<>>}
        /\ fs = Tree0 /\ \A d \in Call : Targets(job[d]) \subseteq Path
    <2>1. job \in Scenario /\ fs = Tree0
      BY DEF Init
    <2>2. \A d \in Call : Targets(job[d]) \subseteq Path
      BY <2>1, TemporaryAssumption
    <2>3. r \in Targets(job[c])
      BY DEF Targets, IsFile
    <2> QED
      BY <2>1, <2>2, <2>3
  <1>2. LinksOff(r)
    <2>1. ASSUME NEW p \in DOMAIN fs, fs[p].kind = "link"
          PROVE  Off(p, r) /\ Off(fs[p].to, r)
      <3>1. p \in Path /\ fs[p].to \in Path
        BY <1>1, <2>1, SourceAssumption DEF Node
      <3> QED
        BY <2>1, <3>1 DEF Secluded, Leads, Off
    <2> QED
      BY <2>1 DEF LinksOff, LinkOff
  <1>3. ASSUME NEW d \in Call \ {c}
        PROVE  HandsOff(d, r)
    <2>1. Given(d) \subseteq Targets(job[d])
      BY DEF Given, Targets, IsFile, ExpandPath
    <2>2. \A p \in Given(d) : Off(p, r)
      BY <1>1, <1>3, <2>1 DEF Secluded, Off
    <2>3. CASE IsGit(d)
      <3>1. job[d].root \in Path /\ ~Overlap(r, job[d].root)
        BY <1>1, <2>3, TemporaryAssumption DEF Owners, IsGit
      <3> QED
        BY <1>1, <2>2, <3>1, OverlapBothWays, EmptySeq
        DEF HandsOff, Off, Init, StackOff, CurOff
    <2>4. CASE ~IsGit(d)
      BY <2>2, <2>4, EmptySeq DEF HandsOff, Init, StackOff, CurOff
    <2> QED
      BY <2>3, <2>4
  <1> QED
    BY <1>1, <1>2, <1>3 DEF Fenced, Secluded

(* A step of another call changes nothing in a fenced place, nor the fence.  *)
LEMMA OwnHands ==
  ASSUME NEW d, Own(d)' = Own(d), NEW r, HandsOff(d, r)
  PROVE  HandsOff(d, r)'
  BY DEF Own, HandsOff, Given, StackOff, CurOff, IsFile, IsGit, ExpandPath

LEMMA SparesLinks ==
  ASSUME NEW r, LinksOff(r), Spares(r, fs')
  PROVE  LinksOff(r)' /\ Still(r)
  BY DEF LinksOff, Spares, Still

LEMMA ByOther ==
  ASSUME IInv, PInv, CInv, NEW c \in Call, NEW d \in Call \ {c}, ByCall(d),
         NEW r, Fenced(c, r)
  PROVE  Fenced(c, r)' /\ Still(r)
  <1>1. r \in Path /\ OutOff(r) /\ LinksOff(r) /\ HandsOff(d, r)
    BY DEF Fenced
  <1>2. Spares(r, fs') /\ HandsOff(d, r)'
    BY <1>1, StepSpares
  <1>3. LinksOff(r)' /\ Still(r)
    BY <1>1, <1>2, SparesLinks
  <1>4. ASSUME NEW e \in Call \ {c, d}
        PROVE  HandsOff(e, r)'
    <2>1. Own(e)' = Own(e) /\ HandsOff(e, r)
      BY <1>4, ByCallGood DEF Good, Fenced
    <2> QED
      BY <2>1, OwnHands
  <1> QED
    BY <1>2, <1>3, <1>4 DEF Fenced, OutOff

LEMMA ByItself ==
  ASSUME IInv, PInv, CInv, NEW c \in Call, ByCall(c), NEW r, Fenced(c, r), LinksOff(r)'
  PROVE  Fenced(c, r)'
  <1>1. ASSUME NEW e \in Call \ {c}
        PROVE  HandsOff(e, r)'
    <2>1. Own(e)' = Own(e) /\ HandsOff(e, r)
      BY <1>1, ByCallGood DEF Good, Fenced
    <2> QED
      BY <2>1, OwnHands
  <1> QED
    BY <1>1 DEF Fenced, OutOff

LEMMA ByNone ==
  ASSUME NEW c \in Call, ByNobody, NEW r, Fenced(c, r)
  PROVE  Fenced(c, r)' /\ Still(r)
  <1>1. \A e \in Call \ {c} : HandsOff(e, r)'
    BY OwnHands DEF Fenced, ByNobody, Own
  <1> QED
    BY <1>1 DEF Fenced, OutOff, LinksOff, Still, ByNobody

(* What is below a fenced place, with no link in it, is what it seems.       *)
LEMMA FencedReal ==
  ASSUME NEW c, NEW r, Fenced(c, r), NEW p \in Path, Under(p, r),
         \A q \in DOMAIN fs : Under(q, r) => fs[q].kind # "link"
  PROVE  Real(p) = p
  <1>0. r \in Path /\ LinksOff(r)
    BY DEF Fenced
  <1>1. ASSUME NEW i \in 1..Len(p), Is(SubSeq(p, 1, i), "link")
        PROVE  FALSE
    <2> DEFINE q == SubSeq(p, 1, i)
    <2>1. i \in 0..Len(p) /\ q \in Path /\ Len(q) = i /\ \A k \in 1..i : q[k] = p[k]
      BY PrefixPath
    <2>2. q \in DOMAIN fs /\ fs[q].kind = "link"
      BY <1>1 DEF Is
    <2>3. ~Under(q, r) /\ ~Overlap(q, r)
      BY <1>0, <2>2 DEF LinksOff, LinkOff, Off
    <2> HIDE DEF q
    <2> QED
      BY <1>0, <2>1, <2>3 DEF Overlap, Under, Path
  <1> QED
    BY <1>1, RealCases

(* A call's job changes when a file gather expands its paths, and when the    *)
(* caller gathers again.                                                     *)
LEMMA JobSteps ==
  ASSUME NEW d \in Call, ByCall(d)
  PROVE  (FileBegin(d) /\ UNCHANGED first) \/ Again(d) \/ UNCHANGED <<job, first>>
  <1> USE DEF callVars, copyVars, gitVars, ociVars
  <1>1. CASE Local(d)
    <2>1. CASE CopyStep(d) /\ UNCHANGED first
      BY <2>1 DEF CopyStep, Enter, EnterConfined, Mkdir, ChmodDir, List, Ascend, Descend, Refuse,
         TakeFile, Create, Write, ReadFails, WriteDone, Chmod, Close, CloseFails, CopyFault
    <2>2. CASE FileStep(d) /\ UNCHANGED first
      BY <2>2 DEF FileStep, FileStat, Sniff, GetExpander, Expand, DirSize, ParseSave, FileFault
    <2>3. CASE GitStep(d) /\ UNCHANGED first
      BY <2>3 DEF GitStep, GitBegin, MkTemp, PlainInit, Checkout, EnterSubdir, HeadRef, Cleanup,
         CleanupFails, Return, GitFault
    <2>4. CASE OciStep(d) /\ UNCHANGED first
      BY <2>4 DEF OciStep, OciBegin, OpenStore, Pulled, CloseStore, CloseStoreFails, OciFault
    <2> QED
      BY <1>1, <2>1, <2>2, <2>3, <2>4 DEF Local
  <1>2. CASE Answered(d) \/ Unanswered(d)
    BY <1>2 DEF Answered, Unanswered, Fetch, FetchFails, Resolve, Pull, RequestFails
  <1> QED
    BY <1>1, <1>2 DEF ByCall, Repeat, Crash

LEMMA KindKept ==
  ASSUME PInv, NEW c \in Call, NEW d \in Call, ByCall(d)
  PROVE  job'[c].kind = job[c].kind
  <1>1. CASE FileBegin(d)
    <2>1. job[d] \in FileJob /\ job \in [Call -> Job]
      BY <1>1 DEF PInv, Typed, Job, FileJob, GitJob, OciJob, FileBegin, IsFile
    <2>2. job' = job \/ \E s, t : job' = [job EXCEPT ![d] = [job[d] EXCEPT !.src = s, !.dst = t]]
      BY <1>1 DEF FileBegin
    <2> QED
      BY <2>1, <2>2 DEF FileJob
  <1>2. CASE Again(d)
    BY <1>2, PinnedJob
  <1> QED
    BY <1>1, <1>2, JobSteps

(* The destinations of a call become fewer, and are nobody else's business.  *)
LEMMA PlacesShrink ==
  ASSUME IInv, PInv, CInv, NEW c \in Call, ~IsFile(c), job[c].dst # <<>>,
         NEW d \in Call, ByCall(d)
  PROVE  /\ Places(c)' \subseteq Places(c) /\ job'[c].dst # <<>>
         /\ d # c => job'[c] = job[c] /\ first'[c] = first[c]
  <1>1. CASE Again(d)
    <2>1. /\ job'[d].dst = job[d].again /\ job'[d].again = <<>> /\ job[d].again # <<>>
          /\ \A e \in Call \ {d} : job'[e] = job[e]
      BY <1>1, PinnedJob
    <2>2. /\ first'[d].dst = job[d].dst
          /\ \A e \in Call \ {d} : first'[e] = first[e]
      BY <1>1 DEF Again, PInv, Typed
    <2> QED
      BY <2>1, <2>2 DEF Places
  <1>2. CASE first' = first /\ job'[c] = job[c]
    BY <1>2 DEF Places
  <1>3. d # c => job'[c] = job[c]
    BY ByCallGood DEF Good, Own
  <1> QED
    BY <1>1, <1>2, <1>3, JobSteps DEF FileBegin

-----------------------------------------------------------------------------
(* What an OCI gather does to the tree. *)

NoLinks(r) == \A p \in DOMAIN fs : Under(p, r) => fs[p].kind # "link"

OciByCall(c) == PullStep(c) \/ Crash(c) \/ Again(c)

LEMMA OciCases ==
  ASSUME IInv, PInv, NEW c \in Call, IsOci(c), ByCall(c)
  PROVE  OciByCall(c)
  <1>0. Place(c) /\ ~IsFile(c) /\ ~IsGit(c)
    BY DEF PInv, IsOci, IsFile, IsGit
  <1>1. ~CopyStep(c)
    BY <1>0 DEF CopyStep, Enter, EnterConfined, Mkdir, ChmodDir, List, Ascend, Descend, Refuse,
       TakeFile, Create, Write, ReadFails, WriteDone, Chmod, Close, CloseFails, CopyFault, Goto,
       Place, CopyLabel, FileLabel
  <1>2. ~FileStep(c)
    BY <1>0 DEF FileStep, FileBegin, FileStat, Sniff, GetExpander, Expand, DirSize, ParseSave,
       FileFault, Goto, Place, CopyLabel, FileLabel
  <1>3. ~CloneStep(c)
    BY <1>0 DEF CloneStep, GitStep, GitBegin, MkTemp, PlainInit, Fetch, FetchFails, Checkout,
       EnterSubdir, HeadRef, Cleanup, CleanupFails, Return, GitFault, Goto, Place, CopyLabel,
       FileLabel
  <1> QED
    BY <1>1, <1>2, <1>3
    DEF ByCall, Local, Answered, Unanswered, CloneStep, PullStep, OciByCall

LEMMA OciNodes ==
  ASSUME NEW c \in Call, OciByCall(c)
  PROVE  \A p \in DOMAIN fs' : (p \in DOMAIN fs /\ fs'[p] = fs[p]) \/ fs'[p].kind # "link"
  <1>1. CASE UNCHANGED fs
    BY <1>1
  <1>2. ASSUME NEW p, NEW mode
        PROVE  \A q \in DOMAIN AfterCreate(p, mode) :
                 \/ q \in DOMAIN fs /\ AfterCreate(p, mode)[q] = fs[q]
                 \/ q = p /\ AfterCreate(p, mode)[q].kind = "file"
    BY DEF AfterCreate, Put, File
  <1>3. CASE OpenStore(c)
    BY <1>3 DEF OpenStore, AfterMkdirAll, Dir
  <1>4. CASE RequestFails(c) /\ fs' # fs
    <2>1. PICK p : fs' = AfterCreate(p, Permission)
      BY <1>4 DEF RequestFails
    <2> QED
      BY <1>2, <2>1
  <1>5. ASSUME NEW t \in pull[c].todo, Pull(c, t)
        PROVE  \A p \in DOMAIN fs' : (p \in DOMAIN fs /\ fs'[p] = fs[p]) \/ fs'[p].kind # "link"
    <2> DEFINE p == Real(Append(job[c].dst, t))
               new == AfterCreate(p, Permission)
    <2>1. fs' = [new EXCEPT ![p] = [new[p] EXCEPT !.data = PullOf(c)[t]]]
      BY <1>5 DEF Pull
    <2>2. PICK mode : new[p] = File(mode, <<>>)
      BY DEF AfterCreate, Put
    <2>3. [new[p] EXCEPT !.data = PullOf(c)[t]].kind # "link"
      BY <2>2 DEF File
    <2>4. \A q \in DOMAIN new : q = p \/ (q \in DOMAIN fs /\ new[q] = fs[q])
      BY <1>2
    <2> HIDE DEF new, p
    <2> QED
      BY <2>1, <2>3, <2>4
  <1> QED
    BY <1>1, <1>3, <1>4, <1>5
    DEF OciByCall, PullStep, OciStep, OciBegin, Pulled, CloseStore, CloseStoreFails, OciFault,
        Resolve, Repeat, Crash, Again, copyVars

-----------------------------------------------------------------------------
(* What has arrived of an artifact: the blobs that need not be fetched any   *)
(* more are in the destination.                                              *)

Blob(c, m, t) ==
  LET p == Append(job[c].dst, t) IN Is(p, "file") /\ fs[p].data = Artifact[m][t]

Fetched(c, m, todo) ==
  /\ m \in DOMAIN Artifact /\ todo \subseteq DOMAIN Artifact[m]
  /\ \A t \in DOMAIN Artifact[m] \ todo : Blob(c, m, t)

Landed(c) ==
  /\ pc[c] = "pull" => Fetched(c, pull[c].digest, pull[c].todo)
  /\ \A m \in meta[c] : Fetched(c, m, {})

Arriving(c) ==
  /\ job[c].dst # <<>>
  /\ \A r \in Places(c) : Fenced(c, r) /\ NoLinks(r)
  /\ Landed(c)

LEMMA BlobPath ==
  ASSUME NEW d \in Path, NEW m \in DOMAIN Artifact, NEW t \in DOMAIN Artifact[m]
  PROVE  t \in Name /\ Append(d, t) \in Path /\ Under(Append(d, t), d)
  <1>1. t \in Name /\ Under(d, d)
    BY SourceAssumption DEF Under, Path
  <1> QED
    BY <1>1, AppendUnder

LEMMA StillLanded ==
  ASSUME NEW c, job[c].dst \in Path, Still(job[c].dst), Landed(c),
         job'[c] = job[c], pc'[c] = pc[c], meta'[c] = meta[c], pull'[c] = pull[c]
  PROVE  Landed(c)'
  <1>1. ASSUME NEW m, NEW todo, Fetched(c, m, todo)
        PROVE  Fetched(c, m, todo)'
    <2>1. ASSUME NEW t \in DOMAIN Artifact[m], Blob(c, m, t)
          PROVE  Blob(c, m, t)'
      <3>1. Append(job[c].dst, t) \in Path /\ Under(Append(job[c].dst, t), job[c].dst)
        BY <1>1, <2>1, BlobPath DEF Fetched
      <3> QED
        BY <2>1, <3>1 DEF Still, Blob, Is
    <2> QED
      BY <1>1, <2>1 DEF Fetched
  <1> QED
    BY <1>1 DEF Landed

LEMMA StillNoLinks ==
  ASSUME FsOk', NEW r, Still(r), NoLinks(r)
  PROVE  NoLinks(r)'
  BY DEF FsOk, NodeOk, Still, NoLinks

LEMMA InitArriving ==
  ASSUME Init, NEW c \in Call, IsOci(c), Secluded(c)
  PROVE  Arriving(c)
  <1>1. ~IsFile(c)
    BY DEF IsOci, IsFile
  <1>2. job[c].dst # <<>> /\ \A r \in Places(c) : Fenced(c, r)
    BY <1>1, InitFenced
  <1>3. ASSUME NEW r \in Places(c)
        PROVE  NoLinks(r)
    <2>1. r \in {job[c].dst, job[c].again} \ {<<>>} /\ r \in Path
      BY <1>2, <1>3 DEF Places, Init, Before, Fenced
    <2>2. ASSUME NEW p \in DOMAIN fs, Under(p, r)
          PROVE  fs[p].kind # "link"
      <3>1. p \in Path
        BY <2>2, SourceAssumption DEF Init
      <3> QED
        BY <2>1, <2>2, <3>1, AwayOut DEF Secluded, Leads
    <2> QED
      BY <2>2 DEF NoLinks
  <1>4. Landed(c)
    BY DEF Init, Landed
  <1> QED
    BY <1>2, <1>3, <1>4 DEF Arriving

LEMMA ArrivingByOther ==
  ASSUME IInv, PInv, CInv, CInv', NEW c \in Call, IsOci(c), Arriving(c),
         ByNobody \/ \E d \in Call \ {c} : ByCall(d)
  PROVE  Arriving(c)' /\ IsOci(c)'
  <1>0. ~IsFile(c) /\ job[c].dst # <<>> /\ FsOk'
    BY DEF IsOci, IsFile, Arriving, CInv
  <1>1. /\ pc'[c] = pc[c] /\ job'[c] = job[c] /\ meta'[c] = meta[c] /\ pull'[c] = pull[c]
        /\ first'[c] = first[c]
        /\ \A r \in Places(c) : Fenced(c, r)' /\ Still(r)
    <2>1. CASE ByNobody
      BY <2>1, ByNone DEF ByNobody, Arriving
    <2>2. ASSUME NEW d \in Call \ {c}, ByCall(d)
          PROVE  <1>1
      <3>1. Own(c)' = Own(c)
        BY <2>2, ByCallGood DEF Good
      <3>2. first'[c] = first[c]
        BY <1>0, <2>2, PlacesShrink
      <3> QED
        BY <2>2, <3>1, <3>2, ByOther DEF Arriving, Own
    <2> QED
      BY <2>1, <2>2
  <1>2. Places(c)' = Places(c) /\ job[c].dst \in Places(c) /\ job[c].dst \in Path
    BY <1>0, <1>1 DEF Places, Arriving, Fenced
  <1>3. \A r \in Places(c) : NoLinks(r)'
    BY <1>0, <1>1, StillNoLinks DEF Arriving
  <1>4. Landed(c)'
    BY <1>1, <1>2, StillLanded DEF Arriving
  <1> QED
    BY <1>0, <1>1, <1>2, <1>3, <1>4 DEF Arriving, IsOci

(* What a request that is answered adds to what has arrived.                 *)
LEMMA PullLands ==
  ASSUME IInv, PInv, NEW c \in Call, Arriving(c), NEW t \in pull[c].todo, Pull(c, t)
  PROVE  Landed(c)'
  <1> PICK d, m, todo : d = job[c].dst /\ m = pull[c].digest /\ todo = pull[c].todo
    OBVIOUS
  <1> DEFINE p == Append(d, t)
             new == AfterCreate(p, Permission)
             data == PullOf(c)[t]
  <1>0. pc[c] = "pull" /\ meta[c] = {} /\ DOMAIN pc = Call /\ DOMAIN pull = Call
    BY DEF Pull, Goto, IInv, Settled, Functions, PInv, Typed
  <1>1. /\ Fetched(c, m, todo) /\ Fenced(c, d) /\ NoLinks(d) /\ d \in Path
    BY <1>0 DEF Arriving, Landed, Places, Fenced
  <1>2. m \in DOMAIN Artifact /\ t \in DOMAIN Artifact[m] /\ data = Artifact[m][t]
    BY <1>1 DEF Fetched, PullOf
  <1>3. Real(p) = p
    BY <1>1, <1>2, BlobPath, FencedReal DEF NoLinks
  <1>4. fs' = [new EXCEPT ![p] = [new[p] EXCEPT !.data = data]] /\ UNCHANGED <<job, meta>>
    BY <1>3 DEF Pull, callVars
  <1>5. PICK mode : new[p] = File(mode, <<>>)
    BY DEF AfterCreate, Put
  <1>6. [new[p] EXCEPT !.data = data].kind = "file" /\ [new[p] EXCEPT !.data = data].data = data
    BY <1>5 DEF File
  <1>7. /\ DOMAIN new = DOMAIN fs \cup {p}
        /\ \A q \in DOMAIN fs \ {p} : new[q] = fs[q]
    BY DEF AfterCreate, Put
  <1> HIDE DEF new
  <1>8. /\ p \in DOMAIN fs' /\ fs'[p].kind = "file" /\ fs'[p].data = data
        /\ \A q \in DOMAIN fs \ {p} : q \in DOMAIN fs' /\ fs'[q] = fs[q]
    BY <1>4, <1>6, <1>7
  <1>9. ASSUME NEW u \in DOMAIN Artifact[m], u = t \/ u \notin todo
        PROVE  Blob(c, m, u)'
    <2>1. CASE u = t
      BY <1>2, <1>4, <1>8, <2>1 DEF Blob, Is
    <2>2. CASE u # t
      <3>1. Blob(c, m, u)
        BY <1>1, <1>9, <2>2 DEF Fetched
      <3>2. Append(d, u) # p
        BY <1>1, <1>2, <2>2, BlobPath, AppendPath
      <3> QED
        BY <1>4, <1>8, <3>1, <3>2 DEF Blob, Is
    <2> QED
      BY <2>1, <2>2
  <1>10. pull'[c].digest = m /\ pull'[c].todo = todo \ {t} /\ meta'[c] = {}
    <2>1. DOMAIN pull[c] = {"plain", "digest", "todo", "tries"}
      BY DEF PInv, Pins, OciPins, Pull, IsOci, IsGit, Place, IsFile, Goto, CopyLabel, FileLabel
    <2>2. pull'[c] = [pull[c] EXCEPT !.todo = @ \ {t}, !.tries = 0]
      BY <1>0 DEF Pull
    <2> QED
      BY <1>0, <1>4, <2>1, <2>2
  <1>11. Fetched(c, m, todo \ {t})'
    BY <1>1, <1>9, <1>10 DEF Fetched
  <1> QED
    BY <1>10, <1>11 DEF Landed

LEMMA OciLands ==
  ASSUME IInv, PInv, NEW c \in Call, IsOci(c), Arriving(c), OciByCall(c)
  PROVE  Landed(c)'
  <1> USE DEF Goto, callVars, copyVars, ociVars
  <1>0. /\ DOMAIN pc = Call /\ DOMAIN pull = Call /\ DOMAIN meta = Call /\ Settled(c) /\ Landed(c)
        /\ DOMAIN pull[c] = {"plain", "digest", "todo", "tries"}
    BY DEF IInv, Functions, PInv, Typed, Pins, OciPins, Arriving
  <1>1. ASSUME UNCHANGED <<fs, job>>, pc'[c] # "pull", meta'[c] \subseteq meta[c]
        PROVE  Landed(c)'
    BY <1>0, <1>1 DEF Landed, Fetched, Blob, Is
  <1>2. ASSUME pc'[c] # "pull", meta'[c] = {}
        PROVE  Landed(c)'
    BY <1>2 DEF Landed
  <1>3. CASE OciBegin(c) \/ OpenStore(c) \/ OciFault(c) \/ RequestFails(c)
    BY <1>0, <1>2, <1>3 DEF OciBegin, OpenStore, OciFault, RequestFails, Requesting, Settled
  <1>4. CASE CloseStore(c) \/ CloseStoreFails(c) \/ Crash(c) \/ Again(c)
    BY <1>0, <1>1, <1>2, <1>4 DEF CloseStore, CloseStoreFails, MetaReset, Crash, Again
  <1>5. CASE Pulled(c)
    <2>1. Fetched(c, pull[c].digest, {})
      BY <1>0, <1>5 DEF Pulled, Landed
    <2>2. Fetched(c, pull[c].digest, {})'
      BY <1>5, <2>1 DEF Pulled, Fetched, Blob, Is
    <2>3. pc'[c] # "pull" /\ meta'[c] = {pull[c].digest} /\ pull' = pull
      BY <1>0, <1>5 DEF Pulled
    <2> QED
      BY <2>2, <2>3 DEF Landed
  <1>6. CASE Resolve(c)
    <2>1. /\ Digest(c) \in DOMAIN Artifact /\ meta'[c] = {}
          /\ pull'[c].digest = Digest(c) /\ pull'[c].todo = DOMAIN Artifact[Digest(c)]
      BY <1>0, <1>6 DEF Resolve, Settled
    <2> QED
      BY <2>1 DEF Landed, Fetched
  <1>7. CASE Repeat(c)
    <2>1. /\ UNCHANGED <<pc, job, meta, fs>>
          /\ pull'[c].digest = pull[c].digest /\ pull'[c].todo = pull[c].todo
      BY <1>0, <1>7 DEF Repeat
    <2> QED
      BY <1>0, <2>1 DEF Landed, Fetched, Blob, Is
  <1>8. ASSUME NEW t \in pull[c].todo, Pull(c, t)
        PROVE  Landed(c)'
    BY <1>8, PullLands
  <1> QED
    BY <1>3, <1>4, <1>5, <1>6, <1>7, <1>8 DEF OciByCall, PullStep, OciStep

LEMMA ArrivingByItself ==
  ASSUME IInv, PInv, CInv, NEW c \in Call, IsOci(c), Arriving(c), ByCall(c)
  PROVE  Arriving(c)' /\ IsOci(c)'
  <1>0. ~IsFile(c) /\ job[c].dst # <<>> /\ OciByCall(c)
    BY OciCases DEF IsOci, IsFile, Arriving
  <1>1. Places(c)' \subseteq Places(c) /\ job'[c].dst # <<>>
    BY <1>0, PlacesShrink
  <1>2. ASSUME NEW r \in Places(c)
        PROVE  Fenced(c, r)' /\ NoLinks(r)'
    <2>1. Fenced(c, r) /\ NoLinks(r) /\ LinksOff(r)
      BY <1>2 DEF Arriving, Fenced
    <2>2. NoLinks(r)'
      BY <1>0, <2>1, OciNodes DEF NoLinks
    <2>3. LinksOff(r)'
      BY <1>0, <2>1, OciNodes DEF LinksOff
    <2> QED
      BY <2>1, <2>2, <2>3, ByItself
  <1>3. Landed(c)'
    BY <1>0, OciLands
  <1>4. IsOci(c)'
    BY <1>0, PullKeeps, PinnedJob DEF OciByCall, IsOci, Crash
  <1> QED
    BY <1>1, <1>2, <1>3, <1>4 DEF Arriving

LEMMA StepArriving ==
  ASSUME IInv, PInv, CInv, [Next]_vars, NEW c \in Call, IsOci(c), Arriving(c)
  PROVE  Arriving(c)' /\ IsOci(c)'
  <1>1. CInv'
    BY StepCInv
  <1> QED
    BY <1>1, StepCases, ArrivingByOther, ArrivingByItself

LEMMA BlobsArrived ==
  ASSUME NEW c, Arriving(c), NEW m \in meta[c], NEW t \in DOMAIN Artifact[m]
  PROVE  LET p == Real(Append(job[c].dst, t)) IN Is(p, "file") /\ fs[p].data = Artifact[m][t]
  <1> DEFINE d == job[c].dst
  <1>1. Blob(c, m, t) /\ m \in DOMAIN Artifact /\ Fenced(c, d) /\ NoLinks(d) /\ d \in Path
    BY DEF Arriving, Landed, Fetched, Places, Fenced
  <1>2. Real(Append(d, t)) = Append(d, t)
    BY <1>1, BlobPath, FencedReal DEF NoLinks
  <1> QED
    BY <1>1, <1>2 DEF Blob

ArrivalInv == \A c \in Call : IsOci(c) => Arriving(c)

(***************************************************************************)
(* gather/oci/oci.go:118-152: a call that returns from oras.Copy without   *)
(* error has every blob of the digest it reports, whatever the tag names   *)
(* meanwhile, whichever other gathers write to the same disk, and for      *)
(* good: also while the caller gathers the pinned reference elsewhere.     *)
(***************************************************************************)
THEOREM ArtifactsArrive ==
  Spec /\ (\A c \in Call : IsOci(c) => Secluded(c)) => []ArtifactDelivers
  <1>1. Init /\ (\A c \in Call : IsOci(c) => Secluded(c)) => ArrivalInv
    BY InitArriving DEF ArrivalInv
  <1>2. IInv /\ PInv /\ CInv /\ ArrivalInv /\ [Next]_vars => ArrivalInv'
    <2> SUFFICES ASSUME IInv, PInv, CInv, ArrivalInv, [Next]_vars, NEW c \in Call, IsOci(c)'
                 PROVE  Arriving(c)'
      BY DEF ArrivalInv
    <2>1. IsOci(c)
      BY StepCases, KindKept DEF ByNobody, IsOci
    <2> QED
      BY <2>1, StepArriving DEF ArrivalInv
  <1>3. ArrivalInv => ArtifactDelivers
    BY BlobsArrived DEF ArrivalInv, ArtifactDelivers, Delivered, IsOci
  <1> QED
    BY <1>1, <1>2, <1>3, Invariance, PinInvariance, AwayInvariance, PTL DEF Spec

-----------------------------------------------------------------------------
(* What a directory has, name for name: the nodes of a tree S placed at d,   *)
(* as far as their kind and data go.                                         *)

Has(d, S) ==
  /\ \A p \in DOMAIN fs : Under(p, d) => \E q \in DOMAIN S : p = d \o q
  /\ \A q \in DOMAIN S :
       /\ q \in Path /\ d \o q \in DOMAIN fs
       /\ fs[d \o q].kind = S[q].kind /\ fs[d \o q].data = S[q].data

Empty(d) == \A p \in DOMAIN fs : ~Under(p, d)

Bare       == [q \in {<<>>} |-> Dir({})]
Repository == [q \in {<<>>, <<DotGit>>} |-> Dir({})]
CloneOf(n) == [q \in DOMAIN Commits[n] \cup {<<DotGit>>} |->
                 IF q \in DOMAIN Commits[n] THEN Commits[n][q] ELSE Dir({})]
Part(m, todo) == [q \in {<<>>} \cup {<<t>> : t \in DOMAIN Artifact[m] \ todo} |->
                    IF q = <<>> THEN Dir({}) ELSE File({}, Artifact[m][q[1]])]

LEMMA ConcatUnder ==
  ASSUME NEW d \in Path, NEW q \in Path
  PROVE  /\ d \o q \in Path /\ Under(d \o q, d)
         /\ q # <<>> => d \o q # d
         /\ \A r \in Path : d \o r = d \o q => r = q
  <1>1. /\ d \o q \in Path /\ Len(d \o q) = Len(d) + Len(q)
        /\ \A i \in 1..Len(d) : (d \o q)[i] = d[i]
        /\ Len(d) \in Nat /\ Len(q) \in Nat
    BY ConcatPath
  <1>2. q # <<>> => Len(q) # 0
    BY DEF Path
  <1>3. \A r \in Path : d \o r = d \o q => r = q
    BY RestConcat, Zenon
  <1> QED
    BY <1>1, <1>2, <1>3 DEF Under

LEMMA ConcatNames ==
  ASSUME NEW d \in Path
  PROVE  /\ <<>> \in Path /\ d \o <<>> = d
         /\ \A n \in Name : <<n>> \in Path /\ d \o <<n>> = Append(d, n)
  <1>1. <<>> \in Path
    BY EmptySeq DEF Path
  <1>2. d \o <<>> = d
    BY ConcatEmptySeq DEF Path
  <1>3. \A n \in Name : <<n>> \in Path /\ d \o <<n>> = Append(d, n)
    BY AppendIsConcat DEF Path
  <1> QED
    BY <1>1, <1>2, <1>3

LEMMA HasStill ==
  ASSUME FsOk', NEW d \in Path, Still(d), NEW S, Has(d, S)
  PROVE  Has(d, S)'
  <1>1. ASSUME NEW p \in DOMAIN fs', Under(p, d)
        PROVE  \E q \in DOMAIN S : p = d \o q
    BY <1>1 DEF FsOk, NodeOk, Still, Has
  <1>2. ASSUME NEW q \in DOMAIN S
        PROVE  /\ q \in Path /\ d \o q \in DOMAIN fs'
               /\ fs'[d \o q].kind = S[q].kind /\ fs'[d \o q].data = S[q].data
    <2>1. q \in Path /\ d \o q \in Path /\ Under(d \o q, d)
      BY <1>2, ConcatUnder DEF Has
    <2> QED
      BY <1>2, <2>1 DEF Still, Has
  <1> QED
    BY <1>1, <1>2 DEF Has

LEMMA EmptyStill ==
  ASSUME FsOk', NEW d \in Path, Still(d), Empty(d)
  PROVE  Empty(d)'
  BY DEF FsOk, NodeOk, Still, Empty

(* A fenced place is where it seems to be.                                   *)
LEMMA FencedEntry ==
  ASSUME NEW c, NEW r, Fenced(c, r)
  PROVE  Real(r) = r /\ Entry(r) = r
  <1>1. r \in Path /\ r # <<>>
    BY DEF Fenced
  <1>2. ASSUME NEW i \in 1..Len(r), Is(SubSeq(r, 1, i), "link")
        PROVE  FALSE
    BY <1>1, <1>2, NoLinkOnWay DEF Fenced, LinksOff, LinkOff, Off, Is
  <1>3. Real(r) = r
    BY <1>1, <1>2, RealCases
  <1>4. Real(Parent(r)) = Parent(r)
    <2>1. /\ Parent(r) \in Path /\ Len(r) \in Nat \ {0} /\ Len(Parent(r)) = Len(r) - 1
          /\ \A i \in 1..Len(r) - 1 : SubSeq(Parent(r), 1, i) = SubSeq(r, 1, i)
      BY <1>1, ParentPath
    <2>2. ASSUME NEW i \in 1..Len(Parent(r))
          PROVE  ~Is(SubSeq(Parent(r), 1, i), "link")
      <3>1. i \in 1..Len(r) - 1 /\ i \in 1..Len(r)
        BY <2>1, <2>2
      <3> QED
        BY <1>2, <2>1, <3>1
    <2> QED
      BY <2>1, <2>2, RealCases
  <1> QED
    BY <1>1, <1>3, <1>4, ParentPath DEF Entry

(* A destination made where nothing was.                                     *)
LEMMA MadeBare ==
  ASSUME NEW d \in Path, Empty(d), NEW mode, NEW new, new = AfterMkdirAll(d, mode),
         d \in DOMAIN new
  PROVE  /\ new[d].kind = "dir" /\ new[d].data = <<>>
         /\ \A p \in DOMAIN new : Under(p, d) => p = d
  <1>1. Under(d, d) /\ Len(d) \in Nat
    BY DEF Under, Path
  <1>2. ASSUME NEW p \in Makeable(d, mode), Under(p, d)
        PROVE  p = d
    <2>1. PICK i \in 1..Len(d) : p = SubSeq(d, 1, i)
      BY <1>2 DEF Makeable
    <2>2. p \in Path /\ Len(p) = i /\ \A k \in 1..i : p[k] = d[k]
      BY <2>1, PrefixPath
    <2>3. Len(p) = Len(d)
      BY <1>1, <1>2, <2>2 DEF Under
    <2> QED
      BY <2>2, <2>3, PathEqual
  <1> QED
    BY <1>1, <1>2 DEF Empty, AfterMkdirAll, Dir

(* A commit at d: its links keep their place, and what they lead to is left   *)
(* out of account.                                                           *)
LEMMA PlacedContent ==
  ASSUME NEW n \in DOMAIN Commits, NEW d \in Path
  PROVE  /\ \A p \in DOMAIN Placed(n, d) : \E q \in DOMAIN Commits[n] : p = d \o q
         /\ \A q \in DOMAIN Commits[n] :
              /\ q \in Path /\ d \o q \in DOMAIN Placed(n, d)
              /\ Placed(n, d)[d \o q].kind = Commits[n][q].kind
              /\ Placed(n, d)[d \o q].data = Commits[n][q].data
  <1> DEFINE t == Commits[n]
  <1>1. ASSUME NEW q \in DOMAIN t
        PROVE  /\ q \in Path /\ d \o q \in DOMAIN Placed(n, d)
               /\ Placed(n, d)[d \o q].kind = t[q].kind
               /\ Placed(n, d)[d \o q].data = t[q].data
    <2>1. q \in Path /\ t[q] \in Node
      BY SourceAssumption
    <2>2. Rest(d \o q, d) = q
      BY <2>1, RestConcat
    <2> DEFINE new == IF t[q].kind # "link" THEN [t[q] EXCEPT !.mode = @ \ Umask]
                      ELSE IF t[q].to[1] = Outside THEN [t[q] EXCEPT !.to = Tail(@)]
                      ELSE [t[q] EXCEPT !.to = d \o @]
    <2>3. d \o q \in DOMAIN Placed(n, d) /\ Placed(n, d)[d \o q] = new
      BY <2>2 DEF Placed
    <2>4. new.kind = t[q].kind /\ new.data = t[q].data
      BY <2>1 DEF Node
    <2> QED
      BY <2>1, <2>3, <2>4
  <1> QED
    BY <1>1 DEF Placed

LEMMA ToBare ==
  ASSUME NEW d \in Path, Empty(d), NEW mode, fs' = AfterMkdirAll(d, mode), d \in DOMAIN fs'
  PROVE  Has(d, Bare)'
  <1>1. /\ fs'[d].kind = "dir" /\ fs'[d].data = <<>>
        /\ \A p \in DOMAIN fs' : Under(p, d) => p = d
    BY MadeBare
  <1>2. <<>> \in Path /\ d \o <<>> = d
    BY ConcatNames
  <1>3. DOMAIN Bare = {<<>>} /\ Bare[<<>>].kind = "dir" /\ Bare[<<>>].data = <<>>
    BY DEF Bare, Dir
  <1> QED
    BY <1>1, <1>2, <1>3 DEF Has

LEMMA ToRepository ==
  ASSUME NEW d \in Path, Empty(d), NEW mode, NEW m,
         fs' = Put(Append(d, DotGit), Dir(m), AfterMkdirAll(d, mode)),
         d \in DOMAIN AfterMkdirAll(d, mode)
  PROVE  Has(d, Repository)'
  <1> DEFINE new == AfterMkdirAll(d, mode)
             git == Append(d, DotGit)
  <1>1. /\ new[d].kind = "dir" /\ new[d].data = <<>>
        /\ \A p \in DOMAIN new : Under(p, d) => p = d
    BY MadeBare
  <1>2. /\ <<>> \in Path /\ d \o <<>> = d /\ <<DotGit>> \in Path /\ d \o <<DotGit>> = git
        /\ <<DotGit>> # <<>>
    BY ConcatNames, SourceAssumption
  <1>3. git # d
    BY <1>2, ConcatUnder
  <1>4. /\ DOMAIN fs' = DOMAIN new \cup {git} /\ fs'[git] = Dir(m) /\ fs'[d] = new[d]
        /\ d \in DOMAIN new
    BY <1>3 DEF Put
  <1> HIDE DEF new, git
  <1>5. /\ DOMAIN Repository = {<<>>, <<DotGit>>}
        /\ \A q \in DOMAIN Repository : Repository[q].kind = "dir" /\ Repository[q].data = <<>>
    BY DEF Repository, Dir
  <1>6. fs'[git].kind = "dir" /\ fs'[git].data = <<>>
    BY <1>4 DEF Dir
  <1> QED
    BY <1>1, <1>2, <1>4, <1>5, <1>6 DEF Has

LEMMA CloneNodes ==
  ASSUME NEW n \in DOMAIN Commits
  PROVE  /\ DOMAIN CloneOf(n) = DOMAIN Commits[n] \cup {<<DotGit>>}
         /\ <<>> \in DOMAIN Commits[n] /\ <<DotGit>> \notin DOMAIN Commits[n]
         /\ \A q \in DOMAIN Commits[n] : CloneOf(n)[q] = Commits[n][q]
         /\ CloneOf(n)[<<DotGit>>].kind = "dir" /\ CloneOf(n)[<<DotGit>>].data = <<>>
  BY CommitAssumption DEF CloneOf, Dir

(* A commit written over a directory that has no more than a repository and  *)
(* what the commit has, too.                                                 *)
LEMMA ToClone ==
  ASSUME NEW d \in Path, NEW n \in DOMAIN Commits, NEW t, fs' = Over(Placed(n, d), t),
         \A p \in DOMAIN t : Under(p, d) => p = d \/ p = d \o <<DotGit>>,
         NEW g, g = d \o <<DotGit>>, g \in DOMAIN t, t[g].kind = "dir", t[g].data = <<>>
  PROVE  Has(d, CloneOf(n))'
  <1> DEFINE u == Placed(n, d)
  <1>1. /\ \A p \in DOMAIN u : \E q \in DOMAIN Commits[n] : p = d \o q
        /\ \A q \in DOMAIN Commits[n] :
             /\ q \in Path /\ d \o q \in DOMAIN u
             /\ u[d \o q].kind = Commits[n][q].kind /\ u[d \o q].data = Commits[n][q].data
    BY PlacedContent
  <1>2. <<>> \in Path /\ d \o <<>> = d /\ <<DotGit>> \in Path
    BY ConcatNames, SourceAssumption
  <1>3. g \notin DOMAIN u
    <2> SUFFICES ASSUME NEW q \in DOMAIN Commits[n], g = d \o q
                 PROVE  FALSE
      BY <1>1
    <2>1. q = <<DotGit>>
      BY <1>1, <1>2, ConcatUnder
    <2> QED
      BY <2>1, CloneNodes
  <1> HIDE DEF u
  <1>4. /\ DOMAIN fs' = DOMAIN u \cup DOMAIN t
        /\ \A p \in DOMAIN u : fs'[p] = u[p]
        /\ fs'[g] = t[g]
    BY <1>3 DEF u, Over
  <1>5. ASSUME NEW p \in DOMAIN fs', Under(p, d)
        PROVE  \E q \in DOMAIN CloneOf(n) : p = d \o q
    BY <1>1, <1>2, <1>4, <1>5, CloneNodes
  <1>6. ASSUME NEW q \in DOMAIN CloneOf(n)
        PROVE  /\ q \in Path /\ d \o q \in DOMAIN fs'
               /\ fs'[d \o q].kind = CloneOf(n)[q].kind /\ fs'[d \o q].data = CloneOf(n)[q].data
    <2>1. CASE q \in DOMAIN Commits[n]
      BY <1>1, <1>4, <2>1, CloneNodes
    <2>2. CASE q = <<DotGit>>
      BY <1>2, <1>4, <2>2, CloneNodes
    <2> QED
      BY <1>6, <2>1, <2>2, CloneNodes
  <1> QED
    BY <1>5, <1>6 DEF Has

LEMMA FetchedClone ==
  ASSUME NEW d \in Path, NEW n \in DOMAIN Commits, Has(d, Repository),
         fs' = Over(Placed(n, d), fs)
  PROVE  Has(d, CloneOf(n))'
  <1>1. /\ DOMAIN Repository = {<<>>, <<DotGit>>} /\ d \o <<>> = d
        /\ \A q \in DOMAIN Repository : Repository[q].kind = "dir" /\ Repository[q].data = <<>>
    BY ConcatNames DEF Repository, Dir
  <1>2. \A p \in DOMAIN fs : Under(p, d) => p = d \/ p = d \o <<DotGit>>
    BY <1>1 DEF Has
  <1>3. PICK g : g = d \o <<DotGit>>
    OBVIOUS
  <1>4. g \in DOMAIN fs /\ fs[g].kind = "dir" /\ fs[g].data = <<>>
    BY <1>1, <1>3 DEF Has
  <1> QED
    BY <1>2, <1>3, <1>4, ToClone

LEMMA CheckedOut ==
  ASSUME NEW d \in Path, NEW h \in DOMAIN Commits, NEW n \in DOMAIN Commits, Has(d, CloneOf(h)),
         NEW kept, kept = [p \in DOMAIN fs \ (DOMAIN Placed(h, d) \ {d}) |-> fs[p]],
         fs' = Over(Placed(n, d), kept)
  PROVE  Has(d, CloneOf(n))'
  <1>1. /\ \A p \in DOMAIN Placed(h, d) : \E q \in DOMAIN Commits[h] : p = d \o q
        /\ \A q \in DOMAIN Commits[h] : q \in Path /\ d \o q \in DOMAIN Placed(h, d)
    BY PlacedContent
  <1>2. PICK g : g = d \o <<DotGit>>
    OBVIOUS
  <1>3. ASSUME NEW p \in DOMAIN kept, Under(p, d)
        PROVE  p = d \/ p = d \o <<DotGit>>
    <2>1. PICK q \in DOMAIN CloneOf(h) : p = d \o q
      BY <1>3 DEF Has
    <2>2. q \in DOMAIN Commits[h] \/ q = <<DotGit>>
      BY CloneNodes
    <2> QED
      BY <1>1, <1>3, <2>1, <2>2
  <1>4. g \notin DOMAIN Placed(h, d)
    <2> SUFFICES ASSUME NEW q \in DOMAIN Commits[h], g = d \o q
                 PROVE  FALSE
      BY <1>1
    <2>1. <<DotGit>> \in Path
      BY ConcatNames, SourceAssumption
    <2>2. q = <<DotGit>>
      BY <1>1, <1>2, <2>1, ConcatUnder, ZenonT(30)
    <2> QED
      BY <2>2, CloneNodes
  <1>5. g \in DOMAIN kept /\ kept[g].kind = "dir" /\ kept[g].data = <<>>
    BY <1>2, <1>4, CloneNodes DEF Has
  <1> QED
    BY <1>2, <1>3, <1>5, ToClone

IsPart(S, m, todo) ==
  /\ \A q : q \in DOMAIN S <=> q = <<>> \/ \E t \in DOMAIN Artifact[m] \ todo : q = <<t>>
  /\ S[<<>>].kind = "dir" /\ S[<<>>].data = <<>>
  /\ \A t \in DOMAIN Artifact[m] \ todo : S[<<t>>].kind = "file" /\ S[<<t>>].data = Artifact[m][t]

LEMMA PartNodes ==
  ASSUME NEW m, NEW todo
  PROVE  IsPart(Part(m, todo), m, todo)
  BY DEF IsPart, Part, Dir, File

LEMMA Resolved ==
  ASSUME NEW d, Has(d, Bare), NEW m
  PROVE  Has(d, Part(m, DOMAIN Artifact[m]))
  <1> DEFINE S == Part(m, DOMAIN Artifact[m])
  <1>1. DOMAIN Bare = {<<>>} /\ Bare[<<>>].kind = "dir" /\ Bare[<<>>].data = <<>>
    BY DEF Bare, Dir
  <1>2. IsPart(S, m, DOMAIN Artifact[m])
    BY PartNodes
  <1> HIDE DEF S
  <1>3. DOMAIN S = {<<>>} /\ S[<<>>].kind = "dir" /\ S[<<>>].data = <<>>
    BY <1>2 DEF IsPart
  <1>4. Has(d, S)
    BY <1>1, <1>3 DEF Has
  <1> QED
    BY <1>4 DEF S

LEMMA BlobWritten ==
  ASSUME NEW d \in Path, NEW m \in DOMAIN Artifact, NEW todo \in SUBSET DOMAIN Artifact[m],
         Has(d, Part(m, todo)), NEW t \in todo,
         NEW p, p = Append(d, t), p \in DOMAIN fs',
         fs'[p].kind = "file", fs'[p].data = Artifact[m][t], DOMAIN fs' = DOMAIN fs \cup {p},
         \A q \in DOMAIN fs \ {p} : fs'[q] = fs[q]
  PROVE  Has(d, Part(m, todo \ {t}))'
  <1> DEFINE old == Part(m, todo)
             new == Part(m, todo \ {t})
  <1>1. \A u \in DOMAIN Artifact[m] : u \in Name
    BY SourceAssumption
  <1>2. p = d \o <<t>> /\ <<t>> \in Path
    BY <1>1, ConcatNames
  <1>3. IsPart(old, m, todo)
    BY PartNodes
  <1>4. IsPart(new, m, todo \ {t})
    BY PartNodes
  <1> HIDE DEF old, new
  <1>5. \A q : q \in DOMAIN new <=> q \in DOMAIN old \/ q = <<t>>
    BY <1>3, <1>4 DEF IsPart
  <1>6. \A q \in DOMAIN old : new[q].kind = old[q].kind /\ new[q].data = old[q].data
    BY <1>3, <1>4 DEF IsPart
  <1>7. new[<<t>>].kind = "file" /\ new[<<t>>].data = Artifact[m][t]
    BY <1>4 DEF IsPart
  <1>8. <<t>> \notin DOMAIN old
    <2>1. <<t>> # <<>> /\ \A u : <<t>> = <<u>> => t = u
      OBVIOUS
    <2> QED
      BY <1>3, <2>1 DEF IsPart
  <1>9. /\ \A q \in DOMAIN fs : Under(q, d) => \E r \in DOMAIN old : q = d \o r
        /\ \A q \in DOMAIN old :
             /\ q \in Path /\ d \o q \in DOMAIN fs
             /\ fs[d \o q].kind = old[q].kind /\ fs[d \o q].data = old[q].data
    BY DEF Has, old
  <1>10. ASSUME NEW q \in DOMAIN old
         PROVE  d \o q # p
    <2>1. q \in Path /\ q # <<t>>
      BY <1>8, <1>9, <1>10
    <2> QED
      BY <1>2, <2>1, ConcatUnder
  <1>11. ASSUME NEW q \in DOMAIN fs', Under(q, d)
         PROVE  \E r \in DOMAIN new : q = d \o r
    BY <1>2, <1>5, <1>9, <1>11
  <1>12. ASSUME NEW q \in DOMAIN new
         PROVE  /\ q \in Path /\ d \o q \in DOMAIN fs'
                /\ fs'[d \o q].kind = new[q].kind /\ fs'[d \o q].data = new[q].data
    <2>1. CASE q \in DOMAIN old
      BY <1>6, <1>9, <1>10, <2>1
    <2>2. CASE q = <<t>>
      BY <1>2, <1>7, <2>2
    <2> QED
      BY <1>5, <1>12, <2>1, <2>2
  <1> QED
    BY <1>11, <1>12 DEF Has, new

-----------------------------------------------------------------------------
(* A gather of a whole repository or an artifact into a place of its own,    *)
(* where nothing was: what is there at each of its steps.                    *)

Whole(c) == IsOci(c) \/ (IsGit(c) /\ ~Temporary(c))

Content(c, n) == IF IsGit(c) THEN CloneOf(n) ELSE Part(n, {})

Stage(c) ==
  LET d == job[c].dst IN
  /\ pc[c] \in {"begin", "init", "store"} => Empty(d)
  /\ pc[c] = "fetch" => Has(d, Repository)
  /\ pc[c] \in {"checkout", "head"} => Has(d, CloneOf(clone[c].head))
  /\ pc[c] = "resolve" => Has(d, Bare)
  /\ pc[c] = "pull" => Has(d, Part(pull[c].digest, pull[c].todo))
  /\ \A n \in meta[c] : Has(d, Content(c, n))

LEMMA StillStage ==
  ASSUME FsOk', NEW c, NEW d \in Path, d = job[c].dst, Still(d), Stage(c), job'[c] = job[c],
         meta'[c] \subseteq meta[c],
         \/ /\ pc'[c] = pc[c] /\ (pc[c] \in {"checkout", "head"} => clone'[c] = clone[c])
            /\ pull'[c].digest = pull[c].digest /\ pull'[c].todo = pull[c].todo
         \/ pc'[c] \in {"cleanup", "closing", "ok", "failed", "crashed"}
  PROVE  Stage(c)'
  <1>1. \A S : Has(d, S) => Has(d, S)'
    BY HasStill
  <1>2. Empty(d) => Empty(d)'
    BY EmptyStill
  <1>3. \A n : Content(c, n)' = Content(c, n)
    BY DEF Content, IsGit
  <1> HIDE DEF Has, Empty, Content
  <1>4. \A n \in meta'[c] : Has(d, Content(c, n))'
    BY <1>1, <1>3 DEF Stage
  <1> QED
    BY <1>1, <1>2, <1>4 DEF Stage, CloneOf, Part

LEMMA CloneLinks ==
  ASSUME CInv, NEW c \in Call, IsGit(c), ~Temporary(c), CloneStep(c),
         NEW d, d = job[c].dst, Fenced(c, d)
  PROVE  LinksOff(d)'
  <1> USE DEF Goto
  <1>0. /\ d \in Path /\ LinksOff(d) /\ CloneOk(c) /\ tip \in DOMAIN Commits
        /\ Base(c) = d /\ Real(d) = d /\ Entry(d) = d
    BY FencedEntry DEF Fenced, CInv, CallOk, Base
  <1>1. ASSUME \A p \in DOMAIN fs' : \/ p \in DOMAIN fs /\ fs'[p] = fs[p]
                                     \/ fs'[p].kind # "link"
                                     \/ Under(p, d) /\ p # d
        PROVE  LinksOff(d)'
    BY <1>0, <1>1 DEF LinksOff, LinkOff
  <1>2. ASSUME NEW n \in DOMAIN Commits, NEW p \in DOMAIN Placed(n, d),
               Placed(n, d)[p].kind = "link"
        PROVE  Under(p, d) /\ p # d
    <2>1. PICK q \in DOMAIN Commits[n] : p = d \o q
      BY <1>0, PlacedContent
    <2>2. q \in Path /\ Commits[n][q].kind = "link"
      BY <1>0, <1>2, <2>1, PlacedContent
    <2>3. q # <<>>
      BY <2>1, <2>2, SourceAssumption
    <2> QED
      BY <1>0, <2>1, <2>2, <2>3, ConcatUnder
  <1>3. CASE UNCHANGED fs
    BY <1>1, <1>3
  <1>4. CASE PlainInit(c)
    <2> DEFINE git == Append(d, DotGit)
               new == AfterMkdirAll(d, Permission)
    <2>1. fs' = fs \/ \E n : n.kind = "dir" /\ fs' = Put(git, n, new)
      BY <1>0, <1>4 DEF PlainInit, Dir
    <2>2. \A p \in DOMAIN new : (p \in DOMAIN fs /\ new[p] = fs[p]) \/ new[p].kind # "link"
      BY DEF AfterMkdirAll, Dir
    <2> HIDE DEF new, git
    <2>3. \A p \in DOMAIN fs' : (p \in DOMAIN fs /\ fs'[p] = fs[p]) \/ fs'[p].kind # "link"
      BY <2>1, <2>2 DEF Put
    <2> QED
      BY <1>1, <2>3
  <1>5. CASE Fetch(c)
    <2>1. fs' = Over(Placed(tip, d), fs)
      BY <1>0, <1>5 DEF Fetch
    <2> QED
      BY <1>0, <1>1, <1>2, <2>1 DEF Over
  <1>6. CASE FetchFails(c)
    BY <1>1, <1>6 DEF FetchFails
  <1>7. CASE Checkout(c) /\ Revision(c) \in clone[c].have
    <2>1. PICK kept : /\ fs' = Over(Placed(Revision(c), d), kept)
                      /\ \A p \in DOMAIN kept : p \in DOMAIN fs /\ kept[p] = fs[p]
      BY <1>0, <1>7 DEF Checkout
    <2>2. Revision(c) \in DOMAIN Commits
      BY <1>0, <1>7 DEF CloneOk
    <2> QED
      BY <1>1, <1>2, <2>1, <2>2 DEF Over
  <1>8. CASE Checkout(c) /\ Revision(c) \notin clone[c].have
    BY <1>3, <1>8 DEF Checkout
  <1>9. CASE Cleanup(c)
    BY <1>1, <1>9 DEF Cleanup
  <1>10. ~MkTemp(c)
    BY <1>0 DEF MkTemp, CloneOk
  <1> QED
    BY <1>3, <1>4, <1>5, <1>6, <1>7, <1>8, <1>9, <1>10
    DEF CloneStep, GitStep, GitBegin, EnterSubdir, HeadRef, CleanupFails, GitFault

LEMMA CloneStage ==
  ASSUME IInv, PInv, CInv, CInv', NEW c \in Call, IsGit(c), ~Temporary(c), CloneStep(c),
         NEW d, d = job[c].dst, Fenced(c, d), Stage(c)
  PROVE  Stage(c)'
  <1> USE DEF Goto, callVars, copyVars
  <1>0. /\ d \in Path /\ FsOk' /\ CloneOk(c) /\ Settled(c) /\ tip \in DOMAIN Commits
        /\ DOMAIN pc = Call /\ DOMAIN meta = Call /\ DOMAIN clone = Call
        /\ Base(c) = d /\ Real(d) = d /\ Entry(d) = d
    BY FencedEntry DEF Fenced, CInv, CallOk, Base, IInv, Functions, PInv, Typed
  <1>1. UNCHANGED fs => Still(d)
    BY DEF Still
  <1>2. ASSUME pc'[c] \in {"cleanup", "failed"}, meta'[c] = {}
        PROVE  Stage(c)'
    BY <1>2 DEF Stage
  <1>3. CASE GitBegin(c)
    <2>1. meta'[c] = {} /\ job' = job /\ Empty(d)'
      BY <1>0, <1>3 DEF GitBegin, Settled, Stage, Empty
    <2>2. pc'[c] \in {"cleanup", "init"}
      BY <1>0, <1>3 DEF GitBegin
    <2> QED
      BY <2>1, <2>2 DEF Stage
  <1>4. CASE PlainInit(c) /\ pc'[c] = "fetch"
    <2>1. /\ meta'[c] = {} /\ job' = job /\ Empty(d)
          /\ fs' = Put(Append(d, DotGit), Dir(Permission \ Umask), AfterMkdirAll(d, Permission))
          /\ Is(d, "dir") \/ d \in DOMAIN AfterMkdirAll(d, Permission)
      BY <1>0, <1>4 DEF PlainInit, Settled, Stage
    <2>2. d \in DOMAIN AfterMkdirAll(d, Permission)
      BY <2>1 DEF Is, AfterMkdirAll
    <2>3. Has(d, Repository)'
      BY <1>0, <2>1, <2>2, ToRepository
    <2> QED
      BY <1>4, <2>1, <2>3 DEF Stage, Repository
  <1>5. CASE PlainInit(c) /\ pc'[c] # "fetch"
    BY <1>0, <1>2, <1>5 DEF PlainInit, Settled
  <1>6. CASE Fetch(c)
    <2> PICK n : n = tip
      OBVIOUS
    <2>1. /\ meta'[c] = {} /\ job' = job /\ Has(d, Repository) /\ clone'[c].head = n
          /\ fs' = Over(Placed(n, d), fs) /\ pc'[c] \in {"checkout", "head"}
      BY <1>0, <1>6 DEF Fetch, Settled, Stage, CloneOk
    <2>2. Has(d, CloneOf(n))'
      BY <1>0, <2>1, FetchedClone
    <2> QED
      BY <2>1, <2>2 DEF Stage, CloneOf
  <1>7. CASE FetchFails(c)
    BY <1>0, <1>2, <1>7 DEF FetchFails, Settled
  <1>8. CASE Checkout(c) /\ Revision(c) \in clone[c].have
    <2> PICK n, h : n = Revision(c) /\ h = clone[c].head
      OBVIOUS
    <2>1. /\ meta'[c] = {} /\ job' = job /\ Has(d, CloneOf(h)) /\ clone'[c].head = n
          /\ pc'[c] = "head" /\ h \in DOMAIN Commits /\ n \in DOMAIN Commits
      BY <1>0, <1>8 DEF Checkout, Settled, Stage, CloneOk
    <2>2. PICK kept : /\ kept = [p \in DOMAIN fs \ (DOMAIN Placed(h, d) \ {d}) |-> fs[p]]
                      /\ fs' = Over(Placed(n, d), kept)
      BY <1>0, <1>8 DEF Checkout
    <2>3. Has(d, CloneOf(n))'
      BY <1>0, <2>1, <2>2, CheckedOut
    <2> QED
      BY <2>1, <2>3 DEF Stage, CloneOf
  <1>9. CASE Checkout(c) /\ Revision(c) \notin clone[c].have
    BY <1>0, <1>2, <1>9 DEF Checkout, Settled
  <1>10. CASE HeadRef(c)
    <2> PICK h : h = clone[c].head
      OBVIOUS
    <2>1. /\ pc[c] = "head" /\ pc'[c] = "cleanup" /\ meta'[c] = {h} /\ UNCHANGED <<fs, job>>
      BY <1>0, <1>10 DEF HeadRef, HeadOf, CloneOk
    <2>2. Has(d, CloneOf(h))'
      BY <2>1 DEF Stage, Has
    <2> QED
      BY <2>1, <2>2 DEF Stage, Content, IsGit
  <1>11. CASE Cleanup(c)
    <2>1. fs' = [p \in DOMAIN fs |-> fs[p]]
      BY <1>11 DEF Cleanup
    <2>2. Still(d)
      BY <2>1 DEF Still
    <2>3. UNCHANGED <<job, meta>> /\ pc'[c] \in {"ok", "failed"}
      BY <1>0, <1>11 DEF Cleanup, Return
    <2> QED
      BY <1>0, <2>2, <2>3, StillStage
  <1>12. CASE GitFault(c)
    <2>1. UNCHANGED <<fs, job, meta>> /\ pc'[c] = "cleanup"
      BY <1>0, <1>12 DEF GitFault
    <2> QED
      BY <1>0, <1>1, <2>1, StillStage
  <1>13. ~MkTemp(c) /\ ~EnterSubdir(c) /\ ~CleanupFails(c)
    BY <1>0 DEF MkTemp, EnterSubdir, CleanupFails, CloneOk
  <1> QED
    BY <1>3, <1>4, <1>5, <1>6, <1>7, <1>8, <1>9, <1>10, <1>11, <1>12, <1>13 DEF CloneStep, GitStep

LEMMA PullStage ==
  ASSUME IInv, PInv, CInv, CInv', NEW c \in Call, IsOci(c), PullStep(c), Arriving(c),
         NEW d, d = job[c].dst, Stage(c)
  PROVE  Stage(c)'
  <1> USE DEF Goto, callVars, copyVars, ociVars
  <1>0. /\ Fenced(c, d) /\ NoLinks(d) /\ d \in Path /\ FsOk' /\ Settled(c) /\ Landed(c)
        /\ DOMAIN pc = Call /\ DOMAIN meta = Call /\ DOMAIN pull = Call
        /\ DOMAIN pull[c] = {"plain", "digest", "todo", "tries"}
        /\ Real(d) = d /\ Entry(d) = d /\ ~IsGit(c)
    BY FencedEntry DEF Arriving, Places, Fenced, CInv, IInv, Functions, PInv, Typed, Pins, OciPins,
       IsOci, IsGit
  <1>1. UNCHANGED fs => Still(d)
    BY DEF Still
  <1>2. ASSUME pc'[c] \in {"closing", "failed"}, meta'[c] = {}
        PROVE  Stage(c)'
    BY <1>2 DEF Stage
  <1>3. CASE OciBegin(c)
    <2>1. meta'[c] = {} /\ job' = job /\ Empty(d)' /\ pc'[c] \in {"store", "failed"}
      BY <1>0, <1>3 DEF OciBegin, Settled, Stage, Empty
    <2> QED
      BY <2>1 DEF Stage
  <1>4. CASE OpenStore(c) /\ pc'[c] = "resolve"
    <2>1. /\ meta'[c] = {} /\ job' = job /\ Empty(d) /\ fs' = AfterMkdirAll(d, Permission)
          /\ Is(d, "dir") \/ d \in DOMAIN fs'
      BY <1>0, <1>4 DEF OpenStore, Settled, Stage, IsDir
    <2>2. d \in DOMAIN fs'
      BY <2>1 DEF Is, AfterMkdirAll
    <2>3. Has(d, Bare)'
      BY <1>0, <2>1, <2>2, ToBare
    <2> QED
      BY <1>4, <2>1, <2>3 DEF Stage, Bare
  <1>5. CASE OpenStore(c) /\ pc'[c] # "resolve"
    BY <1>0, <1>2, <1>5 DEF OpenStore, Settled
  <1>6. CASE Resolve(c)
    <2> PICK m : m = Digest(c)
      OBVIOUS
    <2>1. /\ meta'[c] = {} /\ UNCHANGED <<fs, job>> /\ pc'[c] = "pull" /\ Has(d, Bare)
          /\ pull'[c].digest = m /\ pull'[c].todo = DOMAIN Artifact[m]
      BY <1>0, <1>6 DEF Resolve, Settled, Stage
    <2>2. Has(d, Part(m, DOMAIN Artifact[m]))
      BY <2>1, Resolved
    <2>3. Has(d, Part(m, DOMAIN Artifact[m]))'
      BY <1>0, <1>1, <2>1, <2>2, HasStill
    <2> QED
      BY <2>1, <2>3 DEF Stage, Part
  <1>7. ASSUME NEW t \in pull[c].todo, Pull(c, t)
        PROVE  Stage(c)'
    <2> PICK m, todo : m = pull[c].digest /\ todo = pull[c].todo
      OBVIOUS
    <2> DEFINE p == Append(d, t)
    <2>1. /\ pc[c] = "pull" /\ pc'[c] = "pull" /\ meta'[c] = {} /\ job' = job
          /\ pull'[c].digest = m /\ pull'[c].todo = todo \ {t}
      BY <1>0, <1>7 DEF Pull, Settled
    <2>2. /\ m \in DOMAIN Artifact /\ todo \in SUBSET DOMAIN Artifact[m] /\ t \in todo
          /\ Has(d, Part(m, todo))
      BY <1>0, <1>7, <2>1 DEF Landed, Fetched, Stage
    <2>3. Real(p) = p
      BY <1>0, <2>2, BlobPath, FencedReal DEF NoLinks
    <2>4. /\ p \in DOMAIN fs' /\ fs'[p].kind = "file" /\ fs'[p].data = Artifact[m][t]
          /\ DOMAIN fs' = DOMAIN fs \cup {p} /\ \A q \in DOMAIN fs \ {p} : fs'[q] = fs[q]
      <3> DEFINE new == AfterCreate(p, Permission)
      <3>1. fs' = [new EXCEPT ![p] = [new[p] EXCEPT !.data = Artifact[m][t]]]
        BY <1>7, <2>3 DEF Pull, PullOf
      <3>2. PICK mode : new[p] = File(mode, <<>>)
        BY DEF AfterCreate, Put
      <3>3. /\ [new[p] EXCEPT !.data = Artifact[m][t]].kind = "file"
            /\ [new[p] EXCEPT !.data = Artifact[m][t]].data = Artifact[m][t]
        BY <3>2 DEF File
      <3>4. DOMAIN new = DOMAIN fs \cup {p} /\ \A q \in DOMAIN fs \ {p} : new[q] = fs[q]
        BY DEF AfterCreate, Put
      <3> HIDE DEF new
      <3> QED
        BY <3>1, <3>3, <3>4
    <2>5. Has(d, Part(m, todo \ {t}))'
      BY <1>0, <2>2, <2>4, BlobWritten
    <2> QED
      BY <2>1, <2>5 DEF Stage, Part
  <1>8. CASE Repeat(c)
    <2>1. /\ UNCHANGED <<pc, job, meta, fs>> /\ pc[c] \in {"resolve", "pull"}
          /\ pull'[c].digest = pull[c].digest /\ pull'[c].todo = pull[c].todo
      BY <1>0, <1>8 DEF Repeat, Requesting
    <2> QED
      BY <1>0, <1>1, <2>1, StillStage
  <1>9. CASE RequestFails(c)
    BY <1>0, <1>2, <1>9 DEF RequestFails, Requesting, Settled
  <1>10. CASE Pulled(c)
    <2> PICK m : m = pull[c].digest
      OBVIOUS
    <2>1. /\ Has(d, Part(m, {})) /\ UNCHANGED <<fs, job>> /\ meta'[c] = {m}
          /\ pc'[c] = "closing"
      BY <1>0, <1>10 DEF Pulled, Stage
    <2>2. Has(d, Part(m, {}))'
      BY <1>0, <1>1, <2>1, HasStill
    <2> QED
      BY <1>0, <2>1, <2>2 DEF Stage, Content, IsGit
  <1>11. CASE CloseStore(c) \/ CloseStoreFails(c) \/ OciFault(c)
    <2>1. UNCHANGED <<fs, job>> /\ meta'[c] \subseteq meta[c] /\ pc'[c] \in {"ok", "failed"}
      BY <1>0, <1>11 DEF CloseStore, CloseStoreFails, MetaReset, OciFault
    <2> QED
      BY <1>0, <1>1, <2>1, StillStage
  <1> QED
    BY <1>3, <1>4, <1>5, <1>6, <1>7, <1>8, <1>9, <1>10, <1>11 DEF PullStep, OciStep

-----------------------------------------------------------------------------
Exact(c) ==
  /\ Whole(c) /\ job[c].dst # <<>>
  /\ \A r \in Places(c) : Fenced(c, r) /\ (IsGit(c) => Off(job[c].root, r))
  /\ \A r \in {job[c].again, first[c].dst} \ {<<>>} : Off(job[c].dst, r)
  /\ job[c].again # <<>> => Empty(job[c].again)
  /\ first[c].meta # {} => first[c].dst # <<>>
  /\ \A n \in first[c].meta : Has(first[c].dst, Content(c, n))
  /\ Stage(c)

(* What the caller has to see to besides: nothing is where c is to write, and *)
(* the second destination is apart from the first.                           *)
Fresh(c) ==
  /\ Empty(job[c].dst)
  /\ job[c].again # <<>> => Empty(job[c].again) /\ ~Overlap(job[c].dst, job[c].again)

LEMMA InitExact ==
  ASSUME Init, NEW c \in Call, Whole(c), Secluded(c), Fresh(c)
  PROVE  Exact(c)
  <1>1. job[c].dst # <<>> /\ \A r \in Places(c) : Fenced(c, r)
    BY InitFenced DEF Whole, IsOci, IsGit, IsFile
  <1>2. /\ pc[c] = "begin" /\ meta[c] = {} /\ first[c].meta = {} /\ first[c].dst = <<>>
        /\ job \in Scenario /\ fs = Tree0
    BY DEF Init, Before
  <1>3. job[c].dst \in Path
    BY <1>1 DEF Places, Fenced
  <1>4. ASSUME NEW r \in Places(c), IsGit(c)
        PROVE  Off(job[c].root, r)
    <2>1. r \in Targets(job[c]) /\ r \in Path
      BY <1>1, <1>2, <1>4 DEF Places, Targets, Fenced, IsGit
    <2>2. job[c].root \in Path /\ ~Overlap(r, job[c].root)
      BY <1>2, <1>4, <2>1, TemporaryAssumption DEF Owners, IsGit
    <2> QED
      BY <2>1, <2>2, OverlapBothWays DEF Off
  <1> QED
    BY <1>1, <1>2, <1>3, <1>4 DEF Exact, Fresh, Stage, Off

LEMMA ExactByOther ==
  ASSUME IInv, PInv, CInv, CInv', NEW c \in Call, Exact(c),
         ByNobody \/ \E d \in Call \ {c} : ByCall(d)
  PROVE  Exact(c)'
  <1>0. ~IsFile(c) /\ job[c].dst # <<>> /\ FsOk' /\ Stage(c)
    BY DEF Exact, Whole, IsOci, IsGit, IsFile, CInv
  <1>1. /\ pc'[c] = pc[c] /\ job'[c] = job[c] /\ meta'[c] = meta[c] /\ pull'[c] = pull[c]
        /\ first'[c] = first[c] /\ clone'[c] = clone[c]
        /\ \A r \in Places(c) : Fenced(c, r)' /\ Still(r)
    <2>1. CASE ByNobody
      BY <2>1, ByNone DEF ByNobody, Exact
    <2>2. ASSUME NEW d \in Call \ {c}, ByCall(d)
          PROVE  <1>1
      <3>1. Own(c)' = Own(c)
        BY <2>2, ByCallGood DEF Good
      <3>2. first'[c] = first[c]
        BY <1>0, <2>2, PlacesShrink
      <3> QED
        BY <2>2, <3>1, <3>2, ByOther DEF Exact, Own
    <2> QED
      BY <2>1, <2>2
  <1>2. /\ \A r \in Places(c) : r \in Path
        /\ job[c].dst \in Places(c)
        /\ job[c].again # <<>> => job[c].again \in Places(c)
        /\ first[c].dst # <<>> => first[c].dst \in Places(c)
    BY <1>0 DEF Exact, Fenced, Places
  <1>3. Stage(c)'
    BY <1>0, <1>1, <1>2, StillStage
  <1>4. job[c].again # <<>> => Empty(job[c].again)'
    BY <1>0, <1>1, <1>2, EmptyStill DEF Exact
  <1>5. ASSUME NEW n \in first[c].meta
        PROVE  Has(first[c].dst, Content(c, n))'
    <2> PICK d, S : d = first[c].dst /\ S = Content(c, n)
      OBVIOUS
    <2>1. Has(d, S) /\ d \in Path /\ Still(d)
      BY <1>1, <1>2, <1>5 DEF Exact
    <2>2. Has(d, S)'
      BY <1>0, <2>1, HasStill
    <2>3. Content(c, n)' = S
      BY <1>1 DEF Content, IsGit
    <2> QED
      BY <1>1, <2>2, <2>3
  <1>6. \A n \in first'[c].meta : Has(first[c].dst, Content(c, n))'
    BY <1>1, <1>5
  <1>7. Whole(c)' /\ Places(c)' = Places(c) /\ (IsGit(c)' <=> IsGit(c))
    BY <1>1 DEF Exact, Whole, IsOci, IsGit, Temporary, Url, Places
  <1>8. job[c].again # <<>> => Empty(job[c].again)'
    BY <1>4
  <1> HIDE DEF Has, Empty, Content, Stage, Fenced
  <1> QED
    BY <1>1, <1>3, <1>6, <1>7, <1>8 DEF Exact

(* GetPinnedURL makes no subdirectory where there was none.                  *)
LEMMA PinnedWhole ==
  ASSUME PInv, NEW c \in Call, Again(c), Whole(c)
  PROVE  Whole(c)' /\ (IsGit(c)' <=> IsGit(c))
  <1>0. /\ job[c] \in Job /\ job \in [Call -> Job] /\ job' = [job EXCEPT ![c] = Pinned(c)]
        /\ job'[c].kind = job[c].kind
    BY PinnedJob DEF PInv, Typed, Again
  <1>1. CASE IsGit(c)
    <2> DEFINE j == [job[c] EXCEPT !.dst = job[c].again, !.again = <<>>]
    <2>1. job[c] \in GitJob
      BY <1>0, <1>1 DEF Job, FileJob, GitJob, OciJob, IsGit
    <2>2. PICK n : Pinned(c) = [j EXCEPT !.url = GitPinned(@, n)]
      BY <1>1 DEF Pinned
    <2>3. job[c].url \in GitUrl /\ j.url = job[c].url /\ DOMAIN j = DOMAIN job[c]
          /\ "url" \in DOMAIN job[c]
      BY <2>1 DEF GitJob
    <2> HIDE DEF j
    <2>4. Pinned(c).url = GitPinned(job[c].url, n)
      BY <2>2, <2>3
    <2>5. ASSUME NEW u \in GitUrl, u.pathSub = <<>>, u.querySub = <<>>
          PROVE  GitPinned(u, n).pathSub = <<>> /\ GitPinned(u, n).querySub = <<>>
      <3>1. CASE ~u.depthFirst
        BY <2>5, <3>1 DEF GitPinned, GitUrl
      <3>2. CASE u.depthFirst /\ u.ref.kind = "none"
        BY <2>5, <3>2 DEF GitPinned, GitUrl
      <3>3. CASE u.depthFirst /\ u.ref.kind # "none"
        <4>1. PICK r : GitPinned(u, n) = [u EXCEPT !.ref = r]
          BY <3>3 DEF GitPinned
        <4> QED
          BY <2>5, <4>1 DEF GitUrl
      <3> QED
        BY <3>1, <3>2, <3>3
    <2>6. job[c].url.pathSub = <<>> /\ job[c].url.querySub = <<>>
      BY <1>1 DEF Whole, Temporary, Subdir, Url, IsGit, IsOci
    <2>7. job'[c].url.pathSub = <<>> /\ job'[c].url.querySub = <<>>
      <3>1. job'[c] = Pinned(c)
        BY <1>0, Zenon
      <3> QED
        BY <2>3, <2>4, <2>5, <2>6, <3>1
    <2> QED
      BY <1>0, <1>1, <2>7 DEF Whole, Temporary, Subdir, Url, IsGit
  <1>2. CASE ~IsGit(c)
    BY <1>0, <1>2 DEF Whole, IsGit, IsOci
  <1> QED
    BY <1>1, <1>2

LEMMA ExactAgain ==
  ASSUME IInv, PInv, CInv, NEW c \in Call, Exact(c), Again(c)
  PROVE  Exact(c)'
  <1>1. /\ job'[c].dst = job[c].again /\ job'[c].again = <<>> /\ job[c].again # <<>>
        /\ IsGit(c) => job'[c].root = job[c].root
    BY PinnedJob
  <1>2. /\ pc'[c] = "begin" /\ meta'[c] = {} /\ fs' = fs
        /\ first'[c].meta = meta[c] /\ first'[c].dst = job[c].dst
    BY DEF Again, PInv, Typed, IInv, Functions
  <1>3. Whole(c)' /\ (IsGit(c)' <=> IsGit(c))
    BY PinnedWhole DEF Exact
  <1>4. /\ job[c].dst # <<>> /\ job[c].dst \in Places(c) /\ job[c].again \in Places(c)
        /\ Off(job[c].dst, job[c].again) /\ job[c].again \in Path
    BY <1>1 DEF Exact, Places, Fenced
  <1>5. Places(c)' \subseteq Places(c)
    BY <1>1, <1>2, <1>4 DEF Places
  <1>6. ASSUME NEW r \in Places(c)
        PROVE  Fenced(c, r)'
    <2>1. Fenced(c, r) /\ LinksOff(r)
      BY <1>6 DEF Exact, Fenced
    <2>2. LinksOff(r)'
      BY <1>2, <2>1 DEF LinksOff
    <2> QED
      BY <2>1, <2>2, ByItself DEF ByCall
  <1>7. Off(job[c].again, job[c].dst)
    BY <1>4, OverlapBothWays DEF Off
  <1>8. \A n \in first'[c].meta : Has(first[c].dst, Content(c, n))'
    <2> SUFFICES ASSUME NEW n \in meta[c]
                 PROVE  Has(first[c].dst, Content(c, n))'
      BY <1>2
    <2> PICK d, S : d = job[c].dst /\ S = Content(c, n)
      OBVIOUS
    <2>1. Has(d, S)
      BY DEF Exact, Stage
    <2>2. Has(d, S)'
      BY <1>2, <2>1 DEF Has
    <2>3. Content(c, n)' = S
      BY <1>3 DEF Content, CloneOf, Part
    <2> QED
      BY <1>2, <2>2, <2>3
  <1>9. Stage(c)'
    <2>1. Empty(job[c].dst)'
      BY <1>1, <1>2 DEF Exact, Empty
    <2> QED
      BY <1>2, <2>1 DEF Stage
  <1> HIDE DEF Has, Empty, Content, Stage, Fenced
  <1> QED
    BY <1>1, <1>2, <1>3, <1>4, <1>5, <1>6, <1>7, <1>8, <1>9 DEF Exact

LEMMA ExactByItself ==
  ASSUME IInv, PInv, CInv, CInv', NEW c \in Call, Exact(c), IsOci(c) => Arriving(c), ByCall(c)
  PROVE  Exact(c)'
  <1>0. /\ ~IsFile(c) /\ job[c].dst # <<>> /\ FsOk' /\ Stage(c) /\ CloneOk(c)
        /\ job[c].dst \in Places(c)
    BY DEF Exact, Whole, IsOci, IsGit, IsFile, CInv, CallOk, Places
  <1>1. CASE Again(c)
    BY <1>1, ExactAgain
  <1>2. CASE ~Again(c)
    <2>1. job' = job /\ first' = first
      BY <1>0, <1>2, JobSteps DEF FileBegin
    <2>2. \/ IsOci(c) /\ ~IsGit(c) /\ PullStep(c)
          \/ IsGit(c) /\ ~Temporary(c) /\ CloneStep(c)
          \/ Crash(c)
      <3>1. CASE IsOci(c)
        BY <1>2, <3>1, OciCases DEF OciByCall, IsOci, IsGit
      <3>2. CASE IsGit(c) /\ ~Temporary(c)
        BY <1>0, <1>2, <3>2, GitByCall DEF CloneOk
      <3> QED
        BY <3>1, <3>2 DEF Exact, Whole
    <2>3. ASSUME NEW r \in Places(c) \ {job[c].dst}
          PROVE  LinksOff(r)' /\ Still(r)
      <3>1. /\ r \in Path /\ LinksOff(r) /\ OutOff(r) /\ Off(job[c].dst, r)
            /\ IsGit(c) => Off(job[c].root, r)
        BY <2>3 DEF Exact, Fenced, Places
      <3>2. Spares(r, fs')
        BY <2>2, <3>1, PullSpares, CloneSpares, SameSpares DEF Crash
      <3> QED
        BY <3>1, <3>2, SparesLinks
    <2>4. LinksOff(job[c].dst)'
      <3> PICK d : d = job[c].dst
        OBVIOUS
      <3>1. Fenced(c, d) /\ LinksOff(d)
        BY <1>0 DEF Exact, Fenced
      <3>2. CASE PullStep(c) \/ Crash(c)
        <4>1. LinksOff(d)'
          BY <3>1, <3>2, OciNodes DEF OciByCall, LinksOff
        <4> QED
          BY <2>1, <4>1
      <3>3. CASE IsGit(c) /\ ~Temporary(c) /\ CloneStep(c)
        <4>1. LinksOff(d)'
          BY <3>1, <3>3, CloneLinks
        <4> QED
          BY <2>1, <4>1
      <3> QED
        BY <2>2, <3>2, <3>3
    <2>5. Stage(c)'
      <3> PICK d : d = job[c].dst
        OBVIOUS
      <3>1. Fenced(c, d) /\ d \in Path
        BY <1>0 DEF Exact, Fenced
      <3>2. CASE Crash(c)
        <4>1. pc'[c] = "crashed" /\ UNCHANGED <<fs, meta>> /\ Still(d)
          BY <3>2 DEF Crash, IInv, Functions, Still
        <4> QED
          BY <1>0, <2>1, <3>1, <4>1, StillStage
      <3> QED
        BY <1>0, <2>2, <3>1, <3>2, PullStage, CloneStage
    <2>6. ASSUME NEW r \in Places(c)
          PROVE  Fenced(c, r)'
      <3>1. Fenced(c, r)
        BY <2>6 DEF Exact
      <3>2. LinksOff(r)'
        BY <2>1, <2>3, <2>4, <2>6
      <3> QED
        BY <3>1, <3>2, ByItself
    <2>7. job[c].again # <<>> => Empty(job[c].again)'
      <3> SUFFICES ASSUME job[c].again # <<>> PROVE Empty(job[c].again)'
        OBVIOUS
      <3> PICK r : r = job[c].again
        OBVIOUS
      <3>1. Empty(r) /\ Off(job[c].dst, r) /\ r \in Places(c) /\ r \in Path
        BY DEF Exact, Places, Fenced
      <3>2. r # job[c].dst
        BY <3>1 DEF Off, Overlap
      <3>3. Empty(r)'
        BY <1>0, <2>3, <3>1, <3>2, EmptyStill
      <3> QED
        BY <2>1, <3>3
    <2>8. ASSUME NEW n \in first[c].meta
          PROVE  Has(first[c].dst, Content(c, n))'
      <3> PICK d, S : d = first[c].dst /\ S = Content(c, n)
        OBVIOUS
      <3>1. Has(d, S) /\ Off(job[c].dst, d) /\ d \in Places(c) /\ d \in Path
        BY <2>8 DEF Exact, Places, Fenced
      <3>2. d # job[c].dst
        BY <3>1 DEF Off, Overlap
      <3>3. Has(d, S)'
        BY <1>0, <2>3, <3>1, <3>2, HasStill
      <3>4. Content(c, n)' = S
        BY <2>1 DEF Content, IsGit, CloneOf, Part
      <3> QED
        BY <2>1, <3>3, <3>4
    <2>9. Whole(c)' /\ Places(c)' = Places(c) /\ (IsGit(c)' <=> IsGit(c))
      BY <2>1 DEF Exact, Whole, IsOci, IsGit, Temporary, Url, Places
    <2> HIDE DEF Has, Empty, Content, Stage, Fenced
    <2> QED
      BY <2>1, <2>5, <2>6, <2>7, <2>8, <2>9 DEF Exact
  <1> QED
    BY <1>1, <1>2

LEMMA StepExact ==
  ASSUME IInv, PInv, CInv, [Next]_vars, NEW c \in Call, Exact(c), IsOci(c) => Arriving(c)
  PROVE  Exact(c)'
  <1>1. CInv'
    BY StepCInv
  <1> QED
    BY <1>1, StepCases, ExactByOther, ExactByItself

-----------------------------------------------------------------------------
(* What the stages of a gather say of it once it has returned.               *)

ImageOf(S) == [q \in DOMAIN S |-> <<S[q].kind, S[q].data>>]

LEMMA HasTree ==
  ASSUME NEW d \in Path, NEW S, Has(d, S)
  PROVE  /\ Tree(d) = {d \o q : q \in DOMAIN S}
         /\ Image(d) = ImageOf(S)
  <1>1. \A q \in DOMAIN S : Under(d \o q, d) /\ Rest(d \o q, d) = q
    BY ConcatUnder, RestConcat DEF Has
  <1>2. Tree(d) = {d \o q : q \in DOMAIN S}
    BY <1>1 DEF Has, Tree
  <1> DEFINE R == {Rest(p, d) : p \in Tree(d)}
  <1>3. R = DOMAIN S
    <2>1. ASSUME NEW x \in R PROVE x \in DOMAIN S
      <3>1. PICK p \in Tree(d) : x = Rest(p, d)
        OBVIOUS
      <3>2. PICK q \in DOMAIN S : p = d \o q
        BY <1>2, <3>1
      <3> QED
        BY <1>1, <3>1, <3>2
    <2>2. ASSUME NEW q \in DOMAIN S PROVE q \in R
      <3>1. d \o q \in Tree(d) /\ Rest(d \o q, d) = q
        BY <1>1, <1>2
      <3> QED
        BY <3>1, Zenon
    <2> QED
      BY <2>1, <2>2
  <1>4. Image(d) = [q \in R |-> <<fs[d \o q].kind, fs[d \o q].data>>]
    BY DEF Image
  <1> HIDE DEF R
  <1>5. \A q \in DOMAIN S : fs[d \o q].kind = S[q].kind /\ fs[d \o q].data = S[q].data
    BY DEF Has
  <1> QED
    BY <1>2, <1>3, <1>4, <1>5 DEF ImageOf

LEMMA WholeRest ==
  ASSUME NEW q \in Path
  PROVE  Under(q, <<>>) /\ Rest(q, <<>>) = q
  <1>1. <<>> \in Path /\ Rest(<<>> \o q, <<>>) = q
    BY RestConcat, ConcatNames
  <1>2. <<>> \o q = q
    BY ConcatEmptySeq DEF Path
  <1>3. Len(<<>>) = 0 /\ Len(q) \in Nat
    BY DEF Path
  <1> QED
    BY <1>1, <1>2, <1>3 DEF Under

LEMMA CloneDelivered ==
  ASSUME NEW c \in Call, IsGit(c), Exact(c), Pins(c), meta[c] # {}
  PROVE  LET n == CHOOSE m \in meta[c] : TRUE
             sub == Subdir(Url(c))
             t == Commits[n]
             target(q) == IF Temporary(c) /\ t[q].kind = "link" THEN t[q].to ELSE q
             wanted == {q \in DOMAIN t : Under(q, sub)}
             dst == job[c].dst
         IN
         /\ Url(c).ref.kind = "hash" => n = Url(c).ref.hash
         /\ Tree(dst) = {dst \o Rest(q, sub) : q \in wanted}
                          \cup (IF Temporary(c) THEN {} ELSE {Append(dst, DotGit)})
         /\ \A q \in wanted :
              LET p == dst \o Rest(q, sub) IN
              fs[p].kind = t[target(q)].kind /\ fs[p].data = t[target(q)].data
  <1> PICK n, d, t : n = (CHOOSE m \in meta[c] : TRUE) /\ d = job[c].dst /\ t = Commits[n]
    OBVIOUS
  <1>1. n \in meta[c] /\ (Url(c).ref.kind = "hash" => n = Url(c).ref.hash)
    BY DEF Pins, GitPins
  <1>2. d \in Path /\ ~Temporary(c) /\ Subdir(Url(c)) = <<>>
    BY DEF Exact, Places, Fenced, Whole, IsOci, IsGit, Temporary
  <1>3. Has(d, CloneOf(n))
    BY <1>1 DEF Exact, Stage, Content
  <1>4. /\ DOMAIN CloneOf(n) = DOMAIN t \cup {<<DotGit>>}
        /\ \A q \in DOMAIN t : CloneOf(n)[q] = t[q]
    BY DEF CloneOf
  <1>5. \A q \in DOMAIN t : q \in Path /\ Under(q, <<>>) /\ Rest(q, <<>>) = q
    BY <1>3, <1>4, WholeRest DEF Has
  <1>6. d \o <<DotGit>> = Append(d, DotGit)
    BY <1>2, ConcatNames, SourceAssumption
  <1>7. Tree(d) = {d \o Rest(q, <<>>) : q \in {p \in DOMAIN t : Under(p, <<>>)}}
                    \cup {Append(d, DotGit)}
    <2>1. Tree(d) = {d \o q : q \in DOMAIN CloneOf(n)}
      BY <1>2, <1>3, HasTree
    <2>2. {p \in DOMAIN t : Under(p, <<>>)} = DOMAIN t
      BY <1>5
    <2>3. {d \o Rest(q, <<>>) : q \in DOMAIN t} = {d \o q : q \in DOMAIN t}
      BY <1>5
    <2>4. {d \o q : q \in DOMAIN CloneOf(n)} =
            {d \o q : q \in DOMAIN t} \cup {Append(d, DotGit)}
      BY <1>4, <1>6, ZenonT(60)
    <2> QED
      BY <2>1, <2>2, <2>3, <2>4
  <1>8. \A q \in DOMAIN t : fs[d \o q].kind = t[q].kind /\ fs[d \o q].data = t[q].data
    BY <1>3, <1>4 DEF Has
  <1> QED
    BY <1>1, <1>2, <1>5, <1>7, <1>8

(* A git or OCI gather of the kind described, at any of its steps.           *)
Settles(c) == Exact(c) /\ (IsOci(c) => Arriving(c))

SetApart(c) == Whole(c) /\ Secluded(c) /\ Fresh(c)

LEMMA InitSettles ==
  ASSUME Init, NEW c \in Call, SetApart(c)
  PROVE  Settles(c)
  BY InitExact, InitArriving DEF Settles, SetApart

LEMMA StepSettles ==
  ASSUME IInv, PInv, CInv, [Next]_vars, NEW c \in Call, Settles(c)
  PROVE  Settles(c)'
  <1>1. Exact(c)'
    BY StepExact DEF Settles
  <1>2. ASSUME IsOci(c)' PROVE Arriving(c)'
    <2>1. IsOci(c)
      BY <1>2, StepCases, KindKept DEF ByNobody, IsOci
    <2> QED
      BY <2>1, StepArriving DEF Settles
  <1> QED
    BY <1>1, <1>2 DEF Settles

LEMMA SameImages ==
  ASSUME NEW c \in Call, Exact(c), pc[c] = "ok", first[c].meta # {}, meta[c] = first[c].meta
  PROVE  Image(job[c].dst) = Image(first[c].dst)
  <1>1. PICK n : n \in meta[c]
    OBVIOUS
  <1> PICK d, e, S : d = job[c].dst /\ e = first[c].dst /\ S = Content(c, n)
    OBVIOUS
  <1>2. Has(d, S) /\ Has(e, S)
    BY <1>1 DEF Exact, Stage
  <1>3. d \in Path /\ e \in Path
    BY DEF Exact, Places, Fenced
  <1>4. Image(d) = ImageOf(S) /\ Image(e) = ImageOf(S)
    BY <1>2, <1>3, HasTree
  <1> QED
    BY <1>4, Zenon

(***************************************************************************)
(* git.go:177-197, oci.go:118-152: one gather of a whole repository or of  *)
(* an artifact among any other calls, also copies, clones of the same      *)
(* repository and pulls of the same artifact.  Once it has returned, its   *)
(* destination has what the commit or digest it reports has, all of it and *)
(* nothing else, and so it stays.                                          *)
(***************************************************************************)
THEOREM GatheredStays ==
  ASSUME NEW c \in Call
  PROVE  Spec /\ SetApart(c) => [](\A n \in meta[c] : Has(job[c].dst, Content(c, n)))
  <1>1. Init /\ SetApart(c) => Settles(c)
    BY InitSettles
  <1>2. IInv /\ PInv /\ CInv /\ Settles(c) /\ [Next]_vars => Settles(c)'
    BY StepSettles
  <1>3. Settles(c) => \A n \in meta[c] : Has(job[c].dst, Content(c, n))
    BY DEF Settles, Exact, Stage
  <1> QED
    BY <1>1, <1>2, <1>3, Invariance, PinInvariance, AwayInvariance, PTL DEF Spec

ClonesInv == \A c \in Call : IsGit(c) => Settles(c)

(***************************************************************************)
(* git.go:177-197: when every git call clones a whole repository into a    *)
(* place of its own, each that returns has the tree of the commit it       *)
(* reports, entry for entry, with .git and nothing else, and that is the   *)
(* commit its URL names, whatever is pushed meanwhile.                     *)
(***************************************************************************)
THEOREM ClonesArrive ==
  Spec /\ (\A c \in Call : IsGit(c) => SetApart(c)) => []CloneDelivers
  <1>1. Init /\ (\A c \in Call : IsGit(c) => SetApart(c)) => ClonesInv
    BY InitSettles DEF ClonesInv
  <1>2. IInv /\ PInv /\ CInv /\ ClonesInv /\ [Next]_vars => ClonesInv'
    <2> SUFFICES ASSUME IInv, PInv, CInv, ClonesInv, [Next]_vars, NEW c \in Call, IsGit(c)'
                 PROVE  Settles(c)'
      BY DEF ClonesInv
    <2>1. IsGit(c)
      BY StepCases, KindKept DEF ByNobody, IsGit
    <2> QED
      BY <2>1, StepSettles DEF ClonesInv
  <1>3. IInv /\ PInv /\ ClonesInv => CloneDelivers
    <2> SUFFICES ASSUME IInv, PInv, ClonesInv, NEW c \in Call, Delivered(c, "git")
                 PROVE  IsGit(c) /\ Exact(c) /\ Pins(c) /\ meta[c] # {}
      BY CloneDelivered DEF CloneDelivers
    <2> QED
      BY DEF Delivered, ClonesInv, Settles, PInv, IInv, Settled, IsGit
  <1> QED
    BY <1>1, <1>2, <1>3, Invariance, PinInvariance, AwayInvariance, PTL DEF Spec

(* A call that gathers no second time, or is of the kind described.          *)
AgainInv ==
  \A c \in Call : \/ IsFile(c)
                  \/ job[c].again = <<>> /\ first[c].meta = {}
                  \/ Settles(c)

LEMMA StepAgainInv ==
  ASSUME IInv, PInv, CInv, AgainInv, [Next]_vars
  PROVE  AgainInv'
  <1> SUFFICES ASSUME NEW c \in Call
               PROVE  \/ IsFile(c)'
                      \/ job'[c].again = <<>> /\ first'[c].meta = {}
                      \/ Settles(c)'
    BY DEF AgainInv
  <1>1. CASE IsFile(c)
    BY <1>1, StepCases, KindKept DEF ByNobody, IsFile
  <1>2. CASE Settles(c)
    BY <1>2, StepSettles
  <1>3. CASE ~IsFile(c) /\ job[c].again = <<>> /\ first[c].meta = {}
    <2>1. job'[c] = job[c] /\ first'[c] = first[c]
      <3>1. CASE ByNobody
        BY <3>1 DEF ByNobody
      <3>2. CASE ByCall(c)
        BY <1>3, <3>2, JobSteps DEF FileBegin, Again
      <3>3. ASSUME NEW d \in Call \ {c}, ByCall(d)
            PROVE  <2>1
        <4>1. job'[c] = job[c]
          BY <3>3, ByCallGood DEF Good, Own
        <4>2. first'[c] = first[c]
          BY <3>3, JobSteps DEF Again, PInv, Typed
        <4> QED
          BY <4>1, <4>2
      <3> QED
        BY <3>1, <3>2, <3>3, StepCases
    <2> QED
      BY <1>3, <2>1
  <1> QED
    BY <1>1, <1>2, <1>3 DEF AgainInv

(***************************************************************************)
(* git.go:200-220, oci.go:188-204: gathering what GetPinnedURL makes of a  *)
(* result gives the same files again as the first time, with the same data *)
(* in them, however branch and tag have moved and whatever others gather.  *)
(***************************************************************************)
THEOREM PinnedSameFiles ==
  Spec /\ (\A c \in Call : ~IsFile(c) /\ job[c].again # <<>> => SetApart(c)) => []PinnedGathersSame
  <1>1. Init /\ (\A c \in Call : ~IsFile(c) /\ job[c].again # <<>> => SetApart(c)) => AgainInv
    BY InitSettles DEF AgainInv, Init, Before
  <1>2. IInv /\ PInv /\ CInv /\ AgainInv /\ [Next]_vars => AgainInv'
    BY StepAgainInv
  <1>3. PInv /\ AgainInv /\ PinnedReportsSame => PinnedGathersSame
    <2> SUFFICES ASSUME PInv, AgainInv, PinnedReportsSame, NEW c \in Call, pc[c] = "ok",
                        first[c].meta # {}
                 PROVE  Exact(c) /\ meta[c] = first[c].meta
      BY SameImages DEF PinnedGathersSame
    <2>1. ~IsFile(c)
      BY DEF PInv, Pins, AskedAgain, IsFile, IsGit, IsOci
    <2> QED
      BY <2>1 DEF AgainInv, Settles, PinnedReportsSame
  <1> QED
    BY <1>1, <1>2, <1>3, Invariance, PinInvariance, AwayInvariance, PinnedAgain, PTL DEF Spec

-----------------------------------------------------------------------------
(* A path of the source and what it is copied to: s and d, and the same path *)
(* below them.                                                               *)
Pair(s, d, p, q) ==
  /\ p \in Path /\ Under(p, s) /\ q \in Path /\ Under(q, d)
  /\ Len(p) - Len(s) = Len(q) - Len(d)
  /\ \A i \in 1..Len(p) - Len(s) : p[Len(s) + i] = q[Len(d) + i]

LEMMA PathsAgree ==
  ASSUME NEW s \in Path, NEW p \in Path, NEW q \in Path, Under(p, s), Under(q, s), Len(p) = Len(q),
         \A i \in 1..Len(p) - Len(s) : p[Len(s) + i] = q[Len(s) + i]
  PROVE  p = q
  <1>1. Len(p) \in Nat /\ Len(s) \in Nat /\ Len(s) <= Len(p)
    BY DEF Path, Under
  <1>2. ASSUME NEW i \in 1..Len(p) PROVE p[i] = q[i]
    <2>1. CASE i <= Len(s)
      BY <1>1, <2>1 DEF Under
    <2>2. CASE i > Len(s)
      <3>1. i - Len(s) \in 1..Len(p) - Len(s) /\ Len(s) + (i - Len(s)) = i
        BY <1>1, <2>2
      <3> QED
        BY <3>1
    <2> QED
      BY <1>1, <2>1, <2>2
  <1> QED
    BY <1>2, PathEqual

LEMMA PairUnique ==
  ASSUME NEW s \in Path, NEW d \in Path, NEW p, NEW q, Pair(s, d, p, q)
  PROVE  /\ \A t : Pair(s, d, p, t) => t = q
         /\ \A t : Pair(s, d, t, q) => t = p
  <1>0. Len(s) \in Nat /\ Len(d) \in Nat /\ Len(p) \in Nat /\ Len(q) \in Nat
    BY DEF Pair, Path
  <1>1. ASSUME NEW t, Pair(s, d, p, t) PROVE t = q
    <2>1. Len(t) \in Nat /\ Len(t) = Len(q) /\ Len(p) - Len(s) = Len(q) - Len(d)
      BY <1>0, <1>1 DEF Pair, Path
    <2> QED
      BY <1>0, <1>1, <2>1, PathsAgree DEF Pair
  <1>2. ASSUME NEW t, Pair(s, d, t, q) PROVE t = p
    <2>1. Len(t) \in Nat /\ Len(t) = Len(p) /\ Len(p) - Len(s) = Len(q) - Len(d)
      BY <1>0, <1>2 DEF Pair, Path
    <2> QED
      BY <1>0, <1>2, <2>1, PathsAgree DEF Pair
  <1> QED
    BY <1>1, <1>2

LEMMA PairStart ==
  ASSUME NEW s \in Path, NEW d \in Path
  PROVE  Pair(s, d, s, d)
  BY DEF Pair, Under, Path

LEMMA PairChild ==
  ASSUME NEW s \in Path, NEW d \in Path, NEW p, NEW q, Pair(s, d, p, q), NEW n \in Name
  PROVE  Pair(s, d, Append(p, n), Append(q, n))
  <1>1. p \in Path /\ q \in Path /\ Under(p, s) /\ Under(q, d) /\ Len(s) \in Nat /\ Len(d) \in Nat
        /\ Len(p) - Len(s) = Len(q) - Len(d)
        /\ \A i \in 1..Len(p) - Len(s) : p[Len(s) + i] = q[Len(d) + i]
    BY DEF Pair, Path
  <1> DEFINE a == Append(p, n)
             b == Append(q, n)
  <1>2. /\ a \in Path /\ Len(a) = Len(p) + 1 /\ a[Len(p) + 1] = n /\ Len(p) \in Nat
        /\ \A i \in 1..Len(p) : a[i] = p[i]
        /\ b \in Path /\ Len(b) = Len(q) + 1 /\ b[Len(q) + 1] = n /\ Len(q) \in Nat
        /\ \A i \in 1..Len(q) : b[i] = q[i]
    BY <1>1, AppendPath
  <1>3. Under(a, s) /\ Under(b, d)
    BY <1>1, AppendUnder
  <1> HIDE DEF a, b
  <1>4. Len(s) <= Len(p) /\ Len(d) <= Len(q)
    BY <1>1 DEF Under
  <1>5. ASSUME NEW i \in 1..Len(a) - Len(s)
        PROVE  a[Len(s) + i] = b[Len(d) + i]
    <2>1. CASE i \in 1..Len(p) - Len(s)
      BY <1>1, <1>2, <1>4, <2>1
    <2>2. CASE i = Len(p) - Len(s) + 1
      <3>1. Len(s) + i = Len(p) + 1 /\ Len(d) + i = Len(q) + 1
        BY <1>1, <1>2, <2>2, SMTT(30)
      <3> QED
        BY <1>2, <3>1
    <2> QED
      BY <1>1, <1>2, <2>1, <2>2
  <1>6. Pair(s, d, a, b)
    BY <1>1, <1>2, <1>3, <1>5 DEF Pair
  <1> QED
    BY <1>6 DEF a, b

(* What lies on the way from d to a copy is the copy of what lies on the way *)
(* from s.                                                                   *)
LEMMA PairPrefix ==
  ASSUME NEW s \in Path, NEW d \in Path, NEW p, NEW q, Pair(s, d, p, q), NEW i \in Len(d)..Len(q)
  PROVE  LET j == i - Len(d) + Len(s) IN
         j \in Len(s)..Len(p) /\ Pair(s, d, SubSeq(p, 1, j), SubSeq(q, 1, i)) /\ (i = Len(q) => j = Len(p))
  <1>1. p \in Path /\ q \in Path /\ Under(p, s) /\ Under(q, d) /\ Len(s) \in Nat /\ Len(d) \in Nat
        /\ Len(p) - Len(s) = Len(q) - Len(d) /\ Len(p) \in Nat /\ Len(q) \in Nat
        /\ \A k \in 1..Len(p) - Len(s) : p[Len(s) + k] = q[Len(d) + k]
    <2>1. p \in Path /\ q \in Path
      BY DEF Pair
    <2>2. Len(s) \in Nat /\ Len(d) \in Nat /\ Len(p) \in Nat /\ Len(q) \in Nat
      BY <2>1 DEF Path
    <2> QED
      BY <2>1, <2>2 DEF Pair
  <1> DEFINE j == i - Len(d) + Len(s)
             a == SubSeq(p, 1, j)
             b == SubSeq(q, 1, i)
  <1>2. j \in Len(s)..Len(p) /\ (i = Len(q) => j = Len(p)) /\ j \in 0..Len(p) /\ i \in 0..Len(q)
        /\ j - Len(s) = i - Len(d) /\ j - Len(s) \in Nat /\ j - Len(s) <= Len(p) - Len(s)
    BY <1>1
  <1> HIDE DEF j
  <1>3. /\ a \in Path /\ Len(a) = j /\ \A k \in 1..j : a[k] = p[k]
        /\ b \in Path /\ Len(b) = i /\ \A k \in 1..i : b[k] = q[k]
    BY <1>1, <1>2, PrefixPath
  <1> HIDE DEF a, b
  <1>4. Under(a, s) /\ Under(b, d)
    <2>1. Len(s) <= j /\ Len(d) <= i /\ i \in Nat /\ j \in Nat
      BY <1>1, <1>2
    <2>2. (\A k \in 1..Len(s) : p[k] = s[k]) /\ (\A k \in 1..Len(d) : q[k] = d[k])
      BY <1>1 DEF Under
    <2>3. (\A k \in 1..Len(s) : k \in 1..j) /\ (\A k \in 1..Len(d) : k \in 1..i)
      BY <1>1, <2>1
    <2>4. Under(a, s)
      BY <1>3, <2>1, <2>2, <2>3 DEF Under
    <2>5. Under(b, d)
      BY <1>3, <2>1, <2>2, <2>3 DEF Under
    <2> QED
      BY <2>4, <2>5
  <1>5. ASSUME NEW k \in 1..Len(a) - Len(s)
        PROVE  a[Len(s) + k] = b[Len(d) + k]
    BY <1>1, <1>2, <1>3, <1>5, SMTT(30)
  <1>6. Pair(s, d, a, b)
    BY <1>2, <1>3, <1>4, <1>5 DEF Pair
  <1> QED
    BY <1>2, <1>6 DEF a, b, j

LEMMA PairRest ==
  ASSUME NEW s \in Path, NEW d \in Path, NEW p \in Path, Under(p, s)
  PROVE  Pair(s, d, p, d \o Rest(p, s))
  <1>0. Len(s) \in Nat /\ Len(p) \in Nat /\ Len(s) <= Len(p) /\ Len(d) \in Nat
    BY DEF Under, Path
  <1> DEFINE x == Rest(p, s)
             q == d \o x
  <1>1. /\ x \in Path /\ Len(x) = Len(p) - Len(s)
        /\ \A i \in 1..Len(p) - Len(s) : x[i] = p[Len(s) + i]
    <2>1. Len(s) + 1 \in Int /\ Len(p) \in Int /\ \A k \in (Len(s) + 1)..Len(p) : p[k] \in Name
      BY <1>0 DEF Path
    <2>2. /\ x \in Path
          /\ Len(x) = IF Len(s) + 1 <= Len(p) THEN Len(p) - (Len(s) + 1) + 1 ELSE 0
          /\ \A i \in 1..Len(p) - (Len(s) + 1) + 1 : x[i] = p[Len(s) + 1 + i - 1]
      BY <2>1, SubSeqProperties DEF Rest, Path
    <2> HIDE DEF x
    <2> QED
      BY <1>0, <2>2
  <1> HIDE DEF x
  <1>2. /\ q \in Path /\ Len(q) = Len(d) + Len(x) /\ \A i \in 1..Len(d) : q[i] = d[i]
        /\ \A i \in 1..Len(x) : q[Len(d) + i] = x[i]
    <2>1. d \in Seq(Name) /\ x \in Seq(Name)
      BY <1>1 DEF Path
    <2>2. /\ q \in Seq(Name) /\ Len(q) = Len(d) + Len(x)
          /\ \A i \in 1..Len(d) + Len(x) : q[i] = IF i <= Len(d) THEN d[i] ELSE x[i - Len(d)]
      BY <2>1, ConcatProperties
    <2> HIDE DEF q
    <2>3. Len(x) \in Nat /\ \A i \in 1..Len(x) :
            Len(d) + i \in 1..Len(d) + Len(x) /\ ~(Len(d) + i <= Len(d)) /\ Len(d) + i - Len(d) = i
      BY <1>0, <1>1
    <2>4. \A i \in 1..Len(x) : q[Len(d) + i] = x[i]
      BY <2>2, <2>3
    <2>5. \A i \in 1..Len(d) : q[i] = d[i]
      BY <1>0, <2>2, <2>3
    <2> QED
      BY <2>2, <2>4, <2>5 DEF Path
  <1> HIDE DEF q
  <1>3. Pair(s, d, p, q)
    BY <1>0, <1>1, <1>2 DEF Pair, Under
  <1> QED
    BY <1>3 DEF q, x

-----------------------------------------------------------------------------
(* The source of a copy: a tree that nobody writes to, and that is reached   *)
(* and read without leaving the place r, where nobody writes either.         *)

NoLinkOn(p) == \A i \in 1..Len(p) : ~Is(SubSeq(p, 1, i), "link")

Leaf(p) == IF fs[p].kind = "link" THEN fs[p].to ELSE p

Orderly(s, r) ==
  /\ s \in Path /\ Under(s, r) /\ NoLinkOn(s)
  /\ \A p \in DOMAIN fs : Under(p, s) =>
       /\ \A i \in Len(s)..Len(p) - 1 : Is(SubSeq(p, 1, i), "dir")
       /\ fs[p].kind = "link" => Under(fs[p].to, r) /\ NoLinkOn(fs[p].to)
       /\ Leaf(p) \in DOMAIN fs => fs[Leaf(p)].data \in Seq(Unit)

LEMMA UnderUnder ==
  ASSUME NEW p \in Path, NEW s \in Path, NEW r \in Path, Under(p, s), Under(s, r)
  PROVE  Under(p, r)
  BY DEF Under, Path

LEMMA NoLinkReal ==
  ASSUME NEW p \in Path, NoLinkOn(p)
  PROVE  Real(p) = p
  BY RealCases DEF NoLinkOn

LEMMA NoLinkStays ==
  ASSUME NEW r \in Path, LinksOff(r)', Still(r), NEW p \in Path, Under(p, r), NoLinkOn(p)
  PROVE  NoLinkOn(p)'
  <1> SUFFICES ASSUME NEW i \in 1..Len(p), SubSeq(p, 1, i) \in DOMAIN fs',
                      fs'[SubSeq(p, 1, i)].kind = "link"
               PROVE  FALSE
    BY DEF NoLinkOn, Is
  <1> DEFINE q == SubSeq(p, 1, i)
  <1>1. i \in 0..Len(p) /\ q \in Path /\ Len(q) = i /\ \A k \in 1..i : q[k] = p[k]
    BY PrefixPath
  <1>2. (Under(q, r) /\ q # r) \/ ~Overlap(q, r)
    BY DEF LinksOff, LinkOff, Off
  <1>3. ~Is(q, "link")
    BY DEF NoLinkOn
  <1> HIDE DEF q
  <1>4. Overlap(q, r)
    BY <1>1 DEF Overlap, Under, Path
  <1>5. Under(q, r)
    BY <1>2, <1>4
  <1> QED
    BY <1>1, <1>3, <1>5 DEF Still, Is, q

LEMMA SameSource ==
  ASSUME FsOk, NEW r \in Path, Still(r), NEW s, Orderly(s, r), NEW p \in Path, Under(p, s)
  PROVE  /\ Under(p, r) /\ (p \in DOMAIN fs' <=> p \in DOMAIN fs)
         /\ p \in DOMAIN fs =>
              /\ fs'[p] = fs[p] /\ Leaf(p)' = Leaf(p) /\ Leaf(p) \in Path /\ Under(Leaf(p), r)
              /\ Leaf(p) \in DOMAIN fs' <=> Leaf(p) \in DOMAIN fs
              /\ Leaf(p) \in DOMAIN fs => fs'[Leaf(p)] = fs[Leaf(p)]
  <1>1. Under(p, r)
    BY UnderUnder DEF Orderly
  <1>2. (p \in DOMAIN fs' <=> p \in DOMAIN fs) /\ (p \in DOMAIN fs => fs'[p] = fs[p])
    BY <1>1 DEF Still
  <1>3. p \in DOMAIN fs => Leaf(p)' = Leaf(p) /\ Leaf(p) \in Path /\ Under(Leaf(p), r)
    BY <1>1, <1>2 DEF Leaf, Orderly, FsOk, NodeOk
  <1> QED
    BY <1>1, <1>2, <1>3 DEF Still

LEMMA OrderlyStays ==
  ASSUME FsOk, FsOk', NEW r \in Path, LinksOff(r)', Still(r), NEW s, Orderly(s, r)
  PROVE  Orderly(s, r)'
  <1>1. s \in Path /\ Under(s, r) /\ NoLinkOn(s)'
    BY NoLinkStays DEF Orderly
  <1>2. ASSUME NEW p \in DOMAIN fs', Under(p, s)
        PROVE  /\ \A i \in Len(s)..Len(p) - 1 : Is(SubSeq(p, 1, i), "dir")'
               /\ fs'[p].kind = "link" => Under(fs'[p].to, r) /\ NoLinkOn(fs[p].to)'
               /\ Leaf(p)' \in DOMAIN fs' => fs'[Leaf(p)'].data \in Seq(Unit)
    <2>1. p \in Path
      BY <1>2 DEF FsOk, NodeOk
    <2>2. p \in DOMAIN fs /\ fs'[p] = fs[p] /\ Leaf(p)' = Leaf(p)
          /\ (Leaf(p) \in DOMAIN fs' => Leaf(p) \in DOMAIN fs /\ fs'[Leaf(p)] = fs[Leaf(p)])
      BY <1>2, <2>1, SameSource
    <2>3. ASSUME NEW i \in Len(s)..Len(p) - 1
          PROVE  Is(SubSeq(p, 1, i), "dir")'
      <3> DEFINE q == SubSeq(p, 1, i)
      <3>1. i \in 0..Len(p) /\ i >= Len(s) /\ Len(s) \in Nat
        BY <1>1, <2>1 DEF Path
      <3>2. q \in Path /\ Len(q) = i /\ \A k \in 1..i : q[k] = p[k]
        BY <2>1, <3>1, PrefixPath
      <3>3. Is(q, "dir")
        BY <1>2, <2>2 DEF Orderly
      <3> HIDE DEF q
      <3>4. Under(q, s)
        BY <1>2, <3>1, <3>2 DEF Under
      <3>5. Is(q, "dir")'
        BY <3>2, <3>3, <3>4, SameSource DEF Is
      <3> QED
        BY <3>5 DEF q
    <2>4. fs[p].kind = "link" => Under(fs[p].to, r) /\ NoLinkOn(fs[p].to)'
      <3> SUFFICES ASSUME fs[p].kind = "link"
                   PROVE  Under(fs[p].to, r) /\ NoLinkOn(fs[p].to)'
        OBVIOUS
      <3> PICK t : t = fs[p].to
        OBVIOUS
      <3>1. t \in Path /\ Under(t, r) /\ NoLinkOn(t)
        BY <1>2, <2>2 DEF Orderly, FsOk, NodeOk
      <3>2. NoLinkOn(t)'
        BY <3>1, NoLinkStays
      <3>3. fs'[p].to = t
        BY <2>2
      <3> QED
        BY <3>1, <3>2, <3>3
    <2>5. Leaf(p) \in DOMAIN fs => fs[Leaf(p)].data \in Seq(Unit)
      BY <1>2, <2>2 DEF Orderly
    <2> QED
      BY <2>2, <2>3, <2>4, <2>5
  <1> QED
    BY <1>1, <1>2 DEF Orderly

LEMMA SourceReal ==
  ASSUME FsOk, NEW r \in Path \ {<<>>}, NEW s, Orderly(s, r), NEW p \in DOMAIN fs, Under(p, s)
  PROVE  Real(p) = Leaf(p)
  <1>0. p \in Path /\ s \in Path /\ Len(p) \in Nat /\ Len(s) \in Nat /\ Len(s) <= Len(p)
    BY DEF Orderly, FsOk, NodeOk, Under, Path
  <1>1. ASSUME NEW i \in 1..Len(p), Is(SubSeq(p, 1, i), "link")
        PROVE  i = Len(p) /\ SubSeq(p, 1, i) = p
    <2>1. CASE i <= Len(s)
      <3>1. i \in 0..Len(p) /\ i \in 0..Len(s) /\ i \in 1..Len(s)
        BY <1>0, <2>1
      <3>2. SubSeq(p, 1, i) = SubSeq(s, 1, i)
        <4>1. /\ SubSeq(p, 1, i) \in Path /\ Len(SubSeq(p, 1, i)) = i
              /\ \A k \in 1..i : SubSeq(p, 1, i)[k] = p[k]
          BY <1>0, <3>1, PrefixPath
        <4>2. /\ SubSeq(s, 1, i) \in Path /\ Len(SubSeq(s, 1, i)) = i
              /\ \A k \in 1..i : SubSeq(s, 1, i)[k] = s[k]
          BY <1>0, <3>1, PrefixPath
        <4>3. \A k \in 1..i : p[k] = s[k]
          BY <1>0, <2>1 DEF Under
        <4> DEFINE a == SubSeq(p, 1, i)
                   b == SubSeq(s, 1, i)
        <4>4. a \in Path /\ b \in Path /\ Len(a) = Len(b) /\ \A k \in 1..Len(a) : a[k] = b[k]
          BY <4>1, <4>2, <4>3
        <4> HIDE DEF a, b
        <4>5. a = b
          BY <4>4, PathEqual
        <4> QED
          BY <4>5 DEF a, b
      <3> QED
        BY <1>1, <3>1, <3>2 DEF Orderly, NoLinkOn
    <2>2. CASE i > Len(s) /\ i < Len(p)
      <3>1. Is(SubSeq(p, 1, i), "dir")
        BY <1>0, <2>2 DEF Orderly
      <3> QED
        BY <1>1, <3>1 DEF Is
    <2>3. CASE i = Len(p)
      <3>1. /\ Len(p) \in 0..Len(p) /\ SubSeq(p, 1, Len(p)) \in Path
            /\ Len(SubSeq(p, 1, Len(p))) = Len(p)
            /\ \A k \in 1..Len(p) : SubSeq(p, 1, Len(p))[k] = p[k]
        BY <1>0, PrefixPath
      <3> QED
        BY <1>0, <2>3, <3>1, PathEqual
    <2> QED
      BY <1>0, <2>1, <2>2, <2>3
  <1>2. CASE Real(p) = p /\ \A i \in 1..Len(p) : ~Is(SubSeq(p, 1, i), "link")
    <2>1. fs[p].kind # "link"
      <3>1. Len(p) \in 1..Len(p) /\ Len(p) \in 0..Len(p)
        <4>1. Len(r) # 0 /\ Len(r) \in Nat
          BY DEF Path
        <4>2. Len(r) <= Len(s)
          BY DEF Orderly, Under
        <4> QED
          BY <1>0, <4>1, <4>2
      <3>2. SubSeq(p, 1, Len(p)) = p
        <4>1. /\ SubSeq(p, 1, Len(p)) \in Path /\ Len(SubSeq(p, 1, Len(p))) = Len(p)
              /\ \A k \in 1..Len(p) : SubSeq(p, 1, Len(p))[k] = p[k]
          BY <1>0, <3>1, PrefixPath
        <4> QED
          BY <1>0, <4>1, PathEqual
      <3> QED
        BY <1>2, <3>1, <3>2 DEF Is
    <2> QED
      BY <1>2, <2>1 DEF Leaf
  <1>3. ASSUME NEW i \in 1..Len(p), Is(SubSeq(p, 1, i), "link"),
               Real(p) = fs[SubSeq(p, 1, i)].to \o SubSeq(p, i + 1, Len(p))
        PROVE  Real(p) = Leaf(p)
    <2>1. i = Len(p) /\ SubSeq(p, 1, i) = p
      BY <1>1, <1>3
    <2>2. Real(p) = fs[p].to \o SubSeq(p, Len(p) + 1, Len(p)) /\ fs[p].kind = "link"
      BY <1>3, <2>1 DEF Is
    <2>3. SubSeq(p, Len(p) + 1, Len(p)) = <<>>
      <3>1. /\ Len(p) + 1 \in Int /\ Len(p) \in Int /\ \A k \in (Len(p) + 1)..Len(p) : p[k] \in Name
        BY <1>0
      <3>2. SubSeq(p, Len(p) + 1, Len(p)) \in Seq(Name) /\ Len(SubSeq(p, Len(p) + 1, Len(p))) = 0
        BY <1>0, <3>1, SubSeqProperties
      <3> QED
        BY <3>2, EmptySeq
    <2>4. fs[p].to \o <<>> = fs[p].to
      BY ConcatEmptySeq DEF FsOk, NodeOk, Path
    <2> QED
      BY <2>2, <2>3, <2>4 DEF Leaf
  <1> QED
    BY <1>0, <1>2, <1>3, RealCases
-----------------------------------------------------------------------------
(* A call of the file gatherer: what its steps are, and that they make no    *)
(* link.                                                                     *)

FileByCall(c) == CopyStep(c) \/ FileStep(c) \/ Crash(c)

LEMMA FileCases ==
  ASSUME IInv, PInv, NEW c \in Call, IsFile(c), ByCall(c)
  PROVE  FileByCall(c) /\ Walking(c)
  <1>0. Place(c) /\ ~IsOci(c) /\ ~IsGit(c) /\ Walking(c)
    BY DEF PInv, IsOci, IsFile, IsGit
  <1>1. ~CloneStep(c)
    BY <1>0 DEF CloneStep, GitStep, GitBegin, MkTemp, PlainInit, Fetch, FetchFails, Checkout,
       EnterSubdir, HeadRef, Cleanup, CleanupFails, Return, GitFault, Goto, Place, CopyLabel,
       FileLabel
  <1>2. ~PullStep(c)
    BY <1>0, PullKeeps
  <1>3. ~Again(c)
    BY <1>0 DEF Again, IsGit, IsOci
  <1> QED
    BY <1>0, <1>1, <1>2, <1>3
    DEF ByCall, Local, Answered, Unanswered, CloneStep, PullStep, FileByCall

(* A tree with no link but those that are there. *)
NoNewLink(t) == \A p \in DOMAIN t : t[p].kind = "link" => Is(p, "link") /\ fs[p].to = t[p].to

LEMMA WrittenNodes ==
  ASSUME FsOk, NEW p, NEW mode, NEW data
  PROVE  /\ NoNewLink(fs) /\ NoNewLink(AfterMkdirAll(p, mode)) /\ NoNewLink(AfterCreate(p, mode))
         /\ NoNewLink(WithMode(p, mode)) /\ NoNewLink(WithData(p, data))
  <1>1. NoNewLink(AfterMkdirAll(p, mode))
    BY DEF NoNewLink, AfterMkdirAll, Dir, Is
  <1>2. NoNewLink(AfterCreate(p, mode))
    BY DEF NoNewLink, AfterCreate, Put, File, Is
  <1>3. NoNewLink(WithMode(p, mode)) /\ NoNewLink(WithData(p, data))
    BY DEF NoNewLink, WithMode, WithData, Is, FsOk, NodeOk
  <1> QED
    BY <1>1, <1>2, <1>3 DEF NoNewLink, Is

LEMMA FileNodes ==
  ASSUME FsOk, NEW c \in Call, FileByCall(c)
  PROVE  NoNewLink(fs')
  <1> USE DEF callVars, copyVars
  <1>1. CASE UNCHANGED fs
    BY <1>1, WrittenNodes
  <1>2. ASSUME Mkdir(c) \/ ChmodDir(c) \/ Create(c) PROVE NoNewLink(fs')
    BY <1>2, WrittenNodes DEF Mkdir, ChmodDir, Create
  <1>3. ASSUME Write(c) \/ Chmod(c) PROVE NoNewLink(fs')
    BY <1>3, WrittenNodes DEF Write, Chmod
  <1>4. ASSUME CloseFails(c) PROVE NoNewLink(fs')
    BY <1>4, WrittenNodes DEF CloseFails
  <1>5. ASSUME Expand(c) PROVE NoNewLink(fs')
    <2> DEFINE room == AfterMkdirAll(Entry(job[c].dst), Permission)
               at == Append(Real(job[c].dst), Inner)
               rest == Tail(fs[Real(job[c].src)].data)
    <2>1. fs' = fs \/ fs' = Put(at, File(Permission \ Umask, rest), room)
      BY <1>5 DEF Expand
    <2>2. NoNewLink(room)
      BY WrittenNodes
    <2> HIDE DEF room, at, rest
    <2>3. NoNewLink(Put(at, File(Permission \ Umask, rest), room))
      BY <2>2 DEF NoNewLink, Put, File, Is
    <2> QED
      BY <2>1, <2>3, WrittenNodes
  <1>6. CASE CopyStep(c)
    <2>1. \/ UNCHANGED fs \/ Mkdir(c) \/ ChmodDir(c) \/ Create(c) \/ Write(c) \/ Chmod(c)
          \/ CloseFails(c)
      BY <1>6 DEF CopyStep, Enter, EnterConfined, List, Ascend, Descend, Refuse, TakeFile,
         ReadFails, WriteDone, Close, CopyFault
    <2> QED
      BY <1>1, <1>2, <1>3, <1>4, <2>1
  <1>7. CASE FileStep(c) \/ Crash(c)
    <2>1. UNCHANGED fs \/ Expand(c)
      BY <1>7 DEF FileStep, FileBegin, FileStat, Sniff, GetExpander, DirSize, ParseSave,
         FileFault, Crash
    <2> QED
      BY <1>1, <1>5, <2>1
  <1> QED
    BY <1>6, <1>7 DEF FileByCall

-----------------------------------------------------------------------------
(* Where a directory is copied: s lies in a place r where nobody writes, and *)
(* nobody else writes to d.                                                  *)
Site(c, r, s, d) ==
  /\ Fenced(c, r) /\ HandsOff(c, r) /\ Orderly(s, r)
  /\ Fenced(c, d) /\ NoLinks(d) /\ Off(d, r)

LEMMA SiteByOther ==
  ASSUME IInv, PInv, CInv, CInv', NEW c \in Call, NEW r, NEW s, NEW d, Site(c, r, s, d),
         ByNobody \/ \E e \in Call \ {c} : ByCall(e)
  PROVE  Site(c, r, s, d)' /\ Still(r) /\ Still(d) /\ Own(c)' = Own(c)
  <1>1. /\ Fenced(c, r)' /\ Still(r) /\ Fenced(c, d)' /\ Still(d)
    BY ByOther, ByNone DEF Site
  <1>2. Own(c)' = Own(c)
    BY ByCallGood DEF Good, ByNobody, Own
  <1>3. HandsOff(c, r)'
    BY <1>2, OwnHands DEF Site
  <1>4. NoLinks(d)'
    BY <1>1, StillNoLinks DEF Site, CInv
  <1>5. Orderly(s, r)'
    BY <1>1, OrderlyStays DEF Site, CInv, Fenced
  <1> QED
    BY <1>1, <1>2, <1>3, <1>4, <1>5 DEF Site

LEMMA SiteByItself ==
  ASSUME IInv, PInv, CInv, CInv', NEW c \in Call, IsFile(c), ByCall(c),
         NEW r, NEW s, NEW d, Site(c, r, s, d)
  PROVE  Site(c, r, s, d)' /\ Still(r)
  <1>0. r \in Path /\ OutOff(r) /\ LinksOff(r) /\ HandsOff(c, r) /\ LinksOff(d) /\ FsOk
    BY DEF Site, Fenced, CInv
  <1>1. Spares(r, fs') /\ HandsOff(c, r)'
    BY <1>0, StepSpares
  <1>2. LinksOff(r)' /\ Still(r)
    BY <1>0, <1>1, SparesLinks
  <1>3. NoNewLink(fs')
    BY <1>0, FileCases, FileNodes
  <1>4. LinksOff(d)' /\ NoLinks(d)'
    BY <1>0, <1>3 DEF NoNewLink, LinksOff, NoLinks, Is, Site
  <1>5. Fenced(c, r)' /\ Fenced(c, d)'
    BY <1>2, <1>4, ByItself DEF Site
  <1>6. Orderly(s, r)'
    BY <1>0, <1>2, OrderlyStays DEF Site, CInv
  <1> QED
    BY <1>1, <1>2, <1>4, <1>5, <1>6 DEF Site
-----------------------------------------------------------------------------
(* How far a copy of the directory s to d is.  A path of the source is still *)
(* to come, or it is in the destination.                                     *)

Done(p, q) ==
  IF fs[p].kind = "dir" THEN Is(q, "dir") ELSE Is(Leaf(p), "file") /\ SameFile(Leaf(p), q)

Copied(p, s, d) == \A q : Pair(s, d, p, q) => Done(p, q)

Pending(at, st, f, p) ==
  \/ \E i \in 1..Len(st) : \E e \in st[i].todo : Under(p, Append(st[i].src, e.name))
  \/ at \in {"enter", "mkdir", "list"} /\ Under(p, st[Len(st)].src)
  \/ at \in {"create", "write", "chmod"} /\ p = f.src

Covered(at, st, f, s, d) ==
  \A p \in DOMAIN fs : Under(p, s) => Pending(at, st, f, p) \/ Copied(p, s, d)

(* What is in the destination has its place from the source. *)
Shape(s, d) ==
  \A q \in DOMAIN fs : Under(q, d) =>
    \E p \in DOMAIN fs : Pair(s, d, p, q) /\ (fs[p].kind = "dir" <=> fs[q].kind = "dir")

Framed(f, s, d) ==
  /\ Is(f.src, "dir") /\ Pair(s, d, f.src, f.dst)
  /\ \A e \in f.todo :
       LET p == Append(f.src, e.name) IN
       e.name \in Name /\ p \in DOMAIN fs /\ (e.dir <=> fs[p].kind = "dir")

Frames(st, s, d) == \A i \in 1..Len(st) : Framed(st[i], s, d)

(* The part of a file that has been written. *)
Begun(part, n, whole) ==
  part \in Seq(Unit) /\ Len(part) = n /\ n <= Len(whole) /\ \A i \in 1..n : part[i] = whole[i]

Transfer(at, f, s, d) ==
  at \in {"create", "write", "chmod"} =>
    /\ Pair(s, d, f.src, f.dst) /\ f.src \in DOMAIN fs /\ fs[f.src].kind # "dir" /\ f.off \in Nat
    /\ at = "create" => f.off = 0
    /\ at # "create" =>
         /\ Leaf(f.src) \in DOMAIN fs /\ Is(f.dst, "file")
         /\ Begun(fs[f.dst].data, f.off, fs[Leaf(f.src)].data)
    /\ at = "chmod" => Is(Leaf(f.src), "file") /\ f.off = Len(fs[Leaf(f.src)].data)

Walk(at, st, f, what, s, d) ==
  /\ at \in (CopyLabel \ {"chdir"}) \cup {"copied", "ok"}
  /\ st = <<>> <=> at \in {"copied", "ok"}
  /\ Shape(s, d) /\ Frames(st, s, d) /\ Transfer(at, f, s, d)
  /\ at = "list" => Is(st[Len(st)].dst, "dir")
  /\ what # "lost" => Covered(at, st, f, s, d)

OnWalk(c, s, d) == Walk(pc[c], stack[c], cur[c], fault[c], s, d)

(* A step that leaves the source as it is keeps what is done elsewhere. *)
SourceSame(s) ==
  \A p \in Path : Under(p, s) =>
    /\ p \in DOMAIN fs' <=> p \in DOMAIN fs
    /\ p \in DOMAIN fs =>
         /\ fs'[p] = fs[p] /\ Leaf(p)' = Leaf(p)
         /\ Leaf(p) \in DOMAIN fs' <=> Leaf(p) \in DOMAIN fs
         /\ Leaf(p) \in DOMAIN fs => fs'[Leaf(p)] = fs[Leaf(p)]

Untouched(q) == q \in DOMAIN fs => q \in DOMAIN fs' /\ fs'[q] = fs[q]

LEMMA StillSource ==
  ASSUME FsOk, NEW r \in Path, Still(r), NEW s, Orderly(s, r)
  PROVE  SourceSame(s)
  BY SameSource DEF SourceSame

LEMMA KeptDone ==
  ASSUME NEW s, SourceSame(s), NEW p \in Path, Under(p, s), p \in DOMAIN fs,
         NEW q, Untouched(q), Done(p, q)
  PROVE  Done(p, q)'
  <1>1. /\ fs'[p] = fs[p] /\ Leaf(p)' = Leaf(p)
        /\ Leaf(p) \in DOMAIN fs' <=> Leaf(p) \in DOMAIN fs
        /\ Leaf(p) \in DOMAIN fs => fs'[Leaf(p)] = fs[Leaf(p)]
    BY DEF SourceSame
  <1> PICK t : t = Leaf(p)
    OBVIOUS
  <1>2. Is(t, "file") /\ SameFile(t, q) => (Is(t, "file") /\ SameFile(t, q))'
    BY <1>1 DEF Is, SameFile, Untouched
  <1>3. Is(q, "dir") => Is(q, "dir")'
    BY DEF Is, Untouched
  <1>4. t = Leaf(p)'
    BY <1>1
  <1> QED
    BY <1>1, <1>2, <1>3, <1>4 DEF Done

LEMMA KeptFrames ==
  ASSUME NEW s \in Path, SourceSame(s), NEW d, NEW st, Frames(st, s, d)
  PROVE  Frames(st, s, d)'
  <1> SUFFICES ASSUME NEW i \in 1..Len(st)
               PROVE  Framed(st[i], s, d)'
    BY DEF Frames
  <1> PICK f : f = st[i]
    OBVIOUS
  <1>1. Framed(f, s, d)
    BY DEF Frames
  <1>2. f.src \in Path /\ Under(f.src, s) /\ Is(f.src, "dir") /\ Pair(s, d, f.src, f.dst)
    BY <1>1 DEF Framed, Pair
  <1>3. Is(f.src, "dir")'
    BY <1>2 DEF SourceSame, Is
  <1>4. ASSUME NEW e \in f.todo, NEW p, p = Append(f.src, e.name)
        PROVE  e.name \in Name /\ p \in DOMAIN fs' /\ (e.dir <=> fs'[p].kind = "dir")
    <2>1. e.name \in Name /\ p \in DOMAIN fs /\ (e.dir <=> fs[p].kind = "dir")
      BY <1>1, <1>4 DEF Framed
    <2>2. p \in Path /\ Under(p, s)
      BY <1>2, <1>4, <2>1, AppendUnder
    <2> QED
      BY <2>1, <2>2 DEF SourceSame
  <1> QED
    BY <1>2, <1>3, <1>4 DEF Framed

LEMMA KeptTransfer ==
  ASSUME NEW s, SourceSame(s), NEW d, NEW at, NEW f, Transfer(at, f, s, d), Untouched(f.dst)
  PROVE  Transfer(at, f, s, d)'
  <1> SUFFICES ASSUME at \in {"create", "write", "chmod"}
               PROVE  Transfer(at, f, s, d)'
    BY DEF Transfer
  <1>1. f.src \in Path /\ Under(f.src, s) /\ f.src \in DOMAIN fs
    BY DEF Transfer, Pair
  <1>2. /\ f.src \in DOMAIN fs' /\ fs'[f.src] = fs[f.src] /\ Leaf(f.src)' = Leaf(f.src)
        /\ Leaf(f.src) \in DOMAIN fs' <=> Leaf(f.src) \in DOMAIN fs
        /\ Leaf(f.src) \in DOMAIN fs => fs'[Leaf(f.src)] = fs[Leaf(f.src)]
    BY <1>1 DEF SourceSame
  <1> PICK t : t = Leaf(f.src)
    OBVIOUS
  <1>3. t = Leaf(f.src)'
    BY <1>2
  <1>4. Is(t, "file") => Is(t, "file")'
    BY <1>2 DEF Is
  <1>5. Is(f.dst, "file") => Is(f.dst, "file")' /\ fs'[f.dst] = fs[f.dst]
    BY DEF Is, Untouched
  <1> QED
    BY <1>2, <1>3, <1>4, <1>5 DEF Transfer

(* What a step has to be shown to do for what is still to come. *)
LEMMA KeptCovered ==
  ASSUME NEW s \in Path, SourceSame(s), FsOk', NEW d, NEW at, NEW st, NEW f, Covered(at, st, f, s, d),
         NEW at2, NEW st2, NEW f2,
         \A p \in DOMAIN fs : Under(p, s) =>
           \/ Pending(at2, st2, f2, p)
           \/ Copied(p, s, d)'
           \/ ~Pending(at, st, f, p) /\ \A q : Pair(s, d, p, q) => Untouched(q)
  PROVE  Covered(at2, st2, f2, s, d)'
  <1> SUFFICES ASSUME NEW p \in DOMAIN fs', Under(p, s), ~Pending(at2, st2, f2, p)
               PROVE  Copied(p, s, d)'
    BY DEF Covered
  <1>1. p \in Path /\ p \in DOMAIN fs
    BY DEF FsOk, NodeOk, SourceSame
  <1>2. CASE Copied(p, s, d)'
    BY <1>2
  <1>3. CASE ~Pending(at, st, f, p) /\ \A q : Pair(s, d, p, q) => Untouched(q)
    <2>1. \A q : Pair(s, d, p, q) => Done(p, q)
      BY <1>1, <1>3 DEF Covered, Copied
    <2>2. \A q : Pair(s, d, p, q) => Done(p, q)'
      BY <1>1, <1>3, <2>1, KeptDone
    <2> QED
      BY <2>2 DEF Copied, Pair
  <1> QED
    BY <1>1, <1>2, <1>3

LEMMA KeptShape ==
  ASSUME NEW s, SourceSame(s), NEW d, Shape(s, d),
         \A q \in DOMAIN fs' : Under(q, d) =>
           \/ q \in DOMAIN fs /\ (fs'[q].kind = "dir" <=> fs[q].kind = "dir")
           \/ \E p \in DOMAIN fs : Pair(s, d, p, q) /\ (fs[p].kind = "dir" <=> fs'[q].kind = "dir")
  PROVE  Shape(s, d)'
  <1> SUFFICES ASSUME NEW q \in DOMAIN fs', Under(q, d)
               PROVE  \E p \in DOMAIN fs' : Pair(s, d, p, q) /\ (fs'[p].kind = "dir" <=> fs'[q].kind = "dir")
    BY DEF Shape, Pair
  <1>1. PICK p \in DOMAIN fs : Pair(s, d, p, q) /\ (fs[p].kind = "dir" <=> fs'[q].kind = "dir")
    BY DEF Shape
  <1>2. p \in DOMAIN fs' /\ fs'[p] = fs[p]
    BY <1>1 DEF SourceSame, Pair
  <1> QED
    BY <1>1, <1>2

LEMMA WalkStill ==
  ASSUME FsOk, FsOk', NEW r \in Path, Still(r), NEW s, Orderly(s, r), NEW d \in Path, Still(d),
         NEW at, NEW st, NEW f, NEW what, Walk(at, st, f, what, s, d),
         IsStack(st)
  PROVE  Walk(at, st, f, what, s, d)'
  <1>1. SourceSame(s) /\ s \in Path
    BY StillSource DEF Orderly
  <1>2. \A q \in Path : Under(q, d) => Untouched(q)
    BY DEF Still, Untouched
  <1>3. Shape(s, d)'
    <2>1. \A q \in DOMAIN fs' : Under(q, d) =>
            q \in DOMAIN fs /\ (fs'[q].kind = "dir" <=> fs[q].kind = "dir")
      BY DEF FsOk, NodeOk, Still
    <2> QED
      BY <1>1, <2>1, KeptShape DEF Walk
  <1>4. Frames(st, s, d)'
    BY <1>1, KeptFrames DEF Walk
  <1>5. Transfer(at, f, s, d)'
    <2>1. CASE at \in {"create", "write", "chmod"}
      <3>1. Untouched(f.dst)
        BY <1>2, <2>1 DEF Walk, Transfer, Pair
      <3> QED
        BY <1>1, <3>1, KeptTransfer DEF Walk
    <2>2. CASE at \notin {"create", "write", "chmod"}
      BY <2>2 DEF Transfer
    <2> QED
      BY <2>1, <2>2
  <1>6. at = "list" => Is(st[Len(st)].dst, "dir")'
    <2> SUFFICES ASSUME at = "list"
                 PROVE  Is(st[Len(st)].dst, "dir")'
      OBVIOUS
    <2>1. st # <<>>
      BY DEF Walk
    <2>2. Len(st) \in 1..Len(st)
      BY <2>1, StackTop
    <2>3. Untouched(st[Len(st)].dst)
      BY <1>2, <2>2 DEF Walk, Frames, Framed, Pair
    <2> PICK q : q = st[Len(st)].dst
      OBVIOUS
    <2>4. Is(q, "dir")'
      BY <2>3 DEF Walk, Is, Untouched
    <2> QED
      BY <2>4
  <1>7. Covered(at, st, f, s, d) => Covered(at, st, f, s, d)'
    <2> SUFFICES ASSUME Covered(at, st, f, s, d)
                 PROVE  Covered(at, st, f, s, d)'
      OBVIOUS
    <2>1. \A p, q : Pair(s, d, p, q) => Untouched(q)
      BY <1>2 DEF Pair
    <2> QED
      BY <1>1, <2>1, KeptCovered
  <1> QED
    BY <1>3, <1>4, <1>5, <1>6, <1>7 DEF Walk

-----------------------------------------------------------------------------
(* The steps of a copy. *)

LEMMA FencedBelow ==
  ASSUME NEW c, NEW d, Fenced(c, d), NoLinks(d), NEW q \in Path, Under(q, d)
  PROVE  Real(q) = q /\ Entry(q) = q
  <1>1. \A p \in Path : Under(p, d) => Real(p) = p
    BY FencedReal DEF NoLinks
  <1>2. Entry(q) = q
    <2>1. CASE q = d
      BY <2>1, FencedEntry
    <2>2. CASE q # d
      <3>1. d \in Path /\ d # <<>> /\ Len(d) \in Nat /\ Len(q) \in Nat /\ Len(d) <= Len(q)
            /\ \A i \in 1..Len(d) : q[i] = d[i]
        BY DEF Fenced, Path, Under
      <3>2. Len(q) # Len(d)
        BY <2>2, <3>1, PathEqual DEF Fenced
      <3>3. q # <<>>
        BY <3>1, <3>2
      <3>4. /\ Parent(q) \in Path /\ Len(Parent(q)) = Len(q) - 1
            /\ q = Append(Parent(q), q[Len(q)])
            /\ \A i \in 1..Len(q) - 1 : Parent(q)[i] = q[i]
        BY <3>3, ParentPath
      <3>5. Under(Parent(q), d)
        <4>1. Len(Parent(q)) >= Len(d) /\ \A i \in 1..Len(d) : i \in 1..Len(q) - 1
          BY <3>1, <3>2, <3>4
        <4> QED
          BY <3>1, <3>4, <4>1 DEF Under
      <3> QED
        BY <1>1, <3>3, <3>4, <3>5 DEF Entry
    <2> QED
      BY <2>1, <2>2
  <1> QED
    BY <1>1, <1>2

LEMMA WalkHere ==
  ASSUME IInv, PInv, CInv, NEW c \in Call, IsFile(c), NEW r, NEW s, NEW d, Site(c, r, s, d),
         OnWalk(c, s, d)
  PROVE  /\ s \in Path /\ d \in Path /\ r \in Path /\ FsOk /\ Orderly(s, r)
         /\ ~Confined(c) /\ Failing(c) = "failed" /\ DOMAIN pc = Call /\ DOMAIN stack = Call
         /\ DOMAIN cur = Call /\ DOMAIN fault = Call /\ IsStack(stack[c])
         /\ DOMAIN cur[c] = {"src", "dst", "off", "mode"}
         /\ stack[c] # <<>> =>
              /\ Framed(Top(c), s, d) /\ DOMAIN Top(c) = {"src", "dst", "mode", "todo"}
              /\ Len(stack[c]) \in 1..Len(stack[c])
         /\ \A q \in Path : Under(q, d) => Real(q) = q /\ Entry(q) = q
         /\ \A p \in DOMAIN fs : Under(p, s) =>
              p \in Path /\ Real(p) = Leaf(p) /\ (fs[p].kind = "dir" => Real(p) = p)
  <1>1. /\ s \in Path /\ d \in Path /\ r \in Path \ {<<>>} /\ FsOk /\ Orderly(s, r)
        /\ Fenced(c, d) /\ NoLinks(d)
    BY DEF Site, Fenced, Orderly, CInv
  <1>2. ~Confined(c) /\ Failing(c) = "failed"
    BY DEF IsFile, Confined, Failing
  <1>3. /\ DOMAIN pc = Call /\ DOMAIN stack = Call /\ DOMAIN cur = Call /\ DOMAIN fault = Call
        /\ IsStack(stack[c]) /\ DOMAIN cur[c] = {"src", "dst", "off", "mode"}
    BY DEF IInv, Functions, CInv, CallOk, CurOk, StackOk
  <1>4. stack[c] # <<>> =>
              /\ Framed(Top(c), s, d) /\ DOMAIN Top(c) = {"src", "dst", "mode", "todo"}
              /\ Len(stack[c]) \in 1..Len(stack[c])
    <2> SUFFICES ASSUME stack[c] # <<>>
                 PROVE  /\ Framed(Top(c), s, d) /\ DOMAIN Top(c) = {"src", "dst", "mode", "todo"}
                        /\ Len(stack[c]) \in 1..Len(stack[c])
      OBVIOUS
    <2>1. Len(stack[c]) \in 1..Len(stack[c]) /\ FrameOk(c, Top(c))
      BY TopOk DEF CInv
    <2>2. Frames(stack[c], s, d)
      BY DEF OnWalk, Walk
    <2> QED
      BY <2>1, <2>2 DEF Frames, Top, FrameOk
  <1>5. \A q \in Path : Under(q, d) => Real(q) = q /\ Entry(q) = q
    BY <1>1, FencedBelow
  <1>6. \A p \in DOMAIN fs : Under(p, s) =>
              p \in Path /\ Real(p) = Leaf(p) /\ (fs[p].kind = "dir" => Real(p) = p)
    BY <1>1, SourceReal DEF FsOk, NodeOk, Leaf
  <1> QED
    BY <1>1, <1>2, <1>3, <1>4, <1>5, <1>6

(* A step that only moves on in what is to be done. *)
LEMMA WalkOn ==
  ASSUME IInv, PInv, CInv, CInv', NEW c \in Call, IsFile(c), NEW r, NEW s, NEW d,
         Site(c, r, s, d), OnWalk(c, s, d), UNCHANGED fs, IsStack(stack'[c]),
         Walk(pc'[c], stack'[c], cur'[c], fault'[c], s, d)
  PROVE  OnWalk(c, s, d)'
  <1> PICK at, st, f, what : at = pc'[c] /\ st = stack'[c] /\ f = cur'[c] /\ what = fault'[c]
    OBVIOUS
  <1>1. Walk(at, st, f, what, s, d) /\ IsStack(st)
    OBVIOUS
  <1>2. s \in Path /\ d \in Path /\ r \in Path /\ FsOk /\ Orderly(s, r)
    BY WalkHere
  <1>3. FsOk' /\ Still(r) /\ Still(d)
    BY DEF CInv, Still
  <1>4. Walk(at, st, f, what, s, d)'
    BY <1>1, <1>2, <1>3, WalkStill
  <1> QED
    BY <1>4 DEF OnWalk

(* The stack with another frame on top. *)
TopIs(st2, st, g) == st2 = [st EXCEPT ![Len(st)] = g]

LEMMA FramesTop ==
  ASSUME NEW st, IsStack(st), st # <<>>, NEW s, NEW d, Frames(st, s, d), NEW g, Framed(g, s, d),
         NEW st2, TopIs(st2, st, g)
  PROVE  Frames(st2, s, d)
  <1>1. /\ Len(st) \in Nat \ {0} /\ Len(st2) = Len(st) /\ st2[Len(st)] = g
        /\ \A i \in 1..Len(st) - 1 : st2[i] = st[i]
    BY StackTop DEF TopIs
  <1> PICK n, t : n = Len(st) /\ t = st2
    OBVIOUS
  <1>2. n \in Nat \ {0} /\ Len(t) = n /\ t[n] = g /\ \A i \in 1..n - 1 : t[i] = st[i]
    BY <1>1
  <1>3. ASSUME NEW i \in 1..n PROVE Framed(t[i], s, d)
    <2>1. i = n \/ i \in 1..n - 1
      BY <1>2
    <2>2. \A j \in 1..n : Framed(st[j], s, d)
      BY DEF Frames
    <2> QED
      BY <1>2, <2>1, <2>2
  <1>4. Frames(t, s, d)
    BY <1>2, <1>3 DEF Frames
  <1> QED
    BY <1>4

LEMMA FramesPush ==
  ASSUME NEW st, IsStack(st), NEW s, NEW d, Frames(st, s, d), NEW g, Framed(g, s, d)
  PROVE  Frames(Append(st, g), s, d)
  <1>1. /\ Len(st) \in Nat /\ Len(Append(st, g)) = Len(st) + 1
        /\ Append(st, g)[Len(st) + 1] = g /\ \A i \in 1..Len(st) : Append(st, g)[i] = st[i]
    BY StackPush
  <1> PICK t, n : t = Append(st, g) /\ n = Len(st)
    OBVIOUS
  <1>2. n \in Nat /\ Len(t) = n + 1 /\ t[n + 1] = g /\ \A i \in 1..n : t[i] = st[i]
    BY <1>1
  <1>3. ASSUME NEW i \in 1..n + 1 PROVE Framed(t[i], s, d)
    <2>1. i = n + 1 \/ i \in 1..n
      BY <1>2
    <2>2. \A j \in 1..n : Framed(st[j], s, d)
      BY DEF Frames
    <2> QED
      BY <1>2, <2>1, <2>2
  <1>4. Frames(t, s, d)
    BY <1>2, <1>3 DEF Frames
  <1> QED
    BY <1>4

(* What is to be done, when the top of the stack changes. *)
LEMMA PendingTop ==
  ASSUME NEW st, IsStack(st), st # <<>>, NEW g, NEW st2, TopIs(st2, st, g),
         NEW at, NEW at2, NEW f, NEW f2, NEW p, Pending(at, st, f, p)
  PROVE  \/ Pending(at2, st2, f2, p)
         \/ \E e \in st[Len(st)].todo : Under(p, Append(st[Len(st)].src, e.name))
         \/ at \in {"enter", "mkdir", "list"} /\ Under(p, st[Len(st)].src)
         \/ at \in {"create", "write", "chmod"} /\ p = f.src
  <1>1. /\ Len(st) \in Nat \ {0} /\ Len(st2) = Len(st) /\ st2[Len(st)] = g
        /\ \A i \in 1..Len(st) - 1 : st2[i] = st[i]
    BY StackTop DEF TopIs
  <1>2. ASSUME NEW i \in 1..Len(st), \E e \in st[i].todo : Under(p, Append(st[i].src, e.name)),
               i # Len(st)
        PROVE  Pending(at2, st2, f2, p)
    <2>1. i \in 1..Len(st2) /\ st2[i] = st[i]
      BY <1>1, <1>2
    <2> QED
      BY <1>2, <2>1 DEF Pending
  <1> QED
    BY <1>2 DEF Pending

LEMMA BelowChild ==
  ASSUME NEW p \in Path, NEW q \in Path, NEW n \in Name, Under(p, Append(q, n))
  PROVE  Under(p, q) /\ p # q
  <1> PICK a : a = Append(q, n)
    OBVIOUS
  <1>1. /\ Len(a) = Len(q) + 1 /\ Len(q) \in Nat /\ Len(p) \in Nat
        /\ \A i \in 1..Len(q) : a[i] = q[i]
    BY AppendPath DEF Path
  <1>2. Len(p) >= Len(a) /\ \A i \in 1..Len(a) : p[i] = a[i]
    BY DEF Under
  <1>3. \A i \in 1..Len(q) : i \in 1..Len(a)
    BY <1>1
  <1> QED
    BY <1>1, <1>2, <1>3 DEF Under

LEMMA TopSet ==
  ASSUME NEW st, IsStack(st), st # <<>>, NEW g, NEW st2, TopIs(st2, st, g)
  PROVE  IsStack(st2) /\ st2 # <<>> /\ st2[Len(st2)] = g
  <1>1. IsStack(st2) /\ st2 # <<>> /\ Len(st2) = Len(st) /\ st2[Len(st)] = g
    BY StackTop DEF TopIs
  <1> QED
    BY <1>1, Zenon

(* A path below another goes through one of its entries. *)
LEMMA ThroughChild ==
  ASSUME FsOk, NEW s \in Path, NEW r, Orderly(s, r), NEW q \in Path, Under(q, s),
         NEW p \in DOMAIN fs, Under(p, q), p # q
  PROVE  \E n \in Name : Append(q, n) \in DOMAIN fs /\ Under(p, Append(q, n))
  <1>1. p \in Path /\ Len(p) \in Nat /\ Len(q) \in Nat /\ Len(s) \in Nat /\ Len(s) <= Len(q)
        /\ Len(q) <= Len(p) /\ \A i \in 1..Len(q) : p[i] = q[i]
    BY DEF FsOk, NodeOk, Under, Path
  <1>2. Len(q) < Len(p)
    BY <1>1, PathEqual
  <1> PICK n : n = p[Len(q) + 1]
    OBVIOUS
  <1>3. n \in Name
    BY <1>1, <1>2 DEF Path
  <1> PICK a : a = Append(q, n)
    OBVIOUS
  <1>4. /\ a \in Path /\ Len(a) = Len(q) + 1 /\ a[Len(q) + 1] = n
        /\ \A i \in 1..Len(q) : a[i] = q[i]
    BY <1>3, AppendPath
  <1>5. ASSUME NEW i \in 1..Len(a) PROVE a[i] = p[i]
    <2>1. i = Len(q) + 1 \/ i \in 1..Len(q)
      BY <1>1, <1>4
    <2> QED
      BY <1>1, <1>4, <2>1
  <1>6. Under(p, a)
    BY <1>1, <1>2, <1>4, <1>5 DEF Under
  <1> PICK b : b = SubSeq(p, 1, Len(a))
    OBVIOUS
  <1>7. b = a
    <2>1. Len(a) \in 0..Len(p)
      BY <1>1, <1>2, <1>4
    <2>2. b \in Path /\ Len(b) = Len(a) /\ \A k \in 1..Len(a) : b[k] = p[k]
      BY <1>1, <2>1, PrefixPath
    <2> QED
      BY <1>4, <1>5, <2>2, PathEqual
  <1>8. a \in DOMAIN fs
    <2>1. CASE Len(a) = Len(p)
      <3>1. a = p
        BY <1>1, <1>4, <1>5, <2>1, PathEqual
      <3> QED
        BY <3>1
    <2>2. CASE Len(a) # Len(p)
      <3>1. Len(a) \in Len(s)..Len(p) - 1
        BY <1>1, <1>2, <1>4, <2>2
      <3>2. Under(p, s)
        BY <1>1, UnderUnder
      <3>3. Is(b, "dir")
        BY <3>1, <3>2 DEF Orderly
      <3> QED
        BY <1>7, <3>3 DEF Is
    <2> QED
      BY <2>1, <2>2
  <1> QED
    BY <1>3, <1>6, <1>8

LEMMA EnterWalks ==
  ASSUME IInv, PInv, CInv, CInv', PInv', NEW c \in Call, IsFile(c), NEW r, NEW s, NEW d,
         Site(c, r, s, d), OnWalk(c, s, d), Enter(c)
  PROVE  OnWalk(c, s, d)' \/ pc'[c] = "failed"
  <1> SUFFICES ASSUME pc'[c] # "failed"
               PROVE  OnWalk(c, s, d)'
    OBVIOUS
  <1>0. stack[c] # <<>> /\ pc[c] = "enter"
    BY DEF OnWalk, Enter, Goto, Walk
  <1>01. Framed(Top(c), s, d) /\ DOMAIN Top(c) = {"src", "dst", "mode", "todo"}
    BY <1>0, WalkHere
  <1> PICK st, f, what, mode, at2, st2 :
        /\ st = stack[c] /\ f = cur[c] /\ what = fault[c] /\ mode = fs[Real(Top(c).src)].mode
        /\ at2 = pc'[c] /\ st2 = stack'[c]
    OBVIOUS
  <1> PICK g, h : g = Top(c) /\ h = [Top(c) EXCEPT !.mode = mode]
    OBVIOUS
  <1>1. Walk("enter", st, f, what, s, d) /\ IsStack(st) /\ st # <<>> /\ g = st[Len(st)]
    BY WalkHere DEF OnWalk, Enter, Goto, Top, Walk
  <1>2. /\ at2 = (IF Exists(g.dst) THEN "list" ELSE "mkdir") /\ TopIs(st2, st, h)
        /\ UNCHANGED <<fs, cur, fault>>
    BY WalkHere DEF Enter, Goto, SetTop, callVars, TopIs
  <1>3. h.src = g.src /\ h.dst = g.dst /\ h.todo = g.todo /\ Framed(g, s, d)
    BY <1>01
  <1>4. Framed(h, s, d)
    BY <1>3 DEF Framed
  <1>5. Frames(st2, s, d)
    BY <1>1, <1>2, <1>4, FramesTop DEF Walk
  <1>6. IsStack(st2) /\ st2 # <<>> /\ st2[Len(st2)] = h
    BY <1>1, <1>2, TopSet
  <1>7. Exists(g.dst) => Is(g.dst, "dir")
    <2> SUFFICES ASSUME Exists(g.dst)
                 PROVE  Is(g.dst, "dir")
      OBVIOUS
    <2>1. Pair(s, d, g.src, g.dst) /\ Is(g.src, "dir") /\ g.dst \in Path /\ Under(g.dst, d)
      BY <1>3 DEF Framed, Pair
    <2>2. g.dst \in DOMAIN fs
      BY <2>1, WalkHere DEF Exists
    <2>3. PICK p \in DOMAIN fs : Pair(s, d, p, g.dst) /\ (fs[p].kind = "dir" <=> fs[g.dst].kind = "dir")
      BY <1>1, <2>1, <2>2 DEF Walk, Shape
    <2>4. p = g.src
      BY <2>1, <2>3, PairUnique, WalkHere
    <2> QED
      BY <2>1, <2>2, <2>3, <2>4 DEF Is
  <1>8. Covered("enter", st, f, s, d) => Covered(at2, st2, f, s, d)
    <2> SUFFICES ASSUME NEW p \in DOMAIN fs, Under(p, s), Pending("enter", st, f, p)
                 PROVE  Pending(at2, st2, f, p)
      BY DEF Covered
    <2>1. p \in Path /\ g.src \in Path
      BY <1>3, WalkHere DEF Framed, Pair
    <2>2. Under(p, g.src) => Pending(at2, st2, f, p)
      BY <1>2, <1>3, <1>6 DEF Pending
    <2>3. ASSUME NEW e \in g.todo, Under(p, Append(g.src, e.name))
          PROVE  Under(p, g.src)
      BY <1>3, <2>1, <2>3, BelowChild DEF Framed
    <2>4. \/ Pending(at2, st2, f, p)
          \/ \E e \in g.todo : Under(p, Append(g.src, e.name))
          \/ Under(p, g.src)
      BY <1>1, <1>2, PendingTop
    <2> QED
      BY <2>2, <2>3, <2>4
  <1>9. Walk(at2, st2, f, what, s, d)
    BY <1>1, <1>2, <1>3, <1>5, <1>6, <1>7, <1>8 DEF Walk, Transfer, CopyLabel
  <1> QED
    BY <1>2, <1>6, <1>9, WalkOn

LEMMA ChildParent ==
  ASSUME NEW q \in Path, NEW n \in Name
  PROVE  Append(q, n) # <<>> /\ Parent(Append(q, n)) = q /\ Append(q, n)[Len(Append(q, n))] = n
  <1> PICK a : a = Append(q, n)
    OBVIOUS
  <1>1. /\ a \in Path /\ Len(a) = Len(q) + 1 /\ a[Len(q) + 1] = n /\ Len(q) \in Nat
        /\ \A i \in 1..Len(q) : a[i] = q[i]
    BY AppendPath
  <1>2. a # <<>> /\ a[Len(a)] = n
    BY <1>1
  <1>3. /\ Parent(a) \in Path /\ Len(Parent(a)) = Len(a) - 1
        /\ \A i \in 1..Len(a) - 1 : Parent(a)[i] = a[i]
    BY <1>1, <1>2, ParentPath
  <1> PICK b : b = Parent(a)
    OBVIOUS
  <1>4. b = q
    BY <1>1, <1>3, PathEqual
  <1> QED
    BY <1>2, <1>4

LEMMA ListWalks ==
  ASSUME IInv, PInv, CInv, CInv', PInv', NEW c \in Call, IsFile(c), NEW r, NEW s, NEW d,
         Site(c, r, s, d), OnWalk(c, s, d), List(c)
  PROVE  OnWalk(c, s, d)' \/ pc'[c] = "failed"
  <1> SUFFICES ASSUME pc'[c] # "failed"
               PROVE  OnWalk(c, s, d)'
    OBVIOUS
  <1>0. stack[c] # <<>> /\ pc[c] = "list"
    BY DEF OnWalk, List, Goto, Walk
  <1>01. /\ Framed(Top(c), s, d) /\ DOMAIN Top(c) = {"src", "dst", "mode", "todo"}
         /\ s \in Path /\ d \in Path /\ FsOk /\ Orderly(s, r)
    BY <1>0, WalkHere
  <1> PICK st, f, what, at2, st2 :
        st = stack[c] /\ f = cur[c] /\ what = fault[c] /\ at2 = pc'[c] /\ st2 = stack'[c]
    OBVIOUS
  <1> PICK g, h : g = Top(c) /\ h = [Top(c) EXCEPT !.todo = Entries(Top(c).src)]
    OBVIOUS
  <1>1. Walk("list", st, f, what, s, d) /\ IsStack(st) /\ st # <<>> /\ g = st[Len(st)]
    BY WalkHere DEF OnWalk, List, Goto, Top, Walk
  <1>2. h.src = g.src /\ h.dst = g.dst /\ h.todo = Entries(g.src) /\ Framed(g, s, d)
    BY <1>01
  <1>3. /\ g.src \in Path /\ Under(g.src, s) /\ Is(g.src, "dir") /\ Pair(s, d, g.src, g.dst)
        /\ Real(g.src) = g.src /\ Is(g.dst, "dir")
    <2>1. g.src \in Path /\ Under(g.src, s) /\ Is(g.src, "dir") /\ Pair(s, d, g.src, g.dst)
      BY <1>2 DEF Framed, Pair
    <2>2. Real(g.src) = g.src
      BY <2>1, WalkHere DEF Is
    <2> QED
      BY <1>1, <2>1, <2>2 DEF Walk
  <1>4. at2 = "next" /\ TopIs(st2, st, h) /\ UNCHANGED <<fs, cur, fault>>
    <2>1. Failing(c) = "failed" /\ DOMAIN pc = Call /\ DOMAIN stack = Call
      BY WalkHere
    <2>2. at2 = "next" /\ stack' = SetTop(c, [Top(c) EXCEPT !.todo = Entries(Real(Top(c).src))])
          /\ UNCHANGED <<fs, cur, fault>>
      BY <2>1 DEF List, Goto, callVars
    <2>3. stack' = SetTop(c, h)
      BY <1>3, <2>2
    <2> QED
      BY <2>1, <2>2, <2>3 DEF SetTop, TopIs
  <1>5. Framed(h, s, d)
    <2>1. ASSUME NEW e \in Entries(g.src)
          PROVE  LET p == Append(g.src, e.name) IN
                 e.name \in Name /\ p \in DOMAIN fs /\ (e.dir <=> fs[p].kind = "dir")
      <3>1. PICK q \in DOMAIN fs : /\ q # <<>> /\ Parent(q) = g.src
                                   /\ e = [name |-> q[Len(q)], dir |-> fs[q].kind = "dir"]
        BY DEF Entries
      <3>2. q \in Path
        BY <1>01 DEF FsOk, NodeOk
      <3>3. q = Append(g.src, e.name)
        BY <3>1, <3>2, ParentPath
      <3>4. e.name \in Name
        BY <1>01, EntryNames
      <3>5. e.dir <=> fs[q].kind = "dir"
        BY <3>1
      <3> QED
        BY <3>3, <3>4, <3>5
    <2> QED
      BY <1>2, <2>1 DEF Framed
  <1>6. Frames(st2, s, d) /\ IsStack(st2) /\ st2 # <<>> /\ st2[Len(st2)] = h
    BY <1>1, <1>4, <1>5, FramesTop, TopSet DEF Walk
  <1>7. Covered("list", st, f, s, d) => Covered(at2, st2, f, s, d)
    <2> SUFFICES ASSUME NEW p \in DOMAIN fs, Under(p, s), Pending("list", st, f, p)
                 PROVE  Pending(at2, st2, f, p) \/ Copied(p, s, d)
      BY DEF Covered
    <2>1. p \in Path
      BY <1>01 DEF FsOk, NodeOk
    <2>2. ASSUME p = g.src
          PROVE  Copied(p, s, d)
      <3>1. \A q : Pair(s, d, p, q) => q = g.dst
        BY <1>01, <1>3, <2>2, PairUnique
      <3> QED
        BY <1>3, <2>2, <3>1 DEF Copied, Done, Is
    <2>3. ASSUME Under(p, g.src), p # g.src
          PROVE  Pending(at2, st2, f, p)
      <3>1. PICK n \in Name : Append(g.src, n) \in DOMAIN fs /\ Under(p, Append(g.src, n))
        BY <1>01, <1>3, <2>3, ThroughChild
      <3> PICK q : q = Append(g.src, n)
        OBVIOUS
      <3>2. q # <<>> /\ Parent(q) = g.src /\ q[Len(q)] = n
        BY <1>3, ChildParent
      <3> PICK e : e = [name |-> n, dir |-> fs[q].kind = "dir"]
        OBVIOUS
      <3>3. e \in Entries(g.src) /\ e.name = n
        BY <3>1, <3>2 DEF Entries
      <3>4. Len(st2) \in 1..Len(st2)
        BY <1>6, TopSet, StackTop
      <3> PICK i : i = Len(st2)
        OBVIOUS
      <3>5. i \in 1..Len(st2) /\ st2[i] = h
        BY <1>6, <3>4
      <3>6. st2[i].todo = Entries(g.src) /\ st2[i].src = g.src
        BY <1>2, <3>5
      <3>7. e \in st2[i].todo /\ Under(p, Append(st2[i].src, e.name))
        BY <3>1, <3>3, <3>6
      <3> QED
        BY <3>5, <3>7, ZenonT(60) DEF Pending
    <2>4. ASSUME NEW e \in g.todo, Under(p, Append(g.src, e.name))
          PROVE  Under(p, g.src)
      BY <1>2, <1>3, <2>1, <2>4, BelowChild DEF Framed
    <2>5. \/ Pending(at2, st2, f, p)
          \/ \E e \in g.todo : Under(p, Append(g.src, e.name))
          \/ Under(p, g.src)
      BY <1>1, <1>4, PendingTop
    <2> QED
      BY <2>2, <2>3, <2>4, <2>5
  <1>8. Walk(at2, st2, f, what, s, d)
    BY <1>1, <1>4, <1>6, <1>7 DEF Walk, Transfer, CopyLabel
  <1> QED
    BY <1>4, <1>6, <1>8, WalkOn

LEMMA PendingEntry ==
  ASSUME NEW st, IsStack(st), st # <<>>, NEW h, NEW st2, TopIs(st2, st, h), NEW e,
         h.src = st[Len(st)].src, h.todo = st[Len(st)].todo \ {e},
         NEW at2, NEW f, NEW f2, NEW p, Pending("next", st, f, p)
  PROVE  Pending(at2, st2, f2, p) \/ Under(p, Append(h.src, e.name))
  <1> PICK g : g = st[Len(st)]
    OBVIOUS
  <1> PICK i : i = Len(st2)
    OBVIOUS
  <1>1. i \in 1..Len(st2) /\ st2[i] = h
    <2>1. Len(st2) = Len(st) /\ Len(st) \in Nat \ {0} /\ st2[Len(st)] = h
      BY StackTop DEF TopIs
    <2>2. Len(st2) \in 1..Len(st2)
      BY <2>1
    <2> QED
      BY <2>1, <2>2
  <1>2. ASSUME NEW o \in h.todo, Under(p, Append(h.src, o.name))
        PROVE  Pending(at2, st2, f2, p)
    <2>1. o \in st2[i].todo /\ Under(p, Append(st2[i].src, o.name))
      BY <1>1, <1>2
    <2> QED
      BY <1>1, <2>1 DEF Pending
  <1>3. \/ Pending(at2, st2, f2, p)
        \/ \E o \in g.todo : Under(p, Append(g.src, o.name))
    <2> PICK at : at = "next"
      OBVIOUS
    <2> QED
      BY PendingTop
  <1>4. \A o \in g.todo : o = e \/ o \in h.todo
    OBVIOUS
  <1>5. g.src = h.src
    OBVIOUS
  <1> QED
    BY <1>2, <1>3, <1>4, <1>5

LEMMA PendingPush ==
  ASSUME NEW st, IsStack(st), NEW k, NEW st2, st2 = Append(st, k), NEW f, NEW f2, NEW p,
         Pending("next", st, f, p) \/ Under(p, k.src)
  PROVE  Pending("enter", st2, f2, p)
  <1> PICK n : n = Len(st)
    OBVIOUS
  <1>1. n \in Nat /\ Len(st2) = n + 1 /\ st2[n + 1] = k /\ \A i \in 1..n : st2[i] = st[i]
    BY StackPush
  <1>2. CASE Under(p, k.src)
    BY <1>1, <1>2 DEF Pending
  <1>3. CASE Pending("next", st, f, p)
    <2>1. PICK i \in 1..n : \E e \in st[i].todo : Under(p, Append(st[i].src, e.name))
      BY <1>3 DEF Pending
    <2>2. i \in 1..n + 1 /\ st2[i] = st[i]
      BY <1>1
    <2> QED
      BY <1>1, <2>1, <2>2 DEF Pending
  <1> QED
    BY <1>2, <1>3

LEMMA DescendWalks ==
  ASSUME IInv, PInv, CInv, CInv', PInv', NEW c \in Call, IsFile(c), NEW r, NEW s, NEW d,
         Site(c, r, s, d), OnWalk(c, s, d), NEW e \in Top(c).todo, Descend(c, e)
  PROVE  OnWalk(c, s, d)'
  <1>0. stack[c] # <<>> /\ pc[c] = "next" /\ ~Confined(c)
    BY WalkHere DEF OnWalk, Descend, Goto, Walk
  <1>01. /\ Framed(Top(c), s, d) /\ DOMAIN Top(c) = {"src", "dst", "mode", "todo"}
         /\ s \in Path /\ d \in Path
    BY <1>0, WalkHere
  <1> PICK st, f, what, at2, st2 :
        st = stack[c] /\ f = cur[c] /\ what = fault[c] /\ at2 = pc'[c] /\ st2 = stack'[c]
    OBVIOUS
  <1> PICK g, h, st1, k :
        /\ g = Top(c) /\ h = [Top(c) EXCEPT !.todo = @ \ {e}]
        /\ st1 = [stack[c] EXCEPT ![Len(stack[c])] = h]
        /\ k = Frame(ChildOf(c, e), TargetOf(c, e), {})
    OBVIOUS
  <1>1. /\ Walk("next", st, f, what, s, d) /\ IsStack(st) /\ st # <<>> /\ g = st[Len(st)]
        /\ TopIs(st1, st, h)
    BY <1>0, WalkHere DEF OnWalk, Top, TopIs
  <1>2. /\ h.src = g.src /\ h.dst = g.dst /\ h.todo = g.todo \ {e} /\ Framed(g, s, d)
        /\ k.src = Append(g.src, e.name) /\ k.dst = Append(g.dst, e.name) /\ k.todo = {}
    BY <1>01 DEF Frame, ChildOf, TargetOf
  <1>3. at2 = "enter" /\ st2 = Append(st1, k) /\ UNCHANGED <<fs, cur, fault>> /\ e.dir
    <2>1. DOMAIN pc = Call /\ DOMAIN stack = Call
      BY WalkHere
    <2>2. /\ at2 = "enter" /\ UNCHANGED <<fs, cur, fault>> /\ e.dir
          /\ stack' = [SetTop(c, h) EXCEPT ![c] = Append(@, k)]
      BY <1>0, <2>1 DEF Descend, Goto, callVars, Descends, Without
    <2>3. SetTop(c, h)[c] = st1 /\ DOMAIN SetTop(c, h) = Call
      BY <2>1 DEF SetTop
    <2> QED
      BY <2>2, <2>3
  <1>4. Framed(h, s, d) /\ Framed(k, s, d)
    <2>1. e \in g.todo
      OBVIOUS
    <2>2. Is(k.src, "dir") /\ e.name \in Name
      BY <1>2, <1>3, <2>1 DEF Framed, Is
    <2>3. Pair(s, d, k.src, k.dst)
      <3>1. Pair(s, d, g.src, g.dst)
        BY <1>2 DEF Framed
      <3>2. Pair(s, d, Append(g.src, e.name), Append(g.dst, e.name))
        BY <1>01, <2>2, <3>1, PairChild
      <3> QED
        BY <1>2, <3>2
    <2> QED
      BY <1>2, <2>2, <2>3 DEF Framed
  <1>5. Frames(st1, s, d) /\ IsStack(st1)
    BY <1>1, <1>4, FramesTop, TopSet DEF Walk
  <1>6. Frames(st2, s, d) /\ IsStack(st2) /\ st2 # <<>>
    BY <1>3, <1>4, <1>5, FramesPush, StackPush
  <1>7. Covered("next", st, f, s, d) => Covered(at2, st2, f, s, d)
    <2> SUFFICES ASSUME NEW p \in DOMAIN fs, Under(p, s), Pending("next", st, f, p)
                 PROVE  Pending(at2, st2, f, p)
      BY DEF Covered
    <2> PICK at1 : at1 = "next"
      OBVIOUS
    <2>1. Pending(at1, st1, f, p) \/ Under(p, Append(h.src, e.name))
      BY <1>1, <1>2, PendingEntry
    <2>2. Pending("next", st1, f, p) \/ Under(p, k.src)
      BY <1>2, <2>1
    <2>3. Pending("enter", st2, f, p)
      BY <1>3, <1>5, <2>2, PendingPush
    <2> QED
      BY <1>3, <2>3
  <1>8. Walk(at2, st2, f, what, s, d)
    BY <1>1, <1>3, <1>6, <1>7 DEF Walk, Transfer, CopyLabel
  <1> QED
    BY <1>3, <1>6, <1>8, WalkOn

LEMMA TakeFileWalks ==
  ASSUME IInv, PInv, CInv, CInv', PInv', NEW c \in Call, IsFile(c), NEW r, NEW s, NEW d,
         Site(c, r, s, d), OnWalk(c, s, d), NEW e \in Top(c).todo, TakeFile(c, e)
  PROVE  OnWalk(c, s, d)'
  <1>0. stack[c] # <<>> /\ pc[c] = "next" /\ ~Confined(c)
    BY WalkHere DEF OnWalk, TakeFile, Visits, Walk
  <1>01. /\ Framed(Top(c), s, d) /\ DOMAIN Top(c) = {"src", "dst", "mode", "todo"}
         /\ s \in Path /\ d \in Path /\ FsOk /\ Orderly(s, r)
    BY <1>0, WalkHere
  <1> PICK st, f, what, at2, st2, f2 :
        /\ st = stack[c] /\ f = cur[c] /\ what = fault[c]
        /\ at2 = pc'[c] /\ st2 = stack'[c] /\ f2 = cur'[c]
    OBVIOUS
  <1> PICK g, h : g = Top(c) /\ h = [Top(c) EXCEPT !.todo = @ \ {e}]
    OBVIOUS
  <1>1. Walk("next", st, f, what, s, d) /\ IsStack(st) /\ st # <<>> /\ g = st[Len(st)]
    BY <1>0, WalkHere DEF OnWalk, Top
  <1>2. h.src = g.src /\ h.dst = g.dst /\ h.todo = g.todo \ {e} /\ Framed(g, s, d)
    BY <1>01
  <1>3. /\ at2 = "create" /\ TopIs(st2, st, h) /\ UNCHANGED <<fs, fault>> /\ ~e.dir
        /\ f2.src = Append(g.src, e.name) /\ f2.dst = Append(g.dst, e.name) /\ f2.off = 0
    <2>1. DOMAIN pc = Call /\ DOMAIN stack = Call /\ DOMAIN cur = Call
      BY WalkHere
    <2>2. /\ at2 = "create" /\ UNCHANGED <<fs, fault>> /\ ~e.dir /\ stack' = SetTop(c, h)
          /\ f2.src = ChildOf(c, e) /\ f2.dst = TargetOf(c, e) /\ f2.off = 0
      BY <1>0, <2>1 DEF TakeFile, Goto, callVars, Descends, Without
    <2>3. st2 = [st EXCEPT ![Len(st)] = h]
      BY <2>1, <2>2 DEF SetTop
    <2> QED
      BY <2>2, <2>3 DEF ChildOf, TargetOf, TopIs
  <1>4. /\ e.name \in Name /\ f2.src \in DOMAIN fs /\ fs[f2.src].kind # "dir"
        /\ Pair(s, d, f2.src, f2.dst)
    <2>1. e.name \in Name /\ f2.src \in DOMAIN fs /\ fs[f2.src].kind # "dir"
      BY <1>2, <1>3 DEF Framed
    <2>2. Pair(s, d, f2.src, f2.dst)
      BY <1>01, <1>2, <1>3, <2>1, PairChild DEF Framed
    <2> QED
      BY <2>1, <2>2
  <1>5. Framed(h, s, d)
    BY <1>2 DEF Framed
  <1>6. Frames(st2, s, d) /\ IsStack(st2) /\ st2 # <<>>
    BY <1>1, <1>3, <1>5, FramesTop, TopSet, SMTT(30) DEF Walk
  <1>7. Covered("next", st, f, s, d) => Covered(at2, st2, f2, s, d)
    <2> SUFFICES ASSUME NEW p \in DOMAIN fs, Under(p, s), Pending("next", st, f, p)
                 PROVE  Pending(at2, st2, f2, p)
      BY DEF Covered
    <2>1. Pending(at2, st2, f2, p) \/ Under(p, Append(h.src, e.name))
      BY <1>1, <1>2, <1>3, PendingEntry
    <2>2. ASSUME Under(p, f2.src)
          PROVE  p = f2.src
      <3> SUFFICES ASSUME p # f2.src
                   PROVE  FALSE
        OBVIOUS
      <3>1. /\ f2.src \in Path /\ Under(f2.src, s) /\ p \in Path /\ Len(s) \in Nat
            /\ Len(f2.src) \in Nat /\ Len(p) \in Nat
        BY <1>01, <1>4 DEF Pair, FsOk, NodeOk, Path
      <3> PICK q, n : q = f2.src /\ n = Len(f2.src)
        OBVIOUS
      <3>2. n <= Len(p) /\ Len(s) <= n /\ \A i \in 1..n : p[i] = q[i]
        BY <2>2, <3>1 DEF Under
      <3>3. n < Len(p)
        BY <3>1, <3>2, PathEqual
      <3>4. n \in 0..Len(p) /\ n \in Len(s)..Len(p) - 1
        BY <3>1, <3>2, <3>3
      <3>5. /\ SubSeq(p, 1, n) \in Path /\ Len(SubSeq(p, 1, n)) = n
            /\ \A i \in 1..n : SubSeq(p, 1, n)[i] = p[i]
        BY <3>1, <3>4, PrefixPath
      <3> PICK b : b = SubSeq(p, 1, n)
        OBVIOUS
      <3>6. b = q
        <4>1. b \in Path /\ q \in Path /\ Len(b) = Len(q) /\ \A i \in 1..Len(b) : b[i] = q[i]
          BY <3>1, <3>2, <3>5
        <4> QED
          BY <4>1, PathEqual
      <3>7. Is(SubSeq(p, 1, n), "dir")
        BY <1>01, <3>4 DEF Orderly
      <3> QED
        BY <1>4, <3>6, <3>7 DEF Is
    <2>3. p = f2.src => Pending(at2, st2, f2, p)
      BY <1>3 DEF Pending
    <2> QED
      BY <1>2, <1>3, <2>1, <2>2, <2>3
  <1>8. Transfer(at2, f2, s, d)
    BY <1>3, <1>4 DEF Transfer
  <1>9. Walk(at2, st2, f2, what, s, d)
    BY <1>1, <1>3, <1>6, <1>7, <1>8 DEF Walk, CopyLabel
  <1> QED
    BY <1>3, <1>6, <1>9, WalkOn

LEMMA AscendWalks ==
  ASSUME IInv, PInv, CInv, CInv', PInv', NEW c \in Call, IsFile(c), NEW r, NEW s, NEW d,
         Site(c, r, s, d), OnWalk(c, s, d), Ascend(c)
  PROVE  OnWalk(c, s, d)'
  <1>0. stack[c] # <<>> /\ pc[c] = "next" /\ Top(c).todo = {}
    BY DEF OnWalk, Ascend, Goto, Walk
  <1> PICK st, f, what, at2, st2 :
        st = stack[c] /\ f = cur[c] /\ what = fault[c] /\ at2 = pc'[c] /\ st2 = stack'[c]
    OBVIOUS
  <1> PICK n : n = Len(st)
    OBVIOUS
  <1>1. Walk("next", st, f, what, s, d) /\ IsStack(st) /\ st # <<>> /\ st[n].todo = {}
    BY <1>0, WalkHere DEF OnWalk, Top
  <1>2. /\ at2 = (IF n = 1 THEN "copied" ELSE "next") /\ st2 = SubSeq(st, 1, n - 1)
        /\ UNCHANGED <<fs, cur, fault>>
    <2>1. DOMAIN pc = Call /\ DOMAIN stack = Call
      BY WalkHere
    <2> QED
      BY <2>1 DEF Ascend, Goto, callVars
  <1>3. /\ IsStack(st2) /\ (n # 1 => st2 # <<>>) /\ n \in Nat \ {0} /\ Len(st2) = n - 1
        /\ \A i \in 1..n - 1 : st2[i] = st[i]
    <2> PICK t : t = SubSeq(st, 1, Len(st) - 1)
      OBVIOUS
    <2>1. /\ IsStack(t) /\ (Len(st) # 1 => t # <<>>) /\ Len(st) \in Nat \ {0}
          /\ Len(t) = Len(st) - 1 /\ \A i \in 1..Len(st) - 1 : t[i] = st[i]
      <3>1. IsStack(st) /\ st # <<>>
        BY <1>1
      <3> QED
        BY <3>1, StackPop
    <2>2. t = st2
      BY <1>2
    <2> QED
      BY <2>1, <2>2
  <1>4. n = 1 => st2 = <<>>
    <2>1. n = 1 => Len(st2) = 0
      BY <1>3
    <2> QED
      BY <1>3, <2>1, EmptySeq DEF IsStack
  <1>5. Frames(st2, s, d)
    BY <1>1, <1>3 DEF Walk, Frames
  <1>6. Covered("next", st, f, s, d) => Covered(at2, st2, f, s, d)
    <2> SUFFICES ASSUME NEW p \in DOMAIN fs, Pending("next", st, f, p)
                 PROVE  Pending(at2, st2, f, p)
      BY DEF Covered
    <2>1. PICK i \in 1..n : \E e \in st[i].todo : Under(p, Append(st[i].src, e.name))
      BY DEF Pending
    <2>2. i \in 1..n - 1
      BY <1>1, <1>3, <2>1
    <2>3. i \in 1..Len(st2) /\ st2[i] = st[i]
      BY <1>3, <2>2
    <2> QED
      BY <2>1, <2>3 DEF Pending
  <1>7. at2 \in {"copied", "next"} /\ (st2 = <<>> <=> at2 = "copied")
    BY <1>2, <1>3, <1>4
  <1>8. Walk(at2, st2, f, what, s, d)
    BY <1>1, <1>5, <1>6, <1>7 DEF Walk, Transfer, CopyLabel
  <1> QED
    BY <1>2, <1>3, <1>8, WalkOn

(* The end of a file. *)
LEMMA WriteDoneWalks ==
  ASSUME IInv, PInv, CInv, CInv', PInv', NEW c \in Call, IsFile(c), NEW r, NEW s, NEW d,
         Site(c, r, s, d), OnWalk(c, s, d), WriteDone(c)
  PROVE  OnWalk(c, s, d)'
  <1>0. stack[c] # <<>> /\ pc[c] = "write"
    BY DEF OnWalk, WriteDone, Walk
  <1> PICK st, f, what, at2 : st = stack[c] /\ f = cur[c] /\ what = fault[c] /\ at2 = pc'[c]
    OBVIOUS
  <1>1. Walk("write", st, f, what, s, d) /\ IsStack(st) /\ st # <<>> /\ Orderly(s, r)
    BY <1>0, WalkHere DEF OnWalk
  <1>2. at2 = "chmod" /\ UNCHANGED <<fs, stack, cur, fault>>
    <2>1. DOMAIN pc = Call
      BY WalkHere
    <2> QED
      BY <1>0, <2>1 DEF WriteDone, Goto, copyVars
  <1>3. Transfer("write", f, s, d) /\ f.src \in DOMAIN fs /\ Under(f.src, s)
    BY <1>1 DEF Walk, Transfer, Pair
  <1>4. Source(c) = fs[Leaf(f.src)]
    BY <1>3, WalkHere DEF Source
  <1>5. /\ fs[Leaf(f.src)].kind = "file" /\ f.off >= Len(fs[Leaf(f.src)].data)
        /\ Leaf(f.src) \in DOMAIN fs /\ f.off \in Nat /\ f.off <= Len(fs[Leaf(f.src)].data)
    BY <1>3, <1>4 DEF WriteDone, Transfer, Begun
  <1>6. Len(fs[Leaf(f.src)].data) \in Nat
    BY <1>1, <1>3, <1>5 DEF Orderly
  <1>7. f.off = Len(fs[Leaf(f.src)].data) /\ Is(Leaf(f.src), "file")
    <2> PICK n : n = Len(fs[Leaf(f.src)].data)
      OBVIOUS
    <2>1. f.off = n
      BY <1>5, <1>6
    <2> QED
      BY <1>5, <2>1 DEF Is
  <1>8. Transfer(at2, f, s, d)
    BY <1>2, <1>3, <1>7 DEF Transfer
  <1>9. \A p : Pending("write", st, f, p) => Pending(at2, st, f, p)
    BY <1>2 DEF Pending
  <1>10. Walk(at2, st, f, what, s, d)
    BY <1>1, <1>2, <1>8, <1>9 DEF Walk, Covered, CopyLabel
  <1> QED
    BY <1>1, <1>2, <1>10, WalkOn

LEMMA CloseWalks ==
  ASSUME IInv, PInv, CInv, CInv', PInv', NEW c \in Call, IsFile(c), NEW r, NEW s, NEW d,
         Site(c, r, s, d), OnWalk(c, s, d), Close(c)
  PROVE  OnWalk(c, s, d)'
  <1>0. stack[c] # <<>> /\ pc[c] = "close"
    BY DEF OnWalk, Close, Goto, Walk
  <1> PICK st, f, what, at2 : st = stack[c] /\ f = cur[c] /\ what = fault[c] /\ at2 = pc'[c]
    OBVIOUS
  <1>1. Walk("close", st, f, what, s, d) /\ IsStack(st) /\ st # <<>>
    BY <1>0, WalkHere DEF OnWalk
  <1>2. at2 = "next" /\ UNCHANGED <<fs, stack, cur, fault>>
    <2>1. DOMAIN pc = Call
      BY WalkHere
    <2> QED
      BY <1>0, <2>1 DEF Close, Goto, callVars, copyVars
  <1>3. \A p : Pending("close", st, f, p) => Pending(at2, st, f, p)
    BY <1>2 DEF Pending
  <1>4. Walk(at2, st, f, what, s, d)
    BY <1>1, <1>2, <1>3 DEF Walk, Covered, CopyLabel, Transfer
  <1> QED
    BY <1>1, <1>2, <1>4, WalkOn

LEMMA MkdirWalks ==
  ASSUME IInv, PInv, CInv, CInv', PInv', NEW c \in Call, IsFile(c), NEW r, NEW s, NEW d,
         Site(c, r, s, d), OnWalk(c, s, d), Mkdir(c), Still(r)
  PROVE  OnWalk(c, s, d)' \/ pc'[c] = "failed"
  <1> SUFFICES ASSUME pc'[c] # "failed"
               PROVE  OnWalk(c, s, d)'
    OBVIOUS
  <1>0. stack[c] # <<>> /\ pc[c] = "mkdir"
    BY DEF OnWalk, Mkdir, Goto, Walk
  <1>01. /\ Framed(Top(c), s, d) /\ s \in Path /\ d \in Path /\ r \in Path
         /\ FsOk /\ Orderly(s, r) /\ FsOk'
    BY <1>0, WalkHere DEF CInv
  <1> PICK st, f, what, at2 : st = stack[c] /\ f = cur[c] /\ what = fault[c] /\ at2 = pc'[c]
    OBVIOUS
  <1> PICK g, src, dst, mode : g = Top(c) /\ src = g.src /\ dst = g.dst /\ mode = g.mode
    OBVIOUS
  <1>1. Walk("mkdir", st, f, what, s, d) /\ IsStack(st) /\ st # <<>> /\ g = st[Len(st)]
    BY <1>0, WalkHere DEF OnWalk, Top
  <1>2. Pair(s, d, src, dst) /\ Is(src, "dir") /\ src \in Path /\ Under(src, s) /\ dst \in Path
        /\ Under(dst, d) /\ Real(dst) = dst /\ Entry(dst) = dst
    <2>1. Pair(s, d, src, dst) /\ Is(src, "dir")
      BY <1>01 DEF Framed
    <2>2. src \in Path /\ Under(src, s) /\ dst \in Path /\ Under(dst, d)
      BY <2>1 DEF Pair
    <2> QED
      BY <2>1, <2>2, WalkHere
  <1>3. /\ at2 = "list" /\ fs' = AfterMkdirAll(dst, mode) /\ UNCHANGED <<stack, cur, fault>>
        /\ Is(dst, "dir") \/ dst \in DOMAIN AfterMkdirAll(dst, mode) \ DOMAIN fs
    <2>1. DOMAIN pc = Call /\ Failing(c) = "failed" /\ ~Confined(c)
      BY WalkHere
    <2> QED
      BY <1>2, <2>1 DEF Mkdir, Goto, callVars, copyVars, IsDir
  <1>4. /\ \A q : Untouched(q)
        /\ \A q \in DOMAIN fs' \ DOMAIN fs :
             fs'[q].kind = "dir" /\ \E i \in 1..Len(dst) : q = SubSeq(dst, 1, i)
    BY <1>3 DEF Untouched, AfterMkdirAll, Makeable, Dir
  <1>5. SourceSame(s)
    BY <1>01, StillSource
  <1>6. Shape(s, d)'
    <2>1. ASSUME NEW q \in DOMAIN fs', Under(q, d), q \notin DOMAIN fs
          PROVE  \E p \in DOMAIN fs : Pair(s, d, p, q) /\ (fs[p].kind = "dir" <=> fs'[q].kind = "dir")
      <3>1. PICK i \in 1..Len(dst) : q = SubSeq(dst, 1, i)
        BY <1>4, <2>1
      <3>2. i \in 0..Len(dst) /\ i \in Nat /\ Len(dst) \in Nat /\ Len(d) \in Nat /\ Len(s) \in Nat
            /\ Len(src) \in Nat
        BY <1>01, <1>2 DEF Path
      <3>3. Len(q) = i
        BY <1>2, <3>1, <3>2, PrefixPath
      <3>4. i \in Len(d)..Len(dst)
        BY <2>1, <3>2, <3>3 DEF Under
      <3> PICK j : j = i - Len(d) + Len(s)
        OBVIOUS
      <3>5. j \in Len(s)..Len(src) /\ Pair(s, d, SubSeq(src, 1, j), q)
        BY <1>01, <1>2, <3>1, <3>4, PairPrefix
      <3>6. Is(SubSeq(src, 1, j), "dir")
        <4>1. CASE j = Len(src)
          <5>1. Len(src) \in 0..Len(src)
            BY <3>2
          <5>2. /\ SubSeq(src, 1, Len(src)) \in Path /\ Len(SubSeq(src, 1, Len(src))) = Len(src)
                /\ \A k \in 1..Len(src) : SubSeq(src, 1, Len(src))[k] = src[k]
            BY <1>2, <5>1, PrefixPath
          <5>3. SubSeq(src, 1, Len(src)) = src
            BY <1>2, <5>2, PathEqual
          <5> QED
            BY <1>2, <4>1, <5>3
        <4>2. CASE j # Len(src)
          <5>1. j \in Len(s)..Len(src) - 1
            BY <3>2, <3>5, <4>2
          <5> QED
            BY <1>01, <1>2, <5>1 DEF Orderly, Is
        <4> QED
          BY <4>1, <4>2
      <3>7. fs'[q].kind = "dir"
        BY <1>4, <2>1
      <3> QED
        BY <3>5, <3>6, <3>7 DEF Is
    <2>2. \A q \in DOMAIN fs : fs'[q] = fs[q]
      BY <1>4 DEF Untouched
    <2> QED
      BY <1>1, <1>5, <2>1, <2>2, KeptShape DEF Walk
  <1>7. Frames(st, s, d)'
    BY <1>01, <1>1, <1>5, KeptFrames DEF Walk
  <1>8. Is(dst, "dir")'
    BY <1>3, <1>4 DEF Untouched, Is
  <1>9. Covered("mkdir", st, f, s, d) => Covered(at2, st, f, s, d)'
    <2> SUFFICES ASSUME Covered("mkdir", st, f, s, d)
                 PROVE  Covered(at2, st, f, s, d)'
      OBVIOUS
    <2> PICK at : at = "mkdir"
      OBVIOUS
    <2>1. \A p : Pending(at, st, f, p) => Pending(at2, st, f, p)
      BY <1>3 DEF Pending
    <2>2. Covered(at, st, f, s, d)
      OBVIOUS
    <2> QED
      BY <1>01, <1>4, <1>5, <2>1, <2>2, KeptCovered
  <1>10. Walk(at2, st, f, what, s, d)'
    BY <1>1, <1>3, <1>6, <1>7, <1>8, <1>9 DEF Walk, CopyLabel, Transfer
  <1>11. at2 = pc'[c] /\ st = stack'[c] /\ f = cur'[c] /\ what = fault'[c]
    BY <1>3
  <1> QED
    BY <1>10, <1>11 DEF OnWalk

(* Only the copy that a step writes to differs. *)
LEMMA KeptOthers ==
  ASSUME NEW s \in Path, NEW d \in Path, NEW src, NEW dst, Pair(s, d, src, dst),
         \A q \in DOMAIN fs \ {dst} : Untouched(q), NEW p, p # src, NEW q, Pair(s, d, p, q)
  PROVE  Untouched(q)
  <1>1. q # dst
    BY PairUnique
  <1> QED
    BY <1>1 DEF Untouched

LEMMA CreateWalks ==
  ASSUME IInv, PInv, CInv, CInv', PInv', NEW c \in Call, IsFile(c), NEW r, NEW s, NEW d,
         Site(c, r, s, d), OnWalk(c, s, d), Create(c), Still(r)
  PROVE  OnWalk(c, s, d)' \/ pc'[c] = "failed"
  <1> SUFFICES ASSUME pc'[c] # "failed"
               PROVE  OnWalk(c, s, d)'
    OBVIOUS
  <1>0. stack[c] # <<>> /\ pc[c] = "create"
    BY DEF OnWalk, Create, Goto, Walk
  <1>01. s \in Path /\ d \in Path /\ r \in Path /\ FsOk /\ Orderly(s, r) /\ FsOk'
    BY <1>0, WalkHere DEF CInv
  <1> PICK st, f, what, at2 : st = stack[c] /\ f = cur[c] /\ what = fault[c] /\ at2 = pc'[c]
    OBVIOUS
  <1> PICK src, dst : src = f.src /\ dst = f.dst
    OBVIOUS
  <1>1. Walk("create", st, f, what, s, d) /\ IsStack(st) /\ st # <<>>
    BY <1>0, WalkHere DEF OnWalk
  <1>2. /\ Pair(s, d, src, dst) /\ src \in DOMAIN fs /\ fs[src].kind # "dir" /\ f.off = 0
        /\ src \in Path /\ Under(src, s) /\ dst \in Path /\ Under(dst, d)
    BY <1>1 DEF Walk, Transfer, Pair
  <1>3. Real(dst) = dst /\ Real(src) = Leaf(src)
    BY <1>2, WalkHere
  <1>4. /\ at2 = "write" /\ fs' = AfterCreate(dst, Permission) /\ UNCHANGED <<stack, cur, fault>>
        /\ Leaf(src) \in DOMAIN fs
    <2>1. DOMAIN pc = Call /\ Failing(c) = "failed" /\ ~Confined(c)
      BY WalkHere
    <2>2. Opens(c, src) /\ at2 = "write" /\ fs' = AfterCreate(dst, Permission)
          /\ UNCHANGED <<stack, cur, fault>>
      BY <1>3, <2>1 DEF Create, Goto, callVars, copyVars
    <2> QED
      BY <1>3, <2>2 DEF Opens, Exists
  <1>5. /\ DOMAIN fs' = DOMAIN fs \cup {dst} /\ \A q \in DOMAIN fs \ {dst} : Untouched(q)
        /\ fs'[dst].kind = "file" /\ fs'[dst].data = <<>>
    BY <1>4 DEF Untouched, AfterCreate, Put, File
  <1>6. SourceSame(s)
    BY <1>01, StillSource
  <1>7. Shape(s, d)'
    <2>1. \A q \in DOMAIN fs' : q # dst => q \in DOMAIN fs /\ fs'[q] = fs[q]
      BY <1>5 DEF Untouched
    <2> QED
      BY <1>1, <1>2, <1>5, <1>6, <2>1, KeptShape DEF Walk
  <1>8. Frames(st, s, d)'
    BY <1>01, <1>1, <1>6, KeptFrames DEF Walk
  <1>9. Transfer(at2, f, s, d)'
    <2>1. /\ src \in DOMAIN fs' /\ fs'[src] = fs[src] /\ Leaf(src)' = Leaf(src)
          /\ Leaf(src) \in DOMAIN fs' /\ fs'[Leaf(src)] = fs[Leaf(src)]
      BY <1>2, <1>4, <1>6 DEF SourceSame
    <2> PICK t : t = Leaf(src)
      OBVIOUS
    <2>2. t = Leaf(src)' /\ t \in DOMAIN fs' /\ fs'[t] = fs[t]
      BY <2>1
    <2>3. fs[t].data \in Seq(Unit)
      BY <1>01, <1>2, <1>4 DEF Orderly
    <2>4. Begun(<<>>, 0, fs[t].data)
      BY <2>3, EmptySeq DEF Begun
    <2>5. Begun(fs'[dst].data, f.off, fs'[t].data)
      BY <1>2, <1>5, <2>2, <2>4
    <2>6. Is(dst, "file")'
      BY <1>5 DEF Is
    <2> QED
      BY <1>2, <1>4, <2>1, <2>2, <2>5, <2>6 DEF Transfer
  <1>10. Covered("create", st, f, s, d) => Covered(at2, st, f, s, d)'
    <2> SUFFICES ASSUME Covered("create", st, f, s, d)
                 PROVE  Covered(at2, st, f, s, d)'
      OBVIOUS
    <2> PICK at : at = "create"
      OBVIOUS
    <2>1. \A p : Pending(at, st, f, p) => Pending(at2, st, f, p)
      BY <1>4 DEF Pending
    <2>2. Pending(at2, st, f, src)
      BY <1>4 DEF Pending
    <2>3. \A p, q : p # src /\ Pair(s, d, p, q) => Untouched(q)
      BY <1>01, <1>2, <1>5, KeptOthers
    <2>4. Covered(at, st, f, s, d)
      OBVIOUS
    <2> QED
      BY <1>01, <1>6, <2>1, <2>2, <2>3, <2>4, KeptCovered
  <1>11. Walk(at2, st, f, what, s, d)'
    BY <1>1, <1>4, <1>7, <1>8, <1>9, <1>10 DEF Walk, CopyLabel
  <1>12. at2 = pc'[c] /\ st = stack'[c] /\ f = cur'[c] /\ what = fault'[c]
    BY <1>4
  <1> QED
    BY <1>11, <1>12 DEF OnWalk

LEMMA RewrittenData ==
  ASSUME FsOk, NEW p \in DOMAIN fs, NEW data, NEW t, t = WithData(p, data)
  PROVE  /\ DOMAIN t = DOMAIN fs /\ \A q \in DOMAIN fs \ {p} : t[q] = fs[q]
         /\ t[p].kind = fs[p].kind /\ t[p].data = data /\ t[p].mode = fs[p].mode
  BY DEF WithData, FsOk, NodeOk

LEMMA RewrittenMode ==
  ASSUME FsOk, NEW p \in DOMAIN fs, NEW mode, NEW t, t = WithMode(p, mode)
  PROVE  /\ DOMAIN t = DOMAIN fs /\ \A q \in DOMAIN fs \ {p} : t[q] = fs[q]
         /\ t[p].kind = fs[p].kind /\ t[p].data = fs[p].data /\ t[p].mode = mode
  BY DEF WithMode, FsOk, NodeOk

LEMMA NextUnit ==
  ASSUME NEW part, NEW n \in Nat, NEW whole \in Seq(Unit), Begun(part, n, whole), n < Len(whole)
  PROVE  Begun(WriteAt(part, n, whole[n + 1]), n + 1, whole)
  <1> PICK u : u = whole[n + 1]
    OBVIOUS
  <1>1. part \in Seq(Unit) /\ Len(part) = n /\ Len(whole) \in Nat /\ \A i \in 1..n : part[i] = whole[i]
    BY DEF Begun
  <1>2. u \in Unit /\ \A i \in 1..n : part[i] \in Unit
    <2>1. n + 1 \in 1..Len(whole)
      BY <1>1
    <2> QED
      BY <1>1, <2>1
  <1> PICK t : t = [i \in 1..n + 1 |-> IF i = n + 1 THEN u ELSE part[i]]
    OBVIOUS
  <1>3. WriteAt(part, n, u) = t
    BY <1>1 DEF WriteAt
  <1>4. \A i \in 1..n + 1 : t[i] \in Unit
    BY <1>2
  <1>5. t \in Seq(Unit) /\ Len(t) = n + 1
    BY <1>4
  <1>6. \A i \in 1..n + 1 : t[i] = whole[i]
    BY <1>1
  <1> QED
    BY <1>1, <1>3, <1>5, <1>6 DEF Begun

LEMMA WriteWalks ==
  ASSUME IInv, PInv, CInv, CInv', PInv', NEW c \in Call, IsFile(c), NEW r, NEW s, NEW d,
         Site(c, r, s, d), OnWalk(c, s, d), Write(c), Still(r)
  PROVE  OnWalk(c, s, d)'
  <1>0. stack[c] # <<>> /\ pc[c] = "write"
    BY DEF OnWalk, Write, Goto, Walk
  <1>01. s \in Path /\ d \in Path /\ r \in Path /\ FsOk /\ Orderly(s, r) /\ FsOk'
    BY <1>0, WalkHere DEF CInv
  <1> PICK st, f, what, at2, f2 :
        st = stack[c] /\ f = cur[c] /\ what = fault[c] /\ at2 = pc'[c] /\ f2 = cur'[c]
    OBVIOUS
  <1> PICK src, dst, t, n : src = f.src /\ dst = f.dst /\ t = Leaf(f.src) /\ n = f.off
    OBVIOUS
  <1>1. Walk("write", st, f, what, s, d) /\ IsStack(st) /\ st # <<>>
    BY <1>0, WalkHere DEF OnWalk
  <1>2. /\ Pair(s, d, src, dst) /\ src \in DOMAIN fs /\ fs[src].kind # "dir" /\ n \in Nat
        /\ src \in Path /\ Under(src, s) /\ dst \in Path /\ Under(dst, d)
        /\ t \in DOMAIN fs /\ Is(dst, "file") /\ Begun(fs[dst].data, n, fs[t].data)
    BY <1>1 DEF Walk, Transfer, Pair
  <1>3. Real(dst) = dst /\ Real(src) = t
    BY <1>2, WalkHere
  <1>31. PICK data : data = WriteAt(fs[dst].data, n, fs[t].data[n + 1])
    OBVIOUS
  <1>4. /\ at2 = "write" /\ fs' = WithData(dst, data) /\ UNCHANGED <<stack, fault>>
        /\ n < Len(fs[t].data) /\ f2.src = src /\ f2.dst = dst /\ f2.off = n + 1
    <2>1. /\ DOMAIN pc = Call /\ DOMAIN cur = Call /\ DOMAIN f = {"src", "dst", "off", "mode"}
          /\ dst \in DOMAIN fs /\ Source(c) = fs[t]
      BY <1>2, <1>3, WalkHere DEF Source, Is
    <2>2. n < Len(fs[t].data) /\ at2 = "write" /\ UNCHANGED <<stack, fault>>
      BY <2>1 DEF Write, Goto, callVars
    <2>3. cur' = [cur EXCEPT ![c].off = @ + 1]
      BY DEF Write
    <2>4. fs' = WithData(dst, data)
      BY <1>3, <1>31, <2>1 DEF Write
    <2>5. f2.src = src /\ f2.dst = dst /\ f2.off = n + 1
      BY <2>1, <2>3
    <2> QED
      BY <2>2, <2>4, <2>5
  <1>5. /\ DOMAIN fs' = DOMAIN fs /\ \A q \in DOMAIN fs \ {dst} : fs'[q] = fs[q]
        /\ fs'[dst].kind = fs[dst].kind /\ fs'[dst].data = data /\ dst \in DOMAIN fs
    <2>1. dst \in DOMAIN fs /\ fs' = WithData(dst, data)
      BY <1>2, <1>4 DEF Is
    <2> PICK new : new = fs'
      OBVIOUS
    <2>2. new = WithData(dst, data)
      BY <2>1
    <2> QED
      BY <1>01, <2>1, <2>2, RewrittenData
  <1>6. SourceSame(s)
    BY <1>01, StillSource
  <1>7. Shape(s, d)'
    <2>1. \A q \in DOMAIN fs' : q \in DOMAIN fs /\ fs'[q].kind = fs[q].kind
      BY <1>5
    <2> QED
      BY <1>1, <1>6, <2>1, KeptShape DEF Walk
  <1>8. Frames(st, s, d)'
    BY <1>01, <1>1, <1>6, KeptFrames DEF Walk
  <1>9. Transfer(at2, f2, s, d)'
    <2>1. /\ src \in DOMAIN fs' /\ fs'[src] = fs[src] /\ Leaf(src)' = Leaf(src)
          /\ t \in DOMAIN fs' /\ fs'[t] = fs[t]
      BY <1>2, <1>6 DEF SourceSame
    <2>2. t = Leaf(src)'
      BY <2>1
    <2>3. fs[t].data \in Seq(Unit)
      BY <1>01, <1>2 DEF Orderly
    <2> PICK whole, part : whole = fs[t].data /\ part = fs[dst].data
      OBVIOUS
    <2>4. Begun(data, n + 1, whole)
      BY <1>2, <1>31, <1>4, <2>3, NextUnit
    <2>5. Begun(fs'[dst].data, n + 1, fs'[t].data)
      BY <1>5, <2>1, <2>4
    <2>6. Is(dst, "file")'
      BY <1>2, <1>5 DEF Is
    <2>7. n + 1 \in Nat
      BY <1>2
    <2> QED
      BY <1>2, <1>4, <2>1, <2>2, <2>5, <2>6, <2>7 DEF Transfer
  <1>10. Covered("write", st, f, s, d) => Covered(at2, st, f2, s, d)'
    <2> SUFFICES ASSUME Covered("write", st, f, s, d)
                 PROVE  Covered(at2, st, f2, s, d)'
      OBVIOUS
    <2> PICK at : at = "write"
      OBVIOUS
    <2>1. \A p : Pending(at, st, f, p) => Pending(at2, st, f2, p)
      BY <1>4 DEF Pending
    <2>2. Pending(at2, st, f2, src)
      BY <1>4 DEF Pending
    <2>3. \A p, q : p # src /\ Pair(s, d, p, q) => Untouched(q)
      <3>1. \A q \in DOMAIN fs \ {dst} : Untouched(q)
        BY <1>5 DEF Untouched
      <3> QED
        BY <1>01, <1>2, <3>1, KeptOthers
    <2>4. Covered(at, st, f, s, d)
      OBVIOUS
    <2> QED
      BY <1>01, <1>6, <2>1, <2>2, <2>3, <2>4, KeptCovered
  <1>11. Walk(at2, st, f2, what, s, d)'
    BY <1>1, <1>4, <1>7, <1>8, <1>9, <1>10 DEF Walk, CopyLabel
  <1>12. at2 = pc'[c] /\ st = stack'[c] /\ f2 = cur'[c] /\ what = fault'[c]
    BY <1>4
  <1> QED
    BY <1>11, <1>12 DEF OnWalk

LEMMA ChmodWalks ==
  ASSUME IInv, PInv, CInv, CInv', PInv', NEW c \in Call, IsFile(c), NEW r, NEW s, NEW d,
         Site(c, r, s, d), OnWalk(c, s, d), Chmod(c), Still(r)
  PROVE  OnWalk(c, s, d)' \/ pc'[c] = "failed"
  <1> SUFFICES ASSUME pc'[c] # "failed"
               PROVE  OnWalk(c, s, d)'
    OBVIOUS
  <1>0. stack[c] # <<>> /\ pc[c] = "chmod"
    BY DEF OnWalk, Chmod, Goto, Walk
  <1>01. s \in Path /\ d \in Path /\ r \in Path /\ FsOk /\ Orderly(s, r) /\ FsOk'
    BY <1>0, WalkHere DEF CInv
  <1> PICK st, f, what, at2 : st = stack[c] /\ f = cur[c] /\ what = fault[c] /\ at2 = pc'[c]
    OBVIOUS
  <1> PICK src, dst, t : src = f.src /\ dst = f.dst /\ t = Leaf(f.src)
    OBVIOUS
  <1>1. Walk("chmod", st, f, what, s, d) /\ IsStack(st) /\ st # <<>>
    BY <1>0, WalkHere DEF OnWalk
  <1>2. /\ Pair(s, d, src, dst) /\ src \in DOMAIN fs /\ fs[src].kind # "dir"
        /\ src \in Path /\ Under(src, s) /\ dst \in Path /\ Under(dst, d)
        /\ t \in DOMAIN fs /\ Is(t, "file") /\ Is(dst, "file")
        /\ Begun(fs[dst].data, Len(fs[t].data), fs[t].data)
    BY <1>1 DEF Walk, Transfer, Pair
  <1>3. Real(dst) = dst /\ Real(src) = t
    BY <1>2, WalkHere
  <1>4. at2 = "close" /\ fs' = WithMode(dst, fs[t].mode) /\ UNCHANGED <<stack, cur, fault>>
    <2>1. /\ DOMAIN pc = Call /\ ~Confined(c) /\ Failing(c) = "failed" /\ Source(c) = fs[t]
      BY <1>3, WalkHere DEF Source
    <2> QED
      BY <1>3, <2>1 DEF Chmod, Goto, FileMode, callVars, copyVars
  <1>5. /\ DOMAIN fs' = DOMAIN fs /\ \A q \in DOMAIN fs \ {dst} : fs'[q] = fs[q]
        /\ fs'[dst].kind = fs[dst].kind /\ fs'[dst].data = fs[dst].data
        /\ fs'[dst].mode = fs[t].mode /\ dst \in DOMAIN fs
    <2> PICK mode : mode = fs[t].mode
      OBVIOUS
    <2>1. dst \in DOMAIN fs /\ fs' = WithMode(dst, mode)
      BY <1>2, <1>4 DEF Is
    <2> PICK new : new = fs'
      OBVIOUS
    <2>2. new = WithMode(dst, mode)
      BY <2>1
    <2> QED
      BY <1>01, <2>1, <2>2, RewrittenMode, SMTT(30)
  <1>6. SourceSame(s)
    BY <1>01, StillSource
  <1>7. Shape(s, d)'
    <2>1. \A q \in DOMAIN fs' : q \in DOMAIN fs /\ fs'[q].kind = fs[q].kind
      BY <1>5
    <2> QED
      BY <1>1, <1>6, <2>1, KeptShape DEF Walk
  <1>8. Frames(st, s, d)'
    BY <1>01, <1>1, <1>6, KeptFrames DEF Walk
  <1>9. Copied(src, s, d)'
    <2>1. /\ fs'[src] = fs[src] /\ Leaf(src)' = t /\ t \in DOMAIN fs' /\ fs'[t] = fs[t]
      BY <1>2, <1>6 DEF SourceSame
    <2>2. fs[dst].data = fs[t].data
      <3>1. fs[t].data \in Seq(Unit)
        BY <1>01, <1>2 DEF Orderly
      <3> PICK whole, part : whole = fs[t].data /\ part = fs[dst].data
        OBVIOUS
      <3>2. /\ part \in Seq(Unit) /\ whole \in Seq(Unit) /\ Len(part) = Len(whole)
            /\ \A i \in 1..Len(part) : part[i] = whole[i]
        BY <1>2, <3>1 DEF Begun
      <3> QED
        BY <3>2, SeqEqual, ZenonT(30)
    <2>3. (Is(t, "file") /\ SameFile(t, dst))'
      BY <1>2, <1>5, <2>1, <2>2 DEF Is, SameFile
    <2>4. Done(src, dst)'
      BY <1>2, <2>1, <2>3 DEF Done
    <2> QED
      BY <1>01, <1>2, <2>4, PairUnique DEF Copied
  <1>10. Covered("chmod", st, f, s, d) => Covered(at2, st, f, s, d)'
    <2> SUFFICES ASSUME Covered("chmod", st, f, s, d)
                 PROVE  Covered(at2, st, f, s, d)'
      OBVIOUS
    <2> PICK at : at = "chmod"
      OBVIOUS
    <2>1. \A p : Pending(at, st, f, p) => Pending(at2, st, f, p) \/ p = src
      BY DEF Pending
    <2>2. \A p, q : p # src /\ Pair(s, d, p, q) => Untouched(q)
      <3>1. \A q \in DOMAIN fs \ {dst} : Untouched(q)
        BY <1>5 DEF Untouched
      <3> QED
        BY <1>01, <1>2, <3>1, KeptOthers
    <2>3. Covered(at, st, f, s, d)
      OBVIOUS
    <2>4. \A p \in DOMAIN fs : Under(p, s) =>
            \/ Pending(at2, st, f, p)
            \/ Copied(p, s, d)'
            \/ ~Pending(at, st, f, p) /\ \A q : Pair(s, d, p, q) => Untouched(q)
      BY <1>9, <2>1, <2>2
    <2> QED
      BY <1>01, <1>6, <2>3, <2>4, KeptCovered
  <1>11. Walk(at2, st, f, what, s, d)'
    BY <1>1, <1>4, <1>7, <1>8, <1>10 DEF Walk, CopyLabel, Transfer
  <1>12. at2 = pc'[c] /\ st = stack'[c] /\ f = cur'[c] /\ what = fault'[c]
    BY <1>4
  <1> QED
    BY <1>11, <1>12 DEF OnWalk

LEMMA CloseFailsWalks ==
  ASSUME IInv, PInv, CInv, CInv', PInv', NEW c \in Call, IsFile(c), NEW r, NEW s, NEW d,
         Site(c, r, s, d), OnWalk(c, s, d), CloseFails(c), Still(r)
  PROVE  OnWalk(c, s, d)'
  <1>0. stack[c] # <<>> /\ pc[c] = "close"
    BY DEF OnWalk, CloseFails, Goto, Walk
  <1>01. s \in Path /\ d \in Path /\ r \in Path /\ FsOk /\ Orderly(s, r) /\ FsOk'
    BY <1>0, WalkHere DEF CInv
  <1> PICK st, f, what, at2 : st = stack[c] /\ f = cur[c] /\ what = fault'[c] /\ at2 = pc'[c]
    OBVIOUS
  <1>1. Walk("close", st, f, fault[c], s, d) /\ st # <<>>
    BY <1>0 DEF OnWalk
  <1>2. /\ at2 = "next" /\ what = "lost" /\ UNCHANGED <<stack, cur>>
        /\ \E p \in DOMAIN fs : \E data : fs' = WithData(p, data)
    <2>1. DOMAIN pc = Call /\ DOMAIN fault = Call
      BY WalkHere
    <2> QED
      BY <1>0, <2>1 DEF CloseFails, Goto, Suffers, copyVars
  <1>3. \A q \in DOMAIN fs' : q \in DOMAIN fs /\ fs'[q].kind = fs[q].kind
    <2> PICK p \in DOMAIN fs : \E data : fs' = WithData(p, data)
      BY <1>2
    <2> PICK data : fs' = WithData(p, data)
      OBVIOUS
    <2> PICK new : new = fs'
      OBVIOUS
    <2> QED
      BY <1>01, RewrittenData
  <1>4. SourceSame(s)
    BY <1>01, StillSource
  <1>5. Shape(s, d)' /\ Frames(st, s, d)'
    BY <1>01, <1>1, <1>3, <1>4, KeptShape, KeptFrames DEF Walk
  <1>6. Walk(at2, st, f, what, s, d)'
    BY <1>1, <1>2, <1>5 DEF Walk, CopyLabel, Transfer
  <1>7. at2 = pc'[c] /\ st = stack'[c] /\ f = cur'[c] /\ what = fault'[c]
    BY <1>2
  <1> QED
    BY <1>6, <1>7 DEF OnWalk

LEMMA CopyWalks ==
  ASSUME IInv, PInv, CInv, CInv', PInv', NEW c \in Call, IsFile(c), NEW r, NEW s, NEW d,
         Site(c, r, s, d), OnWalk(c, s, d), CopyStep(c), Still(r)
  PROVE  OnWalk(c, s, d)' \/ pc'[c] = "failed"
  <1>0. ~Confined(c) /\ Failing(c) = "failed" /\ DOMAIN pc = Call /\ pc[c] # "chdir"
    BY WalkHere DEF OnWalk, Walk, CopyLabel
  <1>1. ~EnterConfined(c) /\ ~ChmodDir(c) /\ \A e : ~Refuse(c, e)
    BY <1>0 DEF EnterConfined, ChmodDir, Refuse, Refused, Goto
  <1>2. ASSUME ReadFails(c) \/ CopyFault(c)
        PROVE  pc'[c] = "failed"
    BY <1>0, <1>2 DEF ReadFails, CopyFault, Goto
  <1>3. ASSUME Enter(c) \/ List(c) \/ Ascend(c)
        PROVE  OnWalk(c, s, d)' \/ pc'[c] = "failed"
    BY <1>3, EnterWalks, ListWalks, AscendWalks
  <1>4. ASSUME NEW e \in Top(c).todo, Descend(c, e) \/ TakeFile(c, e)
        PROVE  OnWalk(c, s, d)'
    BY <1>4, DescendWalks, TakeFileWalks
  <1>5. ASSUME Mkdir(c) \/ Create(c) \/ Write(c)
        PROVE  OnWalk(c, s, d)' \/ pc'[c] = "failed"
    BY <1>5, MkdirWalks, CreateWalks, WriteWalks
  <1>6. ASSUME WriteDone(c) \/ Chmod(c)
        PROVE  OnWalk(c, s, d)' \/ pc'[c] = "failed"
    BY <1>6, WriteDoneWalks, ChmodWalks
  <1>7. ASSUME Close(c) \/ CloseFails(c)
        PROVE  OnWalk(c, s, d)'
    BY <1>7, CloseWalks, CloseFailsWalks
  <1> QED
    BY <1>1, <1>2, <1>3, <1>4, <1>5, <1>6, <1>7 DEF CopyStep

-----------------------------------------------------------------------------
(* A file gather, at any of its steps: if its source is a directory, it is   *)
(* about to copy it to a place where nothing is, or copies it.               *)
Underway(c, s, d) ==
  \/ pc[c] = "stat" /\ stack[c] = <<>> /\ Empty(d)
  \/ OnWalk(c, s, d)

Carried(c) ==
  \/ pc[c] \in {"failed", "crashed"}
  \/ /\ pc[c] = "begin" /\ stack[c] = <<>>
     /\ \A s \in ExpandPath(c, job[c].src), d \in ExpandPath(c, job[c].dst) :
          \E r : Site(c, r, s, d) /\ Empty(d)
  \/ /\ pc[c] # "begin"
     /\ \E r : /\ Site(c, r, job[c].src, job[c].dst)
               /\ Is(job[c].src, "dir") => Underway(c, job[c].src, job[c].dst)

(* What the caller has to see to before a directory is copied: the source is *)
(* in order and in a place nobody writes to, the destination is not there,   *)
(* and no other call and no link leads to either.                            *)
Tended(c) ==
  \A s \in ExpandPath(c, job[c].src), d \in ExpandPath(c, job[c].dst) : \E r \in Path \ {<<>>} :
    /\ OutOff(r) /\ Orderly(s, r)
    /\ \A e \in Call : \A p \in Targets(job[e]) : ~Overlap(p, r)
    /\ \A e \in Owners(job) : ~Overlap(job[e].root, r)
    /\ \A p \in Leads(fs) : (Under(p, r) /\ p # r) \/ (~Overlap(p, r) /\ ~Overlap(fs[p].to, r))
    /\ d # <<>> /\ OutOff(d) /\ Empty(d)
    /\ \A e \in Call \ {c} : \A p \in Targets(job[e]) : ~Overlap(p, d)
    /\ \A p \in Leads(fs) : ~Overlap(p, d) /\ ~Overlap(fs[p].to, d)

LEMMA InitHands ==
  ASSUME Init, NEW e \in Call, NEW r \in Path, \A p \in Targets(job[e]) : ~Overlap(p, r),
         IsGit(e) => ~Overlap(job[e].root, r)
  PROVE  HandsOff(e, r)
  <1>1. Targets(job[e]) \subseteq Path
    BY TemporaryAssumption DEF Init
  <1>2. Given(e) \subseteq Targets(job[e])
    BY DEF Given, Targets, IsFile, ExpandPath
  <1>3. \A p \in Given(e) : Off(p, r)
    BY <1>1, <1>2 DEF Off
  <1>4. IsGit(e) => Off(job[e].root, r)
    BY TemporaryAssumption DEF Off, Owners, IsGit, Init
  <1> QED
    BY <1>3, <1>4, EmptySeq DEF HandsOff, Init, StackOff, CurOff

LEMMA InitSite ==
  ASSUME Init, NEW c \in Call, IsFile(c), Tended(c),
         NEW s \in ExpandPath(c, job[c].src), NEW d \in ExpandPath(c, job[c].dst)
  PROVE  \E r : Site(c, r, s, d) /\ Empty(d)
  <1>1. PICK r \in Path \ {<<>>} :
    /\ OutOff(r) /\ Orderly(s, r)
    /\ \A e \in Call : \A p \in Targets(job[e]) : ~Overlap(p, r)
    /\ \A e \in Owners(job) : ~Overlap(job[e].root, r)
    /\ \A p \in Leads(fs) : (Under(p, r) /\ p # r) \/ (~Overlap(p, r) /\ ~Overlap(fs[p].to, r))
    /\ d # <<>> /\ OutOff(d) /\ Empty(d)
    /\ \A e \in Call \ {c} : \A p \in Targets(job[e]) : ~Overlap(p, d)
    /\ \A p \in Leads(fs) : ~Overlap(p, d) /\ ~Overlap(fs[p].to, d)
    BY DEF Tended
  <1>2. job \in Scenario /\ fs = Tree0
    BY DEF Init
  <1>3. d \in Targets(job[c]) /\ d \in Path \ {<<>>}
    <2>1. d \in Targets(job[c])
      BY DEF Targets, IsFile, ExpandPath
    <2> QED
      BY <1>1, <1>2, <2>1, TemporaryAssumption
  <1>4. \A p \in Leads(fs) : p \in Path /\ fs[p].to \in Path
    BY <1>2, SourceAssumption DEF Leads, Node
  <1>5. LinksOff(r) /\ LinksOff(d)
    BY <1>1, <1>4 DEF LinksOff, LinkOff, Off, Leads
  <1>6. \A e \in Call : HandsOff(e, r)
    BY <1>1, InitHands DEF Owners, IsGit
  <1>7. ASSUME NEW e \in Call \ {c} PROVE HandsOff(e, d)
    <2>1. IsGit(e) => ~Overlap(job[e].root, d)
      BY <1>2, <1>3, TemporaryAssumption, OverlapBothWays DEF Owners, IsGit
    <2> QED
      BY <1>1, <1>3, <2>1, InitHands
  <1>8. Fenced(c, r) /\ Fenced(c, d)
    BY <1>1, <1>3, <1>5, <1>6, <1>7 DEF Fenced
  <1>9. NoLinks(d) /\ Off(d, r)
    BY <1>1, <1>3 DEF NoLinks, Empty, Off
  <1> QED
    BY <1>1, <1>6, <1>8, <1>9 DEF Site

LEMMA InitCarried ==
  ASSUME Init, NEW c \in Call, IsFile(c), Tended(c)
  PROVE  Carried(c)
  BY InitSite DEF Carried, Init

LEMMA CarriedByOther ==
  ASSUME IInv, PInv, CInv, CInv', NEW c \in Call, IsFile(c), Carried(c),
         ByNobody \/ \E e \in Call \ {c} : ByCall(e)
  PROVE  Carried(c)'
  <1>1. Own(c)' = Own(c)
    BY ByCallGood DEF Good, ByNobody, Own
  <1>2. /\ pc'[c] = pc[c] /\ job'[c] = job[c] /\ fault'[c] = fault[c]
        /\ stack'[c] = stack[c] /\ cur'[c] = cur[c]
    BY <1>1 DEF Own
  <1>3. FsOk /\ FsOk'
    BY DEF CInv
  <1>4. CASE pc[c] \in {"failed", "crashed"}
    BY <1>2, <1>4 DEF Carried
  <1>5. CASE /\ pc[c] = "begin" /\ stack[c] = <<>>
             /\ \A s \in ExpandPath(c, job[c].src), d \in ExpandPath(c, job[c].dst) :
                  \E r : Site(c, r, s, d) /\ Empty(d)
    <2>1. ASSUME NEW s \in ExpandPath(c, job[c].src), NEW d \in ExpandPath(c, job[c].dst)
          PROVE  \E r : Site(c, r, s, d)' /\ Empty(d)'
      <3>1. PICK r : Site(c, r, s, d) /\ Empty(d)
        BY <1>5
      <3>2. Site(c, r, s, d)' /\ Still(d)
        BY <3>1, SiteByOther
      <3>3. Empty(d)'
        BY <1>3, <3>1, <3>2, EmptyStill DEF Site, Fenced
      <3> QED
        BY <3>2, <3>3
    <2>2. \A s \in ExpandPath(c, job[c].src)', d \in ExpandPath(c, job[c].dst)' :
            \E r : Site(c, r, s, d)' /\ Empty(d)'
      BY <1>2, <2>1 DEF ExpandPath
    <2> QED
      BY <1>2, <1>5, <2>2 DEF Carried
  <1>6. CASE /\ pc[c] # "begin"
             /\ \E r : /\ Site(c, r, job[c].src, job[c].dst)
                       /\ Is(job[c].src, "dir") => Underway(c, job[c].src, job[c].dst)
    <2> PICK s, d : s = job[c].src /\ d = job[c].dst
      OBVIOUS
    <2>1. PICK r : Site(c, r, s, d) /\ (Is(s, "dir") => Underway(c, s, d))
      BY <1>6
    <2>2. Site(c, r, s, d)' /\ Still(r) /\ Still(d)
      BY <2>1, SiteByOther
    <2>3. r \in Path /\ d \in Path /\ Orderly(s, r) /\ s \in Path /\ Under(s, r)
      BY <2>1 DEF Site, Fenced, Orderly
    <2>4. Is(s, "dir")' => Is(s, "dir")
      BY <2>2, <2>3 DEF Still, Is
    <2>5. ASSUME OnWalk(c, s, d)
          PROVE  OnWalk(c, s, d)'
      <3> PICK at, st, f, what : at = pc[c] /\ st = stack[c] /\ f = cur[c] /\ what = fault[c]
        OBVIOUS
      <3>1. Walk(at, st, f, what, s, d) /\ IsStack(st)
        BY <2>5 DEF OnWalk, PInv
      <3>2. Walk(at, st, f, what, s, d)'
        BY <1>3, <2>2, <2>3, <3>1, WalkStill
      <3>3. at = pc'[c] /\ st = stack'[c] /\ f = cur'[c] /\ what = fault'[c]
        BY <1>2
      <3> QED
        BY <3>2, <3>3 DEF OnWalk
    <2>6. Empty(d) => Empty(d)'
      BY <1>3, <2>2, <2>3, EmptyStill
    <2>7. Underway(c, s, d) => Underway(c, s, d)'
      BY <1>2, <2>5, <2>6 DEF Underway
    <2>8. s = job'[c].src /\ d = job'[c].dst
      BY <1>2
    <2>9. Site(c, r, job[c].src, job[c].dst)'
          /\ (Is(job[c].src, "dir")' => Underway(c, job[c].src, job[c].dst)')
      BY <2>1, <2>2, <2>4, <2>7, <2>8
    <2> QED
      BY <1>2, <1>6, <2>9 DEF Carried
  <1> QED
    BY <1>4, <1>5, <1>6 DEF Carried

LEMMA StatWalks ==
  ASSUME IInv, PInv, CInv, CInv', NEW c \in Call, IsFile(c), NEW r, NEW s, NEW d,
         Site(c, r, s, d), s = job[c].src, d = job[c].dst, Is(s, "dir"),
         pc[c] = "stat", stack[c] = <<>>, Empty(d), FileStat(c)
  PROVE  OnWalk(c, s, d)'
  <1>1. /\ s \in Path /\ d \in Path /\ r \in Path /\ FsOk /\ FsOk' /\ Orderly(s, r)
        /\ DOMAIN pc = Call /\ DOMAIN stack = Call
    BY DEF Site, Fenced, Orderly, CInv, IInv, Functions
  <1>2. Real(s) = s
    BY <1>1, NoLinkReal DEF Orderly
  <1>3. Exists(s) /\ IsDir(s)
    BY <1>2 DEF Exists, IsDir, Is
  <1> PICK g : g = Frame(s, d, {})
    OBVIOUS
  <1>4. pc'[c] = "enter" /\ stack'[c] = Append(<<>>, g) /\ UNCHANGED <<fs, fault, cur>>
    BY <1>1, <1>3 DEF FileStat, Goto, Push, callVars
  <1> PICK st, f, what : st = Append(<<>>, g) /\ f = cur[c] /\ what = fault[c]
    OBVIOUS
  <1>5. IsStack(st) /\ Len(st) = 1 /\ st[1] = g
    <2> PICK e : e = <<>>
      OBVIOUS
    <2>1. IsStack(e) /\ Len(e) = 0
      BY EmptySeq DEF IsStack
    <2>2. /\ IsStack(Append(e, g)) /\ Len(Append(e, g)) = Len(e) + 1
          /\ Append(e, g)[Len(e) + 1] = g
      BY <2>1, StackPush
    <2> QED
      BY <2>1, <2>2
  <1>6. g.src = s /\ Framed(g, s, d)
    BY <1>1, PairStart DEF Frame, Framed
  <1>7. Walk("enter", st, f, what, s, d)
    <2>1. Shape(s, d)
      BY DEF Shape, Empty
    <2>2. Frames(st, s, d)
      BY <1>5, <1>6 DEF Frames
    <2>3. \A p : Under(p, s) => Pending("enter", st, f, p)
      BY <1>5, <1>6 DEF Pending
    <2>4. st # <<>>
      BY <1>5, EmptySeq
    <2> QED
      BY <2>1, <2>2, <2>3, <2>4 DEF Walk, CopyLabel, Transfer, Covered
  <1>8. Still(r) /\ Still(d)
    BY <1>4 DEF Still
  <1> PICK at : at = "enter"
    OBVIOUS
  <1>9. Walk(at, st, f, what, s, d)'
    BY <1>1, <1>5, <1>7, <1>8, WalkStill
  <1>10. at = pc'[c] /\ st = stack'[c] /\ f = cur'[c] /\ what = fault'[c]
    BY <1>4
  <1> QED
    BY <1>9, <1>10 DEF OnWalk

LEMMA SizedWalks ==
  ASSUME IInv, PInv, CInv, CInv', NEW c \in Call, IsFile(c), NEW r, NEW s, NEW d,
         Site(c, r, s, d), OnWalk(c, s, d), DirSize(c)
  PROVE  OnWalk(c, s, d)' \/ pc'[c] = "failed"
  <1> SUFFICES ASSUME pc'[c] # "failed"
               PROVE  OnWalk(c, s, d)'
    OBVIOUS
  <1>1. pc[c] = "copied" /\ pc'[c] = "ok" /\ UNCHANGED <<fs, fault, stack, cur>>
    BY WalkHere DEF DirSize, Goto, copyVars
  <1> PICK st, f, what : st = stack[c] /\ f = cur[c] /\ what = fault[c]
    OBVIOUS
  <1>2. Walk("copied", st, f, what, s, d) /\ IsStack(st)
    BY <1>1, WalkHere DEF OnWalk
  <1>3. \A p : Pending("copied", st, f, p) => Pending("ok", st, f, p)
    BY DEF Pending
  <1>4. Walk("ok", st, f, what, s, d)
    BY <1>2, <1>3 DEF Walk, Covered, Transfer
  <1>5. Walk(pc'[c], stack'[c], cur'[c], fault'[c], s, d) /\ IsStack(stack'[c])
    BY <1>1, <1>2, <1>4
  <1> QED
    BY <1>1, <1>5, WalkOn

LEMMA CarriedOn ==
  ASSUME IInv, PInv, CInv, CInv', PInv', NEW c \in Call, IsFile(c), FileByCall(c),
         NEW r, NEW s, NEW d, Site(c, r, s, d), s = job[c].src, d = job[c].dst, Is(s, "dir"),
         Underway(c, s, d), Still(r)
  PROVE  OnWalk(c, s, d)' \/ pc'[c] \in {"failed", "crashed"}
  <1>0. DOMAIN pc = Call
    BY DEF IInv, Functions
  <1>1. ASSUME Crash(c) \/ FileFault(c)
        PROVE  pc'[c] \in {"failed", "crashed"}
    BY <1>0, <1>1 DEF Crash, FileFault
  <1>2. CASE pc[c] = "stat" /\ stack[c] = <<>> /\ Empty(d)
    <2>1. ~CopyStep(c)
      BY <1>2 DEF CopyStep, Enter, EnterConfined, Mkdir, ChmodDir, List, Ascend, Descend, Refuse,
         Refused, TakeFile, Create, Write, ReadFails, WriteDone, Chmod, Close, CloseFails,
         CopyFault, CopyLabel, Goto
    <2>2. FileStep(c) => FileStat(c) \/ FileFault(c)
      BY <1>2 DEF FileStep, FileBegin, Sniff, GetExpander, Expand, DirSize, ParseSave, Goto
    <2> QED
      BY <1>1, <1>2, <2>1, <2>2, StatWalks DEF FileByCall
  <1>3. CASE OnWalk(c, s, d)
    <2>1. pc[c] \in CopyLabel \cup {"copied", "ok"}
      BY <1>3 DEF OnWalk, Walk
    <2>2. FileStep(c) => DirSize(c) \/ FileFault(c)
      BY <2>1
      DEF FileStep, FileBegin, FileStat, Sniff, GetExpander, Expand, ParseSave, Goto, CopyLabel
    <2> QED
      BY <1>1, <1>3, <2>2, CopyWalks, SizedWalks DEF FileByCall
  <1> QED
    BY <1>2, <1>3 DEF Underway

LEMMA CarriedByItself ==
  ASSUME IInv, PInv, CInv, CInv', PInv', NEW c \in Call, IsFile(c), Carried(c), ByCall(c)
  PROVE  Carried(c)'
  <1>0. FileByCall(c) /\ DOMAIN pc = Call /\ FsOk /\ FsOk'
    BY FileCases DEF IInv, Functions, CInv
  <1>1. CASE pc[c] \in {"failed", "crashed"}
    BY <1>0, <1>1 DEF FileByCall, Crash, Ended, FileStep, FileBegin, FileStat, Sniff, GetExpander,
       Expand, DirSize, ParseSave, FileFault, Goto, CopyStep, Enter, EnterConfined, Mkdir,
       ChmodDir, List, Ascend, Descend, Refuse, Refused, TakeFile, Create, Write, ReadFails,
       WriteDone, Chmod, Close, CloseFails, CopyFault, CopyLabel
  <1>2. CASE /\ pc[c] = "begin" /\ stack[c] = <<>>
             /\ \A s \in ExpandPath(c, job[c].src), d \in ExpandPath(c, job[c].dst) :
                  \E r : Site(c, r, s, d) /\ Empty(d)
    <2>1. FileBegin(c)
      BY <1>0, <1>2 DEF FileByCall, Crash, FileStep, FileStat, Sniff, GetExpander,
         Expand, DirSize, ParseSave, FileFault, Goto, CopyStep, Enter, EnterConfined, Mkdir,
         ChmodDir, List, Ascend, Descend, Refuse, Refused, TakeFile, Create, Write, ReadFails,
         WriteDone, Chmod, Close, CloseFails, CopyFault, CopyLabel
    <2>2. CASE pc'[c] = "failed"
      BY <2>2 DEF Carried
    <2>3. CASE pc'[c] # "failed"
      <3>1. /\ pc'[c] = "stat" /\ UNCHANGED <<fs, stack>>
            /\ \E s \in ExpandPath(c, job[c].src), d \in ExpandPath(c, job[c].dst) :
                 job' = [job EXCEPT ![c].src = s, ![c].dst = d]
        BY <1>0, <2>1, <2>3 DEF FileBegin, Goto, copyVars
      <3>2. PICK s \in ExpandPath(c, job[c].src) : \E d \in ExpandPath(c, job[c].dst) :
                 job' = [job EXCEPT ![c].src = s, ![c].dst = d]
        BY <3>1
      <3>3. PICK d \in ExpandPath(c, job[c].dst) : job' = [job EXCEPT ![c].src = s, ![c].dst = d]
        BY <3>2
      <3>4. job'[c].src = s /\ job'[c].dst = d
        BY <3>3 DEF PInv, Typed, Job, FileJob, GitJob, OciJob, IsFile
      <3>5. PICK r : Site(c, r, s, d) /\ Empty(d)
        BY <1>2
      <3>6. Site(c, r, s, d)' /\ Empty(d)'
        BY <3>1, <3>5, SiteByItself DEF Empty
      <3>7. Site(c, r, job[c].src, job[c].dst)' /\ Underway(c, job[c].src, job[c].dst)'
        BY <1>2, <3>1, <3>4, <3>6 DEF Underway
      <3> QED
        BY <3>1, <3>7 DEF Carried
    <2> QED
      BY <2>2, <2>3
  <1>3. CASE /\ pc[c] # "begin"
             /\ \E r : /\ Site(c, r, job[c].src, job[c].dst)
                       /\ Is(job[c].src, "dir") => Underway(c, job[c].src, job[c].dst)
    <2> PICK s, d : s = job[c].src /\ d = job[c].dst
      OBVIOUS
    <2>1. PICK r : Site(c, r, s, d) /\ (Is(s, "dir") => Underway(c, s, d))
      BY <1>3
    <2>2. Site(c, r, s, d)' /\ Still(r)
      BY <2>1, SiteByItself
    <2>3. r \in Path /\ d \in Path /\ Orderly(s, r) /\ s \in Path /\ Under(s, r)
      BY <2>1 DEF Site, Fenced, Orderly
    <2>4. Is(s, "dir")' => Is(s, "dir")
      BY <2>2, <2>3 DEF Still, Is
    <2>5. Is(s, "dir") => OnWalk(c, s, d)' \/ pc'[c] \in {"failed", "crashed"}
      BY <1>0, <2>1, <2>2, CarriedOn
    <2>6. job'[c] = job[c] /\ pc'[c] # "begin"
      <3>1. UNCHANGED job
        BY <1>3, JobSteps DEF FileBegin, Again, IsFile, Goto
      <3>2. pc'[c] # "begin"
        BY <1>0, <1>3 DEF FileByCall, Crash, FileStep, FileBegin, FileStat, Sniff, GetExpander,
         Expand, DirSize, ParseSave, FileFault, Goto, CopyStep, Enter, EnterConfined, Mkdir,
         ChmodDir, List, Ascend, Descend, Refuse, Refused, TakeFile, Create, Write, ReadFails,
         WriteDone, Chmod, Close, CloseFails, CopyFault, Failing, IsFile
      <3> QED
        BY <3>1, <3>2
    <2>7. s = job'[c].src /\ d = job'[c].dst
      BY <2>6
    <2>8. CASE pc'[c] \in {"failed", "crashed"}
      BY <2>8 DEF Carried
    <2>9. CASE pc'[c] \notin {"failed", "crashed"}
      <3>1. Site(c, r, job[c].src, job[c].dst)'
            /\ (Is(job[c].src, "dir")' => Underway(c, job[c].src, job[c].dst)')
        BY <2>2, <2>4, <2>5, <2>7, <2>9 DEF Underway
      <3> QED
        BY <2>6, <3>1 DEF Carried
    <2> QED
      BY <2>8, <2>9
  <1> QED
    BY <1>1, <1>2, <1>3 DEF Carried

CarriedInv == \A c \in Call : IsFile(c) => Carried(c)

LEMMA StepCarried ==
  ASSUME IInv, PInv, CInv, CInv', PInv', CarriedInv, [Next]_vars
  PROVE  CarriedInv'
  <1> SUFFICES ASSUME NEW c \in Call, IsFile(c)'
               PROVE  Carried(c)'
    BY DEF CarriedInv
  <1>1. IsFile(c)
    BY StepCases, KindKept DEF ByNobody, IsFile
  <1> QED
    BY <1>1, StepCases, CarriedByOther, CarriedByItself DEF CarriedInv

LEMMA CopyDelivered ==
  ASSUME PInv, CInv, NEW c \in Call, IsFile(c), Carried(c), pc[c] = "ok", fault[c] # "lost",
         IsDir(job[c].src), NEW p \in Tree(Real(job[c].src))
  PROVE  LET t == Real(job[c].dst \o Rest(p, Real(job[c].src))) IN
         IF Is(p, "dir") THEN Is(t, "dir") ELSE SameFile(Real(p), t)
  <1> PICK s, d, st, f : s = job[c].src /\ d = job[c].dst /\ st = stack[c] /\ f = cur[c]
    OBVIOUS
  <1>1. PICK r : Site(c, r, s, d) /\ (Is(s, "dir") => Underway(c, s, d))
    BY DEF Carried
  <1>2. /\ r \in Path \ {<<>>} /\ Orderly(s, r) /\ s \in Path /\ d \in Path /\ FsOk
        /\ Fenced(c, d) /\ NoLinks(d)
    BY <1>1 DEF Site, Fenced, Orderly, CInv
  <1>3. Real(s) = s
    BY <1>2, NoLinkReal DEF Orderly
  <1>4. Is(s, "dir") /\ p \in DOMAIN fs /\ Under(p, s) /\ p \in Path
    BY <1>2, <1>3 DEF IsDir, Tree, FsOk, NodeOk
  <1>5. Walk("ok", st, f, fault[c], s, d)
    BY <1>1, <1>4 DEF Underway, OnWalk
  <1>6. Copied(p, s, d)
    <2>1. st = <<>> /\ Len(st) = 0
      BY <1>5, EmptySeq DEF Walk
    <2>2. ~Pending("ok", st, f, p)
      BY <2>1 DEF Pending
    <2> QED
      BY <1>4, <1>5, <2>2 DEF Walk, Covered
  <1> PICK q : q = d \o Rest(p, s)
    OBVIOUS
  <1>7. Pair(s, d, p, q)
    BY <1>2, <1>4, PairRest
  <1>8. Real(q) = q
    BY <1>2, <1>7, FencedBelow DEF Pair
  <1>9. Real(p) = Leaf(p)
    BY <1>2, <1>4, SourceReal
  <1>10. IF Is(p, "dir") THEN Is(q, "dir") ELSE SameFile(Real(p), q)
    BY <1>4, <1>6, <1>7, <1>9 DEF Copied, Done, Is
  <1>11. Real(job[c].dst \o Rest(p, Real(job[c].src))) = q
    BY <1>3, <1>8, Zenon
  <1> QED
    BY <1>10, <1>11

(***************************************************************************)
(* helpers.go:52-132, file.go:99-112: when the source of every file        *)
(* gather is in order and left alone, and its destination a place of its   *)
(* own, a directory copied without error has every entry of the source, at *)
(* every depth, files with their data and mode and links with what they    *)
(* lead to, wherever other calls copy, clone and pull meanwhile.           *)
(***************************************************************************)
THEOREM CopiesArrive ==
  Spec /\ (\A c \in Call : IsFile(c) => Tended(c)) => []CopyDelivers
  <1>1. Init /\ (\A c \in Call : IsFile(c) => Tended(c)) => CarriedInv
    BY InitCarried DEF CarriedInv
  <1>2. /\ IInv /\ PInv /\ CInv /\ CarriedInv /\ [Next]_vars /\ PInv' /\ CInv'
        => CarriedInv'
    BY StepCarried
  <1>3. PInv /\ CInv /\ CarriedInv => CopyDelivers
    <2> SUFFICES ASSUME PInv, CInv, CarriedInv, NEW c \in Call, Delivered(c, "file")
                 PROVE  IsFile(c) /\ Carried(c) /\ pc[c] = "ok" /\ fault[c] # "lost"
      BY CopyDelivered DEF CopyDelivers
    <2> QED
      BY DEF Delivered, CarriedInv, IsFile
  <1> QED
    BY <1>1, <1>2, <1>3, Invariance, PinInvariance, AwayInvariance, PTL DEF Spec
=============================================================================
