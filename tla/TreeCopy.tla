------------------------------- MODULE TreeCopy -------------------------------
(***************************************************************************)
(* The file tree that gatherers work on, and the copies of                 *)
(* internal/helpers that run in it: CopyDir with CopyFile (helpers.go),    *)
(* and CopyDirConfined (copydir_confined.go), whose reads stay below a     *)
(* root.  Both recurse depth first over listings taken before their        *)
(* entries are visited; the recursion is a stack of frames, and every      *)
(* file-system operation that has an effect is a step, so other calls may  *)
(* change the tree between any two.                                        *)
(*                                                                         *)
(* FileGather, GitGather and OciGather extend this module, and Gathering   *)
(* composes them.                                                          *)
(***************************************************************************)
EXTENDS Integers, Sequences, FiniteSets

CONSTANTS
  Call,     \* concurrent calls of Gather
  Name,     \* names of directory entries
  Unit,     \* units of file data
  Umask,    \* the permissions a new file or directory is denied
  PathMax   \* the longest path, in names

(* Paths are relative to a root that is <<>>.  Of a mode it matters whether  *)
(* the owner may write and whether a permission the umask may take is there. *)
Path       == Seq(Name)
Permission == {"write", "shared"}
Node == [kind: {"dir", "file", "link"}, mode: SUBSET Permission, data: Seq(Unit), to: Path]

Dir(mode)        == [kind |-> "dir", mode |-> mode, data |-> <<>>, to |-> <<>>]
File(mode, data) == [kind |-> "file", mode |-> mode, data |-> data, to |-> <<>>]
Link(to)         == [kind |-> "link", mode |-> Permission, data |-> <<>>, to |-> to]

ASSUME TreeAssumption == PathMax \in Nat /\ Umask \subseteq Permission \ {"write"}

VARIABLES
  pc,         \* where each call is
  job,        \* what it was asked: kind, dst and what its gatherer needs
  meta,       \* the metadata it is about to return, if any, as a set
  fault,      \* what happened to it for no reason in the tree
  cancelled,  \* its context is done
  fs,         \* the tree: existing path -> node
  stack,      \* the CopyDir calls it is in, the innermost last
  cur         \* the file it is copying: names, offset and the mode to give it

callVars == <<job, meta, fault, cancelled>>
copyVars == <<stack, cur>>

NoFile == [src |-> <<>>, dst |-> <<>>, off |-> 0, mode |-> {}]

Goto(c, from, to) == pc[c] = from /\ pc' = [pc EXCEPT ![c] = to]

Confined(c) == job[c].kind = "git"

(* Bound: one operation in a behaviour fails, or one call dies. *)
Calm == \A c \in Call : fault[c] = "none"

Suffers(c, what) == Calm /\ fault' = [fault EXCEPT ![c] = what]

InterruptedNever(c) == FALSE  \* mutant: the context is not passed on

(* What a cancelled context does to a wait for a server: it ends. *)
Interrupted(c) == cancelled[c]

(* Where an error leads: git and OCI gathers have a deferred call to make. *)
Failing(c) ==
  IF job[c].kind = "git" THEN "cleanup" ELSE IF job[c].kind = "oci" THEN "closing" ELSE "failed"

-----------------------------------------------------------------------------
(* The tree. *)

Under(p, q) == Len(p) >= Len(q) /\ \A i \in 1..Len(q) : p[i] = q[i]
Rest(p, q)  == SubSeq(p, Len(q) + 1, Len(p))
Parent(p)   == SubSeq(p, 1, Len(p) - 1)
Tree(p)     == {q \in DOMAIN fs : Under(q, p)}

(* The tree t with a node n at p, and with all the nodes of another, which    *)
(* are @@ and :> of module TLC, whose definitions the provers do not expand. *)
Over(u, t)   == [q \in DOMAIN u \cup DOMAIN t |-> IF q \in DOMAIN u THEN u[q] ELSE t[q]]
Put(p, n, t) ==
  [[q \in DOMAIN t \cup {p} |-> IF q \in DOMAIN t THEN t[q] ELSE n] EXCEPT ![p] = n]

Is(p, kind) == p \in DOMAIN fs /\ fs[p].kind = kind

(* What opening p reaches: a link on the way is followed.  No path goes     *)
(* through two.                                                             *)
Real(p) ==
  LET links == {i \in 1..Len(p) : Is(SubSeq(p, 1, i), "link")}
      i == CHOOSE k \in links : TRUE
  IN  IF links = {} THEN p ELSE fs[SubSeq(p, 1, i)].to \o SubSeq(p, i + 1, Len(p))

(* The entry p names, which may be a link. *)
Entry(p) == IF p = <<>> THEN p ELSE Append(Real(Parent(p)), p[Len(p)])

Exists(p)   == Real(p) \in DOMAIN fs
IsDir(p)    == Is(Real(p), "dir")
Writable(p) == "write" \in fs[p].mode

OpensAny(c, p) == Exists(p)  \* mutant: the paths are joined and opened as they are

(* The confined copy reads through an os.Root, which follows no link out.    *)
Opens(c, p) == Exists(p) /\ (Confined(c) => Under(Real(p), job[c].root))

(* os.MkdirAll makes what is missing of the entry p from above, as far as it may. *)
Makeable(p, mode) ==
  LET missing == {SubSeq(p, 1, i) : i \in 1..Len(p)} \ DOMAIN fs
      inside(q) == Parent(q) \in missing
      base == {Parent(q) : q \in missing} \ missing
  IN  {q \in missing : /\ Len(q) <= PathMax
                       /\ \A b \in base : Is(b, "dir") /\ Writable(b)
                       /\ inside(q) => "write" \in mode}

AfterMkdirLast(p, mode) ==  \* mutant: os.Mkdir
  IF p \in DOMAIN fs THEN fs ELSE Put(p, Dir(mode \ Umask), fs)

AfterMkdirAll(p, mode) ==
  [q \in DOMAIN fs \cup Makeable(p, mode) |->
     IF q \in DOMAIN fs THEN fs[q] ELSE Dir(mode \ Umask)]

(* Opening the real path p to write: a file that exists must be writable, a new one needs *)
(* a directory that is.                                                     *)
CanCreate(p) ==
  IF p \in DOMAIN fs THEN fs[p].kind = "file" /\ Writable(p)
  ELSE Is(Parent(p), "dir") /\ Writable(Parent(p)) /\ Len(p) <= PathMax

(* O_CREATE|O_TRUNC: an existing file loses its data and keeps its mode. *)
AfterCreate(p, mode) ==
  Put(p, File(IF p \in DOMAIN fs THEN fs[p].mode ELSE mode \ Umask, <<>>), fs)

WithMode(p, mode) == IF p \in DOMAIN fs THEN [fs EXCEPT ![p].mode = mode] ELSE fs
WithData(p, data) == IF p \in DOMAIN fs THEN [fs EXCEPT ![p].data = data] ELSE fs

-----------------------------------------------------------------------------
(* Directories. *)

Frame(src, dst, mode) == [src |-> src, dst |-> dst, mode |-> mode, todo |-> {}]

Top(c)    == stack[c][Len(stack[c])]
SetTop(c, f) == [stack EXCEPT ![c][Len(stack[c])] = f]
Push(c, f)   == [stack EXCEPT ![c] = Append(@, f)]

(* CopyDir stats its source and its destination. *)
Enter(c) ==
  LET f == Top(c) IN
  /\ pc[c] = "enter" /\ ~Confined(c)
  /\ \/ /\ IsDir(f.src) /\ Len(f.dst) <= PathMax
        /\ Goto(c, "enter", IF Exists(f.dst) THEN "list" ELSE "mkdir")
        /\ stack' = SetTop(c, [f EXCEPT !.mode = fs[Real(f.src)].mode])
     \/ /\ ~(IsDir(f.src) /\ Len(f.dst) <= PathMax)
        /\ Goto(c, "enter", "failed") /\ UNCHANGED stack
  /\ UNCHANGED <<callVars, fs, cur>>

(* CopyDirConfined takes a real directory only, not a link to one. *)
EnterConfined(c) ==
  LET f == Top(c)
      takes == Opens(c, Parent(f.src)) /\ Is(Entry(f.src), "dir")
  IN
  /\ pc[c] = "enter" /\ Confined(c)
  /\ \/ /\ takes
        /\ Goto(c, "enter", "mkdir")
        /\ stack' = SetTop(c, [f EXCEPT !.src = Entry(f.src), !.mode = fs[Entry(f.src)].mode])
     \/ ~takes /\ Goto(c, "enter", "cleanup") /\ UNCHANGED stack
  /\ UNCHANGED <<callVars, fs, cur>>

(* Both make a missing destination; only the confined copy sets its mode. *)
Mkdir(c) ==
  LET f == Top(c)
      p == Entry(f.dst)
      new == AfterMkdirAll(p, f.mode)
      made == IsDir(f.dst) \/ (p \in DOMAIN new \ DOMAIN fs)
  IN
  /\ Goto(c, "mkdir", IF ~made THEN Failing(c) ELSE IF Confined(c) THEN "chdir" ELSE "list")
  /\ fs' = new
  /\ UNCHANGED <<callVars, copyVars>>

ChmodDir(c) ==
  LET p == Real(Top(c).dst) IN
  /\ Goto(c, "chdir", IF p \in DOMAIN fs THEN "list" ELSE Failing(c))
  /\ fs' = WithMode(p, Top(c).mode)
  /\ UNCHANGED <<callVars, copyVars>>

(* The entries, with the type each has now: a link is not a directory. *)
Entries(p) ==
  {[name |-> q[Len(q)], dir |-> fs[q].kind = "dir"] :
     q \in {r \in DOMAIN fs : r # <<>> /\ Parent(r) = p}}

List(c) ==
  /\ pc[c] = "list"
  /\ IF Opens(c, Top(c).src) /\ IsDir(Top(c).src)
       THEN /\ Goto(c, "list", "next")
            /\ stack' = SetTop(c, [Top(c) EXCEPT !.todo = Entries(Real(Top(c).src))])
       ELSE Goto(c, "list", Failing(c)) /\ UNCHANGED stack
  /\ UNCHANGED <<callVars, fs, cur>>

(* os.ReadDir sorts, so CopyDir has one order, whichever it is; the confined *)
(* copy takes the entries as the directory has them.                         *)
Visits(c, e) ==
  pc[c] = "next" /\ e \in Top(c).todo /\ (Confined(c) \/ e = CHOOSE f \in Top(c).todo : TRUE)

ChildOf(c, e)  == Append(Top(c).src, e.name)

TargetInSource(c, e) == ChildOf(c, e)  \* mutant: both paths are joined from src

TargetOf(c, e) == Append(Top(c).dst, e.name)
Without(c, e)  == SetTop(c, [Top(c) EXCEPT !.todo = @ \ {e}])

(* CopyDir goes by the listing, the confined copy looks again. *)
Descends(c, e) == IF Confined(c) THEN Is(ChildOf(c, e), "dir") ELSE e.dir

Descend(c, e) ==
  LET p == ChildOf(c, e) IN
  /\ Visits(c, e) /\ Descends(c, e)
  /\ Goto(c, "next", IF Confined(c) THEN "mkdir" ELSE "enter")
  /\ stack' = [Without(c, e) EXCEPT ![c] =
                 Append(@, Frame(p, TargetOf(c, e), IF Confined(c) THEN fs[p].mode ELSE {}))]
  /\ UNCHANGED <<callVars, fs, cur>>

(* A link that leads to a directory, nowhere, or out of the root. *)
Refused(c, e) ==
  LET p == ChildOf(c, e) IN
  /\ Confined(c)
  /\ \/ p \notin DOMAIN fs
     \/ Is(p, "link") /\ ~(Opens(c, p) /\ Is(Real(p), "file"))

Refuse(c, e) ==
  /\ Visits(c, e) /\ Refused(c, e)
  /\ Goto(c, "next", Failing(c))
  /\ UNCHANGED <<callVars, fs, copyVars>>

TakeFile(c, e) ==
  LET p == ChildOf(c, e) IN
  /\ Visits(c, e) /\ ~Descends(c, e) /\ ~Refused(c, e)
  /\ Goto(c, "next", "create")
  /\ stack' = Without(c, e)
  /\ cur' = [cur EXCEPT ![c] =
               [src |-> p, dst |-> TargetOf(c, e), off |-> 0,
                mode |-> IF Confined(c) THEN fs[Real(p)].mode ELSE {}]]
  /\ UNCHANGED <<callVars, fs>>

(* The directory is done; the outermost one ends the copy. *)
Ascend(c) ==
  /\ pc[c] = "next" /\ Top(c).todo = {}
  /\ Goto(c, "next", IF Len(stack[c]) = 1 THEN "copied" ELSE "next")
  /\ stack' = [stack EXCEPT ![c] = SubSeq(@, 1, Len(@) - 1)]
  /\ UNCHANGED <<callVars, fs, cur>>

-----------------------------------------------------------------------------
(* Files. *)

(* The source is opened, then the destination created or truncated. *)
Create(c) ==
  LET p == Real(cur[c].dst)
      ready == Opens(c, cur[c].src) /\ CanCreate(p)
  IN
  /\ Goto(c, "create", IF ready THEN "write" ELSE Failing(c))
  /\ fs' = IF ready
             THEN AfterCreate(p, IF Confined(c) THEN cur[c].mode ELSE Permission)
             ELSE fs
  /\ UNCHANGED <<callVars, copyVars>>

(* What is read of a source that is removed meanwhile is left open.          *)
Source(c) == fs[Real(cur[c].src)]

(* Writing at an offset, whatever another call made of the file meanwhile. *)
WriteAt(data, off, u) ==
  [i \in 1..(IF off < Len(data) THEN Len(data) ELSE off + 1) |->
     IF i = off + 1 \/ i > Len(data) THEN u ELSE data[i]]

(* io.Copy moves a unit; a file removed meanwhile takes it unseen. *)
Write(c) ==
  LET p == Real(cur[c].dst) IN
  /\ pc[c] = "write" /\ Source(c).kind = "file" /\ cur[c].off < Len(Source(c).data)
  /\ Goto(c, "write", "write")
  /\ fs' = IF p \in DOMAIN fs
             THEN WithData(p, WriteAt(fs[p].data, cur[c].off, Source(c).data[cur[c].off + 1]))
             ELSE fs
  /\ cur' = [cur EXCEPT ![c].off = @ + 1]
  /\ UNCHANGED <<callVars, stack>>

(* Reading a directory fails; a file ends. *)
ReadFails(c) ==
  /\ pc[c] = "write" /\ Source(c).kind = "dir"
  /\ Goto(c, "write", Failing(c))
  /\ UNCHANGED <<callVars, fs, copyVars>>

(* A single file is saved as it is, one of a directory then gets its mode. *)
WriteDone(c) ==
  /\ pc[c] = "write" /\ Source(c).kind = "file" /\ cur[c].off >= Len(Source(c).data)
  /\ IF stack[c] = <<>>
       THEN Goto(c, "write", "close") /\ meta' = [meta EXCEPT ![c] = {cur[c].off}]
       ELSE Goto(c, "write", "chmod") /\ UNCHANGED meta
  /\ UNCHANGED <<job, fault, cancelled, fs, copyVars>>

FileModeOfListing(c) == cur[c].mode  \* mutant: CopyFile does not stat the source

FileMode(c) == IF Confined(c) THEN cur[c].mode ELSE Source(c).mode

(* CopyFile looks its source up again, the confined copy did so before.      *)
Chmod(c) ==
  LET p == Real(cur[c].dst)
      ready == p \in DOMAIN fs /\ (Confined(c) \/ Exists(cur[c].src))
  IN
  /\ Goto(c, "chmod", IF ready THEN "close" ELSE Failing(c))
  /\ fs' = IF ready THEN WithMode(p, FileMode(c)) ELSE fs
  /\ UNCHANGED <<callVars, copyVars>>

(* The deferred Close of the destination. *)
Close(c) ==
  /\ Goto(c, "close", IF stack[c] = <<>> THEN "ok" ELSE "next")
  /\ UNCHANGED <<callVars, fs, copyVars>>

MetaKept(c) == meta  \* mutant: the deferred function sets err only

(* What the deferred function of save makes of the result on a close error. *)
MetaReset(c) == [meta EXCEPT ![c] = {}]

(* A failing Close may lose what was written last.  save returns the error,  *)
(* CopyFile and copyFileConfined discard it.                                 *)
CloseFails(c) ==
  LET p == Real(cur[c].dst) IN
  /\ pc[c] = "close" /\ p \in DOMAIN fs
  /\ IF stack[c] = <<>>
       THEN Goto(c, "close", "failed") /\ meta' = MetaReset(c)
       ELSE Goto(c, "close", "next") /\ UNCHANGED meta
  /\ Suffers(c, "lost")
  /\ \E n \in 0..Len(fs[p].data) : fs' = WithData(p, SubSeq(fs[p].data, 1, n))
  /\ UNCHANGED <<job, cancelled, copyVars>>

-----------------------------------------------------------------------------

CopyLabel ==
  {"enter", "mkdir", "chdir", "list", "next", "create", "write", "chmod", "close"}

(* Any operation may fail: no space, no permission, a disk error. *)
CopyFault(c) ==
  /\ pc[c] \in CopyLabel \ {"next", "close"}
  /\ pc' = [pc EXCEPT ![c] = Failing(c)]
  /\ Suffers(c, "op")
  /\ UNCHANGED <<job, meta, cancelled, fs, copyVars>>

CopyStep(c) ==
  \/ Enter(c) \/ EnterConfined(c) \/ Mkdir(c) \/ ChmodDir(c) \/ List(c) \/ Ascend(c)
  \/ pc[c] = "next" /\ \E e \in Top(c).todo : Descend(c, e) \/ Refuse(c, e) \/ TakeFile(c, e)
  \/ Create(c) \/ Write(c) \/ ReadFails(c) \/ WriteDone(c) \/ Chmod(c)
  \/ Close(c) \/ CloseFails(c) \/ CopyFault(c)
=============================================================================
