---------------------------- MODULE ArchiveExpand ----------------------------
(***************************************************************************)
(* Concurrent TarExpander.Expand and ZipExpander.Expand calls              *)
(* (expand/tar/tar.go, expand/zip/zip.go) with the limits and the cleanup  *)
(* they take from expand/expander.go.                                      *)
(*                                                                         *)
(* A call extracts entries one by one into a directory tree, counts the    *)
(* bytes it copies against an archive-wide budget, gives tar directories   *)
(* their modes once every entry is out, in no particular order, and        *)
(* removes the destination after an error if it found it missing at the    *)
(* start.  os.RemoveAll and os.MkdirAll are one step each.  Entry names    *)
(* arrive sanitised below the destination by the archive library, and a    *)
(* link entry is written as an empty regular file, as the code does: the   *)
(* links in the tree are those that were there before any call.            *)
(***************************************************************************)
EXTENDS Integers, Sequences, FiniteSets

CONSTANTS
  Call,          \* concurrent calls of Expand
  Format,        \* "tar" or "zip", of each call
  Node,          \* the paths that matter
  Above,         \* the ancestors of each path, itself excluded
  Layouts,       \* where the links that were there before may lead each path
  Root,          \* the destination of each call
  Archives,      \* the archives each call may be given
  EntryOption,   \* ExpandOptions.MaxEntrySize of each call's expander
  TotalOption,   \* ExpandOptions.MaxTotalSize
  CountOption,   \* ExpandOptions.FilesLimit
  DefaultLimit,  \* the default of every limit
  MaxInt,        \* math.MaxInt64 and math.MaxInt
  Nobody         \* the author of what was there before

(***************************************************************************)
(* An entry: the size its header declares, the units its reader delivers,  *)
(* whether it then fails rather than ends, and whether its mode lets the   *)
(* owner write (a file) or search and write (a directory).                 *)
(***************************************************************************)
Entry == [name: Node, kind: {"file", "dir", "meta"}, declared: 0..MaxInt,
          size: 0..MaxInt, broken: BOOLEAN, open: BOOLEAN]

(* Zero takes the default and a negative value disables the check. *)
Effective(option) ==
  IF option < 0 THEN MaxInt ELSE IF option = 0 THEN DefaultLimit ELSE option

MaxEntry(c)   == Effective(EntryOption[c])
MaxTotal(c)   == Effective(TotalOption[c])
FilesLimit(c) == Effective(CountOption[c])

(***************************************************************************)
(* f gives the path each path stands for while the links of the start are  *)
(* in place, itself if it meets none.  No link leads to another, what is   *)
(* below a link is found below its target, and a destination is named by   *)
(* a path whose parents are no links.                                      *)
(***************************************************************************)
IsLayout(f) ==
  /\ f \in [Node -> Node]
  /\ \A n \in Node : f[f[n]] = f[n]
  /\ \A n \in Node : \A a \in Above[n] : f[a] # a =>
       /\ f[n] # n /\ f[a] \in Above[f[n]]
       /\ \A b \in Above[f[n]] :
            \/ b \in Above[f[a]] \cup {f[a]}
            \/ \E k \in Above[n] : a \in Above[k] /\ f[k] = b
  /\ \A c \in Call : \A a \in Above[Root[c]] : f[a] = a

ASSUME ConstantsAssumption ==
  /\ MaxInt \in Nat \ {0} /\ DefaultLimit \in 1..MaxInt
  /\ Format \in [Call -> {"tar", "zip"}]
  /\ IsFiniteSet(Node)
  /\ Above \in [Node -> SUBSET Node]
  /\ \A n \in Node : n \notin Above[n]
  /\ \A n \in Node : \A a \in Above[n] : Above[a] \subseteq Above[n]
  /\ \A n \in Node : \A a, b \in Above[n] : a = b \/ a \in Above[b] \/ b \in Above[a]
  /\ Root \in [Call -> Node]
  /\ \A f \in Layouts : IsLayout(f)
  /\ Archives \in [Call -> SUBSET Seq(Entry)]
  /\ \A c \in Call : \A a \in Archives[c] : \A i \in 1..Len(a) :
       /\ Root[c] \in Above[a[i].name] \cup {a[i].name}
       /\ Format[c] = "zip" => a[i].kind # "meta"
  /\ EntryOption \in [Call -> -1..MaxInt]
  /\ TotalOption \in [Call -> -1..MaxInt]
  /\ CountOption \in [Call -> -1..MaxInt]
  /\ Nobody \notin Call

VARIABLES
  pc,       \* where each call is
  archive,  \* the archive it was given
  pos,      \* the entry it is at
  count,    \* filesCount
  total,    \* totalExtracted
  moved,    \* units of the current entry copied
  created,  \* createdDst
  leads,    \* the layout of the links, which no step of a call changes
  seen,     \* seenDirs: entries whose directory mode is still to be set
  node      \* the file system: kind, openness, author, entry and length

callVars == <<archive, created, leads>>
loopVars == <<pos, count, total, moved, seen>>
vars == <<pc, callVars, loopVars, node>>

Ended == {"ok", "failed", "crashed"}
Label == {"begin", "stat", "next", "create", "copy", "adjust", "cleanup"} \cup Ended

NodeState == [kind: {"none", "dir", "file", "link"}, open: BOOLEAN,
              of: Call \cup {Nobody}, at: Nat, len: 0..MaxInt]
Plain(kind, author) ==
  [kind |-> kind, open |-> TRUE, of |-> author, at |-> 0, len |-> 0]
Missing   == Plain("none", Nobody)
NewDir(c) == Plain("dir", c)

Exists(n) == node[n].kind # "none"
Shut(n)   == node[n].kind = "dir" /\ ~node[n].open

(* What the system finds under the name n, following the links still there. *)
Real(n) == IF \E l \in Above[n] \cup {n} : node[l].kind = "link" THEN leads[n] ELSE n

(* The process can look up n: no ancestor refuses the search. *)
Reachable(n) == \A a \in Above[n] \cup Above[Real(n)] : ~Shut(a)

Init ==
  /\ pc = [c \in Call |-> "begin"]
  /\ archive \in [Call -> UNION {Archives[c] : c \in Call}]
  /\ \A c \in Call : archive[c] \in Archives[c]
  /\ pos = [c \in Call |-> 1]
  /\ count = [c \in Call |-> 0]
  /\ total = [c \in Call |-> 0]
  /\ moved = [c \in Call |-> 0]
  /\ created = [c \in Call |-> FALSE]
  /\ seen = [c \in Call |-> {}]
  /\ leads \in Layouts
  /\ \E kind \in [Node -> {"none", "dir", "file", "link"}] :
       /\ \A n \in Node : \A a \in Above[n] : kind[n] # "none" => kind[a] = "dir"
       /\ \A n \in Node : kind[n] # "none" => (kind[n] = "link" <=> leads[n] # n)
       /\ \A n \in Node : leads[n] # n => \E l \in Above[n] \cup {n} : kind[l] = "link"
       /\ node = [n \in Node |-> Plain(kind[n], Nobody)]

-----------------------------------------------------------------------------

Goto(c, from, to) == pc[c] = from /\ pc' = [pc EXCEPT ![c] = to]

At(c)   == archive[c][pos[c]]
Over(c) == pos[c] > Len(archive[c])

(* Path expansion and opening the source, before the cleanup is deferred. *)
Begin(c) ==
  /\ Goto(c, "begin", "stat") \/ Goto(c, "begin", "failed")
  /\ UNCHANGED <<callVars, loopVars, node>>

(* zip rejects an archive of too many entries before it extracts any. *)
TooMany(c) == Format[c] = "zip" /\ Len(archive[c]) > FilesLimit(c)

CreatedNever(c)  == FALSE  \* mutant: partial output is never removed
CreatedAlways(c) == TRUE   \* mutant: the destination is removed regardless

(* os.Stat(dst), which follows a link, says that nothing is there: only then *)
(* is the destination, or a link that leads nowhere, the call's to remove.   *)
(* A file above it or a refused search is another error.                     *)
Created(c) ==
  /\ ~Exists(Real(Root[c]))
  /\ \A a \in Above[Root[c]] \cup Above[Real(Root[c])] : node[a].kind # "file" /\ ~Shut(a)

StatDst(c) ==
  /\ Goto(c, "stat", IF TooMany(c) THEN "cleanup" ELSE "next")
  /\ created' = [created EXCEPT ![c] = Created(c)]
  /\ UNCHANGED <<archive, leads, loopVars, node>>

(* The next tar header does not parse; zip has read its directory already. *)
HeaderFails(c) ==
  /\ Format[c] = "tar" /\ Goto(c, "next", "cleanup")
  /\ UNCHANGED <<callVars, loopVars, node>>

(* A tar entry counts unless it is a PAX header. *)
Counts(c) == Format[c] = "tar" /\ At(c).kind # "meta"

(* The count and the declared size, which zip also checks of directories. *)
Rejected(c) ==
  \/ Counts(c) /\ count[c] + 1 > FilesLimit(c)
  \/ /\ At(c).declared > MaxEntry(c)
     /\ Format[c] = "zip" \/ At(c).kind = "file"

Count(c) == count' = [count EXCEPT ![c] = IF Counts(c) THEN @ + 1 ELSE @]

SkipMeta(c) ==
  /\ Goto(c, "next", "next") /\ ~Over(c) /\ At(c).kind = "meta"
  /\ pos' = [pos EXCEPT ![c] = @ + 1]
  /\ UNCHANGED <<callVars, count, total, moved, seen, node>>

Reject(c) ==
  /\ Goto(c, "next", "cleanup") /\ ~Over(c) /\ At(c).kind # "meta"
  /\ Rejected(c)
  /\ Count(c)
  /\ UNCHANGED <<callVars, pos, total, moved, seen, node>>

(* os.MkdirAll of n by c makes every missing directory down to n, also those *)
(* below the target of a link, but not the target of a link itself.          *)
CanMkdirAll(n) ==
  \A a \in Above[n] \cup {n} :
    /\ Reachable(a)
    /\ node[Real(a)].kind = "dir" \/ (~Exists(Real(a)) /\ ~Exists(a))

MkdirAll(c, paths) ==
  LET made == {Real(a) : a \in paths} IN
  node' = [m \in Node |-> IF m \in made /\ ~Exists(m) THEN NewDir(c) ELSE node[m]]

(* A directory entry; tar remembers it so that its mode is set at the end. *)
ExtractDir(c) ==
  /\ pc[c] = "next" /\ ~Over(c) /\ At(c).kind = "dir" /\ ~Rejected(c)
  /\ Count(c)
  /\ \/ /\ CanMkdirAll(At(c).name)
        /\ Goto(c, "next", "next")
        /\ MkdirAll(c, Above[At(c).name] \cup {At(c).name})
        /\ pos' = [pos EXCEPT ![c] = @ + 1]
        /\ seen' = [seen EXCEPT ![c] =
                     IF Format[c] = "zip" THEN @
                     ELSE {i \in @ : archive[c][i].name # At(c).name} \cup {pos[c]}]
     \/ Goto(c, "next", "cleanup") /\ UNCHANGED <<pos, seen, node>>
  /\ UNCHANGED <<callVars, total, moved>>

(* The parents of a file entry. *)
MakeParents(c) ==
  /\ pc[c] = "next" /\ ~Over(c) /\ At(c).kind = "file" /\ ~Rejected(c)
  /\ Count(c)
  /\ \/ /\ \A a \in Above[At(c).name] : CanMkdirAll(a)
        /\ Goto(c, "next", "create")
        /\ MkdirAll(c, Above[At(c).name])
     \/ Goto(c, "next", "cleanup") /\ UNCHANGED node
  /\ UNCHANGED <<callVars, pos, total, moved, seen>>

(* O_CREATE|O_TRUNC follows a link, and makes what a link to nothing names; a *)
(* file that exists must be writable and keeps its mode.                      *)
CanCreate(n) ==
  /\ Reachable(n)
  /\ \A a \in Above[Real(n)] : node[a].kind = "dir"
  /\ ~Exists(Real(n)) \/ (node[Real(n)].kind = "file" /\ node[Real(n)].open)

Create(c) ==
  LET n == Real(At(c).name) IN
  /\ pc[c] = "create"
  /\ \/ /\ CanCreate(At(c).name)
        /\ Goto(c, "create", "copy")
        /\ moved' = [moved EXCEPT ![c] = 0]
        /\ node' = [node EXCEPT ![n] =
                     [kind |-> "file", of |-> c, at |-> pos[c], len |-> 0,
                      open |-> IF Exists(n) THEN node[n].open ELSE At(c).open]]
     \/ Goto(c, "create", "cleanup") /\ UNCHANGED <<moved, node>>
  /\ UNCHANGED <<callVars, pos, count, total, seen>>

OverBudgetLate(c)  == total[c] > MaxTotal(c)  \* mutant: charged after the write
OverBudgetNever(c) == FALSE                   \* mutant: declared sizes are trusted

(* limitWriter charges a chunk to the budget before it is written. *)
OverBudget(c) == total[c] + 1 > MaxTotal(c)

(* The write goes to the file c opened, wherever its name is by now. *)
CopyChunk(c) ==
  /\ pc[c] = "copy" /\ moved[c] < At(c).size
  /\ total' = [total EXCEPT ![c] = @ + 1]
  /\ \/ /\ ~OverBudget(c)
        /\ Goto(c, "copy", "copy")
        /\ moved' = [moved EXCEPT ![c] = @ + 1]
        /\ node' = [m \in Node |->
                     IF node[m].kind = "file" /\ node[m].of = c /\ node[m].at = pos[c]
                       THEN [node[m] EXCEPT !.len = @ + 1] ELSE node[m]]
     \/ Goto(c, "copy", "cleanup") /\ UNCHANGED <<moved, node>>
  /\ UNCHANGED <<callVars, pos, count, seen>>

(* The entry ends, is closed, and tar sets its times by name. *)
CopyDone(c) ==
  /\ pc[c] = "copy" /\ moved[c] = At(c).size
  /\ \/ /\ ~At(c).broken
        /\ Format[c] = "tar" => Exists(Real(At(c).name)) /\ Reachable(At(c).name)
        /\ Goto(c, "copy", "next")
        /\ pos' = [pos EXCEPT ![c] = @ + 1]
     \/ Goto(c, "copy", "cleanup") /\ UNCHANGED pos
  /\ UNCHANGED <<callVars, count, total, moved, seen, node>>

AfterEndNoModes(c) == IF archive[c] = <<>> THEN "cleanup" ELSE "ok"  \* mutant

(* End of the archive: an archive without any header is an error to tar. *)
AfterEnd(c) ==
  CASE Format[c] = "zip" -> "ok"
    [] archive[c] = <<>> -> "cleanup"
    [] OTHER -> "adjust"

ArchiveEnds(c) ==
  /\ Over(c) /\ Goto(c, "next", AfterEnd(c))
  /\ UNCHANGED <<callVars, loopVars, node>>

(* The range over seenDirs visits directories in any order.  os.Chmod may    *)
(* fail, and after it os.Chtimes, which leaves the mode as it was just set.  *)
Adjust(c) ==
  /\ pc[c] = "adjust"
  /\ \E i \in seen[c] :
       LET n == Real(archive[c][i].name) IN
       \/ /\ Exists(n) /\ Reachable(archive[c][i].name)
          /\ node' = [node EXCEPT ![n].open = archive[c][i].open]
          /\ \/ Goto(c, "adjust", "adjust") /\ seen' = [seen EXCEPT ![c] = @ \ {i}]
             \/ Goto(c, "adjust", "cleanup") /\ UNCHANGED seen
       \/ Goto(c, "adjust", "cleanup") /\ UNCHANGED <<seen, node>>
  /\ UNCHANGED <<callVars, pos, count, total, moved>>

AdjustDone(c) ==
  /\ seen[c] = {} /\ Goto(c, "adjust", "ok")
  /\ UNCHANGED <<callVars, loopVars, node>>

Under(r) == {n \in Node : n = r \/ r \in Above[n]}

(* os.RemoveAll(r) cannot empty a directory it may not search and write.     *)
Kept(r) ==
  {n \in Under(r) : \E k \in Under(r) : /\ Exists(k) /\ (k = n \/ n \in Above[k])
                                        /\ \E a \in Above[k] \cap Under(r) : Shut(a)}

(* RemoveOnError, deferred: os.RemoveAll removes a link and not what it      *)
(* leads to, and what it returns is ignored.                                 *)
Cleanup(c) ==
  /\ Goto(c, "cleanup", "failed")
  /\ node' = [n \in Node |->
               IF created[c] /\ n \in Under(Root[c]) \ Kept(Root[c])
                 THEN Missing ELSE node[n]]
  /\ UNCHANGED <<callVars, loopVars>>

Crash(c) ==
  /\ pc[c] \notin Ended \cup {"begin"}
  /\ pc' = [pc EXCEPT ![c] = "crashed"]
  /\ UNCHANGED <<callVars, loopVars, node>>

Step(c) ==
  \/ Begin(c) \/ StatDst(c) \/ HeaderFails(c) \/ SkipMeta(c) \/ Reject(c)
  \/ ExtractDir(c) \/ MakeParents(c) \/ Create(c) \/ CopyChunk(c) \/ CopyDone(c)
  \/ ArchiveEnds(c) \/ Adjust(c) \/ AdjustDone(c) \/ Cleanup(c)

Next == \E c \in Call : Step(c) \/ Crash(c)

Spec == Init /\ [][Next]_vars

(* An expander takes no context: only the scheduler is assumed to be fair. *)
FairSpec == Spec /\ \A c \in Call : WF_vars(Step(c))

-----------------------------------------------------------------------------
(* Properties. *)

TypeOK ==
  /\ pc \in [Call -> Label]
  /\ \A c \in Call : archive[c] \in Archives[c]
  /\ pos \in [Call -> Nat \ {0}] /\ \A c \in Call : pos[c] <= Len(archive[c]) + 1
  /\ \A c \in Call : pc[c] \in {"create", "copy"} => pos[c] <= Len(archive[c])
  /\ count \in [Call -> Nat]
  /\ total \in [Call -> Nat] /\ \A c \in Call : total[c] <= MaxTotal(c) + 1
  /\ moved \in [Call -> 0..MaxInt]
  /\ created \in [Call -> BOOLEAN]
  /\ leads \in Layouts
  /\ seen \in [Call -> SUBSET Nat] /\ \A c \in Call : seen[c] \subseteq 1..Len(archive[c])
  /\ node \in [Node -> NodeState]

(* No link is in c's destination or leads into it. *)
Unlinked(c) ==
  \A n \in Node : leads[n] # n =>
    {n, leads[n]} \cap (Under(Root[c]) \cup Above[Root[c]]) = {}

(* No other call extracts into c's destination, above it or below it. *)
Alone(c) ==
  /\ \A d \in Call \ {c} : Root[d] \notin Under(Root[c]) /\ Root[c] \notin Under(Root[d])
  /\ Unlinked(c)

(* The units and the files on disk that c wrote. *)
UnitsOf(c) ==
  {u \in Node \X (1..MaxInt) : node[u[1]].of = c /\ u[2] <= node[u[1]].len}
FilesOf(c) == {n \in Node : node[n].kind = "file" /\ node[n].of = c}

(***************************************************************************)
(* At every moment the files an archive has put on disk hold no more than  *)
(* the total limit allows, counted in delivered and not in declared units, *)
(* and number no more than the entry limit.                                *)
(***************************************************************************)
WithinLimits ==
  \A c \in Call : /\ Cardinality(UnitsOf(c)) <= MaxTotal(c)
                  /\ Cardinality(FilesOf(c)) <= FilesLimit(c)

(* The last entry of its name: what an earlier one left is overwritten. *)
Final(a, i) ==
  a[i].kind # "meta" /\ \A j \in i + 1..Len(a) : a[j].name = a[i].name => a[j].kind = "meta"

Delivered(c, i) ==
  LET e == archive[c][i] IN
  IF e.kind = "dir"
    THEN /\ node[e.name].kind = "dir"
         /\ Format[c] = "tar" => node[e.name].open = e.open
    ELSE /\ node[e.name].kind = "file" /\ node[e.name].of = c
         /\ node[e.name].at = i /\ node[e.name].len = e.size
         /\ ~e.broken

(***************************************************************************)
(* An extraction that returns no error has put every entry on disk, whole, *)
(* and every tar directory has the mode of its header, although the modes  *)
(* are set last and in any order.                                          *)
(***************************************************************************)
SuccessIsComplete ==
  \A c \in Call : pc[c] = "ok" /\ Alone(c) =>
    \A i \in 1..Len(archive[c]) : Final(archive[c], i) => Delivered(c, i)

(* The destination is empty, or somebody else's. *)
NothingLeft(c) ==
  \/ \A n \in Under(Root[c]) : ~Exists(n)
  \/ Exists(Root[c]) /\ node[Root[c]].of = Nobody

(***************************************************************************)
(* A failed extraction leaves partial output only in a destination that    *)
(* was there before it; one that did not exist is gone again.              *)
(***************************************************************************)
FailedLeavesNothing ==
  \A c \in Call : pc[c] = "failed" /\ Alone(c) => NothingLeft(c)

(* No entry replaces the destination itself with a file, and none lies below *)
(* a directory entry whose mode refuses to be searched.                      *)
Removable(c) ==
  LET a == archive[c] IN
  /\ \A i \in 1..Len(a) : a[i].kind = "file" => a[i].name # Root[c]
  /\ \A i, j \in 1..Len(a) :
       /\ a[i].kind = "dir" /\ ~a[i].open
       /\ a[j].kind # "meta"
       => a[i].name \notin Above[a[j].name]

(***************************************************************************)
(* The same of the archives for which it is true: whatever fails, and      *)
(* although directories are shut one by one at the end, os.RemoveAll can   *)
(* still empty a destination the call created.                             *)
(***************************************************************************)
FailedRemoved ==
  \A c \in Call : pc[c] = "failed" /\ Alone(c) /\ Removable(c) => NothingLeft(c)

(* An entry names n, or a link that leads to n. *)
Aimed(n) ==
  \E c \in Call : \E i \in 1..Len(archive[c]) : leads[archive[c][i].name] = n

(***************************************************************************)
(* What was there before any call outlives every extraction, failed or     *)
(* not, and no step changes it, in a destination or beside it, whatever    *)
(* links the destination holds.  Two exceptions: what an entry names       *)
(* itself or through a link, and a destination that is a link.             *)
(***************************************************************************)
PreexistingKept ==
  [][\A n \in Node :
       /\ Exists(n) /\ node[n].of = Nobody /\ ~Aimed(n)
       /\ node[n].kind = "link" => \A c \in Call : n # Root[c]
       => node'[n] = node[n]]_vars

(***************************************************************************)
(* A destination that was there before every call is never removed.        *)
(***************************************************************************)
DestinationKept ==
  [][\A c \in Call :
       Exists(Root[c]) /\ node[Root[c]].of = Nobody => node'[Root[c]].kind # "none"]_vars

(***************************************************************************)
(* A call removes a destination only if it created it.                     *)
(***************************************************************************)
OnlyCreatorRemoves ==
  [][\A c \in Call :
       pc[c] = "cleanup" /\ pc'[c] = "failed" /\ Exists(Root[c])
         /\ node'[Root[c]].kind = "none"
       => node[Root[c]].of = c]_vars
=============================================================================
