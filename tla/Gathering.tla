------------------------------- MODULE Gathering -------------------------------
(***************************************************************************)
(* Concurrent calls of the file, git and OCI gatherers on one file tree,   *)
(* and what a caller may do with a result: gather the pinned source again. *)
(***************************************************************************)
EXTENDS FileGather, GitGather, OciGather
LOCAL INSTANCE FiniteSetsExt

CONSTANTS
  Tree0,    \* the tree before the calls
  Scenario  \* what the calls may be asked: functions from Call to jobs

VARIABLE first  \* of a call that gathers again: what it gathered before

vars == <<pc, callVars, fs, copyVars, gitVars, ociVars, first>>

(* What a call may be asked. *)
FileJob == [kind: {"file"}, src: Path, dst: Path, home: SUBSET Path]
GitUrl  == [ref: [kind: {"none", "branch", "hash", "unknown"}, hash: Nat],
            depth: Nat \cup {BadDepth}, depthFirst: BOOLEAN, pathSub: Path, querySub: Path]
GitJob  == [kind: {"git"}, url: GitUrl, dst: Path, root: Path, again: Path]
OciJob  == [kind: {"oci"}, ref: Nat, host: {"remote", "loopback", "ipv6"},
            serves: {"http", "https"}, tls: {"unset", "on", "off"}, retrying: BOOLEAN,
            dst: Path, again: Path]

ASSUME ScenarioAssumption == Scenario \subseteq [Call -> FileJob \cup GitJob \cup OciJob]

(* One of two paths lies in the other. *)
Overlap(p, q) == \A i \in 1..Len(p) : i <= Len(q) => p[i] = q[i]

Owners(jobs) == {c \in Call : jobs[c].kind = "git"}

(* Where a call may write besides its temporary directory. *)
Targets(j) ==
  LET home == IF j.kind = "file" /\ j.dst # <<>> THEN {h \o Tail(j.dst) : h \in j.home} ELSE {}
      again == IF j.kind = "file" THEN {} ELSE {j.again} \ {<<>>}
      given == {j.dst} \cup home \cup again
  IN  given \cup {UrlPath(p) : p \in given}

(* Trees are functions on paths, and a link of a commit leads somewhere. *)
ASSUME SourceAssumption ==
  /\ \A t \in {Tree0} \cup {Commits[n] : n \in DOMAIN Commits} :
       \A p \in DOMAIN t : p \in Path /\ t[p] \in Node
  /\ \A n \in DOMAIN Commits : \A p \in DOMAIN Commits[n] :
       Commits[n][p].kind = "link" => p # <<>> /\ Commits[n][p].to # <<>>
  /\ Len(Commits) \in Nat \ {0} /\ DOMAIN Commits = 1..Len(Commits)
  /\ \A m \in DOMAIN Artifact : m \in Nat \ {0} /\ DOMAIN Artifact[m] \subseteq Name
  /\ DotGit \in Name /\ Inner \in Name

(* A commit is a directory, and git tracks no entry of the name it uses. *)
ASSUME CommitAssumption ==
  \A n \in DOMAIN Commits : <<>> \in DOMAIN Commits[n] /\ <<DotGit>> \notin DOMAIN Commits[n]

Leads(t) == {p \in DOMAIN t : t[p].kind = "link"}

(* os.MkdirTemp makes a directory of a name nobody knows: it is not there,   *)
(* no link leads into it, and it is no part of what another call is given.   *)
ASSUME TemporaryAssumption ==
  \A jobs \in Scenario :
    /\ \A d \in Call : Targets(jobs[d]) \subseteq Path
    /\ \A c \in Owners(jobs) :
         LET root == jobs[c].root IN
         /\ root \in Path \ {<<>>}
         /\ \A d \in Call : \A p \in Targets(jobs[d]) : ~Overlap(p, root)
         /\ \A d \in Owners(jobs) \ {c} : ~Overlap(jobs[d].root, root)
         /\ \A p \in DOMAIN Tree0 : ~Under(p, root)
         /\ \A p \in Leads(Tree0) : ~Overlap(p, root) /\ ~Overlap(Tree0[p].to, root)
         /\ \A n \in DOMAIN Commits : \A p \in Leads(Commits[n]) :
              Commits[n][p].to[1] = Outside => ~Overlap(Tail(Commits[n][p].to), root)

Before == [meta |-> {}, dst |-> <<>>, exact |-> FALSE]

Init ==
  /\ job \in Scenario
  /\ pc = [c \in Call |-> "begin"]
  /\ meta = [c \in Call |-> {}]
  /\ fault = [c \in Call |-> "none"]
  /\ cancelled = [c \in Call |-> FALSE]
  /\ fs = Tree0
  /\ stack = [c \in Call |-> <<>>]
  /\ cur = [c \in Call |-> NoFile]
  /\ tip = 1
  /\ clone = [c \in Call |-> NoClone]
  /\ tag = 1
  /\ pull = [c \in Call |-> NoPull]
  /\ first = [c \in Call |-> Before]

Ended(c) == pc[c] \in {"ok", "failed", "panic", "crashed"}

(* Up to where a gather looks at its context for the last time. *)
UsesContext(c) ==
  pc[c] \in {"begin", "stat", "sniff", "expander", "expand", "parse",
             "tmp", "init", "fetch", "store", "resolve", "pull"}

(* Bound: one call is cancelled, while that makes a difference. *)
Cancel(c) ==
  /\ (\A d \in Call : ~cancelled[d]) /\ UsesContext(c)
  /\ cancelled' = [cancelled EXCEPT ![c] = TRUE]
  /\ UNCHANGED <<pc, job, meta, fault, fs, copyVars, gitVars, ociVars, first>>

Crash(c) ==
  /\ ~Ended(c) /\ pc[c] # "begin"
  /\ pc' = [pc EXCEPT ![c] = "crashed"]
  /\ Suffers(c, "crash")
  /\ UNCHANGED <<job, meta, cancelled, fs, copyVars, gitVars, ociVars, first>>

(* GetPinnedURL of the metadata; an OCI digest overrides a tag. *)
Pinned(c) ==
  LET n == CHOOSE m \in meta[c] : TRUE
      j == [job[c] EXCEPT !.dst = job[c].again, !.again = <<>>]
  IN  IF IsGit(c) THEN [j EXCEPT !.url = GitPinned(@, n)] ELSE [j EXCEPT !.ref = n]

(* The caller gathers the pinned source into another directory. *)
Again(c) ==
  /\ pc[c] = "ok" /\ job[c].kind \in {"git", "oci"} /\ job[c].again # <<>> /\ fault[c] = "none"
  /\ ~cancelled[c]
  /\ pc' = [pc EXCEPT ![c] = "begin"]
  /\ job' = [job EXCEPT ![c] = Pinned(c)]
  /\ meta' = [meta EXCEPT ![c] = {}]
  /\ first' = [first EXCEPT ![c] = [meta |-> meta[c], dst |-> job[c].dst,
                 exact |-> IsGit(c) => job[c].url.querySub = <<>>]]
  /\ clone' = [clone EXCEPT ![c] = NoClone]
  /\ pull' = [pull EXCEPT ![c] = NoPull]
  /\ UNCHANGED <<fault, cancelled, fs, copyVars, tip, tag>>

(* What a call does without a server's answer, what with it, and what ends *)
(* a wait.                                                                   *)
Local(c) ==
  \/ (CopyStep(c) \/ FileStep(c)) /\ UNCHANGED <<gitVars, ociVars, first>>
  \/ GitStep(c) /\ UNCHANGED <<ociVars, first>>
  \/ OciStep(c) /\ UNCHANGED <<gitVars, first>>

Answered(c) ==
  \/ Fetch(c) /\ UNCHANGED <<ociVars, first>>
  \/ (Resolve(c) \/ \E t \in pull[c].todo : Pull(c, t)) /\ UNCHANGED <<gitVars, first>>

Unanswered(c) ==
  \/ FetchFails(c) /\ UNCHANGED <<ociVars, first>>
  \/ RequestFails(c) /\ UNCHANGED <<gitVars, first>>

(* A server's changes matter as long as a call may yet ask it. *)
Asks(c) == \/ ~Ended(c) /\ clone[c].have = {}
           \/ pc[c] # "crashed" /\ job[c].again # <<>>

Elsewhere ==
  \/ (\E c \in Call : IsGit(c) /\ Asks(c)) /\ PushCommit /\ UNCHANGED <<ociVars, first>>
  \/ (\E c \in Call : IsOci(c) /\ Asks(c)) /\ MoveTag /\ UNCHANGED <<gitVars, first>>

Next ==
  \/ \E c \in Call :
       \/ Local(c) \/ Answered(c) \/ Unanswered(c)
       \/ Repeat(c) /\ UNCHANGED <<gitVars, first>>
       \/ Cancel(c) \/ Crash(c) \/ Again(c)
  \/ Elsewhere

Spec == Init /\ [][Next]_vars

(* The scheduler runs a call that needs nobody's answer; a cancelled context *)
(* ends a wait.  No server has to answer.                                    *)
Fairness == \A c \in Call : WF_vars(Local(c) \/ (Interrupted(c) /\ Unanswered(c)))

FairSpec == Spec /\ Fairness

-----------------------------------------------------------------------------
(* Properties. *)

Label == CopyLabel \cup FileLabel \cup
  {"begin", "tmp", "init", "fetch", "checkout", "subdir", "head", "cleanup",
   "store", "resolve", "pull", "closing", "ok", "failed", "panic", "crashed"}

(* The variables have their types, and the tree is one: whatever is in it is *)
(* in a directory.                                                           *)
TypeOK ==
  /\ pc \in [Call -> Label]
  /\ meta \in [Call -> SUBSET Nat]
  /\ fault \in [Call -> {"none", "op", "lost", "stray", "crash"}]
  /\ cancelled \in [Call -> BOOLEAN]
  /\ \A p \in DOMAIN fs : fs[p] \in Node /\ (p # <<>> => Is(Parent(p), "dir"))
  /\ \A c \in Call : Len(stack[c]) <= PathMax
  /\ tip \in 1..Len(Commits) /\ tag \in DOMAIN Artifact
  /\ \A c \in Call : clone[c].head \in 0..tip /\ pull[c].tries \in 0..Retries

(* Where c has written, or may. *)
Occupied(c) == {Real(job[c].dst), Real(UrlPath(job[c].dst)), first[c].dst} \ {<<>>}

(* No other call writes where c reads and writes. *)
Apart(c) ==
  \A d \in Call \ {c} : \A p \in Occupied(d) :
    /\ \A q \in Occupied(c) : ~Overlap(p, q)
    /\ IsFile(c) => ~Overlap(p, Real(job[c].src))

Delivered(c, kind) ==
  pc[c] = "ok" /\ job[c].kind = kind /\ Apart(c) /\ fault[c] # "lost"

SameFile(p, q) == Is(q, "file") /\ fs[q].data = fs[p].data /\ fs[q].mode = fs[p].mode

(***************************************************************************)
(* A directory copied without error is there entry for entry, files with   *)
(* their data and mode, links with what they lead to.                      *)
(***************************************************************************)
CopyDelivers ==
  \A c \in Call : Delivered(c, "file") /\ IsDir(job[c].src) =>
    \A q \in Tree(Real(job[c].src)) :
      LET t == Real(job[c].dst \o Rest(q, Real(job[c].src))) IN
      IF Is(q, "dir") THEN Is(t, "dir") ELSE SameFile(Real(q), t)

Saves(c) == Is(Real(job[c].src), "file") /\ ~HasMagic(Tree0[Real(job[c].src)].data)

(***************************************************************************)
(* gather/file/file.go:165: save copies from a filesystem source to a      *)
(* filesystem destination, so the destination then has what the source had.*)
(***************************************************************************)
SaveDelivers ==
  \A c \in Call : pc[c] = "ok" /\ IsFile(c) /\ fault[c] = "none" /\ Saves(c) =>
    LET p == Real(job[c].dst) IN
    p \in DOMAIN fs /\ fs[p].data = Tree0[Real(job[c].src)].data

(***************************************************************************)
(* README.md:18: deferred Close errors are propagated, so a file that      *)
(* could not be closed is not reported as gathered.                        *)
(***************************************************************************)
CloseErrorsPropagate == \A c \in Call : fault[c] = "lost" => pc[c] # "ok"

Length(p) == IF Is(Real(p), "file") THEN Len(fs[Real(p)].data) ELSE 0

(***************************************************************************)
(* The size of the metadata is that of the source, for a destination that  *)
(* was not there: all files of a directory at every depth, the content of  *)
(* an archive, the bytes of a file.                                        *)
(***************************************************************************)
SizeReported ==
  \A c \in Call : Delivered(c, "file") /\ job[c].dst \notin DOMAIN Tree0 =>
    LET s == Real(job[c].src)
        marks == IF IsDir(s) \/ Saves(c) THEN 0 ELSE 1
    IN  meta[c] = {MapThenSumSet(Length, Tree(s)) - marks}

(***************************************************************************)
(* A clone without error is the tree of the commit it reports, and that is *)
(* the one asked for; of a subdirectory, exactly its entries, with the     *)
(* files that links lead to.                                               *)
(***************************************************************************)
CloneDelivers ==
  \A c \in Call : Delivered(c, "git") /\ job[c].dst \notin DOMAIN Tree0 =>
    LET n == CHOOSE m \in meta[c] : TRUE
        sub == Subdir(Url(c))
        t == Commits[n]
        target(q) == IF Temporary(c) /\ t[q].kind = "link" THEN t[q].to ELSE q
        wanted == {q \in DOMAIN t : Under(q, sub)}
        dst == job[c].dst
    IN
    /\ Url(c).ref.kind = "hash" => n = Url(c).ref.hash
    /\ Tree(dst) = {dst \o Rest(q, sub) : q \in wanted}
                     \cup (IF Temporary(c) THEN {} ELSE {Append(dst, DotGit)})
    /\ \A q \in wanted :
         LET p == dst \o Rest(q, sub) IN
         fs[p].kind = t[target(q)].kind /\ fs[p].data = t[target(q)].data

(***************************************************************************)
(* An artifact pulled without error is there blob for blob, as the digest  *)
(* that is reported has it, wherever the tag has moved meanwhile.          *)
(***************************************************************************)
ArtifactDelivers ==
  \A c \in Call : Delivered(c, "oci") =>
    \A m \in meta[c] : \A t \in DOMAIN Artifact[m] :
      LET p == Real(Append(job[c].dst, t)) IN
      Is(p, "file") /\ fs[p].data = Artifact[m][t]

Image(p) == [r \in {Rest(q, p) : q \in Tree(p)} |-> <<fs[p \o r].kind, fs[p \o r].data>>]

(***************************************************************************)
(* Gathering the pinned source reports the commit or digest of the first   *)
(* time, wherever branch and tag have gone and whatever other calls do.    *)
(***************************************************************************)
PinnedReportsSame ==
  \A c \in Call : pc[c] = "ok" /\ first[c].meta # {} => meta[c] = first[c].meta

(***************************************************************************)
(* It also gives the same files, unless the first source named its         *)
(* subdirectory in the query, which pinning drops.                         *)
(***************************************************************************)
PinnedGathersSame ==
  \A c \in Call :
    pc[c] = "ok" /\ first[c].meta # {} /\ first[c].exact /\ Apart(c) /\ fault[c] # "lost" =>
      Image(job[c].dst) = Image(first[c].dst)

(* The directories a copy has listed: the innermost only once it got there. *)
Listed(c) ==
  1..(IF pc[c] \in {"enter", "mkdir", "chdir", "list"} THEN Len(stack[c]) - 1 ELSE Len(stack[c]))

(***************************************************************************)
(* Whatever links a repository has, a confined copy has listed directories *)
(* and has a file open below the clone's root only, and what its paths     *)
(* lead to stays there while other calls change the tree.                  *)
(***************************************************************************)
ReadsConfined ==
  \A c \in Call : IsGit(c) /\ pc[c] \in CopyLabel =>
    /\ pc[c] = "write" => Under(Real(cur[c].src), job[c].root)
    /\ \A i \in Listed(c) : Under(Real(stack[c][i].src), job[c].root)

(***************************************************************************)
(* A call that returned has removed its temporary clone, unless the        *)
(* removal itself failed.                                                  *)
(***************************************************************************)
CloneRemoved ==
  \A c \in Call : IsGit(c) /\ pc[c] \in {"ok", "failed"} /\ fault[c] # "stray" =>
    Tree(job[c].root) = {}

(***************************************************************************)
(* A result is either metadata or an error, also when the error comes from *)
(* a deferred Close after the metadata was made.                           *)
(***************************************************************************)
MetadataOrError ==
  \A c \in Call : /\ pc[c] = "ok" => meta[c] # {}
                  /\ pc[c] \in {"failed", "panic"} => meta[c] = {}

Changed(p) == (p \in DOMAIN fs) # (p \in DOMAIN fs') \/ (p \in DOMAIN fs /\ fs[p] # fs'[p])

(* The step is one of c's. *)
Acts(c) == pc'[c] # pc[c] \/ cur'[c] # cur[c] \/ pull'[c] # pull[c]

(* A call told to write at dst may change what is below it, and make the     *)
(* directories above; a clone its temporary directory; a copy or a pull,     *)
(* which open names that exist, what a link below dst leads to.              *)
Entitled(c, dst, p) ==
  LET d == Real(dst) IN
  \/ Under(p, d)
  \/ Under(d, p) /\ p \notin DOMAIN fs
  \/ IsGit(c) /\ Under(p, job[c].root)
  \/ /\ pc[c] \in CopyLabel \cup {"pull"}
     /\ \E q \in Tree(d) : Is(q, "link") /\ Under(p, fs[q].to)

Saving(c) == IsFile(c) /\ stack[c] = <<>> /\ pc[c] \in {"create", "write", "close"}

(***************************************************************************)
(* Whatever changes is changed by a step of a call that was itself told to *)
(* write there: what another call was given entitles it to nothing, and no *)
(* source or neighbour changes unless a link in its destination leads to   *)
(* it.  Of a name with a # save writes what url.Parse leaves of it, so the *)
(* neighbour that has this name changes; SaveDelivers is about that.       *)
(***************************************************************************)
OnlyDestinationsChange ==
  [][\A p \in DOMAIN fs \cup DOMAIN fs' : Changed(p) =>
       \E c \in Call : Acts(c) /\ Entitled(c, IF Saving(c) THEN UrlPath(job[c].dst)
                                                           ELSE job[c].dst, p)]_vars

(***************************************************************************)
(* Every file gather ends, also a copy of a directory into itself, and     *)
(* every cancelled call ends, whatever the servers do.  Cancelled and ended *)
(* are for good, so this is one formula for all calls.                     *)
(***************************************************************************)
CallsEnd == <>[](\A c \in Call : IsFile(c) \/ cancelled[c] => Ended(c))
=============================================================================
