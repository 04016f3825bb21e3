------------------------------- MODULE GitGather -------------------------------
(***************************************************************************)
(* GitGatherer.Gather (gather/git/git.go): a clone of a branch that grows  *)
(* meanwhile, the checkout of a revision, and with a subdirectory a clone  *)
(* below a temporary root and a confined copy out of it.  go-git appears   *)
(* as what it leaves in the tree.  A job has dst, root, the temporary      *)
(* directory, and url, the parts of the source that processUrl tells       *)
(* apart.                                                                  *)
(***************************************************************************)
EXTENDS TreeCopy

CONSTANTS
  Commits,  \* commit -> its tree, a function on paths; number n is the n-th pushed
  DotGit,   \* the directory a clone keeps its objects in
  Outside   \* ".." in a subdirectory or, in a commit, a link out of it

VARIABLES
  tip,   \* the last commit of the branch on the server
  clone  \* of each call: the commits it fetched, the one checked out, and what
         \* its directory was before

gitVars == <<tip, clone>>

NoClone == [have |-> {}, head |-> 0, before |-> "missing"]
BadDepth == -1

IsGit(c) == job[c].kind = "git"
Url(c)   == job[c].url

(* processUrl: "//" in the path goes before one in the query. *)
Subdir(u) == IF u.pathSub # <<>> THEN u.pathSub ELSE u.querySub

(* A clone of a subdirectory is a temporary one. *)
Temporary(c) == Subdir(Url(c)) # <<>>
Base(c)      == IF Temporary(c) THEN job[c].root ELSE job[c].dst

(* GetPinnedURL cuts the source at "?ref=", wherever that leaves the rest: a  *)
(* depth in front of the ref swallows the new one.                            *)
GitPinned(u, head) ==
  CASE ~u.depthFirst ->
         [u EXCEPT !.ref = [kind |-> "hash", hash |-> head], !.querySub = <<>>, !.depth = 0]
    [] u.depthFirst /\ u.ref.kind = "none" -> [u EXCEPT !.depth = BadDepth]
    [] OTHER -> [u EXCEPT !.ref.kind = "unknown"]

(* A commit's tree at base; its links are relative to it. *)
Placed(n, base) ==
  LET t == Commits[n]
      node(q) == IF t[q].kind # "link" THEN [t[q] EXCEPT !.mode = @ \ Umask]
                 ELSE IF t[q].to[1] = Outside THEN [t[q] EXCEPT !.to = Tail(@)]
                 ELSE [t[q] EXCEPT !.to = base \o @]
  IN  [p \in {base \o q : q \in DOMAIN t} |-> node(Rest(p, base))]

-----------------------------------------------------------------------------

GitBegin(c) ==
  /\ IsGit(c)
  /\ Goto(c, "begin", IF cancelled[c] \/ Url(c).depth = BadDepth THEN "cleanup"
                      ELSE IF Temporary(c) THEN "tmp" ELSE "init")
  /\ UNCHANGED <<callVars, fs, copyVars, gitVars>>

MkTemp(c) ==
  /\ Goto(c, "tmp", "init")
  /\ fs' = Put(job[c].root, Dir(Permission \ Umask), fs)
  /\ UNCHANGED <<callVars, copyVars, gitVars>>

(* PlainCloneContext refuses a directory that is a repository already. *)
PlainInit(c) ==
  LET base == Entry(Base(c))
      git  == Append(Real(Base(c)), DotGit)
      new  == AfterMkdirAll(base, Permission)
      able == ~Exists(git) /\ (IsDir(Base(c)) => Writable(Real(base)))
              /\ (Is(base, "dir") \/ base \in DOMAIN new \ DOMAIN fs)
  IN
  /\ Goto(c, "init", IF able THEN "fetch" ELSE "cleanup")
  /\ IF able
       THEN /\ fs' = Put(git, Dir(Permission \ Umask), new)
            /\ clone' = [clone EXCEPT ![c] = [NoClone EXCEPT !.before =
                           IF base \notin DOMAIN fs THEN "missing"
                           ELSE IF Entries(base) = {} THEN "empty" ELSE "used"]]
       ELSE UNCHANGED <<fs, clone>>
  /\ UNCHANGED <<callVars, copyVars, tip>>

(* The branch's last commits, the newest checked out. *)
Fetch(c) ==
  LET d == Url(c).depth IN
  /\ pc[c] = "fetch" /\ Url(c).ref.kind # "unknown"
  /\ Goto(c, "fetch", IF Url(c).ref.kind # "none" THEN "checkout"
                      ELSE IF Temporary(c) THEN "subdir" ELSE "head")
  /\ fs' = Over(Placed(tip, Real(Base(c))), fs)
  /\ clone' = [clone EXCEPT ![c].have = {n \in 1..tip : d = 0 \/ n > tip - d}, ![c].head = tip]
  /\ UNCHANGED <<callVars, copyVars, tip>>

(* A failing clone removes a directory it made or found empty. *)
FetchFails(c) ==
  LET base == Real(Base(c))
      gone == CASE clone[c].before = "missing" -> Tree(base)
                [] clone[c].before = "empty" -> Tree(base) \ {base}
                [] OTHER -> {}
  IN
  /\ Goto(c, "fetch", "cleanup")
  /\ fs' = [p \in DOMAIN fs \ gone |-> fs[p]]
  /\ IF Url(c).ref.kind = "unknown" \/ Interrupted(c) THEN UNCHANGED fault
                                                      ELSE Suffers(c, "op")
  /\ UNCHANGED <<job, meta, cancelled, copyVars, gitVars>>

RevisionOfClone(c) == clone[c].head  \* mutant: the clone is left on its branch

(* ResolveRevision: a branch is what the clone has, a hash itself. *)
Revision(c) == IF Url(c).ref.kind = "hash" THEN Url(c).ref.hash ELSE clone[c].head

Checkout(c) ==
  LET n == Revision(c)
      base == Real(Base(c))
      old == DOMAIN Placed(clone[c].head, base)
      kept == [p \in DOMAIN fs \ (old \ {base}) |-> fs[p]]
      known == n \in clone[c].have
  IN
  /\ Goto(c, "checkout", IF ~known THEN "cleanup" ELSE IF Temporary(c) THEN "subdir" ELSE "head")
  /\ fs' = IF known THEN Over(Placed(n, base), kept) ELSE fs
  /\ clone' = IF known THEN [clone EXCEPT ![c].head = n] ELSE clone
  /\ UNCHANGED <<callVars, copyVars, tip>>

(* IsPathContained, then Stat, then the confined copy. *)
EnterSubdir(c) ==
  LET sub == Subdir(Url(c))
      there == sub[1] # Outside /\ Exists(job[c].root \o sub)
  IN
  /\ Goto(c, "subdir", IF there THEN "enter" ELSE "cleanup")
  /\ stack' = IF there THEN Push(c, Frame(job[c].root \o sub, job[c].dst, {})) ELSE stack
  /\ UNCHANGED <<callVars, fs, cur, gitVars>>

HeadOfTip(c) == tip  \* mutant: the commit is read from the server

HeadOf(c) == clone[c].head

HeadRef(c) ==
  /\ IsGit(c) /\ pc[c] \in {"head", "copied"} /\ pc' = [pc EXCEPT ![c] = "cleanup"]
  /\ meta' = [meta EXCEPT ![c] = {HeadOf(c)}]
  /\ UNCHANGED <<job, fault, cancelled, fs, copyVars, gitVars>>

Return(c) == Goto(c, "cleanup", IF meta[c] = {} THEN "failed" ELSE "ok")

CleanupOnSuccess(c) ==  \* mutant: the removal is not deferred
  /\ Return(c)
  /\ fs' = [p \in DOMAIN fs \ (IF meta[c] # {} THEN Tree(job[c].root) ELSE {}) |-> fs[p]]
  /\ UNCHANGED <<callVars, copyVars, gitVars>>

(* The deferred RemoveAll of the temporary directory. *)
Cleanup(c) ==
  /\ Return(c)
  /\ fs' = [p \in DOMAIN fs \ (IF Temporary(c) THEN Tree(job[c].root) ELSE {}) |-> fs[p]]
  /\ UNCHANGED <<callVars, copyVars, gitVars>>

(* Its error is discarded. *)
CleanupFails(c) ==
  /\ Return(c) /\ Temporary(c)
  /\ Suffers(c, "stray")
  /\ UNCHANGED <<job, meta, cancelled, fs, copyVars, gitVars>>

GitFault(c) ==
  /\ IsGit(c) /\ pc[c] \in {"tmp", "init", "checkout", "subdir", "head", "copied"}
  /\ pc' = [pc EXCEPT ![c] = "cleanup"]
  /\ Suffers(c, "op")
  /\ UNCHANGED <<job, meta, cancelled, fs, copyVars, gitVars>>

(* Somebody pushes to the branch. *)
PushCommit ==
  /\ tip < Len(Commits) /\ tip' = tip + 1
  /\ UNCHANGED <<pc, callVars, fs, copyVars, clone>>

GitStep(c) ==
  \/ GitBegin(c) \/ MkTemp(c) \/ PlainInit(c) \/ Checkout(c) \/ EnterSubdir(c)
  \/ HeadRef(c) \/ Cleanup(c) \/ CleanupFails(c) \/ GitFault(c)
=============================================================================
