------------------------------ MODULE FileGather ------------------------------
(***************************************************************************)
(* FileGatherer.Gather (gather/file/file.go): a directory is copied, an    *)
(* archive expanded, any other file saved.  A job has src, dst and home,   *)
(* the home directory as a set that is empty when it is not known.         *)
(***************************************************************************)
EXTENDS TreeCopy
LOCAL INSTANCE FiniteSetsExt

CONSTANTS
  Magic,    \* units that mark a file as an archive, when first in it
  Damaged,  \* a unit that no expander gets past
  Inner,    \* the name of the file inside an archive
  Format,   \* name -> what getExpander returns for it
  Stem,     \* name that url.Parse cuts short -> the part it keeps
  BadName   \* names url.Parse refuses

ASSUME FormatAssumption == Format \in [Name -> {"expander", "nil", "error"}]

IsFile(c) == job[c].kind = "file"

(* "~" is the first name of a path below the home directory. *)
ExpandPath(c, p) ==
  IF p # <<>> /\ p[1] = "~" THEN {h \o Tail(p) : h \in job[c].home} ELSE {p}

FileBegin(c) ==
  LET src == ExpandPath(c, job[c].src)
      dst == ExpandPath(c, job[c].dst)
      runs == ~cancelled[c] /\ src # {} /\ dst # {}
  IN
  /\ IsFile(c) /\ Goto(c, "begin", IF runs THEN "stat" ELSE "failed")
  /\ IF runs THEN \E s \in src, d \in dst : job' = [job EXCEPT ![c].src = s, ![c].dst = d]
             ELSE UNCHANGED job
  /\ UNCHANGED <<meta, fault, cancelled, fs, copyVars>>

FileStat(c) ==
  LET s == job[c].src IN
  /\ Goto(c, "stat", IF ~Exists(s) THEN "failed" ELSE IF IsDir(s) THEN "enter" ELSE "sniff")
  /\ stack' = IF IsDir(s) THEN Push(c, Frame(s, job[c].dst, {})) ELSE stack
  /\ UNCHANGED <<callVars, fs, cur>>

(* IsCompressedFile or IsTarFile; an empty file has nothing to compare. *)
HasMagic(data) == data # <<>> /\ data[1] \in Magic

Sniff(c) ==
  /\ Goto(c, "sniff", IF HasMagic(fs[Real(job[c].src)].data) THEN "expander" ELSE "parse")
  /\ UNCHANGED <<callVars, fs, copyVars>>

(* By suffix; a nil expander is called all the same. *)
GetExpander(c) ==
  LET found == Format[job[c].src[Len(job[c].src)]] IN
  /\ Goto(c, "expander",
          IF found = "expander" THEN "expand" ELSE IF found = "nil" THEN "panic" ELSE "failed")
  /\ UNCHANGED <<callVars, fs, copyVars>>

(* Expand as a single step: ArchiveExpand has its steps.  An archive without *)
(* entries makes nothing; one that fails removes a destination it made.      *)
Expand(c) ==
  LET dst  == Entry(job[c].dst)
      rest == Tail(fs[Real(job[c].src)].data)
      able == IsDir(job[c].dst) \/ dst \in Makeable(dst, Permission)
      room == AfterMkdirAll(dst, Permission)
      whole == Put(Append(Real(job[c].dst), Inner), File(Permission \ Umask, rest), room)
      made == IF rest = <<>> THEN fs ELSE whole
      fits == able /\ (IsDir(job[c].dst) => Writable(Real(job[c].dst)))
      good == Damaged \notin {rest[i] : i \in 1..Len(rest)} /\ (rest # <<>> => fits)
  IN
  /\ pc[c] = "expand"
  /\ \/ good /\ Goto(c, "expand", "copied") /\ fs' = made
     \/ /\ ~good \/ cancelled[c]
        /\ Goto(c, "expand", "failed")
        /\ fs' \in {fs} \cup (IF Exists(job[c].dst) /\ fits THEN {made} ELSE {})
  /\ UNCHANGED <<callVars, copyVars>>

LinkSize == 1

NodeSize(p) == [dir |-> 0, file |-> Len(fs[p].data), link |-> LinkSize][fs[p].kind]

SizeOfEntries(p) ==  \* mutant: only the outermost directory is counted
  MapThenSumSet(NodeSize, {q \in Tree(p) : Len(q) = Len(p) + 1})

(* GetDirectorySize: Walk does not follow links, not even dst itself. *)
SizeOf(p) == MapThenSumSet(NodeSize, Tree(p))

DirSize(c) ==
  LET p == Entry(job[c].dst) IN
  /\ IsFile(c) /\ Goto(c, "copied", IF p \in DOMAIN fs THEN "ok" ELSE "failed")
  /\ meta' = IF p \in DOMAIN fs THEN [meta EXCEPT ![c] = {SizeOf(p)}] ELSE meta
  /\ UNCHANGED <<job, fault, cancelled, fs, copyVars>>

(* The Path of url.Parse ends at a query or fragment; a bad escape fails. *)
UrlPath(p) ==
  LET cut == {i \in 1..Len(p) : p[i] \in DOMAIN Stem}
      i == CHOOSE k \in cut : \A l \in cut : k <= l
  IN  IF cut = {} THEN p ELSE Append(SubSeq(p, 1, i - 1), Stem[p[i]])

UrlFails(p) == \E i \in 1..Len(p) : p[i] \in BadName

(* save opens what url.Parse makes of the two paths. *)
ParseSave(c) ==
  LET fails == cancelled[c] \/ UrlFails(job[c].src) \/ UrlFails(job[c].dst) IN
  /\ Goto(c, "parse", IF fails THEN "failed" ELSE "create")
  /\ cur' = IF fails THEN cur ELSE
              [cur EXCEPT ![c] = [NoFile EXCEPT !.src = UrlPath(job[c].src),
                                                !.dst = UrlPath(job[c].dst)]]
  /\ UNCHANGED <<callVars, fs, stack>>

FileLabel == {"stat", "sniff", "expander", "expand", "copied", "parse"}

FileFault(c) ==
  /\ IsFile(c) /\ pc[c] \in {"stat", "sniff", "expand", "copied"}
  /\ pc' = [pc EXCEPT ![c] = "failed"]
  /\ Suffers(c, "op")
  /\ UNCHANGED <<job, meta, cancelled, fs, copyVars>>

FileStep(c) ==
  \/ FileBegin(c) \/ FileStat(c) \/ Sniff(c) \/ GetExpander(c) \/ Expand(c)
  \/ DirSize(c) \/ ParseSave(c) \/ FileFault(c)
=============================================================================
