------------------------------ MODULE HttpGather ------------------------------
(***************************************************************************)
(* Concurrent HTTPGatherer.Gather calls (gather/http/http.go) whose        *)
(* destinations are in one directory.                                      *)
(*                                                                         *)
(* A call streams a response body into a uniquely named temporary file     *)
(* beside its destination and renames it over the destination once the     *)
(* size is validated.  Every file-system operation is one step, so calls   *)
(* interleave as goroutines or processes do.  The directory maps names to  *)
(* inodes and data lives in inodes, because an open file goes on being     *)
(* written after its name is gone or reused.                               *)
(***************************************************************************)
EXTENDS Integers

CONSTANTS
  Call,       \* concurrent calls of Gather
  Path,       \* destination paths
  TempName,   \* names os.CreateTemp may draw
  Target,     \* resolved destination of each call
  Limit,      \* MaxResponseBytes of each call's gatherer
  Reply,      \* the replies the server may give each call
  Mode,       \* permission bits
  FreshMode,  \* 0666 less the umask
  MaxInt,     \* math.MaxInt64: the width of the byte counters
  NoFile      \* a name that does not exist

(***************************************************************************)
(* A reply as net/http delivers it: whether it is a 200, the Content-      *)
(* Length or -1, the units that arrive before the body ends, and whether   *)
(* it ends with io.EOF.  A body of known length ends cleanly only when     *)
(* exactly that much arrived.                                              *)
(***************************************************************************)
Response ==
  {r \in [ok: BOOLEAN, declared: -1..MaxInt, len: 0..MaxInt, clean: BOOLEAN] :
     r.declared >= 0 => /\ r.len <= r.declared
                        /\ r.clean => r.len = r.declared}

(***************************************************************************)
(* Inodes: what was at a path before, a file another program leaves under  *)
(* a temporary name, and the two files a call creates.                     *)
(***************************************************************************)
Old(p)     == <<p, "old">>
Foreign(n) == <<n, "foreign">>
Probe(c)   == <<c, "probe">>     \* made by os.CreateTemp, removed at once
Temp(c)    == <<c, "temp">>      \* made by os.OpenFile(O_EXCL)

Outsider == {Old(p) : p \in Path} \cup {Foreign(n) : n \in TempName}
Inode    == Outsider \cup {Probe(c) : c \in Call} \cup {Temp(c) : c \in Call}
Name     == Path \cup TempName
Kind     == {"absent", "file", "dir", "link", "dangling"}

ASSUME ConstantsAssumption ==
  /\ MaxInt \in Nat \ {0}
  /\ Target \in [Call -> Path]
  /\ Limit \in [Call -> -MaxInt..MaxInt]
  /\ Reply \in [Call -> SUBSET Response]
  /\ FreshMode \in Mode
  /\ Path \cap TempName = {}
  /\ NoFile \notin Inode /\ NoFile \notin TempName

VARIABLES
  pc,       \* where each call is
  expired,  \* its context is done or its client timeout has fired
  resp,     \* the reply it received
  tmp,      \* tmpName
  got,      \* bytesWritten
  statMode, \* the mode os.Stat(dst) reported
  dirMade,  \* the destinations' directory exists
  entry,    \* the directory: name -> inode
  file,     \* inode -> kind, mode and length
  stuck     \* temporary files whose os.Remove failed

callVars == <<resp, tmp, got, statMode>>
vars == <<pc, expired, callVars, dirMade, entry, file, stuck>>

Holding == {"copy", "stat", "chmod", "rename", "cleanup"}
Ended   == {"ok", "failed", "crashed"}
Label   == {"begin", "request", "mkdir", "mktemp", "unlink", "reopen", "return"}
             \cup Holding \cup Ended

NoReply == [ok |-> FALSE, declared |-> -1, len |-> 0, clean |-> FALSE]

(***************************************************************************)
(* A destination may start absent, as a file, as a directory, or as a      *)
(* symbolic link; the mode of Old(p) is what os.Stat reports through it.   *)
(***************************************************************************)
Init ==
  /\ pc = [c \in Call |-> "begin"]
  /\ expired = [c \in Call |-> FALSE]
  /\ resp = [c \in Call |-> NoReply]
  /\ tmp = [c \in Call |-> NoFile]
  /\ got = [c \in Call |-> 0]
  /\ statMode = [c \in Call |-> FreshMode]
  /\ \E k \in [Path -> Kind], m \in [Path -> Mode] :
       /\ file = [i \in Inode |->
                    IF i \in {Old(p) : p \in Path}
                      THEN [kind |-> k[i[1]], mode |-> m[i[1]], len |-> 0]
                      ELSE [kind |-> "file", mode |-> FreshMode, len |-> 0]]
       /\ entry = [n \in Name |-> IF n \in Path /\ k[n] # "absent"
                                    THEN Old(n) ELSE NoFile]
       /\ dirMade \in {TRUE, \E p \in Path : k[p] # "absent"}
  /\ stuck = {}

-----------------------------------------------------------------------------

Goto(c, from, to) == pc[c] = from /\ pc' = [pc EXCEPT ![c] = to]

(* The context check, URL parsing and destination checks; any may fail. *)
Begin(c) ==
  /\ \/ ~expired[c] /\ Goto(c, "begin", "request")
     \/ Goto(c, "begin", "failed")
  /\ UNCHANGED <<expired, callVars, dirMade, entry, file, stuck>>

(* h.Client.Do returns a reply, and only a 200 goes on. *)
Respond(c) ==
  /\ ~expired[c]
  /\ \E r \in Reply[c] :
       /\ resp' = [resp EXCEPT ![c] = r]
       /\ Goto(c, "request", IF r.ok THEN "mkdir" ELSE "failed")
  /\ UNCHANGED <<expired, tmp, got, statMode, dirMade, entry, file, stuck>>

(* h.Client.Do returns an error: the network failed or time ran out. *)
RequestFails(c) ==
  /\ Goto(c, "request", "failed")
  /\ UNCHANGED <<expired, callVars, dirMade, entry, file, stuck>>

MkdirAll(c) ==
  /\ \/ Goto(c, "mkdir", "mktemp") /\ dirMade' = TRUE
     \/ Goto(c, "mkdir", "failed") /\ UNCHANGED dirMade
  /\ UNCHANGED <<expired, callVars, entry, file, stuck>>

(* os.CreateTemp draws a name that is not in use, creates and closes it;    *)
(* when the close fails the removal may fail too and leave the file behind. *)
CreateTemp(c) ==
  /\ \/ \E n \in TempName :
          /\ dirMade /\ entry[n] = NoFile
          /\ tmp' = [tmp EXCEPT ![c] = n]
          /\ entry' = [entry EXCEPT ![n] = Probe(c)]
          /\ \/ Goto(c, "mktemp", "unlink") /\ UNCHANGED stuck
             \/ Goto(c, "mktemp", "failed") /\ stuck' = stuck \cup {Probe(c)}
     \/ Goto(c, "mktemp", "failed") /\ UNCHANGED <<tmp, entry, stuck>>
  /\ UNCHANGED <<expired, resp, got, statMode, dirMade, file>>

(* os.Remove(tmpName) acts on whatever the name now refers to. *)
Remove(c) ==
  \/ entry' = [entry EXCEPT ![tmp[c]] = NoFile] /\ UNCHANGED stuck
  \/ stuck' = stuck \cup {entry[tmp[c]]} /\ UNCHANGED entry

(* The probe is removed, to be recreated with a mode the umask decides. *)
Unlink(c) ==
  /\ pc[c] = "unlink" /\ Remove(c)
  /\ Goto(c, "unlink", IF entry' # entry THEN "reopen" ELSE "failed")
  /\ UNCHANGED <<expired, callVars, dirMade, file>>

DeclaredTooLong(c) == Limit[c] > 0 /\ resp[c].declared > Limit[c]

AfterReopenLeaking(c) == IF DeclaredTooLong(c) THEN "failed" ELSE "copy"  \* mutant

(* An over-limit Content-Length is rejected before any byte is read. *)
AfterReopen(c) == IF DeclaredTooLong(c) THEN "cleanup" ELSE "copy"

NameFreeAlways(c) == TRUE  \* mutant: no O_EXCL

(* O_CREATE|O_EXCL fails if anything took the name in the meantime. *)
NameFree(c) == entry[tmp[c]] = NoFile

Reopen(c) ==
  /\ \/ /\ Goto(c, "reopen", AfterReopen(c))
        /\ NameFree(c)
        /\ entry' = [entry EXCEPT ![tmp[c]] = Temp(c)]
     \/ Goto(c, "reopen", "failed") /\ UNCHANGED entry
  /\ UNCHANGED <<expired, callVars, dirMade, file, stuck>>

(* int64 addition of one. *)
Inc(n) == IF n = MaxInt THEN -MaxInt - 1 ELSE n + 1

ReaderLimitedWrapped(c) == Limit[c] > 0 /\ got[c] >= Inc(Limit[c])  \* mutant

(* io.LimitReader(resp.Body, limit + 1) has nothing left to give. *)
ReaderLimited(c) ==
  /\ Limit[c] > 0 /\ Limit[c] < MaxInt
  /\ got[c] >= Inc(Limit[c])

TooLongOffByOne(c) == Limit[c] > 0 /\ got[c] > Inc(Limit[c])  \* mutant

TooLong(c) == Limit[c] > 0 /\ got[c] > Limit[c]

MoreOffByOne(c) == got[c] <= resp[c].len  \* mutant

(* The body has more to give. *)
More(c) == got[c] < resp[c].len

(* io.Copy moves one unit of the body into the temporary file, or cannot. *)
Receive(c) ==
  /\ ~ReaderLimited(c)
  /\ More(c)
  /\ \/ /\ Goto(c, "copy", "copy")
        /\ got' = [got EXCEPT ![c] = @ + 1]
        /\ file' = [file EXCEPT ![Temp(c)].len = @ + 1]
     \/ Goto(c, "copy", "cleanup") /\ UNCHANGED <<got, file>>
  /\ UNCHANGED <<expired, resp, tmp, statMode, dirMade, entry, stuck>>

(* io.Copy sees io.EOF, from the body or from the limit; the size check. *)
CopyDone(c) ==
  /\ ReaderLimited(c) \/ (~More(c) /\ resp[c].clean)
  /\ Goto(c, "copy", IF TooLong(c) THEN "cleanup" ELSE "stat")
  /\ UNCHANGED <<expired, callVars, dirMade, entry, file, stuck>>

CopyFailsDeaf(c) ==  \* mutant: neither context nor timeout reaches the read
  /\ ~ReaderLimited(c) /\ ~More(c) /\ ~resp[c].clean
  /\ Goto(c, "copy", "cleanup")
  /\ UNCHANGED <<expired, callVars, dirMade, entry, file, stuck>>

(* io.Copy returns a read error: the body broke off or time ran out. *)
CopyFails(c) ==
  /\ ~ReaderLimited(c)
  /\ expired[c] \/ (~More(c) /\ ~resp[c].clean)
  /\ Goto(c, "copy", "cleanup")
  /\ UNCHANGED <<expired, callVars, dirMade, entry, file, stuck>>

FoundNever(p) == FALSE  \* mutant

(* os.Stat(dst) finds a file, through a symbolic link if it is one. *)
Found(p) == entry[p] # NoFile /\ file[entry[p]].kind # "dangling"

StatDst(c) ==
  LET p == Target[c] IN
  /\ Goto(c, "stat", IF Found(p) THEN "chmod" ELSE "rename")
  /\ statMode' = [statMode EXCEPT ![c] =
                    IF Found(p) THEN file[entry[p]].mode ELSE @]
  /\ UNCHANGED <<expired, resp, tmp, got, dirMade, entry, file, stuck>>

Chmod(c) ==
  /\ \/ /\ Goto(c, "chmod", "rename")
        /\ file' = [file EXCEPT ![entry[tmp[c]]].mode = statMode[c]]
     \/ Goto(c, "chmod", "cleanup") /\ UNCHANGED file
  /\ UNCHANGED <<expired, callVars, dirMade, entry, stuck>>

(* tmpFile.Close, then os.Rename(tmpName, dst), which replaces a file or a  *)
(* link but never a directory.                                              *)
Rename(c) ==
  LET p == Target[c] IN
  /\ \/ /\ Goto(c, "rename", "return")
        /\ ~(entry[p] # NoFile /\ file[entry[p]].kind = "dir")
        /\ entry' = [entry EXCEPT ![p] = entry[tmp[c]], ![tmp[c]] = NoFile]
     \/ Goto(c, "rename", "cleanup") /\ UNCHANGED entry
  /\ UNCHANGED <<expired, callVars, dirMade, file, stuck>>

(* The deferred close and os.Remove(tmpName) of an uncommitted call. *)
Cleanup(c) ==
  /\ Goto(c, "cleanup", "failed")
  /\ Remove(c)
  /\ UNCHANGED <<expired, callVars, dirMade, file>>

ReturnRemoving(c) ==  \* mutant: committed is not set
  /\ Goto(c, "return", "ok")
  /\ Remove(c)
  /\ UNCHANGED <<expired, callVars, dirMade, file>>

ReturnFailing(c) ==  \* mutant: an error after the rename is reported
  /\ Goto(c, "return", "ok") \/ Goto(c, "return", "failed")
  /\ UNCHANGED <<expired, callVars, dirMade, entry, file, stuck>>

(* The deferred functions of a committed call leave its file alone. *)
Return(c) ==
  /\ Goto(c, "return", "ok")
  /\ UNCHANGED <<expired, callVars, dirMade, entry, file, stuck>>

-----------------------------------------------------------------------------
(* The environment: cancellation or the client timeout, a crash, and another *)
(* program that creates a file under a temporary name.                       *)

Expire(c) ==
  /\ pc[c] \notin Ended
  /\ ~expired[c] /\ expired' = [expired EXCEPT ![c] = TRUE]
  /\ UNCHANGED <<pc, callVars, dirMade, entry, file, stuck>>

Crash(c) ==
  /\ pc[c] \notin Ended \cup {"begin"}
  /\ pc' = [pc EXCEPT ![c] = "crashed"]
  /\ UNCHANGED <<expired, callVars, dirMade, entry, file, stuck>>

Squat(n) ==
  /\ dirMade /\ entry[n] = NoFile
  /\ entry' = [entry EXCEPT ![n] = Foreign(n)]
  /\ UNCHANGED <<pc, expired, callVars, dirMade, file, stuck>>

(* The steps that need nothing but the scheduler. *)
Local(c) ==
  \/ Begin(c) \/ MkdirAll(c) \/ CreateTemp(c) \/ Unlink(c) \/ Reopen(c)
  \/ StatDst(c) \/ Chmod(c) \/ Rename(c) \/ Cleanup(c) \/ Return(c)

(* The steps that depend on what the server and the network do. *)
Network(c) ==
  Respond(c) \/ RequestFails(c) \/ Receive(c) \/ CopyDone(c) \/ CopyFails(c)

Next ==
  \/ \E c \in Call : Local(c) \/ Network(c) \/ Expire(c) \/ Crash(c)
  \/ \E n \in TempName : Squat(n)

Spec == Init /\ [][Next]_vars

(***************************************************************************)
(* The scheduler runs every call and the 30-second client timeout fires;   *)
(* nothing is assumed of the server.  Once time has run out the pending    *)
(* read or request fails, and a reader at its limit needs no server.       *)
(***************************************************************************)
Fairness ==
  \A c \in Call :
    /\ WF_vars(Local(c))
    /\ WF_vars(pc[c] \in {"request", "copy"} /\ Expire(c))
    /\ WF_vars(expired[c] /\ (RequestFails(c) \/ CopyFails(c)))
    /\ WF_vars(ReaderLimited(c) /\ CopyDone(c))

FairSpec == Spec /\ Fairness
-----------------------------------------------------------------------------
(* Properties. *)

TypeOK ==
  /\ pc \in [Call -> Label]
  /\ expired \in [Call -> BOOLEAN]
  /\ resp \in [Call -> Response]
  /\ tmp \in [Call -> TempName \cup {NoFile}]
  /\ got \in [Call -> 0..MaxInt]
  /\ statMode \in [Call -> Mode]
  /\ dirMade \in BOOLEAN
  /\ entry \in [Name -> Inode \cup {NoFile}]
  /\ file \in [Inode -> [kind: Kind, mode: Mode, len: 0..MaxInt]]
  /\ stuck \subseteq Inode

(* The file c wrote is the complete body of a 200, within c's limit. *)
Whole(c) ==
  /\ resp[c].ok /\ resp[c].clean
  /\ file[Temp(c)].len = resp[c].len
  /\ Limit[c] > 0 => resp[c].len <= Limit[c]

(***************************************************************************)
(* At every moment, whatever fails or crashes, a destination is what it    *)
(* was before or the complete validated body of a call made for it: it is  *)
(* never truncated, partial, over the limit or another file's bytes.       *)
(***************************************************************************)
DestinationWhole ==
  \A p \in Path :
    \/ entry[p] \in {NoFile, Old(p)}
    \/ \E c \in Call : Target[c] = p /\ entry[p] = Temp(c) /\ Whole(c)

(***************************************************************************)
(* From O_EXCL to the rename or the removal, tmpName refers to the file c  *)
(* is writing, so chmod, rename and the deferred remove hit no other file, *)
(* although the name was free for a moment and names are drawn again.      *)
(***************************************************************************)
TempOwned ==
  \A c \in Call :
    /\ pc[c] \in Holding => entry[tmp[c]] = Temp(c)
    /\ pc[c] = "unlink" => entry[tmp[c]] = Probe(c)

(***************************************************************************)
(* A temporary file exists only while its call runs, unless the call       *)
(* crashed or its os.Remove failed: every error return removes it.         *)
(***************************************************************************)
NoStrayTemp ==
  \A n \in TempName :
    \/ entry[n] \in {NoFile, Foreign(n)} \cup stuck
    \/ \E c \in Call : /\ tmp[c] = n /\ entry[n] \in {Probe(c), Temp(c)}
                       /\ pc[c] \in Holding \cup {"unlink", "crashed"}

(***************************************************************************)
(* A replaced destination keeps the mode it had before the first of any    *)
(* number of concurrent downloads; a new one has the umask's mode.         *)
(***************************************************************************)
ModeKept ==
  \A c \in Call :
    LET old == file[Old(Target[c])] IN
    entry[Target[c]] = Temp(c) =>
      file[Temp(c)].mode =
        IF old.kind \in {"file", "link"} THEN old.mode ELSE FreshMode

(***************************************************************************)
(* No step writes or chmods a file that no call created (the target of a   *)
(* symbolic link at the destination included), nor takes away another      *)
(* program's file found under a temporary name.                            *)
(***************************************************************************)
OthersUntouched ==
  [][/\ \A i \in Outsider : file'[i] = file[i]
     /\ \A n \in TempName : entry[n] = Foreign(n) => entry'[n] = Foreign(n)]_vars

(***************************************************************************)
(* A call that returns without error reports the size of the whole body,   *)
(* which is what it wrote: a limit never truncates silently.               *)
(***************************************************************************)
ReportedSizeIsWhole ==
  \A c \in Call : pc[c] \in {"return", "ok"} => Whole(c) /\ got[c] = resp[c].len

(***************************************************************************)
(* Every call ends, even against a server that never answers or stalls     *)
(* in the middle of a body.                                                *)
(***************************************************************************)
CallsEnd == \A c \in Call : <>(pc[c] \in Ended)

(***************************************************************************)
(* The calls implement AtomicReplace: a call that fails has changed no     *)
(* destination, and one that succeeds did so in one step.                  *)
(***************************************************************************)
ContentOf(p) ==
  IF entry[p] = NoFile THEN NoFile
  ELSE IF entry[p] = Old(p) THEN "original"
  ELSE IF \E c \in Call : entry[p] = Temp(c) /\ Whole(c)
    THEN CHOOSE c \in Call : entry[p] = Temp(c)
  ELSE "torn"

StatusOf(c) ==
  CASE pc[c] = "return" -> "installed"
    [] pc[c] = "crashed" -> "dead"
    [] pc[c] \in {"ok", "failed"} -> pc[c]
    [] OTHER -> "running"

Abstract == INSTANCE AtomicReplace
  WITH Absent <- NoFile, Original <- "original",
       content <- [p \in Path |-> ContentOf(p)],
       status <- [c \in Call |-> StatusOf(c)]

ReplacesAtomically == Abstract!Spec
=============================================================================
