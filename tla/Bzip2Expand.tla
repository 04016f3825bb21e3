----------------------------- MODULE Bzip2Expand -----------------------------
(***************************************************************************)
(* Concurrent Bzip2Expander.Expand calls (expand/bzip2/bzip2.go) into one  *)
(* directory: a bzip2 file holds a single stream, decoded into a temporary *)
(* file beside the output and renamed over it once it is whole and within  *)
(* the limit.  A call's temporary file is identified with the call.        *)
(***************************************************************************)
EXTENDS Integers

CONSTANTS
  Call,          \* concurrent calls of Expand
  Path,          \* output paths
  TempName,      \* names os.CreateTemp may draw
  Target,        \* the output path of each call, fpath
  Stream,        \* the decoded streams each call may meet
  EntryOption,   \* ExpandOptions.MaxEntrySize of each call's expander
  TotalOption,   \* ExpandOptions.MaxTotalSize
  DefaultEntry,  \* DefaultMaxEntrySize
  DefaultTotal,  \* DefaultMaxTotalSize
  MaxInt,        \* math.MaxInt64
  Absent,        \* a name that does not exist
  Original       \* the file a path held before

(* Zero takes the default and a negative value disables the check. *)
Effective(option, default) ==
  IF option < 0 THEN MaxInt ELSE IF option = 0 THEN default ELSE option

LargerOf(a, b)  == IF a > b THEN a ELSE b  \* mutant
SmallerOf(a, b) == IF a < b THEN a ELSE b

(* The smaller of the per-entry and the total limit. *)
Limit(c) == SmallerOf(Effective(EntryOption[c], DefaultEntry),
                      Effective(TotalOption[c], DefaultTotal))

ASSUME ConstantsAssumption ==
  /\ MaxInt \in Nat \ {0}
  /\ DefaultEntry \in 1..MaxInt /\ DefaultTotal \in 1..MaxInt
  /\ Target \in [Call -> Path]
  /\ Stream \in [Call -> SUBSET [len: 0..MaxInt, clean: BOOLEAN]]
  /\ EntryOption \in [Call -> -1..MaxInt]
  /\ TotalOption \in [Call -> -1..MaxInt]
  /\ Path \cap TempName = {}
  /\ Absent \notin Call /\ Original \notin Call

VARIABLES
  pc,      \* where each call is
  stream,  \* the stream it decodes
  tmp,     \* tmpName
  copied,  \* units charged against the limit
  length,  \* units in its temporary file
  mode,    \* that file's mode
  entry    \* the directory: name -> Absent, Original or a call's file

vars == <<pc, stream, tmp, copied, length, mode, entry>>

Name  == Path \cup TempName
Ended == {"ok", "failed", "crashed"}
Label == {"begin", "mktemp", "copy", "chmod", "rename", "cleanup", "return"} \cup Ended

Init ==
  /\ pc = [c \in Call |-> "begin"]
  /\ stream \in [Call -> [len: 0..MaxInt, clean: BOOLEAN]]
  /\ \A c \in Call : stream[c] \in Stream[c]
  /\ tmp = [c \in Call |-> Absent]
  /\ copied = [c \in Call |-> 0]
  /\ length = [c \in Call |-> 0]
  /\ mode = [c \in Call |-> 600]
  /\ \E there \in SUBSET Path :
       entry = [n \in Name |-> IF n \in there THEN Original ELSE Absent]

Goto(c, from, to) == pc[c] = from /\ pc' = [pc EXCEPT ![c] = to]

(* Path expansion, opening the source and os.MkdirAll(dst). *)
Begin(c) ==
  /\ Goto(c, "begin", "mktemp") \/ Goto(c, "begin", "failed")
  /\ UNCHANGED <<stream, tmp, copied, length, mode, entry>>

(* os.CreateTemp creates a name not in use, with mode 0600. *)
CreateTemp(c) ==
  /\ \/ \E n \in TempName :
          /\ Goto(c, "mktemp", "copy")
          /\ entry[n] = Absent
          /\ tmp' = [tmp EXCEPT ![c] = n]
          /\ entry' = [entry EXCEPT ![n] = c]
     \/ Goto(c, "mktemp", "failed") /\ UNCHANGED <<tmp, entry>>
  /\ UNCHANGED <<stream, copied, length, mode>>

(* One more unit is within the limit. *)
Within(c) == copied[c] + 1 <= Limit(c)

(* CopyBounded charges a chunk before it writes it. *)
CopyChunk(c) ==
  /\ pc[c] = "copy" /\ copied[c] < stream[c].len
  /\ copied' = [copied EXCEPT ![c] = @ + 1]
  /\ \/ /\ Within(c)
        /\ Goto(c, "copy", "copy")
        /\ length' = [length EXCEPT ![c] = @ + 1]
     \/ Goto(c, "copy", "cleanup") /\ UNCHANGED length
  /\ UNCHANGED <<stream, tmp, mode, entry>>

(* The stream ends, or its decoding fails. *)
AfterCopy(c) == IF stream[c].clean THEN "chmod" ELSE "cleanup"

CopyDone(c) ==
  /\ copied[c] = stream[c].len /\ Goto(c, "copy", AfterCopy(c))
  /\ UNCHANGED <<stream, tmp, copied, length, mode, entry>>

FinalModeFresh == 666  \* mutant: the mode of os.Create

(* tmp.Close and os.Chmod(tmpName, 0644). *)
FinalMode == 644

Chmod(c) ==
  /\ \/ Goto(c, "chmod", "rename") /\ mode' = [mode EXCEPT ![entry[tmp[c]]] = FinalMode]
     \/ Goto(c, "chmod", "cleanup") /\ UNCHANGED mode
  /\ UNCHANGED <<stream, tmp, copied, length, entry>>

Rename(c) ==
  /\ \/ /\ Goto(c, "rename", "return")
        /\ entry' = [entry EXCEPT ![Target[c]] = entry[tmp[c]], ![tmp[c]] = Absent]
     \/ Goto(c, "rename", "cleanup") /\ UNCHANGED entry
  /\ UNCHANGED <<stream, tmp, copied, length, mode>>

(* The deferred os.Remove(tmpName) of an uncommitted call may itself fail. *)
Cleanup(c) ==
  /\ Goto(c, "cleanup", "failed")
  /\ entry' = [entry EXCEPT ![tmp[c]] = Absent] \/ UNCHANGED entry
  /\ UNCHANGED <<stream, tmp, copied, length, mode>>

ReturnFailing(c) ==  \* mutant: an error after the rename is reported
  /\ Goto(c, "return", "ok") \/ Goto(c, "return", "failed")
  /\ UNCHANGED <<stream, tmp, copied, length, mode, entry>>

Return(c) ==
  /\ Goto(c, "return", "ok")
  /\ UNCHANGED <<stream, tmp, copied, length, mode, entry>>

Crash(c) ==
  /\ pc[c] \notin Ended \cup {"begin"}
  /\ pc' = [pc EXCEPT ![c] = "crashed"]
  /\ UNCHANGED <<stream, tmp, copied, length, mode, entry>>

Next ==
  \E c \in Call :
    \/ Begin(c) \/ CreateTemp(c) \/ CopyChunk(c) \/ CopyDone(c) \/ Chmod(c)
    \/ Rename(c) \/ Cleanup(c) \/ Return(c) \/ Crash(c)

Spec == Init /\ [][Next]_vars

-----------------------------------------------------------------------------
(* Properties. *)

TypeOK ==
  /\ pc \in [Call -> Label]
  /\ stream \in [Call -> [len: 0..MaxInt, clean: BOOLEAN]]
  /\ tmp \in [Call -> TempName \cup {Absent}]
  /\ copied \in [Call -> 0..MaxInt]
  /\ length \in [Call -> 0..MaxInt]
  /\ mode \in [Call -> {600, 644}]
  /\ entry \in [Name -> {Absent, Original} \cup Call]

(* The file c decoded holds its whole stream, within c's limits. *)
Whole(c) ==
  /\ stream[c].clean /\ length[c] = stream[c].len
  /\ \A limit \in {Effective(EntryOption[c], DefaultEntry),
                   Effective(TotalOption[c], DefaultTotal)} : length[c] <= limit

(***************************************************************************)
(* An output no call has finished is the file that was there; one that is  *)
(* a call's output is whole, within both limits, and readable as 0644,     *)
(* whichever of several calls for the same output came last.  That both    *)
(* limits bind is what the code does and bzip2.go:93-96 says of it         *)
(* ("neither embedded option is silently ignored"); the comment of the     *)
(* type, bzip2.go:34-36, has only the entry limit.                         *)
(***************************************************************************)
OutputWhole ==
  \A p \in Path : \A c \in Call :
    entry[p] = c => Target[c] = p /\ Whole(c) /\ mode[c] = 644

(***************************************************************************)
(* The calls implement AtomicReplace: a decode that fails, is rejected or  *)
(* dies has not touched an existing output, and success is one step.       *)
(***************************************************************************)
StatusOf(c) ==
  CASE pc[c] = "return" -> "installed"
    [] pc[c] = "crashed" -> "dead"
    [] pc[c] \in {"ok", "failed"} -> pc[c]
    [] OTHER -> "running"

Abstract == INSTANCE AtomicReplace
  WITH content <- [p \in Path |-> entry[p]], status <- [c \in Call |-> StatusOf(c)]

ReplacesAtomically == Abstract!Spec
=============================================================================
