--------------------------- MODULE HttpGatherProofs ---------------------------
(***************************************************************************)
(* Proofs about HttpGather, for any number of calls, destinations,         *)
(* temporary names, replies and limits.                                    *)
(*                                                                         *)
(* TempOwned and DestinationWhole are not inductive by themselves: that a  *)
(* name still refers to the file its call made rests on where every kind   *)
(* of inode can be in the directory (Placed), and that a renamed file is   *)
(* whole rests on what was counted and checked before (Counted, Accepted). *)
(***************************************************************************)
EXTENDS HttpGather, TLAPS

(* From os.CreateTemp on, a call has a temporary name. *)
TmpDrawn ==
  \A c \in Call :
    pc[c] \in Holding \cup {"unlink", "reopen", "return"} => tmp[c] \in TempName

(* Where the inodes of each kind can be. *)
PlacedOld == \A n \in Name, p \in Path : entry[n] = Old(p) => n = p

PlacedForeign == \A n \in Name, m \in TempName : entry[n] = Foreign(m) => n = m

PlacedProbe ==
  \A n \in Name, c \in Call : entry[n] = Probe(c) =>
    /\ n \in TempName /\ n = tmp[c]
    /\ \/ pc[c] \in {"unlink", "crashed"}
       \/ pc[c] = "failed" /\ Probe(c) \in stuck

PlacedTemp ==
  \A n \in Name, c \in Call : entry[n] = Temp(c) =>
    \/ /\ n \in TempName /\ n = tmp[c]
       /\ \/ pc[c] \in Holding \cup {"crashed"}
          \/ pc[c] = "failed" /\ Temp(c) \in stuck
    \/ /\ n = Target[c]
       /\ pc[c] \in {"return", "ok", "crashed"}
       /\ Whole(c)

(* The temporary file holds what was counted, never more than the body. *)
Counted ==
  \A c \in Call :
    /\ file[Temp(c)].len = got[c]
    /\ got[c] <= resp[c].len
    /\ pc[c] \in {"begin", "request"} => got[c] = 0

(* Only a 200 gets past the request, only a whole body past the copy. *)
Accepted ==
  \A c \in Call :
    /\ pc[c] \in Holding \cup {"mkdir", "mktemp", "unlink", "reopen", "return", "ok"}
         => resp[c].ok
    /\ pc[c] \in {"stat", "chmod", "rename", "return", "ok"} => Whole(c)

IInv ==
  /\ TypeOK /\ TmpDrawn /\ TempOwned /\ Counted /\ Accepted
  /\ PlacedOld /\ PlacedForeign /\ PlacedProbe /\ PlacedTemp

-----------------------------------------------------------------------------

LEMMA ResponseFields ==
  ASSUME NEW r \in Response
  PROVE  /\ r.ok \in BOOLEAN /\ r.clean \in BOOLEAN
         /\ r.declared \in Int /\ r.len \in 0..MaxInt
  BY ConstantsAssumption DEF Response

LEMMA NoReplyIsResponse == NoReply \in Response
  BY ConstantsAssumption DEF NoReply, Response

(* The four kinds of inode are distinct and determine what they are of. *)
LEMMA InodesDistinct ==
  /\ \A c, d : Temp(c) = Temp(d) => c = d
  /\ \A c, d : Probe(c) = Probe(d) => c = d
  /\ \A c, d : Old(c) = Old(d) => c = d
  /\ \A c, d : Foreign(c) = Foreign(d) => c = d
  /\ \A c, d : /\ Temp(c) # Probe(d) /\ Temp(c) # Old(d) /\ Temp(c) # Foreign(d)
               /\ Probe(c) # Old(d) /\ Probe(c) # Foreign(d)
               /\ Old(c) # Foreign(d)
  BY DEF Temp, Probe, Old, Foreign

LEMMA InodeKinds ==
  /\ \A c \in Call : Temp(c) \in Inode /\ Probe(c) \in Inode
  /\ \A p \in Path : Old(p) \in Inode
  /\ \A n \in TempName : Foreign(n) \in Inode
  /\ \A i \in Inode : \/ \E c \in Call : i = Temp(c) \/ i = Probe(c)
                      \/ \E p \in Path : i = Old(p)
                      \/ \E n \in TempName : i = Foreign(n)
  BY DEF Inode, Outsider

LEMMA NamesDistinct ==
  /\ NoFile \notin TempName
  /\ \A c \in Call : /\ Target[c] \in Path
                     /\ NoFile # Temp(c) /\ NoFile # Probe(c)
  /\ \A p \in Path : p \notin TempName /\ p \in Name /\ NoFile # Old(p)
  /\ \A n \in TempName : n \in Name /\ NoFile # Foreign(n)
  BY ConstantsAssumption, InodeKinds DEF Name

-----------------------------------------------------------------------------

LEMMA InitIInv == Init => IInv
  <1> SUFFICES ASSUME Init PROVE IInv
    OBVIOUS
  <1> USE DEF Init
  <1>0. \A c \in Call : got[c] = 0 /\ resp[c].len = 0 
    BY DEF NoReply
  <1>1. PICK k \in [Path -> Kind], m \in [Path -> Mode] :
          /\ file = [i \in Inode |->
                       IF i \in {Old(p) : p \in Path}
                         THEN [kind |-> k[i[1]], mode |-> m[i[1]], len |-> 0]
                         ELSE [kind |-> "file", mode |-> FreshMode, len |-> 0]]
          /\ entry = [n \in Name |-> IF n \in Path /\ k[n] # "absent"
                                       THEN Old(n) ELSE NoFile]
          /\ dirMade \in {TRUE, \E p \in Path : k[p] # "absent"}
    OBVIOUS
  <1>2. file \in [Inode -> [kind: Kind, mode: Mode, len: 0..MaxInt]]
    <2>1. \A p \in Path : Old(p)[1] = p
      BY DEF Old
    <2> QED
      BY <1>1, <2>1, ConstantsAssumption DEF Kind
  <1>3. entry \in [Name -> Inode \cup {NoFile}]
    BY <1>1, InodeKinds
  <1>4. TypeOK
    <2>1. pc \in [Call -> Label]
      BY DEF Label
    <2>2. resp \in [Call -> Response]
      BY NoReplyIsResponse
    <2>3. got \in [Call -> 0..MaxInt] /\ statMode \in [Call -> Mode]
      BY ConstantsAssumption
    <2>4. dirMade \in BOOLEAN
      BY <1>1
    <2> QED
      BY <1>2, <1>3, <2>1, <2>2, <2>3, <2>4 DEF TypeOK
  <1>5. \A c \in Call : file[Temp(c)].len = 0
    BY <1>1, InodesDistinct, InodeKinds
  <1>6. Counted
    BY <1>0, <1>5, 0 <= 0 DEF Counted
  <1>7. PlacedOld /\ PlacedForeign /\ PlacedProbe /\ PlacedTemp
    BY <1>1, InodesDistinct, NamesDistinct
    DEF PlacedOld, PlacedForeign, PlacedProbe, PlacedTemp
  <1> QED
    BY <1>4, <1>6, <1>7 DEF IInv, TmpDrawn, TempOwned, Accepted, Holding

-----------------------------------------------------------------------------

(* The moves of a call that touch neither the directory nor a file. *)
Moves(c, l) ==
  \/ pc[c] = "begin" /\ l \in {"request", "failed"}
  \/ pc[c] = "mkdir" /\ l \in {"mktemp", "failed"}
  \/ pc[c] \in {"request", "mktemp", "reopen"} /\ l = "failed"
  \/ pc[c] = "copy" /\ l = "stat" /\ Whole(c)
  \/ pc[c] = "stat" /\ l \in {"chmod", "rename"}
  \/ pc[c] \in Holding /\ l = "cleanup"
  \/ pc[c] = "return" /\ l = "ok"
  \/ l = "crashed"

(* Such a move keeps the invariant: every action's error paths are of it. *)
LEMMA MoveIInv ==
  ASSUME IInv, NEW c \in Call, NEW l \in Label, Moves(c, l),
         pc' = [pc EXCEPT ![c] = l],
         UNCHANGED <<resp, tmp, got, entry, file, stuck>>,
         expired' = expired, statMode' \in [Call -> Mode], dirMade' \in BOOLEAN
  PROVE  IInv'
  <1>1. TypeOK'
    BY DEF IInv, TypeOK
  <1>2. TmpDrawn' /\ TempOwned'
    BY DEF Moves, IInv, TypeOK, TmpDrawn, TempOwned, Holding
  <1>3. Counted'
    BY DEF Moves, IInv, TypeOK, Counted, Holding
  <1>4. Accepted'
    BY DEF Moves, IInv, TypeOK, Accepted, Whole, Holding
  <1>5. PlacedOld' /\ PlacedForeign'
    BY DEF IInv, PlacedOld, PlacedForeign
  <1>6. PlacedProbe'
    BY DEF Moves, IInv, TypeOK, PlacedProbe, TempOwned, Holding
  <1>7. PlacedTemp'
    BY DEF Moves, IInv, TypeOK, PlacedTemp, Whole, Holding
  <1> QED
    BY <1>1, <1>2, <1>3, <1>4, <1>5, <1>6, <1>7 DEF IInv

LEMMA BeginIInv == ASSUME IInv, NEW c \in Call, Begin(c) PROVE IInv'
  <1>1. PICK l \in Label : Moves(c, l) /\ pc' = [pc EXCEPT ![c] = l]
    BY DEF Begin, Goto, Moves, Label, Ended
  <1> QED
    BY <1>1, MoveIInv DEF Begin, callVars, IInv, TypeOK

LEMMA RequestFailsIInv == ASSUME IInv, NEW c \in Call, RequestFails(c) PROVE IInv'
  <1>1. PICK l \in Label : Moves(c, l) /\ pc' = [pc EXCEPT ![c] = l]
    BY DEF RequestFails, Goto, Moves, Label, Ended
  <1> QED
    BY <1>1, MoveIInv DEF RequestFails, callVars, IInv, TypeOK

LEMMA MkdirAllIInv == ASSUME IInv, NEW c \in Call, MkdirAll(c) PROVE IInv'
  <1>1. PICK l \in Label : Moves(c, l) /\ pc' = [pc EXCEPT ![c] = l]
    BY DEF MkdirAll, Goto, Moves, Label, Ended
  <1> QED
    BY <1>1, MoveIInv DEF MkdirAll, callVars, IInv, TypeOK

(* The size check: what is not too long was not cut off by the limit. *)
LEMMA CopyDoneIInv == ASSUME IInv, NEW c \in Call, CopyDone(c) PROVE IInv'
  <1>1. ~TooLong(c) => Whole(c)
    <2> SUFFICES ASSUME ~TooLong(c) PROVE Whole(c)
      OBVIOUS
    <2>1. /\ got[c] \in Int /\ resp[c].len \in Int /\ Limit[c] \in Int /\ MaxInt \in Nat
      BY ResponseFields, ConstantsAssumption DEF IInv, TypeOK
    <2>2. ~ReaderLimited(c)
      BY <2>1 DEF TooLong, ReaderLimited, Inc
    <2>3. ~More(c) /\ resp[c].clean
      BY <2>2 DEF CopyDone
    <2>4. got[c] = resp[c].len
      BY <2>1, <2>3 DEF IInv, Counted, More
    <2>5. resp[c].ok
      BY DEF CopyDone, Goto, IInv, Accepted, Holding
    <2> QED
      BY <2>1, <2>3, <2>4, <2>5 DEF IInv, Counted, TooLong, Whole
  <1>2. PICK l \in Label : Moves(c, l) /\ pc' = [pc EXCEPT ![c] = l]
    BY <1>1 DEF CopyDone, Goto, Moves, Label, Holding
  <1> QED
    BY <1>2, MoveIInv DEF CopyDone, callVars, IInv, TypeOK

LEMMA CopyFailsIInv == ASSUME IInv, NEW c \in Call, CopyFails(c) PROVE IInv'
  <1>1. PICK l \in Label : Moves(c, l) /\ pc' = [pc EXCEPT ![c] = l]
    BY DEF CopyFails, Goto, Moves, Label, Holding
  <1> QED
    BY <1>1, MoveIInv DEF CopyFails, callVars, IInv, TypeOK

LEMMA StatDstIInv == ASSUME IInv, NEW c \in Call, StatDst(c) PROVE IInv'
  <1>1. PICK l \in Label : Moves(c, l) /\ pc' = [pc EXCEPT ![c] = l]
    BY DEF StatDst, Goto, Moves, Label, Holding
  <1>2. statMode' \in [Call -> Mode]
    <2>1. Found(Target[c]) => file[entry[Target[c]]].mode \in Mode
      <3>1. Found(Target[c]) => entry[Target[c]] \in Inode
        BY NamesDistinct DEF Found, IInv, TypeOK
      <3> QED
        BY <3>1 DEF IInv, TypeOK
    <2> QED
      BY <2>1 DEF StatDst, IInv, TypeOK
  <1> QED
    BY <1>1, <1>2, MoveIInv DEF StatDst, IInv, TypeOK

LEMMA ReturnIInv == ASSUME IInv, NEW c \in Call, Return(c) PROVE IInv'
  <1>1. PICK l \in Label : Moves(c, l) /\ pc' = [pc EXCEPT ![c] = l]
    BY DEF Return, Goto, Moves, Label, Ended
  <1> QED
    BY <1>1, MoveIInv DEF Return, callVars, IInv, TypeOK

LEMMA CrashIInv == ASSUME IInv, NEW c \in Call, Crash(c) PROVE IInv'
  <1>1. PICK l \in Label : Moves(c, l) /\ pc' = [pc EXCEPT ![c] = l]
    BY DEF Crash, Moves, Label, Ended
  <1> QED
    BY <1>1, MoveIInv DEF Crash, callVars, IInv, TypeOK

LEMMA ExpireIInv == ASSUME IInv, NEW c \in Call, Expire(c) PROVE IInv'
  <1> USE DEF Expire, callVars
  <1>1. TypeOK' /\ TmpDrawn' /\ TempOwned' /\ Counted'
    BY DEF IInv, TypeOK, TmpDrawn, TempOwned, Counted
  <1>2. Accepted'
    BY DEF IInv, Accepted, Whole
  <1>3. PlacedOld' /\ PlacedForeign' /\ PlacedProbe'
    BY DEF IInv, PlacedOld, PlacedForeign, PlacedProbe
  <1>4. PlacedTemp'
    BY DEF IInv, PlacedTemp, Whole
  <1> QED
    BY <1>1, <1>2, <1>3, <1>4 DEF IInv

LEMMA RespondIInv == ASSUME IInv, NEW c \in Call, Respond(c) PROVE IInv'
  <1> USE DEF Respond, Goto
  <1>1. PICK r \in Reply[c] :
          /\ resp' = [resp EXCEPT ![c] = r]
          /\ pc' = [pc EXCEPT ![c] = IF r.ok THEN "mkdir" ELSE "failed"]
    OBVIOUS
  <1>2. r \in Response
    BY ConstantsAssumption
  <1>3. TypeOK'
    BY <1>1, <1>2 DEF IInv, TypeOK, Label, Ended
  <1>4. TmpDrawn' /\ TempOwned'
    BY <1>1 DEF IInv, TypeOK, TmpDrawn, TempOwned, Holding
  <1>5. Counted'
    <2>1. got[c] = 0 /\ r.len \in 0..MaxInt
      BY <1>2, ResponseFields DEF IInv, Counted
    <2>2. \A d \in Call \ {c} : resp'[d] = resp[d]
      BY <1>1 DEF IInv, TypeOK
    <2>3. resp'[c] = r
      BY <1>1 DEF IInv, TypeOK
    <2>4. got[c] <= resp'[c].len
      BY <2>1, <2>3, ConstantsAssumption
    <2> QED
      BY <1>1, <2>1, <2>2, <2>4 DEF IInv, TypeOK, Counted
  <1>6. Accepted'
    BY <1>1 DEF IInv, TypeOK, Accepted, Whole, Holding
  <1>7. PlacedOld' /\ PlacedForeign' /\ PlacedProbe'
    BY <1>1 DEF IInv, TypeOK, PlacedOld, PlacedForeign, PlacedProbe
  <1>8. PlacedTemp'
    BY <1>1 DEF IInv, TypeOK, PlacedTemp, Whole, Holding
  <1> QED
    BY <1>3, <1>4, <1>5, <1>6, <1>7, <1>8 DEF IInv

LEMMA CreateTempIInv == ASSUME IInv, NEW c \in Call, CreateTemp(c) PROVE IInv'
  <1> USE DEF CreateTemp, Goto
  <1>1. CASE UNCHANGED <<tmp, entry, stuck>>
    <2>1. Moves(c, "failed") /\ pc' = [pc EXCEPT ![c] = "failed"]
      <3>1. ASSUME NEW n \in TempName, entry[n] = NoFile,
                   entry' = [entry EXCEPT ![n] = Probe(c)]
            PROVE  FALSE
        BY <1>1, <3>1, NamesDistinct DEF IInv, TypeOK
      <3> QED
        BY <3>1 DEF Moves
    <2> QED
      BY <1>1, <2>1, MoveIInv DEF Label, Ended, IInv, TypeOK
  <1>2. ASSUME NEW n \in TempName, entry[n] = NoFile,
               tmp' = [tmp EXCEPT ![c] = n],
               entry' = [entry EXCEPT ![n] = Probe(c)],
               \/ pc' = [pc EXCEPT ![c] = "unlink"] /\ stuck' = stuck
               \/ pc' = [pc EXCEPT ![c] = "failed"] /\ stuck' = stuck \cup {Probe(c)}
        PROVE  IInv'
    <2>0. pc[c] = "mktemp" /\ UNCHANGED <<resp, got, file>>
      OBVIOUS
    <2>1. TypeOK'
      BY <1>2, InodeKinds DEF IInv, TypeOK, Label, Ended
    <2>2. entry'[n] = Probe(c) /\ \A m \in Name \ {n} : entry'[m] = entry[m]
      BY <1>2, NamesDistinct DEF IInv, TypeOK
    <2> HIDE DEF CreateTemp
    <2>3. TmpDrawn' /\ TempOwned'
      BY <1>2, <2>0, NamesDistinct DEF IInv, TypeOK, TmpDrawn, TempOwned, Holding
    <2>4. Counted' /\ Accepted'
      BY <1>2, <2>0 DEF IInv, TypeOK, Counted, Accepted, Whole, Holding
    <2>5. PlacedOld' /\ PlacedForeign'
      BY <2>2, InodesDistinct DEF IInv, PlacedOld, PlacedForeign
    <2>6. PlacedProbe'
      BY <1>2, <2>0, <2>2, InodesDistinct DEF IInv, TypeOK, PlacedProbe
    <2>7. PlacedTemp'
      BY <1>2, <2>0, <2>2, InodesDistinct DEF IInv, TypeOK, PlacedTemp, Whole, Holding
    <2> QED
      BY <2>1, <2>3, <2>4, <2>5, <2>6, <2>7 DEF IInv
  <1> QED
    BY <1>1, <1>2

(* What os.Remove(tmpName) takes away is the file the call has there. *)
LEMMA RemoveOwn ==
  ASSUME IInv, NEW c \in Call, pc[c] \in Holding \cup {"unlink"},
         entry' = [entry EXCEPT ![tmp[c]] = NoFile]
  PROVE  /\ tmp[c] \in TempName /\ entry[tmp[c]] \in {Probe(c), Temp(c)}
         /\ entry'[tmp[c]] = NoFile
         /\ \A n \in Name \ {tmp[c]} : entry'[n] = entry[n]
  <1>1. tmp[c] \in TempName /\ tmp[c] \in Name
    BY NamesDistinct DEF IInv, TmpDrawn
  <1> QED
    BY <1>1 DEF IInv, TypeOK, TempOwned

LEMMA UnlinkIInv == ASSUME IInv, NEW c \in Call, Unlink(c) PROVE IInv'
  <1>0. pc[c] = "unlink" /\ UNCHANGED <<expired, resp, tmp, got, statMode, dirMade, file>>
    BY DEF Unlink, callVars
  <1>1. tmp[c] \in TempName /\ entry[tmp[c]] = Probe(c)
    BY <1>0 DEF IInv, TmpDrawn, TempOwned
  <1>2. CASE /\ entry' = [entry EXCEPT ![tmp[c]] = NoFile] /\ stuck' = stuck
             /\ pc' = [pc EXCEPT ![c] = "reopen"]
    <2>1. entry'[tmp[c]] = NoFile /\ \A n \in Name \ {tmp[c]} : entry'[n] = entry[n]
      BY <1>0, <1>2, RemoveOwn
    <2>2. TypeOK'
      BY <1>0, <1>2 DEF IInv, TypeOK, Label
    <2>3. TmpDrawn' /\ TempOwned'
      BY <1>0, <1>1, <1>2, NamesDistinct, InodesDistinct
      DEF IInv, TypeOK, TmpDrawn, TempOwned, Holding
    <2>4. Counted' /\ Accepted'
      BY <1>0, <1>2 DEF IInv, TypeOK, Counted, Accepted, Whole, Holding
    <2>5. PlacedOld' /\ PlacedForeign'
      BY <2>1, NamesDistinct DEF IInv, PlacedOld, PlacedForeign
    <2>6. PlacedProbe'
      BY <1>0, <1>2, <2>1, NamesDistinct DEF IInv, TypeOK, PlacedProbe
    <2>7. PlacedTemp'
      BY <1>0, <1>2, <2>1, NamesDistinct DEF IInv, TypeOK, PlacedTemp, Whole, Holding
    <2> QED
      BY <2>2, <2>3, <2>4, <2>5, <2>6, <2>7 DEF IInv
  <1>3. CASE /\ entry' = entry /\ stuck' = stuck \cup {Probe(c)}
             /\ pc' = [pc EXCEPT ![c] = "failed"]
    <2>1. TypeOK'
      BY <1>0, <1>3, InodeKinds DEF IInv, TypeOK, Label, Ended
    <2>2. TmpDrawn' /\ TempOwned'
      BY <1>0, <1>3 DEF IInv, TypeOK, TmpDrawn, TempOwned, Holding
    <2>3. Counted' /\ Accepted'
      BY <1>0, <1>3 DEF IInv, TypeOK, Counted, Accepted, Whole, Holding
    <2>4. PlacedOld' /\ PlacedForeign' /\ PlacedProbe'
      BY <1>0, <1>3 DEF IInv, TypeOK, PlacedOld, PlacedForeign, PlacedProbe
    <2>5. PlacedTemp'
      BY <1>0, <1>3 DEF IInv, TypeOK, PlacedTemp, Whole, Holding
    <2> QED
      BY <2>1, <2>2, <2>3, <2>4, <2>5 DEF IInv
  <1>4. entry # [entry EXCEPT ![tmp[c]] = NoFile]
    BY <1>1, NamesDistinct DEF IInv, TypeOK
  <1> QED
    BY <1>1, <1>2, <1>3, <1>4 DEF Unlink, Remove, Goto

LEMMA CleanupIInv == ASSUME IInv, NEW c \in Call, Cleanup(c) PROVE IInv'
  <1>0. /\ pc[c] = "cleanup" /\ pc' = [pc EXCEPT ![c] = "failed"]
        /\ UNCHANGED <<expired, resp, tmp, got, statMode, dirMade, file>>
    BY DEF Cleanup, Goto, callVars
  <1>1. tmp[c] \in TempName /\ entry[tmp[c]] = Temp(c)
    BY <1>0 DEF IInv, TmpDrawn, TempOwned, Holding
  <1>2. TmpDrawn' /\ Counted' /\ Accepted'
    BY <1>0 DEF IInv, TypeOK, TmpDrawn, Counted, Accepted, Whole, Holding
  <1>3. CASE entry' = [entry EXCEPT ![tmp[c]] = NoFile] /\ stuck' = stuck
    <2>1. entry'[tmp[c]] = NoFile /\ \A n \in Name \ {tmp[c]} : entry'[n] = entry[n]
      BY <1>0, <1>3, RemoveOwn DEF Holding
    <2>2. TypeOK'
      BY <1>0, <1>3 DEF IInv, TypeOK, Label, Ended
    <2>3. TempOwned'
      BY <1>0, <1>1, <1>3, NamesDistinct, InodesDistinct
      DEF IInv, TypeOK, TmpDrawn, TempOwned, Holding
    <2>4. PlacedOld' /\ PlacedForeign'
      BY <2>1, NamesDistinct DEF IInv, PlacedOld, PlacedForeign
    <2>5. PlacedProbe'
      BY <1>0, <1>3, <2>1, NamesDistinct DEF IInv, TypeOK, PlacedProbe
    <2>6. PlacedTemp'
      BY <1>0, <1>3, <2>1, NamesDistinct DEF IInv, TypeOK, PlacedTemp, Whole, Holding
    <2> QED
      BY <1>2, <2>2, <2>3, <2>4, <2>5, <2>6 DEF IInv
  <1>4. CASE entry' = entry /\ stuck' = stuck \cup {Temp(c)}
    <2>1. TypeOK' /\ TempOwned'
      BY <1>0, <1>4, InodeKinds DEF IInv, TypeOK, TempOwned, Label, Holding, Ended
    <2>2. PlacedOld' /\ PlacedForeign' /\ PlacedProbe'
      BY <1>0, <1>4 DEF IInv, TypeOK, PlacedOld, PlacedForeign, PlacedProbe
    <2>3. PlacedTemp'
      BY <1>0, <1>4 DEF IInv, TypeOK, PlacedTemp, Whole, Holding
    <2> QED
      BY <1>2, <2>1, <2>2, <2>3 DEF IInv
  <1> QED
    BY <1>1, <1>3, <1>4 DEF Cleanup, Remove

LEMMA SquatIInv == ASSUME IInv, NEW f \in TempName, Squat(f) PROVE IInv'
  <1>0. UNCHANGED <<pc, expired, resp, tmp, got, statMode, dirMade, file, stuck>>
    BY DEF Squat, callVars
  <1>1. /\ entry[f] = NoFile /\ entry'[f] = Foreign(f)
        /\ \A n \in Name \ {f} : entry'[n] = entry[n]
    BY NamesDistinct DEF Squat, IInv, TypeOK
  <1>2. TypeOK'
    BY <1>0, InodeKinds DEF Squat, IInv, TypeOK
  <1>3. TempOwned'
    BY <1>0, <1>1, NamesDistinct DEF IInv, TmpDrawn, TempOwned, Holding
  <1>4. TmpDrawn' /\ Counted' /\ Accepted'
    BY <1>0 DEF IInv, TmpDrawn, Counted, Accepted, Whole
  <1>5. PlacedOld'
    BY <1>1, InodesDistinct DEF IInv, PlacedOld
  <1>6. PlacedProbe'
    BY <1>0, <1>1, InodesDistinct DEF IInv, PlacedProbe
  <1>7. PlacedForeign'
    BY <1>1, InodesDistinct DEF IInv, PlacedForeign
  <1>8. PlacedTemp'
    BY <1>0, <1>1, InodesDistinct DEF IInv, PlacedTemp, Whole
  <1> QED
    BY <1>2, <1>3, <1>4, <1>5, <1>6, <1>7, <1>8 DEF IInv

LEMMA ReopenIInv == ASSUME IInv, NEW c \in Call, Reopen(c) PROVE IInv'
  <1>0. /\ pc[c] = "reopen"
        /\ UNCHANGED <<expired, resp, tmp, got, statMode, dirMade, file, stuck>>
    BY DEF Reopen, Goto, callVars
  <1>1. CASE pc' = [pc EXCEPT ![c] = "failed"] /\ entry' = entry
    BY <1>0, <1>1, MoveIInv DEF Moves, Label, Ended, IInv, TypeOK
  <1>2. CASE /\ pc' = [pc EXCEPT ![c] = AfterReopen(c)]
             /\ NameFree(c) /\ entry' = [entry EXCEPT ![tmp[c]] = Temp(c)]
    <2>1. tmp[c] \in TempName /\ entry[tmp[c]] = NoFile
      BY <1>0, <1>2 DEF NameFree, IInv, TmpDrawn
    <2>2. AfterReopen(c) \in {"copy", "cleanup"}
      BY DEF AfterReopen
    <2>3. /\ entry'[tmp[c]] = Temp(c)
          /\ \A n \in Name \ {tmp[c]} : entry'[n] = entry[n]
      BY <1>2, <2>1, NamesDistinct DEF IInv, TypeOK
    <2>4. TypeOK'
      BY <1>0, <1>2, <2>2, InodeKinds DEF IInv, TypeOK, Label, Holding
    <2>5. TmpDrawn'
      BY <1>0, <1>2, <2>1 DEF IInv, TypeOK, TmpDrawn
    <2>6. TempOwned'
      BY <1>0, <1>2, <2>1, <2>2, <2>3, NamesDistinct
      DEF IInv, TypeOK, TmpDrawn, TempOwned, Holding
    <2>7. Counted'
      BY <1>0, <1>2, <2>2 DEF IInv, TypeOK, Counted
    <2>8. Accepted'
      BY <1>0, <1>2, <2>2 DEF IInv, TypeOK, Accepted, Whole, Holding
    <2>9. PlacedOld' /\ PlacedForeign'
      BY <2>3, InodesDistinct DEF IInv, PlacedOld, PlacedForeign
    <2>10. PlacedProbe'
      BY <1>0, <1>2, <2>3, InodesDistinct DEF IInv, TypeOK, PlacedProbe
    <2>11. PlacedTemp'
      BY <1>0, <1>2, <2>1, <2>2, <2>3, InodesDistinct
      DEF IInv, TypeOK, PlacedTemp, Whole, Holding
    <2> QED
      BY <2>4, <2>5, <2>6, <2>7, <2>8, <2>9, <2>10, <2>11 DEF IInv
  <1> QED
    BY <1>1, <1>2 DEF Reopen, Goto

LEMMA ReceiveIInv == ASSUME IInv, NEW c \in Call, Receive(c) PROVE IInv'
  <1>0. /\ pc[c] = "copy" /\ More(c)
        /\ UNCHANGED <<expired, resp, tmp, statMode, dirMade, entry, stuck>>
    BY DEF Receive, Goto
  <1>1. CASE pc' = [pc EXCEPT ![c] = "cleanup"] /\ UNCHANGED <<got, file>>
    BY <1>0, <1>1, MoveIInv DEF Moves, Label, Holding, IInv, TypeOK
  <1>2. CASE /\ pc' = [pc EXCEPT ![c] = "copy"]
             /\ got' = [got EXCEPT ![c] = @ + 1]
             /\ file' = [file EXCEPT ![Temp(c)].len = @ + 1]
    <2>1. /\ got[c] \in 0..MaxInt /\ resp[c].len \in 0..MaxInt /\ MaxInt \in Nat
          /\ got[c] < resp[c].len /\ file[Temp(c)].len = got[c]
      BY <1>0, ResponseFields, ConstantsAssumption DEF More, IInv, TypeOK, Counted
    <2>2. got[c] + 1 \in 0..MaxInt /\ got[c] + 1 <= resp[c].len
      BY <2>1
    <2>3. pc' = pc
      BY <1>0, <1>2 DEF IInv, TypeOK
    <2>4. /\ got'[c] = got[c] + 1
          /\ \A d \in Call \ {c} : got'[d] = got[d]
      BY <1>2 DEF IInv, TypeOK
    <2>5. /\ file'[Temp(c)] = [file[Temp(c)] EXCEPT !.len = got[c] + 1]
          /\ \A i \in Inode \ {Temp(c)} : file'[i] = file[i]
          /\ DOMAIN file' = Inode
      BY <1>2, <2>1, InodeKinds DEF IInv, TypeOK
    <2>6. file'[Temp(c)].len = got[c] + 1
      BY <2>5, InodeKinds DEF IInv, TypeOK
    <2>7. file' \in [Inode -> [kind: Kind, mode: Mode, len: 0..MaxInt]]
      BY <1>2, <2>1, <2>2, InodeKinds DEF IInv, TypeOK
    <2>8. TypeOK'
      BY <1>0, <1>2, <2>2, <2>3, <2>7 DEF IInv, TypeOK
    <2>9. TmpDrawn' /\ TempOwned'
      BY <1>0, <2>3 DEF IInv, TmpDrawn, TempOwned
    <2>10. Counted'
      <3> SUFFICES ASSUME NEW d \in Call
                   PROVE  /\ file'[Temp(d)].len = got'[d]
                          /\ got'[d] <= resp'[d].len
                          /\ pc'[d] \in {"begin", "request"} => got'[d] = 0
        BY DEF Counted
      <3>1. CASE d = c
        BY <3>1, <1>0, <2>2, <2>3, <2>4, <2>6
      <3>2. CASE d # c
        <4>1. file'[Temp(d)] = file[Temp(d)]
          BY <3>2, <2>5, InodesDistinct, InodeKinds
        <4> QED
          BY <3>2, <4>1, <1>0, <2>3, <2>4 DEF IInv, Counted
      <3> QED
        BY <3>1, <3>2
    <2>11. \A d \in Call \ {c} : Whole(d)' = Whole(d)
      BY <1>0, <2>5, InodesDistinct, InodeKinds DEF Whole
    <2>12. Accepted'
      BY <1>0, <2>3, <2>11 DEF IInv, Accepted
    <2>13. PlacedOld' /\ PlacedForeign' /\ PlacedProbe'
      BY <1>0, <2>3 DEF IInv, PlacedOld, PlacedForeign, PlacedProbe
    <2>14. PlacedTemp'
      BY <1>0, <2>3, <2>11 DEF IInv, PlacedTemp
    <2> QED
      BY <2>8, <2>9, <2>10, <2>12, <2>13, <2>14 DEF IInv
  <1> QED
    BY <1>1, <1>2 DEF Receive, Goto

LEMMA ChmodIInv == ASSUME IInv, NEW c \in Call, Chmod(c) PROVE IInv'
  <1>0. /\ pc[c] = "chmod"
        /\ UNCHANGED <<expired, resp, tmp, got, statMode, dirMade, entry, stuck>>
    BY DEF Chmod, Goto, callVars
  <1>1. CASE pc' = [pc EXCEPT ![c] = "cleanup"] /\ UNCHANGED file
    BY <1>0, <1>1, MoveIInv DEF Moves, Label, Holding, IInv, TypeOK
  <1>2. CASE /\ pc' = [pc EXCEPT ![c] = "rename"]
             /\ file' = [file EXCEPT ![entry[tmp[c]]].mode = statMode[c]]
    <2>1. entry[tmp[c]] = Temp(c)
      BY <1>0 DEF IInv, TempOwned, Holding
    <2>2. /\ file'[Temp(c)] = [file[Temp(c)] EXCEPT !.mode = statMode[c]]
          /\ \A i \in Inode \ {Temp(c)} : file'[i] = file[i]
      BY <1>2, <2>1, InodeKinds DEF IInv, TypeOK
    <2>3. file' \in [Inode -> [kind: Kind, mode: Mode, len: 0..MaxInt]]
      BY <1>2, <2>1, InodeKinds DEF IInv, TypeOK
    <2>4. \A d \in Call : file'[Temp(d)].len = file[Temp(d)].len
      BY <2>2, InodeKinds DEF IInv, TypeOK
    <2>5. TypeOK'
      BY <1>0, <1>2, <2>3 DEF IInv, TypeOK, Label, Holding
    <2>6. TmpDrawn' /\ TempOwned'
      BY <1>0, <1>2 DEF IInv, TypeOK, TmpDrawn, TempOwned, Holding
    <2>7. Counted'
      BY <1>0, <1>2, <2>4 DEF IInv, TypeOK, Counted
    <2>8. \A d \in Call : Whole(d)' = Whole(d)
      BY <1>0, <2>4 DEF Whole
    <2>9. Accepted'
      BY <1>0, <1>2, <2>8 DEF IInv, TypeOK, Accepted, Holding
    <2>10. PlacedOld' /\ PlacedForeign' /\ PlacedProbe'
      BY <1>0, <1>2 DEF IInv, TypeOK, PlacedOld, PlacedForeign, PlacedProbe
    <2>11. PlacedTemp'
      BY <1>0, <1>2, <2>8 DEF IInv, TypeOK, PlacedTemp, Holding
    <2> QED
      BY <2>5, <2>6, <2>7, <2>9, <2>10, <2>11 DEF IInv
  <1> QED
    BY <1>1, <1>2 DEF Chmod, Goto

LEMMA RenameIInv == ASSUME IInv, NEW c \in Call, Rename(c) PROVE IInv'
  <1>0. /\ pc[c] = "rename"
        /\ UNCHANGED <<expired, resp, tmp, got, statMode, dirMade, file, stuck>>
    BY DEF Rename, Goto, callVars
  <1>1. CASE pc' = [pc EXCEPT ![c] = "cleanup"] /\ entry' = entry
    BY <1>0, <1>1, MoveIInv DEF Moves, Label, Holding, IInv, TypeOK
  <1>2. CASE /\ pc' = [pc EXCEPT ![c] = "return"]
             /\ entry' = [entry EXCEPT ![Target[c]] = entry[tmp[c]], ![tmp[c]] = NoFile]
    <2>1. /\ tmp[c] \in TempName /\ entry[tmp[c]] = Temp(c) /\ Whole(c)
          /\ Target[c] # tmp[c] /\ Target[c] \in Name /\ tmp[c] \in Name
      BY <1>0, NamesDistinct DEF IInv, TmpDrawn, TempOwned, Accepted, Holding
    <2>2. /\ entry'[Target[c]] = Temp(c) /\ entry'[tmp[c]] = NoFile
          /\ \A n \in Name \ {Target[c], tmp[c]} : entry'[n] = entry[n]
      BY <1>2, <2>1 DEF IInv, TypeOK
    <2>3. pc'[c] = "return" /\ \A d \in Call \ {c} : pc'[d] = pc[d]
      BY <1>2 DEF IInv, TypeOK
    <2>4. \A d \in Call : Whole(d)' = Whole(d)
      BY <1>0 DEF Whole
    <2>5. TypeOK'
      BY <1>0, <1>2, <2>1, InodeKinds DEF IInv, TypeOK, Label
    <2>6. TmpDrawn'
      BY <1>0, <2>1, <2>3 DEF IInv, TmpDrawn
    <2>7. TempOwned'
      <3>1. ASSUME NEW d \in Call \ {c}, pc[d] \in Holding \cup {"unlink"}
            PROVE  tmp[d] # tmp[c] /\ tmp[d] # Target[c] /\ tmp[d] \in Name
        BY <2>1, <3>1, NamesDistinct, InodesDistinct
        DEF IInv, TmpDrawn, TempOwned
      <3> QED
        BY <1>0, <2>2, <2>3, <3>1 DEF IInv, TempOwned, Holding
    <2>8. Counted' /\ Accepted'
      BY <1>0, <2>1, <2>3, <2>4 DEF IInv, Counted, Accepted, Holding
    <2>9. PlacedOld'
      BY <2>2, InodesDistinct, NamesDistinct DEF IInv, PlacedOld
    <2>10. PlacedForeign'
      BY <2>2, InodesDistinct, NamesDistinct DEF IInv, PlacedForeign
    <2>11. PlacedProbe'
      BY <1>0, <2>2, <2>3, InodesDistinct, NamesDistinct DEF IInv, PlacedProbe
    <2>12. PlacedTemp'
      BY <1>0, <2>1, <2>2, <2>3, <2>4, InodesDistinct, NamesDistinct
      DEF IInv, PlacedTemp, Holding
    <2> QED
      BY <2>5, <2>6, <2>7, <2>8, <2>9, <2>10, <2>11, <2>12 DEF IInv
  <1> QED
    BY <1>1, <1>2 DEF Rename, Goto

LEMMA Inductive == IInv /\ [Next]_vars => IInv'
  <1> SUFFICES ASSUME IInv, [Next]_vars PROVE IInv'
    OBVIOUS
  <1>1. ASSUME NEW c \in Call, Local(c) PROVE IInv'
    BY <1>1, BeginIInv, MkdirAllIInv, CreateTempIInv, UnlinkIInv, ReopenIInv,
       StatDstIInv, ChmodIInv, RenameIInv, CleanupIInv, ReturnIInv
    DEF Local
  <1>2. ASSUME NEW c \in Call, Network(c) PROVE IInv'
    BY <1>2, RespondIInv, RequestFailsIInv, ReceiveIInv, CopyDoneIInv, CopyFailsIInv
    DEF Network
  <1>3. ASSUME NEW c \in Call, Expire(c) \/ Crash(c) PROVE IInv'
    BY <1>3, ExpireIInv, CrashIInv
  <1>4. ASSUME NEW n \in TempName, Squat(n) PROVE IInv'
    BY <1>4, SquatIInv
  <1>5. CASE UNCHANGED vars
    <2> USE <1>5 DEF vars, callVars
    <2>1. TypeOK' /\ TmpDrawn' /\ TempOwned' /\ Counted'
      BY DEF IInv, TypeOK, TmpDrawn, TempOwned, Counted
    <2>2. \A c \in Call : Whole(c)' = Whole(c)
      BY DEF Whole
    <2>3. Accepted' /\ PlacedOld' /\ PlacedForeign' /\ PlacedProbe'
      BY <2>2 DEF IInv, Accepted, PlacedOld, PlacedForeign, PlacedProbe
    <2>4. PlacedTemp'
      BY <2>2 DEF IInv, PlacedTemp
    <2> QED
      BY <2>1, <2>3, <2>4 DEF IInv
  <1> QED
    BY <1>1, <1>2, <1>3, <1>4, <1>5 DEF Next

(* Every reachable state satisfies the inductive invariant. *)
THEOREM Invariance == Spec => []IInv
  BY InitIInv, Inductive, PTL DEF Spec

(***************************************************************************)
(* The variables keep their types: a byte counter never leaves int64.      *)
(***************************************************************************)
THEOREM TypeCorrect == Spec => []TypeOK
  <1>1. IInv => TypeOK
    BY DEF IInv
  <1> QED
    BY <1>1, Invariance, PTL

(***************************************************************************)
(* The name a call writes, chmods, renames and removes is its own file's   *)
(* (http.go:241-249), however many calls draw names.                       *)
(***************************************************************************)
THEOREM OwnershipHolds == Spec => []TempOwned
  <1>1. IInv => TempOwned
    BY DEF IInv
  <1> QED
    BY <1>1, Invariance, PTL

LEMMA WholeFromIInv == IInv => DestinationWhole
  <1> SUFFICES ASSUME IInv, NEW p \in Path
               PROVE  \/ entry[p] \in {NoFile, Old(p)}
                      \/ \E c \in Call : Target[c] = p /\ entry[p] = Temp(c) /\ Whole(c)
    BY DEF DestinationWhole
  <1>1. entry[p] \in Inode \cup {NoFile}
    BY NamesDistinct DEF IInv, TypeOK
  <1>2. ASSUME NEW q \in Path, entry[p] = Old(q) PROVE q = p
    BY <1>2, NamesDistinct DEF IInv, PlacedOld
  <1>3. \A n \in TempName : entry[p] # Foreign(n)
    BY NamesDistinct DEF IInv, PlacedForeign
  <1>4. \A c \in Call : entry[p] # Probe(c)
    BY NamesDistinct DEF IInv, PlacedProbe
  <1>5. \A c \in Call : entry[p] = Temp(c) => Target[c] = p /\ Whole(c)
    BY NamesDistinct DEF IInv, PlacedTemp
  <1> QED
    BY <1>1, <1>2, <1>3, <1>4, <1>5, InodeKinds

(***************************************************************************)
(* A destination is what it was or a complete, validated body, at every    *)
(* moment and after any crash (http.go:156-216).                           *)
(***************************************************************************)
THEOREM DestinationsWhole == Spec => []DestinationWhole
  BY WholeFromIInv, Invariance, PTL

(***************************************************************************)
(* Only a crash or a failing os.Remove leaves a temporary file behind      *)
(* (http.go:165-170, 242-249).                                             *)
(***************************************************************************)
THEOREM NoTempFileStrays == Spec => []NoStrayTemp
  <1>1. IInv => NoStrayTemp
    <2> SUFFICES ASSUME IInv, NEW n \in TempName,
                        entry[n] \notin {NoFile, Foreign(n)} \cup stuck
                 PROVE  \E c \in Call : /\ tmp[c] = n /\ entry[n] \in {Probe(c), Temp(c)}
                                        /\ pc[c] \in Holding \cup {"unlink", "crashed"}
      BY DEF NoStrayTemp
    <2>1. entry[n] \in Inode
      BY NamesDistinct DEF IInv, TypeOK
    <2>2. \A p \in Path : entry[n] # Old(p)
      BY NamesDistinct DEF IInv, PlacedOld
    <2>3. \A m \in TempName : entry[n] # Foreign(m)
      BY NamesDistinct DEF IInv, PlacedForeign
    <2>4. PICK c \in Call : entry[n] \in {Probe(c), Temp(c)}
      BY <2>1, <2>2, <2>3, InodeKinds
    <2>5. CASE entry[n] = Probe(c)
      BY <2>5, NamesDistinct DEF IInv, PlacedProbe
    <2>6. CASE entry[n] = Temp(c)
      BY <2>6, NamesDistinct DEF IInv, PlacedTemp
    <2> QED
      BY <2>4, <2>5, <2>6
  <1> QED
    BY <1>1, Invariance, PTL

(***************************************************************************)
(* A limit never truncates: the size returned without error is that of     *)
(* the whole body (http.go:172-194), MaxResponseBytes = MaxInt64 included. *)
(***************************************************************************)
THEOREM SizeReported == Spec => []ReportedSizeIsWhole
  <1>1. IInv => ReportedSizeIsWhole
    BY DEF IInv, Accepted, Counted, Whole, ReportedSizeIsWhole
  <1> QED
    BY <1>1, Invariance, PTL

-----------------------------------------------------------------------------

(* Files no call created, and other programs' names, after a step. *)
FilesStay == \A i \in Outsider : file'[i] = file[i]
NamesStay == \A n \in TempName : entry[n] = Foreign(n) => entry'[n] = Foreign(n)

LEMMA OthersKept == IInv /\ Next => FilesStay /\ NamesStay
  <1> USE DEF FilesStay, NamesStay
  <1> SUFFICES ASSUME IInv, Next PROVE FilesStay /\ NamesStay
    OBVIOUS
  <1>1. CASE UNCHANGED <<entry, file>>
    BY <1>1
  <1>2. ASSUME NEW c \in Call, CreateTemp(c) \/ Reopen(c) PROVE FilesStay /\ NamesStay
    <2>1. ASSUME NEW n \in TempName, entry[n] = NoFile, NEW i,
                 entry' = [entry EXCEPT ![n] = i]
          PROVE  NamesStay
      BY <2>1, NamesDistinct DEF IInv, TypeOK
    <2>2. pc[c] = "reopen" => tmp[c] \in TempName
      BY DEF IInv, TmpDrawn
    <2> QED
      BY <1>2, <2>1, <2>2 DEF CreateTemp, Reopen, NameFree, Goto
  <1>3. ASSUME NEW c \in Call, Unlink(c) \/ Cleanup(c) PROVE FilesStay /\ NamesStay
    <2>1. pc[c] \in Holding \cup {"unlink"} /\ file' = file
      BY <1>3 DEF Unlink, Cleanup, Goto, Holding
    <2>2. CASE entry' = [entry EXCEPT ![tmp[c]] = NoFile]
      <3>1. \A n \in TempName \ {tmp[c]} : entry'[n] = entry[n]
        BY <2>1, <2>2, RemoveOwn, NamesDistinct
      <3>2. entry[tmp[c]] # Foreign(tmp[c])
        <4>1. entry[tmp[c]] = Probe(c) \/ entry[tmp[c]] = Temp(c)
          BY <2>1, <2>2, RemoveOwn
        <4> QED
          BY <4>1, InodesDistinct
      <3> QED
        BY <2>1, <3>1, <3>2
    <2> QED
      BY <1>3, <2>1, <2>2 DEF Unlink, Cleanup, Remove
  <1>4. ASSUME NEW c \in Call, Receive(c) \/ Chmod(c) PROVE FilesStay /\ NamesStay
    <2>1. \A i \in Outsider : i \in Inode /\ i # Temp(c)
      BY InodesDistinct DEF Outsider, Inode
    <2>2. pc[c] = "chmod" => entry[tmp[c]] = Temp(c)
      BY DEF IInv, TempOwned, Holding
    <2>3. NamesStay
      BY <1>4 DEF Receive, Chmod
    <2> QED
      BY <1>4, <2>1, <2>2, <2>3 DEF Receive, Chmod, Goto, IInv, TypeOK
  <1>5. ASSUME NEW c \in Call, Rename(c) PROVE FilesStay /\ NamesStay
    <2>1. /\ tmp[c] \in TempName /\ entry[tmp[c]] = Temp(c)
          /\ Target[c] \notin TempName /\ file' = file
      BY <1>5, NamesDistinct DEF Rename, Goto, IInv, TmpDrawn, TempOwned, Holding
    <2>2. NamesStay
      <3>1. entry[tmp[c]] # Foreign(tmp[c])
        BY <2>1, InodesDistinct
      <3>2. \A n \in TempName \ {tmp[c]} : entry'[n] = entry[n]
        BY <1>5, <2>1, NamesDistinct DEF Rename, IInv, TypeOK
      <3> QED
        BY <3>1, <3>2
    <2> QED
      BY <2>1, <2>2
  <1>6. ASSUME NEW n \in TempName, Squat(n) PROVE FilesStay /\ NamesStay
    BY <1>6, NamesDistinct DEF Squat, IInv, TypeOK
  <1> QED
    BY <1>1, <1>2, <1>3, <1>4, <1>5, <1>6
    DEF Next, Local, Network, Begin, Respond, RequestFails, MkdirAll, CopyDone,
        CopyFails, StatDst, Return, Expire, Crash

(***************************************************************************)
(* No step writes or chmods a file no call made, or takes another          *)
(* program's file from a temporary name (http.go:196-249).                 *)
(***************************************************************************)
THEOREM OthersStay == Spec => OthersUntouched
  <1>1. IInv /\ [Next]_vars => [FilesStay /\ NamesStay]_vars
    BY OthersKept
  <1>2. [FilesStay /\ NamesStay]_vars =>
          [/\ \A i \in Outsider : file'[i] = file[i]
           /\ \A n \in TempName : entry[n] = Foreign(n) => entry'[n] = Foreign(n)]_vars
    BY DEF FilesStay, NamesStay
  <1> QED
    BY <1>1, <1>2, Invariance, PTL DEF Spec, OthersUntouched

-----------------------------------------------------------------------------

(* What a destination refers to decides what the abstract store holds. *)
Determined ==
  \A p \in Path : \/ entry[p] = NoFile /\ ContentOf(p) = NoFile
                  \/ entry[p] = Old(p) /\ ContentOf(p) = "original"
                  \/ \E c \in Call : entry[p] = Temp(c) /\ ContentOf(p) = c

LEMMA ContentDetermined == IInv => Determined
  <1> SUFFICES ASSUME IInv, NEW p \in Path
               PROVE  \/ entry[p] = NoFile /\ ContentOf(p) = NoFile
                      \/ entry[p] = Old(p) /\ ContentOf(p) = "original"
                      \/ \E c \in Call : entry[p] = Temp(c) /\ ContentOf(p) = c
    BY DEF Determined
  <1>1. CASE entry[p] \in {NoFile, Old(p)}
    BY <1>1, NamesDistinct DEF ContentOf
  <1>2. ASSUME NEW c \in Call, entry[p] = Temp(c), Whole(c)
        PROVE  ContentOf(p) = c
    <2>1. entry[p] # NoFile /\ entry[p] # Old(p)
      BY <1>2, NamesDistinct, InodesDistinct
    <2>2. (CHOOSE d \in Call : entry[p] = Temp(d)) = c
      BY <1>2, InodesDistinct
    <2> QED
      BY <1>2, <2>1, <2>2 DEF ContentOf
  <1>3. DestinationWhole
    BY WholeFromIInv
  <1> QED
    BY <1>1, <1>2, <1>3 DEF DestinationWhole

LEMMA ContentDeterminedNext == IInv' => Determined'
  BY ContentDetermined, PTL

LEMMA ContentKept ==
  ASSUME IInv, IInv', NEW p \in Path, entry'[p] = entry[p]
  PROVE  ContentOf(p)' = ContentOf(p)
  BY ContentDetermined, ContentDeterminedNext, InodesDistinct, NamesDistinct DEF Determined

(* A move of a call that changes no destination is a stutter, a failure, a *)
(* death or a return of the abstract call.                                 *)
LEMMA MoveRefines ==
  ASSUME IInv, IInv', NEW c \in Call, NEW l \in Label,
         pc' = [pc EXCEPT ![c] = l], \A p \in Path : entry'[p] = entry[p],
         \/ pc[c] \notin Ended \cup {"return"} /\ l \notin {"ok", "return"}
         \/ pc[c] = "return" /\ l \in {"ok", "crashed"}
  PROVE  [Abstract!Next]_(Abstract!vars)
  <1> DEFINE content == [p \in Path |-> ContentOf(p)]
             status  == [d \in Call |-> StatusOf(d)]
  <1>1. content' = content
    BY ContentKept
  <1>2. pc'[c] = l /\ \A d \in Call \ {c} : pc'[d] = pc[d]
    BY DEF IInv, TypeOK
  <1>3. status' = [status EXCEPT ![c] = StatusOf(c)']
    BY <1>2 DEF StatusOf
  <1>4. CASE StatusOf(c)' = StatusOf(c)
    <2>1. status' = status
      BY <1>3, <1>4
    <2> QED
      BY <1>1, <2>1 DEF Abstract!vars
  <1>5. CASE l = "failed" /\ pc[c] \notin Ended \cup {"return"}
    <2>1. status[c] = "running" /\ StatusOf(c)' = "failed"
      BY <1>2, <1>5 DEF StatusOf, Ended
    <2>2. Abstract!Fail(c)
      BY <1>1, <1>3, <2>1 DEF Abstract!Fail
    <2> QED
      BY <2>2 DEF Abstract!Next
  <1>6. CASE l = "crashed"
    <2>1. status[c] \in {"running", "installed"} /\ StatusOf(c)' = "dead"
      BY <1>2, <1>6 DEF StatusOf, Ended
    <2>2. Abstract!Die(c)
      BY <1>1, <1>3, <2>1 DEF Abstract!Die
    <2> QED
      BY <2>2 DEF Abstract!Next
  <1>7. CASE l = "ok" /\ pc[c] = "return"
    <2>1. status[c] = "installed" /\ StatusOf(c)' = "ok"
      BY <1>2, <1>7 DEF StatusOf
    <2>2. Abstract!Return(c)
      BY <1>1, <1>3, <2>1 DEF Abstract!Return
    <2> QED
      BY <2>2 DEF Abstract!Next
  <1>8. pc[c] \notin Ended \cup {"return"} /\ l \notin {"ok", "return", "failed", "crashed"}
          => StatusOf(c)' = StatusOf(c)
    BY <1>2 DEF StatusOf, Ended
  <1> QED
    BY <1>4, <1>5, <1>6, <1>7, <1>8

LEMMA InstallRefines ==
  ASSUME IInv, IInv', NEW c \in Call, pc[c] = "rename",
         pc' = [pc EXCEPT ![c] = "return"],
         entry' = [entry EXCEPT ![Target[c]] = entry[tmp[c]], ![tmp[c]] = NoFile]
  PROVE  Abstract!Next
  <1> DEFINE content == [p \in Path |-> ContentOf(p)]
             status  == [d \in Call |-> StatusOf(d)]
  <1>1. /\ tmp[c] \in TempName /\ entry[tmp[c]] = Temp(c)
        /\ Target[c] \in Path /\ Target[c] # tmp[c]
    BY NamesDistinct DEF IInv, TmpDrawn, TempOwned, Holding
  <1>2. entry'[Target[c]] = Temp(c)
    BY <1>1, NamesDistinct DEF IInv, TypeOK
  <1>3. \A p \in Path \ {Target[c]} : entry'[p] = entry[p]
    BY <1>1, NamesDistinct DEF IInv, TypeOK
  <1>4. ContentOf(Target[c])' = c
    BY <1>1, <1>2, ContentDeterminedNext, InodesDistinct, NamesDistinct DEF Determined
  <1>5. content' = [content EXCEPT ![Target[c]] = c]
    BY <1>1, <1>3, <1>4, ContentKept
  <1>6. pc'[c] = "return" /\ \A d \in Call \ {c} : pc'[d] = pc[d]
    BY DEF IInv, TypeOK
  <1>7. status[c] = "running" /\ status' = [status EXCEPT ![c] = "installed"]
    BY <1>6 DEF StatusOf
  <1>8. Abstract!Install(c)
    BY <1>5, <1>7 DEF Abstract!Install
  <1> QED
    BY <1>8 DEF Abstract!Next

LEMMA InitRefines == Init => Abstract!Init
  <1> SUFFICES ASSUME Init PROVE Abstract!Init
    OBVIOUS
  <1>1. \A p \in Path : entry[p] \in {NoFile, Old(p)}
    BY NamesDistinct DEF Init
  <1>2. \A p \in Path : ContentOf(p) \in {NoFile, "original"}
    BY <1>1 DEF ContentOf
  <1>3. \A c \in Call : StatusOf(c) = "running"
    BY DEF Init, StatusOf
  <1> QED
    BY <1>2, <1>3 DEF Abstract!Init

LEMMA StepRefines == IInv /\ IInv' /\ [Next]_vars => [Abstract!Next]_(Abstract!vars)
  <1> SUFFICES ASSUME IInv, IInv', [Next]_vars PROVE [Abstract!Next]_(Abstract!vars)
    OBVIOUS
  <1>1. ASSUME NEW c \in Call, Rename(c) PROVE [Abstract!Next]_(Abstract!vars)
    <2>1. CASE pc' = [pc EXCEPT ![c] = "cleanup"] /\ entry' = entry
      BY <1>1, <2>1, MoveRefines DEF Rename, Goto, Label, Holding, Ended
    <2>2. CASE /\ pc' = [pc EXCEPT ![c] = "return"]
               /\ entry' = [entry EXCEPT ![Target[c]] = entry[tmp[c]], ![tmp[c]] = NoFile]
      BY <1>1, <2>2, InstallRefines DEF Rename, Goto
    <2> QED
      BY <1>1, <2>1, <2>2 DEF Rename, Goto
  <1>2. ASSUME NEW c \in Call, CreateTemp(c) \/ Unlink(c) \/ Reopen(c) \/ Cleanup(c)
        PROVE  [Abstract!Next]_(Abstract!vars)
    <2>1. PICK l \in Label \ {"ok", "return"} : pc' = [pc EXCEPT ![c] = l]
      BY <1>2
      DEF CreateTemp, Unlink, Reopen, Cleanup, AfterReopen, Goto, Label, Holding, Ended
    <2>2. pc[c] \notin Ended \cup {"return"}
      BY <1>2 DEF CreateTemp, Unlink, Reopen, Cleanup, Goto, Ended
    <2>3. \A p \in Path : entry'[p] = entry[p]
      <3>1. ASSUME NEW n \in TempName, NEW i, entry' = [entry EXCEPT ![n] = i]
            PROVE  \A p \in Path : entry'[p] = entry[p]
        BY <3>1, NamesDistinct DEF IInv, TypeOK
      <3>2. pc[c] \in {"unlink", "reopen", "cleanup"} => tmp[c] \in TempName
        BY DEF IInv, TmpDrawn, Holding
      <3> QED
        BY <1>2, <3>1, <3>2 DEF CreateTemp, Unlink, Reopen, Cleanup, Remove, Goto
    <2> QED
      BY <2>1, <2>2, <2>3, MoveRefines
  <1>3. ASSUME NEW c \in Call,
               \/ Begin(c) \/ MkdirAll(c) \/ StatDst(c) \/ Chmod(c) \/ Network(c)
        PROVE  [Abstract!Next]_(Abstract!vars)
    <2>1. PICK l \in Label \ {"ok", "return"} : pc' = [pc EXCEPT ![c] = l]
      BY <1>3
      DEF Begin, MkdirAll, StatDst, Chmod, Network, Respond, RequestFails, Receive,
          CopyDone, CopyFails, Goto, Label, Holding, Ended
    <2>2. pc[c] \notin Ended \cup {"return"} /\ entry' = entry
      BY <1>3
      DEF Begin, MkdirAll, StatDst, Chmod, Network, Respond, RequestFails, Receive,
          CopyDone, CopyFails, Goto, Ended
    <2> QED
      BY <2>1, <2>2, MoveRefines
  <1>4. ASSUME NEW c \in Call, Return(c) PROVE [Abstract!Next]_(Abstract!vars)
    BY <1>4, MoveRefines DEF Return, Goto, Label, Ended
  <1>5. ASSUME NEW c \in Call, Crash(c) PROVE [Abstract!Next]_(Abstract!vars)
    BY <1>5, MoveRefines DEF Crash, Label, Ended
  <1>6. CASE pc' = pc /\ \A p \in Path : entry'[p] = entry[p]
    <2>1. \A p \in Path : ContentOf(p)' = ContentOf(p)
      BY <1>6, ContentKept
    <2>2. \A c \in Call : StatusOf(c)' = StatusOf(c)
      BY <1>6 DEF StatusOf
    <2> QED
      BY <2>1, <2>2 DEF Abstract!vars
  <1>7. ASSUME NEW c \in Call, Expire(c) PROVE pc' = pc /\ entry' = entry
    BY <1>7 DEF Expire
  <1>8. ASSUME NEW n \in TempName, Squat(n)
        PROVE  pc' = pc /\ \A p \in Path : entry'[p] = entry[p]
    BY <1>8, NamesDistinct DEF Squat, IInv, TypeOK
  <1>9. UNCHANGED vars => pc' = pc /\ entry' = entry
    BY DEF vars
  <1> QED
    BY <1>1, <1>2, <1>3, <1>4, <1>5, <1>6, <1>7, <1>8, <1>9 DEF Next, Local

(***************************************************************************)
(* Gather replaces its destination atomically: the calls implement         *)
(* AtomicReplace, the rename (http.go:214) being the step that installs.   *)
(***************************************************************************)
THEOREM GatherReplacesAtomically == Spec => ReplacesAtomically
  BY InitRefines, StepRefines, Invariance, PTL DEF Spec, ReplacesAtomically, Abstract!Spec

-----------------------------------------------------------------------------
(* Concurrent downloads keep the mode of the file they replace.  It is read  *)
(* by os.Stat, applied to the temporary file and installed in three steps,   *)
(* and other calls may replace the destination between any two of them.      *)

(* The mode the file at destination p is to have once it is replaced. *)
WantedMode(p) ==
  IF file[Old(p)].kind \in {"file", "link"} THEN file[Old(p)].mode ELSE FreshMode

IsDir(p) == file[Old(p)].kind = "dir"

(* What was at a destination first limits what can be there later. *)
Kinds ==
  \A p \in Path :
    /\ file[Old(p)].kind = "absent" => entry[p] # Old(p)
    /\ file[Old(p)].kind \in {"file", "link"} => entry[p] # NoFile
    /\ IsDir(p) => entry[p] = Old(p)

TempKind == \A c \in Call : file[Temp(c)].kind = "file"

(* Where a call has not applied a mode to its temporary file yet. *)
Early == {"begin", "request", "mkdir", "mktemp", "unlink", "reopen",
          "copy", "stat", "chmod"}

Fresh == \A c \in Call : pc[c] \in Early => file[Temp(c)].mode = FreshMode

(* A mode read is the wanted one: whoever replaced the file kept it. *)
StatSeen ==
  \A c \in Call : pc[c] = "chmod" =>
    statMode[c] = WantedMode(Target[c]) \/ IsDir(Target[c])

Ready ==
  \A c \in Call : pc[c] = "rename" =>
    file[Temp(c)].mode = WantedMode(Target[c]) \/ IsDir(Target[c])

MInv == Kinds /\ TempKind /\ Fresh /\ StatSeen /\ Ready /\ ModeKept

-----------------------------------------------------------------------------

LEMMA InitMInv == Init => MInv
  <1> SUFFICES ASSUME Init PROVE MInv
    OBVIOUS
  <1>1. PICK k \in [Path -> Kind], m \in [Path -> Mode] :
          /\ file = [i \in Inode |->
                       IF i \in {Old(p) : p \in Path}
                         THEN [kind |-> k[i[1]], mode |-> m[i[1]], len |-> 0]
                         ELSE [kind |-> "file", mode |-> FreshMode, len |-> 0]]
          /\ entry = [n \in Name |-> IF n \in Path /\ k[n] # "absent"
                                       THEN Old(n) ELSE NoFile]
    BY DEF Init
  <1>2. \A c \in Call : file[Temp(c)].kind = "file" /\ file[Temp(c)].mode = FreshMode
    <2>1. \A c \in Call : Temp(c) \in Inode /\ Temp(c) \notin {Old(p) : p \in Path}
      BY InodesDistinct, InodeKinds
    <2> QED
      BY <1>1, <2>1
  <1>3. \A p \in Path : file[Old(p)].kind = k[p]
    <2>1. \A p \in Path : Old(p)[1] = p
      BY DEF Old
    <2> QED
      BY <1>1, <2>1, InodeKinds
  <1>4. Kinds
    BY <1>1, <1>3, NamesDistinct DEF Kinds, IsDir
  <1>5. \A c \in Call : pc[c] = "begin"
    BY DEF Init
  <1>6. ModeKept
    BY <1>1, InodesDistinct, NamesDistinct DEF ModeKept
  <1> QED
    BY <1>2, <1>4, <1>5, <1>6 DEF MInv, TempKind, Fresh, StatSeen, Ready

-----------------------------------------------------------------------------

(* No mode, kind or destination changes, and no call gets to chmod or rename. *)
Quiet ==
  /\ \A i \in Inode : file'[i].kind = file[i].kind /\ file'[i].mode = file[i].mode
  /\ \A p \in Path : entry'[p] = entry[p]
  /\ statMode' = statMode
  /\ \A d \in Call : \/ pc'[d] = pc[d]
                     \/ /\ pc'[d] \notin {"chmod", "rename"}
                        /\ pc'[d] \in Early => pc[d] \in Early

LEMMA QuietMInv == ASSUME MInv, Quiet PROVE MInv'
  <1>1. \A p \in Path : WantedMode(p)' = WantedMode(p) /\ IsDir(p)' = IsDir(p)
    BY InodeKinds DEF Quiet, WantedMode, IsDir
  <1>2. Kinds' /\ TempKind'
    BY InodeKinds DEF Quiet, MInv, Kinds, TempKind, IsDir
  <1>3. Fresh'
    BY InodeKinds DEF Quiet, MInv, Fresh
  <1>4. StatSeen' /\ Ready'
    BY <1>1, InodeKinds, NamesDistinct DEF Quiet, MInv, StatSeen, Ready
  <1>5. ModeKept'
    BY InodeKinds, NamesDistinct DEF Quiet, MInv, ModeKept
  <1> QED
    BY <1>2, <1>3, <1>4, <1>5 DEF MInv

(* The steps before the temporary file exists. *)
LEMMA EarlyQuiet ==
  ASSUME IInv, NEW c \in Call,
         \/ Begin(c) \/ Respond(c) \/ RequestFails(c) \/ MkdirAll(c)
         \/ CreateTemp(c) \/ Unlink(c) \/ Reopen(c)
  PROVE  Quiet
  <1>1. file' = file /\ statMode' = statMode
    BY DEF Begin, Respond, RequestFails, MkdirAll, CreateTemp, Unlink, Reopen, callVars
  <1>2. \A p \in Path : entry'[p] = entry[p]
    <2>1. ASSUME NEW n \in TempName, NEW i, entry' = [entry EXCEPT ![n] = i]
          PROVE  \A p \in Path : entry'[p] = entry[p]
      BY <2>1, NamesDistinct DEF IInv, TypeOK
    <2>2. pc[c] \in {"unlink", "reopen"} => tmp[c] \in TempName
      BY DEF IInv, TmpDrawn
    <2> QED
      BY <2>1, <2>2
      DEF Begin, Respond, RequestFails, MkdirAll, CreateTemp, Unlink, Remove, Reopen, Goto
  <1>3. \E l : /\ pc' = [pc EXCEPT ![c] = l] /\ pc[c] \in Early
               /\ l \notin {"chmod", "rename"}
    BY DEF Begin, Respond, RequestFails, MkdirAll, CreateTemp, Unlink, Reopen,
           AfterReopen, Goto, Early
  <1> QED
    BY <1>1, <1>2, <1>3 DEF Quiet, IInv, TypeOK

(* The copy, the ends of a call, and the environment. *)
LEMMA LateQuiet ==
  ASSUME IInv, NEW c \in Call,
         \/ Receive(c) \/ CopyDone(c) \/ CopyFails(c) \/ Cleanup(c)
         \/ Return(c) \/ Expire(c) \/ Crash(c)
  PROVE  Quiet
  <1>1. \A i \in Inode : file'[i].kind = file[i].kind /\ file'[i].mode = file[i].mode
    <2>1. CASE file' = file
      BY <2>1
    <2>2. CASE file' = [file EXCEPT ![Temp(c)].len = @ + 1]
      BY <2>2, InodeKinds DEF IInv, TypeOK
    <2> QED
      BY <2>1, <2>2 DEF Receive, CopyDone, CopyFails, Cleanup, Return, Expire, Crash
  <1>2. \A p \in Path : entry'[p] = entry[p]
    <2>1. CASE entry' = entry
      BY <2>1
    <2>2. CASE pc[c] = "cleanup" /\ entry' = [entry EXCEPT ![tmp[c]] = NoFile]
      BY <2>2, NamesDistinct DEF IInv, TypeOK, TmpDrawn, Holding
    <2> QED
      BY <2>1, <2>2 DEF Receive, CopyDone, CopyFails, Cleanup, Remove, Goto,
                        Return, Expire, Crash
  <1>3. statMode' = statMode
    BY DEF Receive, CopyDone, CopyFails, Cleanup, Return, Expire, Crash, callVars
  <1>4. \/ pc' = pc
        \/ \E l : /\ pc' = [pc EXCEPT ![c] = l] /\ l \notin {"chmod", "rename"}
                  /\ l \in Early => pc[c] \in Early
    BY DEF Receive, CopyDone, CopyFails, Cleanup, Return, Expire, Crash, Goto, Early
  <1> QED
    BY <1>1, <1>2, <1>3, <1>4 DEF Quiet, IInv, TypeOK

-----------------------------------------------------------------------------

(* What os.Stat finds at p has the wanted mode, unless it is a directory. *)
LEMMA FoundIsWanted ==
  ASSUME IInv, MInv, NEW p \in Path, Found(p)
  PROVE  file[entry[p]].mode = WantedMode(p) \/ IsDir(p)
  <1>1. CASE entry[p] = Old(p)
    <2>1. file[Old(p)].kind \in Kind \ {"dangling", "absent"}
      BY <1>1, InodeKinds DEF Found, MInv, Kinds, IInv, TypeOK
    <2> QED
      BY <1>1, <2>1 DEF WantedMode, IsDir, Kind
  <1>2. ASSUME NEW d \in Call, Target[d] = p, entry[p] = Temp(d)
        PROVE  file[entry[p]].mode = WantedMode(p)
    BY <1>2 DEF MInv, ModeKept, WantedMode
  <1> QED
    BY <1>1, <1>2, WholeFromIInv DEF Found, DestinationWhole

(* Where os.Stat finds nothing, the umask's mode is the wanted one. *)
LEMMA NotFoundIsFresh ==
  ASSUME IInv, MInv, NEW p \in Path, ~Found(p)
  PROVE  WantedMode(p) = FreshMode
  <1>1. CASE entry[p] = NoFile
    BY <1>1 DEF MInv, Kinds, WantedMode
  <1>2. CASE entry[p] = Old(p)
    BY <1>2, NamesDistinct DEF Found, WantedMode
  <1>3. ASSUME NEW d \in Call, entry[p] = Temp(d) PROVE FALSE
    BY <1>3, NamesDistinct DEF Found, MInv, TempKind
  <1> QED
    BY <1>1, <1>2, <1>3, WholeFromIInv DEF DestinationWhole

LEMMA StatDstMInv == ASSUME IInv, MInv, NEW c \in Call, StatDst(c) PROVE MInv'
  <1>0. /\ pc[c] = "stat" /\ UNCHANGED <<entry, file>> /\ Target[c] \in Path
        /\ pc' = [pc EXCEPT ![c] = IF Found(Target[c]) THEN "chmod" ELSE "rename"]
        /\ statMode' = [statMode EXCEPT ![c] =
                          IF Found(Target[c]) THEN file[entry[Target[c]]].mode ELSE @]
    BY NamesDistinct DEF StatDst, Goto
  <1>1. \A d \in Call \ {c} : pc'[d] = pc[d] /\ statMode'[d] = statMode[d]
    BY <1>0 DEF IInv, TypeOK
  <1>2. \A p \in Path : WantedMode(p)' = WantedMode(p) /\ IsDir(p)' = IsDir(p)
    BY <1>0 DEF WantedMode, IsDir
  <1>3. Kinds' /\ TempKind' /\ ModeKept'
    BY <1>0 DEF MInv, Kinds, TempKind, ModeKept, IsDir
  <1>4. Fresh'
    BY <1>0, <1>1 DEF MInv, Fresh, Early
  <1>5. CASE Found(Target[c])
    <2>1. pc'[c] = "chmod" /\ statMode'[c] = file[entry[Target[c]]].mode
      BY <1>0, <1>5 DEF IInv, TypeOK
    <2>2. StatSeen' /\ Ready'
      BY <1>0, <1>1, <1>2, <1>5, <2>1, FoundIsWanted, NamesDistinct
      DEF MInv, StatSeen, Ready
    <2> QED
      BY <1>3, <1>4, <2>2 DEF MInv
  <1>6. CASE ~Found(Target[c])
    <2>1. pc'[c] = "rename"
      BY <1>0, <1>6 DEF IInv, TypeOK
    <2>2. file[Temp(c)].mode = WantedMode(Target[c])
      BY <1>0, <1>6, NotFoundIsFresh DEF MInv, Fresh, Early
    <2>3. StatSeen' /\ Ready'
      BY <1>0, <1>1, <1>2, <2>1, <2>2, NamesDistinct DEF MInv, StatSeen, Ready
    <2> QED
      BY <1>3, <1>4, <2>3 DEF MInv
  <1> QED
    BY <1>5, <1>6

LEMMA ChmodMInv == ASSUME IInv, MInv, NEW c \in Call, Chmod(c) PROVE MInv'
  <1>0. pc[c] = "chmod" /\ UNCHANGED <<entry, statMode>> /\ entry[tmp[c]] = Temp(c)
    BY DEF Chmod, Goto, callVars, IInv, TempOwned, Holding
  <1>1. CASE pc' = [pc EXCEPT ![c] = "cleanup"] /\ file' = file
    BY <1>0, <1>1, QuietMInv DEF Quiet, IInv, TypeOK, Early
  <1>2. CASE /\ pc' = [pc EXCEPT ![c] = "rename"]
             /\ file' = [file EXCEPT ![Temp(c)].mode = statMode[c]]
    <2>1. /\ pc'[c] = "rename" /\ \A d \in Call \ {c} : pc'[d] = pc[d]
      BY <1>2 DEF IInv, TypeOK
    <2>2. /\ file'[Temp(c)].mode = statMode[c]
          /\ \A i \in Inode : file'[i].kind = file[i].kind
          /\ \A i \in Inode \ {Temp(c)} : file'[i].mode = file[i].mode
      BY <1>2, InodeKinds DEF IInv, TypeOK
    <2>3. \A p \in Path : WantedMode(p)' = WantedMode(p) /\ IsDir(p)' = IsDir(p)
      BY <2>2, InodeKinds, InodesDistinct DEF WantedMode, IsDir
    <2>4. Kinds' /\ TempKind'
      BY <1>0, <2>2, InodeKinds DEF MInv, Kinds, TempKind, IsDir
    <2>5. Fresh'
      BY <2>1, <2>2, InodeKinds, InodesDistinct DEF MInv, Fresh, Early
    <2>6. StatSeen' /\ Ready'
      BY <1>0, <2>1, <2>2, <2>3, InodeKinds, InodesDistinct, NamesDistinct
      DEF MInv, StatSeen, Ready
    <2>7. entry[Target[c]] # Temp(c)
      BY <1>0, NamesDistinct DEF IInv, PlacedTemp, Holding
    <2>8. ModeKept'
      BY <1>0, <2>2, <2>7, InodeKinds, InodesDistinct, NamesDistinct DEF MInv, ModeKept
    <2> QED
      BY <2>4, <2>5, <2>6, <2>8 DEF MInv
  <1> QED
    BY <1>0, <1>1, <1>2 DEF Chmod, Goto

LEMMA RenameMInv == ASSUME IInv, MInv, NEW c \in Call, Rename(c) PROVE MInv'
  <1>0. /\ pc[c] = "rename" /\ UNCHANGED <<file, statMode>>
        /\ tmp[c] \in TempName /\ entry[tmp[c]] = Temp(c) /\ Target[c] \in Path
    BY NamesDistinct DEF Rename, Goto, callVars, IInv, TmpDrawn, TempOwned, Holding
  <1>1. CASE pc' = [pc EXCEPT ![c] = "cleanup"] /\ entry' = entry
    BY <1>0, <1>1, QuietMInv DEF Quiet, IInv, TypeOK, Early
  <1>2. CASE /\ pc' = [pc EXCEPT ![c] = "return"]
             /\ ~(entry[Target[c]] # NoFile /\ file[entry[Target[c]]].kind = "dir")
             /\ entry' = [entry EXCEPT ![Target[c]] = entry[tmp[c]], ![tmp[c]] = NoFile]
    <2>1. pc'[c] = "return" /\ \A d \in Call \ {c} : pc'[d] = pc[d]
      BY <1>2 DEF IInv, TypeOK
    <2>2. /\ entry'[Target[c]] = Temp(c)
          /\ \A p \in Path \ {Target[c]} : entry'[p] = entry[p]
      BY <1>0, <1>2, NamesDistinct DEF IInv, TypeOK
    <2>3. ~IsDir(Target[c])
      BY <1>0, <1>2, NamesDistinct DEF MInv, Kinds, IsDir
    <2>4. \A p \in Path : WantedMode(p)' = WantedMode(p) /\ IsDir(p)' = IsDir(p)
      BY <1>0 DEF WantedMode, IsDir
    <2>5. Kinds'
      <3>1. \A p \in Path : file'[Old(p)] = file[Old(p)]
        BY <1>0
      <3>2. /\ entry'[Target[c]] # Old(Target[c]) /\ entry'[Target[c]] # NoFile
        BY <1>0, <2>2, InodesDistinct, NamesDistinct
      <3> QED
        BY <2>2, <2>3, <3>1, <3>2 DEF MInv, Kinds, IsDir
    <2>6. TempKind' /\ Fresh' /\ StatSeen' /\ Ready'
      BY <1>0, <2>1, <2>4, NamesDistinct DEF MInv, TempKind, Fresh, StatSeen, Ready, Early
    <2>7. file[Temp(c)].mode = WantedMode(Target[c])
      BY <1>0, <2>3 DEF MInv, Ready
    <2>8. ModeKept'
      BY <1>0, <2>2, <2>7, InodesDistinct, NamesDistinct DEF MInv, ModeKept, WantedMode
    <2> QED
      BY <2>5, <2>6, <2>8 DEF MInv
  <1> QED
    BY <1>1, <1>2 DEF Rename, Goto

LEMMA ModeInductive == IInv /\ MInv /\ [Next]_vars => MInv'
  <1> SUFFICES ASSUME IInv, MInv, [Next]_vars PROVE MInv'
    OBVIOUS
  <1>1. ASSUME NEW c \in Call, Local(c) \/ Network(c) PROVE MInv'
    BY <1>1, EarlyQuiet, LateQuiet, QuietMInv, StatDstMInv, ChmodMInv, RenameMInv
    DEF Local, Network
  <1>2. ASSUME NEW c \in Call, Expire(c) \/ Crash(c) PROVE MInv'
    BY <1>2, LateQuiet, QuietMInv
  <1>3. ASSUME NEW n \in TempName, Squat(n) PROVE MInv'
    <2>1. Quiet
      BY <1>3, NamesDistinct DEF Squat, Quiet, callVars, IInv, TypeOK
    <2> QED
      BY <2>1, QuietMInv
  <1>4. CASE UNCHANGED vars
    <2>1. Quiet
      BY <1>4 DEF vars, callVars, Quiet
    <2> QED
      BY <2>1, QuietMInv
  <1> QED
    BY <1>1, <1>2, <1>3, <1>4 DEF Next

(***************************************************************************)
(* A replaced destination has the mode of the file that was there before   *)
(* the first of any number of concurrent downloads (http.go:196-204).      *)
(***************************************************************************)
THEOREM ReplacementKeepsMode == Spec => []ModeKept
  <1>1. MInv => ModeKept
    BY DEF MInv
  <1> QED
    BY <1>1, Invariance, InitMInv, ModeInductive, PTL DEF Spec
=============================================================================
