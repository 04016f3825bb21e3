------------------------------- MODULE OciGather -------------------------------
(***************************************************************************)
(* OCIGatherer.Gather (gather/oci/oci.go) with SetupClient and IsLoopback  *)
(* (internal/oci): a reference is resolved once, every blob of what it     *)
(* names is written to dst, then the file store is closed.  oras-go        *)
(* appears as its requests.  A job has dst, ref (0 for the tag, else a     *)
(* digest), host, serves, the protocol the registry speaks, tls, the       *)
(* flag, and retrying, which is FALSE with a transport of the caller's.    *)
(***************************************************************************)
EXTENDS TreeCopy

CONSTANTS
  Artifact,  \* digest -> [title -> data]
  Retries    \* how often the default transport repeats a request

VARIABLES
  tag,  \* the digest the tag names now
  pull  \* of each call: the protocol, the digest it resolved, what it still
        \* has to fetch, and the repetitions of the current request

ociVars == <<tag, pull>>

NoPull == [plain |-> FALSE, digest |-> 0, todo |-> {}, tries |-> 0]

IsOci(c) == job[c].kind = "oci"

IsLoopback(host) == host = "loopback"

PlainUnlessForced(j) == j.tls = "off"  \* mutant: no exception for loopback hosts

(* Docker's rule: plain HTTP for a loopback host unless --tls says otherwise. *)
PlainHTTP(j) == j.tls = "off" \/ (IsLoopback(j.host) /\ j.tls # "on")

(* ociURLParse splits at "::", so an IPv6 host leaves no valid reference. *)
OciBegin(c) ==
  LET runs == ~cancelled[c] /\ job[c].host # "ipv6" IN
  /\ IsOci(c) /\ Goto(c, "begin", IF runs THEN "store" ELSE "failed")
  /\ pull' = IF runs THEN [pull EXCEPT ![c] = [NoPull EXCEPT !.plain = PlainHTTP(job[c])]]
                     ELSE pull
  /\ UNCHANGED <<callVars, fs, copyVars, tag>>

(* MkdirAll and the file store on it. *)
OpenStore(c) ==
  LET p == Entry(job[c].dst)
      new == AfterMkdirAll(p, Permission)
      made == IsDir(job[c].dst) \/ p \in DOMAIN new \ DOMAIN fs
  IN
  /\ Goto(c, "store", IF made THEN "resolve" ELSE "failed")
  /\ fs' = new
  /\ UNCHANGED <<callVars, copyVars, ociVars>>

(* The registry answers a request of the protocol it speaks. *)
Reaches(c) == pull[c].plain = (job[c].serves = "http")

Digest(c) == IF job[c].ref = 0 THEN tag ELSE job[c].ref

Resolve(c) ==
  /\ pc[c] = "resolve" /\ ~cancelled[c] /\ Reaches(c) /\ Digest(c) \in DOMAIN Artifact
  /\ Goto(c, "resolve", "pull")
  /\ pull' = [pull EXCEPT ![c].digest = Digest(c), ![c].todo = DOMAIN Artifact[Digest(c)],
                          ![c].tries = 0]
  /\ UNCHANGED <<callVars, fs, copyVars, tag>>

PullOfTag(c) == Artifact[tag]  \* mutant: each blob is looked up under the tag again

PullOf(c) == Artifact[pull[c].digest]

(* Blobs are fetched concurrently, in any order, and verified as written. *)
Pull(c, t) ==
  LET p == Real(Append(job[c].dst, t)) IN
  /\ ~cancelled[c] /\ t \in pull[c].todo /\ t \in DOMAIN PullOf(c) /\ CanCreate(p)
  /\ Goto(c, "pull", "pull")
  /\ fs' = [AfterCreate(p, Permission) EXCEPT ![p].data = PullOf(c)[t]]
  /\ pull' = [pull EXCEPT ![c].todo = @ \ {t}, ![c].tries = 0]
  /\ UNCHANGED <<callVars, copyVars, tag>>

Requesting(c) == IsOci(c) /\ pc[c] \in {"resolve", "pull"}

(* A server error or a network timeout: the transport repeats the request. *)
Repeat(c) ==
  /\ Requesting(c) /\ ~cancelled[c] /\ job[c].retrying /\ pull[c].tries < Retries
  /\ pull' = [pull EXCEPT ![c].tries = @ + 1]
  /\ UNCHANGED <<pc, callVars, fs, copyVars, tag>>

(* A request fails for good: what is asked cannot be had, or an error came  *)
(* once too often.  The blob being written may stay empty.                  *)
RequestFails(c) ==
  LET unwritable(t) == ~CanCreate(Real(Append(job[c].dst, t)))
      hopeless == \/ Interrupted(c) \/ ~Reaches(c)
                  \/ (pc[c] = "resolve" /\ Digest(c) \notin DOMAIN Artifact)
                  \/ (pc[c] = "pull" /\ \E t \in pull[c].todo : unwritable(t))
  IN
  /\ Requesting(c) /\ (pc[c] = "pull" => pull[c].todo # {})
  /\ hopeless \/ ~job[c].retrying \/ pull[c].tries = Retries
  /\ pc' = [pc EXCEPT ![c] = "closing"]
  /\ IF hopeless THEN UNCHANGED fault ELSE Suffers(c, "op")
  /\ fs' \in {fs} \cup {AfterCreate(p, Permission) :
                p \in {q \in {Real(Append(job[c].dst, t)) : t \in pull[c].todo} : CanCreate(q)}}
  /\ UNCHANGED <<job, meta, cancelled, copyVars, ociVars>>

Pulled(c) ==
  /\ pull[c].todo = {} /\ Goto(c, "pull", "closing")
  /\ meta' = [meta EXCEPT ![c] = {pull[c].digest}]
  /\ UNCHANGED <<job, fault, cancelled, fs, copyVars, ociVars>>

CloseStore(c) ==
  /\ Goto(c, "closing", IF meta[c] = {} THEN "failed" ELSE "ok")
  /\ UNCHANGED <<callVars, fs, copyVars, ociVars>>

(* The deferred function turns a failing Close into the call's error. *)
CloseStoreFails(c) ==
  /\ Goto(c, "closing", "failed")
  /\ meta' = MetaReset(c)
  /\ Suffers(c, "op")
  /\ UNCHANGED <<job, cancelled, fs, copyVars, ociVars>>

OciFault(c) ==
  /\ Goto(c, "store", "failed")
  /\ Suffers(c, "op")
  /\ UNCHANGED <<job, meta, cancelled, fs, copyVars, ociVars>>

(* Somebody pushes another artifact under the tag. *)
MoveTag ==
  /\ tag' \in DOMAIN Artifact \ {tag}
  /\ UNCHANGED <<pc, callVars, fs, copyVars, pull>>

OciStep(c) ==
  \/ OciBegin(c) \/ OpenStore(c) \/ Pulled(c) \/ CloseStore(c) \/ CloseStoreFails(c)
  \/ OciFault(c)
=============================================================================
