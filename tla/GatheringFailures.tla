--------------------------- MODULE GatheringFailures ---------------------------
(***************************************************************************)
(* Why a file, git or OCI gather may fail: what, in the tree before any    *)
(* call, in the address or at the server, cannot be gathered.  A failure   *)
(* that nothing of this explains is one the code brought about.            *)
(***************************************************************************)
EXTENDS Gathering

(* The tree before the calls, with the operators on trees. *)
Start == INSTANCE TreeCopy WITH fs <- Tree0

(* The call failed although no operation did, nobody cancelled it and no *)
(* other call interfered.                                                *)
Fails(c) == pc[c] = "failed" /\ fault[c] = "none" /\ ~cancelled[c] /\ Apart(c)

(* p cannot be made, or if it is there written, as a node of the kind. *)
Blocked(p, kind) ==
  IF Start!Exists(p)
    THEN ~Start!Is(Start!Real(p), kind) \/ (kind = "file" /\ ~Start!Writable(Start!Real(p)))
    ELSE Start!Entry(p) \notin Start!Makeable(Start!Entry(p), Permission)

(* d is no directory to write into, and cannot be made one. *)
Unusable(d) == Blocked(d, "dir") \/ (Start!IsDir(d) /\ ~Start!Writable(Start!Real(d)))

(* Some entry below s of the tree t leads nowhere, is in the way at d, or is *)
(* a directory whose mode, once d has it, forbids to fill it.                *)
CopyBlocked(t, s, d) ==
  \E q \in {r \in DOMAIN t : Under(r, s)} :
    LET to == IF t[q].kind = "link" THEN t[q].to ELSE q IN
    \/ to \notin DOMAIN t
    \/ Blocked(d \o Rest(q, s), t[to].kind)
    \/ t[q].kind = "dir" /\ "write" \notin t[q].mode /\ \E r \in DOMAIN t : r # <<>> /\ Parent(r) = q

(* No directory to copy into itself, no archive that is damaged, empty or of *)
(* a format without expander, no name url.Parse makes nothing of.            *)
FileReason(c) ==
  LET s == job[c].src
      d == job[c].dst
      real == Start!Real(s)
      data == Tree0[real].data
  IN
  \/ (\E p \in {s, d} : ExpandPath(c, p) = {}) \/ ~Start!Exists(s)
  \/ /\ Start!IsDir(s)
     /\ CopyBlocked(Tree0, real, d) \/ (Start!Real(d) # real /\ Under(Start!Real(d), real))
  \/ /\ Start!Is(real, "file") /\ HasMagic(data)
     /\ \/ Format[s[Len(s)]] # "expander" \/ data[Len(data)] = Damaged
        \/ Len(data) = 1 /\ ~Start!Exists(d)
        \/ Unusable(d)
  \/ /\ Start!Is(real, "file") /\ ~HasMagic(data)
     /\ \/ UrlFails(s) \/ UrlFails(d) \/ ~Start!Is(Start!Real(UrlPath(s)), "file")
        \/ ~Start!CanCreate(Start!Real(UrlPath(d)))

(* A confined copy takes directories and files, and links to files inside. *)
SubdirUnfit(t, sub) ==
  \/ sub \notin DOMAIN t \/ t[sub].kind # "dir"
  \/ \E q \in DOMAIN t : Under(q, sub) /\ t[q].kind = "link"
                          /\ (t[q].to \notin DOMAIN t \/ t[t[q].to].kind # "file")

(* A depth or ref the caller got wrong, a destination that cannot be used or *)
(* is a repository, a commit beyond the depth fetched, or a subdirectory of  *)
(* it that cannot be copied: the last two only of a clone that was fetched.  *)
GitReason(c) ==
  LET n == Revision(c)
      sub == Subdir(Url(c))
      dst == job[c].dst
  IN
  \/ first[c].meta = {} /\ (Url(c).depth = BadDepth \/ Url(c).ref.kind = "unknown")
  \/ ~Temporary(c) /\ (Unusable(dst) \/ Start!Exists(Append(dst, DotGit)))
  \/ clone[c].have # {} /\ n \notin clone[c].have
  \/ /\ Temporary(c) /\ n \in clone[c].have
     /\ SubdirUnfit(Commits[n], sub) \/ CopyBlocked(Commits[n], sub, dst)

(* A digest nobody has, a protocol the registry does not speak where neither *)
(* the flag nor Docker's rule for loopback hosts asks for it, a destination  *)
(* or blob that cannot be written.                                           *)
OciReason(c) ==
  LET j == job[c] IN
  \/ Digest(c) \notin DOMAIN Artifact
  \/ j.serves = "https" /\ (j.tls = "off" \/ (j.tls = "unset" /\ j.host # "remote"))
  \/ j.serves = "http" /\ (j.tls = "on" \/ (j.tls = "unset" /\ j.host = "remote"))
  \/ Unusable(j.dst)
  \/ pull[c].digest # 0
     /\ \E t \in DOMAIN Artifact[pull[c].digest] : Blocked(Append(j.dst, t), "file")

(* Failures that the repository says do not happen: a link to a directory in *)
(* a source (helpers.go:49, "it follows them"), a registry at ::1 (oci.go:93 *)
(* and network.go:48 count it as loopback), and the pinned form of an        *)
(* address with its depth before its ref (git.go:205).                       *)
Divergence(c) ==
  \/ IsFile(c) /\ \E q \in Start!Tree(Start!Real(job[c].src)) :
                     Start!Is(q, "link") /\ Start!IsDir(q)
  \/ IsOci(c) /\ job[c].host = "ipv6"
  \/ IsGit(c) /\ first[c].meta # {} /\ Url(c).depthFirst

Explained(c) ==
  CASE IsFile(c) -> FileReason(c)
    [] IsGit(c)  -> GitReason(c)
    [] IsOci(c)  -> OciReason(c)

(***************************************************************************)
(* A call nobody interferes with fails only for a reason that was there    *)
(* before: at whichever step it gave up, something about its source, its   *)
(* destination or its server, and not what the gather did, is the cause.   *)
(***************************************************************************)
FailureExplained == \A c \in Call : Fails(c) /\ ~Divergence(c) => Explained(c)

=============================================================================
