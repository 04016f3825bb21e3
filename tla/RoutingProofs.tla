----------------------------- MODULE RoutingProofs -----------------------------
(***************************************************************************)
(* Proofs about Routing.  The matchers overlap, so what decides is what    *)
(* the ones that were asked before have said: the inductive invariant is   *)
(* that all of them refused.                                               *)
(***************************************************************************)
EXTENDS Routing, TLAPS

(* The order of registration: what comes first in Expanders does here. *)
Ordered ==
  \A i, j \in 1..Len(registered) :
    \E k, l \in 1..Len(Expanders) :
      /\ registered[i] = Expanders[k] /\ registered[j] = Expanders[l]
      /\ i < j => k < l

RInv ==
  /\ query \in [uri: Source] \cup [suffix: Suffix]
  /\ IF IsSource THEN registered = Gatherers
     ELSE registered \in Seq({"bzip2", "tar", "zip"}) /\ Ordered
  /\ Len(registered) \in Nat /\ at \in 1..Len(registered) + 1
  /\ \A i \in 1..at - 1 : ~Matches(registered[i])
  /\ \/ result = "pending"
     \/ at <= Len(registered) /\ result = registered[at] /\ Matches(result)
     \/ result = Nothing /\ (Unsupported \/ at > Len(registered))

(* What a program imports is registered in the order of all there are. *)
LEMMA ImportedInOrder ==
  ASSUME NEW s \in InOrder(Expanders)
  PROVE  /\ s \in Seq({"bzip2", "tar", "zip"})
         /\ \A i, j \in 1..Len(s) : \E k, l \in 1..Len(Expanders) :
              s[i] = Expanders[k] /\ s[j] = Expanders[l] /\ (i < j => k < l)
  <1>1. PICK n \in 0..3 : \E pick \in [1..n -> 1..3] :
          /\ \A i, j \in 1..n : i < j => pick[i] < pick[j]
          /\ s = [i \in 1..n |-> Expanders[pick[i]]]
    BY DEF InOrder, Expanders
  <1>2. PICK pick \in [1..n -> 1..3] :
          /\ \A i, j \in 1..n : i < j => pick[i] < pick[j]
          /\ s = [i \in 1..n |-> Expanders[pick[i]]]
    BY <1>1
  <1>3. /\ \A k \in 1..3 : Expanders[k] \in {"bzip2", "tar", "zip"}
        /\ Len(Expanders) = 3
    BY DEF Expanders
  <1>4. n \in Nat /\ s \in Seq({"bzip2", "tar", "zip"}) /\ Len(s) = n
    BY <1>2, <1>3
  <1> QED
    BY <1>2, <1>3, <1>4

LEMMA InitRInv == Init => RInv
  <1> SUFFICES ASSUME Init PROVE RInv
    OBVIOUS
  <1>1. CASE query \in [uri: Source] /\ registered = Gatherers
    BY <1>1 DEF Init, RInv, IsSource, Gatherers
  <1>2. CASE query \in [suffix: Suffix] /\ registered \in InOrder(Expanders)
    <2>1. registered \in Seq({"bzip2", "tar", "zip"}) /\ Ordered
      BY <1>2, ImportedInOrder DEF Ordered
    <2>2. ~IsSource /\ at = 1 /\ result = "pending"
      BY <1>2 DEF Init, IsSource
    <2> QED
      BY <1>2, <2>1, <2>2 DEF RInv
  <1> QED
    BY <1>1, <1>2 DEF Init

LEMMA StepRInv == RInv /\ [Next]_vars => RInv'
  <1> SUFFICES ASSUME RInv, [Next]_vars PROVE RInv'
    OBVIOUS
  <1>1. CASE Try
    <2>1. /\ query' = query /\ registered' = registered /\ Ordered' <=> Ordered
          /\ IsSource' <=> IsSource
          /\ \A h : Matches(h)' <=> Matches(h)
      BY <1>1 DEF Try, Ordered, IsSource, Matches
    <2>2. CASE Matches(registered[at]) /\ result' = registered[at] /\ UNCHANGED at
      BY <1>1, <2>1, <2>2 DEF RInv, Try
    <2>3. CASE ~Matches(registered[at]) /\ at' = at + 1 /\ UNCHANGED result
      BY <1>1, <2>1, <2>3 DEF RInv, Try
    <2> QED
      BY <1>1, <2>2, <2>3 DEF Try
  <1>2. CASE GiveUp
    BY <1>2 DEF GiveUp, RInv, Ordered, IsSource, Matches, Nothing, Unsupported
  <1>3. CASE UNCHANGED vars
    BY <1>3 DEF vars, RInv, Ordered, IsSource, Matches, Nothing, Unsupported
  <1> QED
    BY <1>1, <1>2, <1>3 DEF Next

THEOREM Invariance == Spec => []RInv
  BY InitRInv, StepRInv, PTL DEF Spec

(* A returned handler is a registered one. *)
THEOREM TypeCorrect == Spec => []TypeOK
  <1>1. RInv => TypeOK
    BY DEF RInv, TypeOK, Nothing
  <1> QED
    BY <1>1, Invariance, PTL

-----------------------------------------------------------------------------

LEMMA AcceptedBy ==
  ASSUME NEW u
  PROVE  /\ Accepts(Gatherers[1], u) <=> FileMatcher(u)
         /\ Accepts(Gatherers[2], u) <=> GitMatcher(u)
         /\ Accepts(Gatherers[3], u) <=> HttpMatcher(u)
         /\ Accepts(Gatherers[4], u) <=> OciMatcher(u)
  <1>1. /\ Gatherers[1] = "file" /\ Gatherers[2] = "git"
        /\ Gatherers[3] = "http" /\ Gatherers[4] = "oci"
    BY DEF Gatherers
  <1>2. Accepts(Gatherers[1], u) <=> FileMatcher(u)
    BY <1>1 DEF Accepts
  <1>3. Accepts(Gatherers[2], u) <=> GitMatcher(u)
    BY <1>1 DEF Accepts
  <1>4. Accepts(Gatherers[3], u) <=> HttpMatcher(u)
    BY <1>1 DEF Accepts
  <1>5. Accepts(Gatherers[4], u) <=> OciMatcher(u)
    BY <1>1 DEF Accepts
  <1> QED
    BY <1>2, <1>3, <1>4, <1>5

(* The lookup of a source that one gatherer accepts and those registered     *)
(* before it refuse ends with that gatherer.                                 *)
LEMMA FirstWins ==
  ASSUME RInv, IsSource, NEW n \in 1..4, Accepts(Gatherers[n], query.uri),
         \A i \in 1..n - 1 : ~Accepts(Gatherers[i], query.uri)
  PROVE  Routed(Gatherers[n])
  <1>1. registered = Gatherers /\ Len(registered) = 4 /\ ~Unsupported
    BY DEF RInv, Gatherers, Unsupported
  <1>2. \A h : Matches(h) <=> Accepts(h, query.uri)
    BY DEF Matches
  <1>3. ~(at > n)
    <2> SUFFICES ASSUME at > n PROVE FALSE
      OBVIOUS
    <2>1. n \in 1..at - 1
      BY <1>1 DEF RInv
    <2> QED
      BY <1>1, <1>2, <2>1 DEF RInv
  <1>4. CASE at <= 4 /\ result = registered[at] /\ Matches(result)
    BY <1>1, <1>2, <1>3, <1>4 DEF RInv, Routed
  <1> QED
    BY <1>1, <1>3, <1>4 DEF RInv, Routed

(***************************************************************************)
(* git.go:77-81 and its likes: file::, git:: and oci:: decide, because     *)
(* every matcher that is asked before looks for them.                      *)
(***************************************************************************)
THEOREM ForcedSources == Spec => []ForcedGathererWins
  <1>1. ASSUME RInv, IsSource, query.uri.force \in {"file", "git", "oci"}
        PROVE  Routed(query.uri.force)
    <2> DEFINE u == query.uri
    <2>1. u \in Source /\ ~u.exists
      BY <1>1 DEF RInv, IsSource, Source
    <2> HIDE DEF u
    <2>2. /\ FileMatcher(u) <=> u.force = "file"
          /\ GitMatcher(u) <=> u.force = "git"
          /\ ~HttpMatcher(u)
          /\ u.force = "oci" => OciMatcher(u)
      BY <1>1, <2>1 DEF FileMatcher, GitMatcher, HttpMatcher, OciMatcher, Prefix, HasColons, u
    <2>3. /\ Gatherers[1] = "file" /\ Gatherers[2] = "git"
          /\ Gatherers[3] = "http" /\ Gatherers[4] = "oci"
      BY DEF Gatherers
    <2>4. CASE u.force = "file"
      <3>1. Accepts(Gatherers[1], u) /\ \A i \in 1..1 - 1 : ~Accepts(Gatherers[i], u)
        BY <2>2, <2>4, AcceptedBy
      <3> QED
        BY <1>1, <2>3, <2>4, <3>1, FirstWins DEF u
    <2>5. CASE u.force = "git"
      <3>1. Accepts(Gatherers[2], u) /\ \A i \in 1..2 - 1 : ~Accepts(Gatherers[i], u)
        BY <2>2, <2>5, AcceptedBy
      <3> QED
        BY <1>1, <2>3, <2>5, <3>1, FirstWins DEF u
    <2>6. CASE u.force = "oci"
      <3>1. Accepts(Gatherers[4], u) /\ \A i \in 1..4 - 1 : ~Accepts(Gatherers[i], u)
        BY <2>2, <2>6, AcceptedBy
      <3> QED
        BY <1>1, <2>3, <2>6, <3>1, FirstWins DEF u
    <2> QED
      BY <1>1, <2>4, <2>5, <2>6 DEF u
  <1>2. RInv => ForcedGathererWins
    BY <1>1 DEF ForcedGathererWins
  <1> QED
    BY <1>2, Invariance, PTL

(***************************************************************************)
(* The search of the git matcher finds every host of a git vendor that the *)
(* HTTP matcher refuses, if the address is in lower case and has no "::".  *)
(***************************************************************************)
THEOREM WebVendors == Spec => []WebVendorGoesToGit
  <1>1. ASSUME RInv, IsSource, NEW u, u = query.uri, u.force = "none",
               u.scheme \in {"http", "https"}, u.host \in VendorHost, ~u.upper,
               u.colons = "no"
        PROVE  Routed("git")
    <2>1. u \in Source /\ ~u.exists
      BY <1>1 DEF RInv, IsSource, Source
    <2>2. ~FileMatcher(u) /\ GitMatcher(u)
      BY <1>1, <2>1 DEF FileMatcher, GitMatcher, HasColons, NamesVendor, Prefix
    <2>3. Gatherers[1] = "file" /\ Gatherers[2] = "git"
      BY DEF Gatherers
    <2> QED
      <3>1. Accepts(Gatherers[2], u) /\ \A i \in 1..2 - 1 : ~Accepts(Gatherers[i], u)
        BY <2>2, AcceptedBy
      <3> QED
        BY <1>1, <2>3, <3>1, FirstWins
  <1>2. RInv => WebVendorGoesToGit
    BY <1>1 DEF WebVendorGoesToGit, WebVendor
  <1> QED
    BY <1>2, Invariance, PTL

(***************************************************************************)
(* Only the zip expander accepts a format that is not its own, and it is   *)
(* registered last, so the expander of the format, if there is one, was    *)
(* asked before it.                                                        *)
(***************************************************************************)
THEOREM OwnExpanders == Spec => []OwnExpanderWins
  <1>1. ASSUME RInv, ~IsSource, NEW f, f = FormatOf(query.suffix),
               NEW i \in 1..Len(registered), registered[i] = f
        PROVE  Routed(f)
    <2>1. /\ \A n \in 1..Len(registered) : registered[n] \in {"bzip2", "tar", "zip"}
          /\ Len(registered) \in Nat
      BY <1>1 DEF RInv
    <2>2. ~Unsupported /\ \A h : Matches(h) <=> Handles(h, f)
      BY <1>1, <2>1 DEF Unsupported, Matches
    <2>3. Handles(f, f)
      BY <1>1, <2>1 DEF Handles
    <2>4. at <= i
      BY <1>1, <2>2, <2>3 DEF RInv
    <2>5. result = "pending" \/ (result = registered[at] /\ Handles(result, f))
      BY <1>1, <2>2, <2>4 DEF RInv
    <2>6. ASSUME result = registered[at], Handles(result, f), result # f
          PROVE  FALSE
      <3>1. at \in 1..Len(registered) /\ at < i
        BY <1>1, <2>1, <2>4, <2>6 DEF RInv
      <3>2. result = "zip" /\ f = "bzip2"
        BY <1>1, <2>1, <2>6, <3>1 DEF Handles
      <3>3. PICK k, l \in 1..Len(Expanders) :
              registered[at] = Expanders[k] /\ registered[i] = Expanders[l] /\ k < l
        BY <1>1, <3>1 DEF RInv, Ordered
      <3> QED
        BY <1>1, <2>6, <3>2, <3>3 DEF Expanders
    <2> QED
      BY <2>5, <2>6 DEF Routed
  <1>2. RInv => OwnExpanderWins
    BY <1>1 DEF OwnExpanderWins
  <1> QED
    BY <1>2, Invariance, PTL
=============================================================================
