-------------------------- MODULE ConfinementProofs --------------------------
(***************************************************************************)
(* Proofs about the temporary clones of Gathering, for any number of calls *)
(* on one tree: a gather that returned has removed its clone, and the copy *)
(* out of a clone reads below its root only.  Both rest on the same facts: *)
(* no link outside a temporary directory leads into one or past one, so    *)
(* what a call is given resolves away from every temporary directory, and  *)
(* a step changes nothing below that of another call.                      *)
(***************************************************************************)
EXTENDS GatheringProofs

(* A path that neither contains the temporary directory of a call in E nor   *)
(* is in it, and one that has nothing to do with any.                        *)
Clear(p, E) == p \in Path /\ \A e \in E : ~Overlap(p, job[e].root)

Away(p) == Clear(p, Owners(job))

RootsOk ==
  \A e \in Owners(job) :
    /\ job[e].root \in Path \ {<<>>}
    /\ \A d \in Owners(job) \ {e} : ~Overlap(job[d].root, job[e].root)
    /\ \A n \in DOMAIN Commits : \A p \in Leads(Commits[n]) :
         Commits[n][p].to[1] = Outside => ~Overlap(Tail(Commits[n][p].to), job[e].root)

(* A link is in a temporary directory, or neither it nor what it leads to    *)
(* has to do with one.                                                       *)
LinkOk(p, to) ==
  \A e \in Owners(job) :
    \/ Under(p, job[e].root) /\ p # job[e].root
    \/ ~Overlap(p, job[e].root) /\ ~Overlap(to, job[e].root)

NodeOk(p, n) ==
  /\ p \in Path /\ DOMAIN n = {"kind", "mode", "data", "to"} /\ n.to \in Path
  /\ n.kind = "link" => LinkOk(p, n.to)

FsOk == \A p \in DOMAIN fs : NodeOk(p, fs[p])

-----------------------------------------------------------------------------
(* Paths. *)

LEMMA PrefixPath ==
  ASSUME NEW p \in Path, NEW i \in 0..Len(p)
  PROVE  /\ SubSeq(p, 1, i) \in Path /\ Len(SubSeq(p, 1, i)) = i
         /\ \A k \in 1..i : SubSeq(p, 1, i)[k] = p[k]
  BY Prefixes DEF Path

LEMMA SuffixPath ==
  ASSUME NEW p \in Path, NEW i \in 1..Len(p)
  PROVE  SubSeq(p, i + 1, Len(p)) \in Path
  <1>1. i + 1 \in Int /\ Len(p) \in Int /\ \A k \in (i + 1)..Len(p) : p[k] \in Name
    BY DEF Path
  <1> QED
    BY <1>1, SubSeqProperties DEF Path

LEMMA ConcatPath ==
  ASSUME NEW p \in Path, NEW q \in Path
  PROVE  /\ p \o q \in Path /\ Len(p \o q) = Len(p) + Len(q)
         /\ \A i \in 1..Len(p) : (p \o q)[i] = p[i]
         /\ Len(p) \in Nat /\ Len(q) \in Nat
  BY ConcatProperties DEF Path

LEMMA AppendPath ==
  ASSUME NEW p \in Path, NEW n \in Name
  PROVE  /\ Append(p, n) \in Path /\ Len(Append(p, n)) = Len(p) + 1
         /\ \A i \in 1..Len(p) : Append(p, n)[i] = p[i]
         /\ Append(p, n)[Len(p) + 1] = n
         /\ Len(p) \in Nat
  BY DEF Path

(* What extends a path away from r is away from it too, and what is not away *)
(* from r but below it only extends paths that overlap it.                   *)
LEMMA ExtensionAway ==
  ASSUME NEW p \in Path, NEW q \in Path, NEW r \in Path, ~Overlap(p, r),
         Len(p) <= Len(q), \A i \in 1..Len(p) : q[i] = p[i]
  PROVE  ~Overlap(q, r)
  BY DEF Overlap, Path

LEMMA PrefixOut ==
  ASSUME NEW p \in Path, NEW r \in Path, ~Overlap(p, r), NEW i \in 0..Len(p)
  PROVE  ~Under(SubSeq(p, 1, i), r)
  <1>1. /\ Len(SubSeq(p, 1, i)) = i /\ \A k \in 1..i : SubSeq(p, 1, i)[k] = p[k]
    BY PrefixPath
  <1>2. Len(p) \in Nat /\ Len(r) \in Nat
    BY DEF Path
  <1> QED
    BY <1>1, <1>2 DEF Overlap, Under

LEMMA AwayOut ==
  ASSUME NEW p \in Path, NEW r \in Path, ~Overlap(p, r)
  PROVE  ~Under(p, r)
  BY DEF Overlap, Under, Path

LEMMA BelowAway ==
  ASSUME NEW p \in Path, NEW q \in Path, NEW r \in Path, ~Overlap(q, r), Under(p, q)
  PROVE  ~Overlap(p, r)
  BY DEF Overlap, Under, Path

LEMMA PathEqual ==
  ASSUME NEW p \in Path, NEW q \in Path, Len(p) = Len(q), \A i \in 1..Len(p) : p[i] = q[i]
  PROVE  p = q
  BY SeqEqual DEF Path

-----------------------------------------------------------------------------
(* Links. *)

LEMMA RealCases ==
  ASSUME NEW p \in Path
  PROVE  \/ Real(p) = p /\ \A i \in 1..Len(p) : ~Is(SubSeq(p, 1, i), "link")
         \/ \E i \in 1..Len(p) :
              /\ Is(SubSeq(p, 1, i), "link")
              /\ Real(p) = fs[SubSeq(p, 1, i)].to \o SubSeq(p, i + 1, Len(p))
  <1> DEFINE links == {i \in 1..Len(p) : Is(SubSeq(p, 1, i), "link")}
  <1>1. CASE links = {}
    BY <1>1 DEF Real
  <1>2. CASE links # {}
    <2>1. (CHOOSE k \in links : TRUE) \in links
      BY <1>2
    <2>2. Real(p) = fs[SubSeq(p, 1, (CHOOSE k \in links : TRUE))].to
                      \o SubSeq(p, (CHOOSE k \in links : TRUE) + 1, Len(p))
      BY <1>2 DEF Real
    <2> QED
      BY <2>1, <2>2
  <1> QED
    BY <1>1, <1>2

LEMMA RealPath ==
  ASSUME FsOk, NEW p \in Path
  PROVE  Real(p) \in Path
  <1>1. CASE \E i \in 1..Len(p) :
              /\ Is(SubSeq(p, 1, i), "link")
              /\ Real(p) = fs[SubSeq(p, 1, i)].to \o SubSeq(p, i + 1, Len(p))
    <2> PICK i \in 1..Len(p) :
              /\ Is(SubSeq(p, 1, i), "link")
              /\ Real(p) = fs[SubSeq(p, 1, i)].to \o SubSeq(p, i + 1, Len(p))
      BY <1>1
    <2>1. fs[SubSeq(p, 1, i)].to \in Path
      BY DEF FsOk, NodeOk, Is
    <2>2. SubSeq(p, i + 1, Len(p)) \in Path
      BY SuffixPath
    <2> QED
      BY <2>1, <2>2, ConcatPath
  <1> QED
    BY <1>1, RealCases

(* A link on an away path leads away. *)
LEMMA LinkAway ==
  ASSUME RootsOk, FsOk, NEW p, Away(p), NEW i \in 1..Len(p), Is(SubSeq(p, 1, i), "link")
  PROVE  Away(fs[SubSeq(p, 1, i)].to)
  <1> DEFINE q == SubSeq(p, 1, i)
  <1>1. fs[q].to \in Path /\ LinkOk(q, fs[q].to)
    BY DEF FsOk, NodeOk, Is
  <1>2. ASSUME NEW e \in Owners(job)
        PROVE  ~Overlap(fs[q].to, job[e].root)
    <2>1. job[e].root \in Path /\ p \in Path /\ ~Overlap(p, job[e].root)
      BY <1>2 DEF RootsOk, Away, Clear
    <2>2. i \in 0..Len(p)
      OBVIOUS
    <2>3. ~Under(q, job[e].root)
      BY <2>1, <2>2, PrefixOut
    <2> QED
      BY <1>1, <1>2, <2>3 DEF LinkOk
  <1> QED
    BY <1>1, <1>2 DEF Away, Clear

LEMMA ConcatClear ==
  ASSUME RootsOk, NEW E \in SUBSET Owners(job), NEW p, Clear(p, E), NEW q \in Path
  PROVE  Clear(p \o q, E)
  <1>1. p \in Path
    BY DEF Clear
  <1>2. /\ p \o q \in Path /\ Len(p) <= Len(p \o q)
        /\ \A i \in 1..Len(p) : (p \o q)[i] = p[i]
    BY <1>1, ConcatPath
  <1>3. ASSUME NEW e \in E
        PROVE  ~Overlap(p \o q, job[e].root)
    BY <1>1, <1>2, <1>3, ExtensionAway DEF Clear, RootsOk
  <1> QED
    BY <1>2, <1>3 DEF Clear

LEMMA AppendClear ==
  ASSUME RootsOk, NEW E \in SUBSET Owners(job), NEW p, Clear(p, E), NEW n \in Name
  PROVE  Clear(Append(p, n), E)
  <1>1. p \in Path
    BY DEF Clear
  <1>2. /\ Append(p, n) \in Path /\ Len(p) <= Len(Append(p, n))
        /\ \A i \in 1..Len(p) : Append(p, n)[i] = p[i]
    BY <1>1, AppendPath
  <1>3. ASSUME NEW e \in E
        PROVE  ~Overlap(Append(p, n), job[e].root)
    BY <1>1, <1>2, <1>3, ExtensionAway DEF Clear, RootsOk
  <1> QED
    BY <1>2, <1>3 DEF Clear

LEMMA RealAway ==
  ASSUME RootsOk, FsOk, NEW p, Away(p)
  PROVE  Away(Real(p))
  <1>1. p \in Path
    BY DEF Away, Clear
  <1>2. CASE \E i \in 1..Len(p) :
              /\ Is(SubSeq(p, 1, i), "link")
              /\ Real(p) = fs[SubSeq(p, 1, i)].to \o SubSeq(p, i + 1, Len(p))
    <2> PICK i \in 1..Len(p) :
              /\ Is(SubSeq(p, 1, i), "link")
              /\ Real(p) = fs[SubSeq(p, 1, i)].to \o SubSeq(p, i + 1, Len(p))
      BY <1>2
    <2>1. Away(fs[SubSeq(p, 1, i)].to)
      BY LinkAway
    <2>2. SubSeq(p, i + 1, Len(p)) \in Path
      BY <1>1, SuffixPath
    <2> QED
      BY <2>1, <2>2, ConcatClear DEF Away
  <1> QED
    BY <1>1, <1>2, RealCases

(* The entry that an away path names is away, although the directory it is   *)
(* in may hold a temporary one.                                              *)
LEMMA ParentPath ==
  ASSUME NEW p \in Path, p # <<>>
  PROVE  /\ Parent(p) \in Path /\ Len(p) \in Nat \ {0} /\ Len(Parent(p)) = Len(p) - 1
         /\ p[Len(p)] \in Name /\ \A i \in 1..Len(p) - 1 : Parent(p)[i] = p[i]
         /\ p = Append(Parent(p), p[Len(p)])
         /\ \A i \in 1..Len(p) - 1 : SubSeq(Parent(p), 1, i) = SubSeq(p, 1, i)
  <1>1. Len(p) \in Nat \ {0} /\ p[Len(p)] \in Name
    BY DEF Path
  <1>2. Len(p) - 1 \in 0..Len(p)
    BY <1>1
  <1>3. /\ Parent(p) \in Path /\ Len(Parent(p)) = Len(p) - 1
        /\ \A i \in 1..Len(p) - 1 : Parent(p)[i] = p[i]
    BY <1>2, PrefixPath DEF Parent
  <1>4. p = Append(Parent(p), p[Len(p)])
    <2> DEFINE a == Append(Parent(p), p[Len(p)])
    <2>1. /\ a \in Path /\ Len(a) = Len(p) - 1 + 1
          /\ \A i \in 1..Len(p) - 1 : a[i] = Parent(p)[i]
          /\ a[Len(p) - 1 + 1] = p[Len(p)]
      BY <1>1, <1>3, AppendPath
    <2> HIDE DEF a
    <2>2. Len(a) = Len(p) /\ \A i \in 1..Len(p) : a[i] = p[i]
      BY <1>1, <1>3, <2>1
    <2> QED
      BY <2>1, <2>2, PathEqual DEF a
  <1>5. ASSUME NEW i \in 1..Len(p) - 1
        PROVE  SubSeq(Parent(p), 1, i) = SubSeq(p, 1, i)
    <2>1. i \in 0..Len(p) /\ i \in 0..Len(Parent(p))
      BY <1>1, <1>3, <1>5
    <2>2. /\ SubSeq(p, 1, i) \in Path /\ Len(SubSeq(p, 1, i)) = i
          /\ \A k \in 1..i : SubSeq(p, 1, i)[k] = p[k]
      BY <2>1, PrefixPath
    <2>3. /\ SubSeq(Parent(p), 1, i) \in Path /\ Len(SubSeq(Parent(p), 1, i)) = i
          /\ \A k \in 1..i : SubSeq(Parent(p), 1, i)[k] = Parent(p)[k]
      BY <1>3, <2>1, PrefixPath
    <2> QED
      BY <1>1, <1>3, <2>2, <2>3, PathEqual
  <1> QED
    BY <1>1, <1>3, <1>4, <1>5

LEMMA EntryAway ==
  ASSUME RootsOk, FsOk, NEW p, Away(p)
  PROVE  Away(Entry(p))
  <1>1. p \in Path
    BY DEF Away, Clear
  <1>2. CASE p = <<>>
    BY <1>2 DEF Entry
  <1>3. CASE p # <<>>
    <2> DEFINE d == Parent(p)
    <2>1. /\ d \in Path /\ Len(d) = Len(p) - 1 /\ Len(p) \in Nat \ {0} /\ p[Len(p)] \in Name
          /\ p = Append(d, p[Len(p)]) /\ Entry(p) = Append(Real(d), p[Len(p)])
          /\ \A i \in 1..Len(p) - 1 : SubSeq(d, 1, i) = SubSeq(p, 1, i)
      BY <1>1, <1>3, ParentPath DEF Entry
    <2> HIDE DEF d
    <2>2. CASE Real(d) = d
      BY <2>1, <2>2
    <2>3. ASSUME NEW i \in 1..Len(d), Is(SubSeq(d, 1, i), "link"),
                 Real(d) = fs[SubSeq(d, 1, i)].to \o SubSeq(d, i + 1, Len(d))
          PROVE  Away(Entry(p))
      <3>1. i \in 1..Len(p) /\ SubSeq(d, 1, i) = SubSeq(p, 1, i)
        BY <2>1, <2>3
      <3>2. Away(fs[SubSeq(d, 1, i)].to)
        BY <2>3, <3>1, LinkAway
      <3>3. SubSeq(d, i + 1, Len(d)) \in Path
        BY <2>1, <2>3, SuffixPath
      <3>4. Away(Real(d))
        BY <2>3, <3>2, <3>3, ConcatClear DEF Away
      <3> QED
        BY <2>1, <3>4, AppendClear DEF Away
    <2> QED
      BY <2>1, <2>2, <2>3, RealCases
  <1> QED
    BY <1>2, <1>3

(* No link is on the way to a temporary directory, in no tree whose links     *)
(* are in it or have nothing to do with it.                                  *)
LEMMA NoLinkOnWay ==
  ASSUME NEW t, NEW r \in Path, NEW i \in 1..Len(r), SubSeq(r, 1, i) \in DOMAIN t,
         \A q \in DOMAIN t : t[q].kind = "link" => (Under(q, r) /\ q # r) \/ ~Overlap(q, r)
  PROVE  t[SubSeq(r, 1, i)].kind # "link"
  <1> DEFINE q == SubSeq(r, 1, i)
  <1>1. q \in Path /\ Len(q) = i /\ \A k \in 1..i : q[k] = r[k]
    BY PrefixPath
  <1> HIDE DEF q
  <1>2. Overlap(q, r)
    BY <1>1 DEF Overlap
  <1>3. Under(q, r) => q = r
    <2> SUFFICES ASSUME Under(q, r) PROVE q = r
      OBVIOUS
    <2>1. Len(q) = Len(r)
      BY <1>1 DEF Under, Path
    <2> QED
      BY <1>1, <2>1, PathEqual DEF Under
  <1> QED
    BY <1>2, <1>3 DEF q

LEMMA RootReal ==
  ASSUME RootsOk, FsOk, NEW c \in Owners(job)
  PROVE  Real(job[c].root) = job[c].root /\ Entry(job[c].root) = job[c].root
  <1> DEFINE r == job[c].root
  <1>1. r \in Path /\ r # <<>>
    BY DEF RootsOk
  <1>2. ASSUME NEW i \in 1..Len(r), Is(SubSeq(r, 1, i), "link")
        PROVE  FALSE
    BY <1>1, <1>2, NoLinkOnWay DEF FsOk, NodeOk, LinkOk, Is
  <1>3. Real(r) = r
    BY <1>1, <1>2, RealCases
  <1>4. Real(Parent(r)) = Parent(r)
    <2>1. /\ Parent(r) \in Path /\ Len(r) \in Nat \ {0} /\ Len(Parent(r)) = Len(r) - 1
          /\ \A i \in 1..Len(r) - 1 : SubSeq(Parent(r), 1, i) = SubSeq(r, 1, i)
      BY <1>1, ParentPath
    <2>2. ASSUME NEW i \in 1..Len(Parent(r))
          PROVE  ~Is(SubSeq(Parent(r), 1, i), "link")
      <3>1. i \in 1..Len(r) - 1 /\ i \in 1..Len(r)
        BY <2>1, <2>2
      <3>2. SubSeq(Parent(r), 1, i) = SubSeq(r, 1, i)
        BY <2>1, <3>1
      <3> QED
        BY <1>2, <3>1, <3>2
    <2> QED
      BY <2>1, <2>2, RealCases
  <1>5. Entry(r) = r
    BY <1>1, <1>4, ParentPath DEF Entry
  <1> QED
    BY <1>3, <1>5

-----------------------------------------------------------------------------
(* What a step makes of the tree. *)

(* While a call clones, fetches or cleans up, its temporary directory is its *)
(* own; the others are not, and later not even that one.                     *)
Working(c) ==
  IsGit(c) /\ Temporary(c) /\ pc[c] \in {"tmp", "init", "fetch", "checkout", "cleanup"}

Foreign(c) == {e \in Owners(job) : e # c \/ ~Working(c)}

Reach(c, p) == p \in Path /\ \A e \in Foreign(c) : ~Under(p, job[e].root)

(* A tree that differs from this one only where c may reach. *)
Fit(c, t) ==
  /\ \A p \in DOMAIN t : \/ p \in DOMAIN fs /\ t[p] = fs[p]
                         \/ Reach(c, p) /\ NodeOk(p, t[p])
  /\ \A p \in DOMAIN fs \ DOMAIN t : Reach(c, p)

LEMMA AwayForeign ==
  ASSUME NEW c, NEW p, Away(p)
  PROVE  Clear(p, Foreign(c))
  BY DEF Away, Clear, Foreign

LEMMA OwnForeign ==
  ASSUME RootsOk, NEW c \in Owners(job), Working(c)
  PROVE  Clear(job[c].root, Foreign(c))
  BY DEF Clear, Foreign, RootsOk

LEMMA ClearReach ==
  ASSUME RootsOk, NEW c, NEW p, Clear(p, Foreign(c))
  PROVE  Reach(c, p)
  BY AwayOut DEF Clear, Foreign, RootsOk, Reach

LEMMA PrefixReach ==
  ASSUME RootsOk, NEW c, NEW p, Clear(p, Foreign(c)), NEW i \in 0..Len(p)
  PROVE  Reach(c, SubSeq(p, 1, i))
  <1>1. p \in Path /\ SubSeq(p, 1, i) \in Path
    BY PrefixPath DEF Clear
  <1>2. ASSUME NEW e \in Foreign(c)
        PROVE  ~Under(SubSeq(p, 1, i), job[e].root)
    BY <1>1, <1>2, PrefixOut DEF Clear, Foreign, RootsOk
  <1> QED
    BY <1>1, <1>2 DEF Reach

LEMMA BelowReach ==
  ASSUME RootsOk, NEW c, NEW p, Clear(p, Foreign(c)), NEW q \in Path, Under(q, p)
  PROVE  Reach(c, q)
  <1>1. p \in Path
    BY DEF Clear
  <1>2. ASSUME NEW e \in Foreign(c)
        PROVE  ~Under(q, job[e].root)
    <2>1. job[e].root \in Path /\ ~Overlap(p, job[e].root)
      BY <1>2 DEF Clear, Foreign, RootsOk
    <2> QED
      BY <1>1, <2>1, BelowAway, AwayOut
  <1> QED
    BY <1>2 DEF Reach

LEMMA NewNodes ==
  ASSUME NEW p \in Path, NEW mode, NEW data
  PROVE  NodeOk(p, Dir(mode)) /\ NodeOk(p, File(mode, data))
  BY EmptySeq DEF NodeOk, Dir, File, Path

LEMMA SameFits ==
  ASSUME NEW c
  PROVE  Fit(c, fs)
  BY DEF Fit

LEMMA OverFits ==
  ASSUME NEW c, NEW t, Fit(c, t), NEW u,
         \A p \in DOMAIN u : Reach(c, p) /\ NodeOk(p, u[p])
  PROVE  Fit(c, Over(u, t))
  BY DEF Fit, Over

LEMMA PutFits ==
  ASSUME NEW c, NEW t, Fit(c, t), NEW p, Reach(c, p), NEW n, NodeOk(p, n)
  PROVE  Fit(c, Put(p, n, t))
  <1>1. /\ DOMAIN Put(p, n, t) = DOMAIN t \cup {p} /\ Put(p, n, t)[p] = n
        /\ \A q \in DOMAIN t \ {p} : Put(p, n, t)[q] = t[q]
    BY DEF Put
  <1> QED
    BY <1>1 DEF Fit

LEMMA CutFits ==
  ASSUME NEW c, NEW S, \A p \in S \cap DOMAIN fs : Reach(c, p)
  PROVE  Fit(c, [p \in DOMAIN fs \ S |-> fs[p]])
  BY DEF Fit

LEMMA MkdirFits ==
  ASSUME RootsOk, NEW c, NEW p, Clear(p, Foreign(c)), NEW mode
  PROVE  Fit(c, AfterMkdirAll(p, mode))
  <1>1. ASSUME NEW q \in Makeable(p, mode)
        PROVE  Reach(c, q)
    <2>1. PICK i \in 1..Len(p) : q = SubSeq(p, 1, i)
      BY <1>1 DEF Makeable
    <2>2. i \in 0..Len(p)
      BY <2>1
    <2> QED
      BY <2>1, <2>2, PrefixReach
  <1> QED
    BY <1>1, NewNodes DEF Fit, AfterMkdirAll, Reach

LEMMA CreateFits ==
  ASSUME NEW c, NEW p, Reach(c, p), NEW mode
  PROVE  Fit(c, AfterCreate(p, mode))
  BY SameFits, PutFits, NewNodes DEF AfterCreate, Reach

(* A node whose kind and target stay fits. *)
LEMMA RewriteFits ==
  ASSUME FsOk, NEW c, NEW p, Reach(c, p), NEW n,
         p \in DOMAIN fs => /\ DOMAIN n = DOMAIN fs[p]
                            /\ n.kind = fs[p].kind /\ n.to = fs[p].to
  PROVE  Fit(c, IF p \in DOMAIN fs THEN [fs EXCEPT ![p] = n] ELSE fs)
  <1>1. CASE p \in DOMAIN fs
    <2>1. NodeOk(p, n)
      BY <1>1 DEF FsOk, NodeOk
    <2> QED
      BY <1>1, <2>1 DEF Fit
  <1> QED
    BY <1>1, SameFits

LEMMA ModeFits ==
  ASSUME FsOk, NEW c, NEW p, Reach(c, p), NEW mode
  PROVE  Fit(c, WithMode(p, mode))
  <1> DEFINE n == [fs[p] EXCEPT !.mode = mode]
  <1>1. p \in DOMAIN fs => DOMAIN n = DOMAIN fs[p] /\ n.kind = fs[p].kind /\ n.to = fs[p].to
    BY DEF FsOk, NodeOk
  <1>2. WithMode(p, mode) = IF p \in DOMAIN fs THEN [fs EXCEPT ![p] = n] ELSE fs
    BY DEF WithMode
  <1> HIDE DEF n
  <1> QED
    BY <1>1, <1>2, RewriteFits

LEMMA DataFits ==
  ASSUME FsOk, NEW c, NEW p, Reach(c, p), NEW data
  PROVE  Fit(c, WithData(p, data))
  <1> DEFINE n == [fs[p] EXCEPT !.data = data]
  <1>1. p \in DOMAIN fs => DOMAIN n = DOMAIN fs[p] /\ n.kind = fs[p].kind /\ n.to = fs[p].to
    BY DEF FsOk, NodeOk
  <1>2. WithData(p, data) = IF p \in DOMAIN fs THEN [fs EXCEPT ![p] = n] ELSE fs
    BY DEF WithData
  <1> HIDE DEF n
  <1> QED
    BY <1>1, <1>2, RewriteFits

LEMMA RestConcat ==
  ASSUME NEW p \in Path, NEW q \in Path
  PROVE  Rest(p \o q, p) = q
  <1> DEFINE b == p \o q
             r == SubSeq(b, Len(p) + 1, Len(b))
  <1>1. /\ b \in Path /\ Len(b) = Len(p) + Len(q) /\ Len(p) \in Nat /\ Len(q) \in Nat
        /\ \A i \in 1..Len(q) : b[Len(p) + i] = q[i]
    BY ConcatProperties DEF Path
  <1> HIDE DEF b
  <1>2. /\ r \in Seq(Name)
        /\ Len(r) = IF Len(p) + 1 <= Len(b) THEN Len(b) - (Len(p) + 1) + 1 ELSE 0
        /\ \A i \in 1..(Len(b) - (Len(p) + 1) + 1) : r[i] = b[Len(p) + 1 + i - 1]
    <2>1. /\ Len(p) + 1 \in Int /\ Len(b) \in Int
          /\ \A i \in (Len(p) + 1)..Len(b) : b[i] \in Name
      BY <1>1 DEF Path
    <2> QED
      BY <2>1, SubSeqProperties
  <1> HIDE DEF r
  <1>3. Len(r) = Len(q) /\ \A i \in 1..Len(r) : r[i] = q[i]
    BY <1>1, <1>2
  <1>4. r = q
    BY <1>2, <1>3, PathEqual DEF Path
  <1> QED
    BY <1>4 DEF r, b, Rest

(* A commit checked out where c may write. *)
LEMMA PlacedNodes ==
  ASSUME RootsOk, NEW c, NEW n \in DOMAIN Commits, NEW base,
         Away(base) \/ (c \in Owners(job) /\ Working(c) /\ base = job[c].root),
         NEW p \in DOMAIN Placed(n, base)
  PROVE  Reach(c, p) /\ NodeOk(p, Placed(n, base)[p])
  <1> DEFINE t == Commits[n]
  <1>1. PICK q \in DOMAIN t : p = base \o q
    BY DEF Placed
  <1>2. /\ \A r \in DOMAIN t : r \in Path /\ t[r] \in Node
        /\ \A r \in DOMAIN t : t[r].kind = "link" => r # <<>> /\ t[r].to # <<>>
    BY SourceAssumption
  <1>3. Clear(base, Foreign(c))
    BY AwayForeign, OwnForeign
  <1>4. base \in Path /\ q \in Path /\ Rest(p, base) = q
    BY <1>1, <1>2, <1>3, RestConcat DEF Clear
  <1>5. Clear(p, Foreign(c))
    BY <1>1, <1>3, <1>4, ConcatClear DEF Foreign
  <1>6. Reach(c, p)
    BY <1>5, ClearReach
  <1> DEFINE new == IF t[q].kind # "link" THEN [t[q] EXCEPT !.mode = @ \ Umask]
                    ELSE IF t[q].to[1] = Outside THEN [t[q] EXCEPT !.to = Tail(@)]
                    ELSE [t[q] EXCEPT !.to = base \o @]
  <1>7. Placed(n, base)[p] = new
    BY <1>4 DEF Placed
  <1>8. p \in Path /\ t[q] \in Node
    BY <1>2, <1>5 DEF Clear
  <1>9. CASE t[q].kind # "link"
    BY <1>7, <1>8, <1>9, <1>6 DEF NodeOk, Node
  <1>10. CASE t[q].kind = "link"
    <2> DEFINE to == IF t[q].to[1] = Outside THEN Tail(t[q].to) ELSE base \o t[q].to
    <2>1. t[q].to \in Path /\ t[q].to # <<>> /\ q # <<>>
      BY <1>2, <1>10 DEF Node
    <2>2. /\ DOMAIN new = {"kind", "mode", "data", "to"} /\ new.kind = "link" /\ new.to = to
      BY <1>8, <1>10 DEF Node
    <2>3. to \in Path
      BY <1>4, <2>1, ConcatPath DEF Path
    <2>4. Clear(to, Foreign(c))
      <3>1. CASE t[q].to[1] = Outside
        <4>1. q \in Leads(t)
          BY <1>10 DEF Leads
        <4> QED
          BY <2>3, <3>1, <4>1 DEF RootsOk, Clear, Foreign
      <3>2. CASE t[q].to[1] # Outside
        BY <1>3, <2>1, <3>2, ConcatClear DEF Foreign
      <3> QED
        BY <3>1, <3>2
    <2>5. LinkOk(p, to)
      <3>1. CASE Away(base)
        <4>1. Away(p)
          BY <1>1, <1>4, <3>1, ConcatClear DEF Away
        <4>2. CASE t[q].to[1] = Outside
          <5>1. q \in Leads(t)
            BY <1>10 DEF Leads
          <5> QED
            BY <4>1, <4>2, <5>1 DEF RootsOk, LinkOk, Away, Clear
        <4>3. CASE t[q].to[1] # Outside
          BY <2>1, <3>1, <4>1, <4>3, ConcatClear DEF Away, LinkOk, Clear
        <4> QED
          BY <4>2, <4>3
      <3>2. CASE c \in Owners(job) /\ Working(c) /\ base = job[c].root
        <4>1. Under(p, base) /\ p # base
          <5>1. /\ Len(p) = Len(base) + Len(q) /\ Len(base) \in Nat /\ Len(q) \in Nat
                /\ \A i \in 1..Len(base) : p[i] = base[i]
            BY <1>1, <1>4, ConcatPath
          <5>2. Len(q) # 0
            BY <1>4, <2>1 DEF Path
          <5> QED
            BY <5>1, <5>2 DEF Under
        <4>2. \A e \in Owners(job) \ {c} : ~Overlap(p, job[e].root) /\ ~Overlap(to, job[e].root)
          BY <1>5, <2>4 DEF Clear, Foreign
        <4> QED
          BY <3>2, <4>1, <4>2 DEF LinkOk
      <3> QED
        BY <3>1, <3>2
    <2> QED
      BY <1>6, <1>7, <1>8, <2>2, <2>3, <2>5 DEF NodeOk
  <1> QED
    BY <1>9, <1>10

-----------------------------------------------------------------------------
(* What a fitting step leaves as it was. *)

RootsKept ==
  /\ Owners(job') = Owners(job)
  /\ \A e \in Owners(job) : job'[e].root = job[e].root

LEMMA KeptTree ==
  ASSUME FsOk, RootsKept, NEW c, Fit(c, fs')
  PROVE  FsOk'
  <1>1. ASSUME NEW p \in DOMAIN fs'
        PROVE  NodeOk(p, fs'[p])
    BY <1>1 DEF Fit, FsOk
  <1> QED
    BY <1>1 DEF FsOk, NodeOk, LinkOk, RootsKept

LEMMA KeptRoots ==
  ASSUME RootsOk, RootsKept
  PROVE  RootsOk' /\ \A p : Away(p) => Away(p)'
  BY DEF RootsOk, Away, Clear, RootsKept

(* Below the directory at r nothing has changed. *)
Still(r) ==
  \A q \in Path : Under(q, r) =>
    /\ q \in DOMAIN fs <=> q \in DOMAIN fs'
    /\ q \in DOMAIN fs => fs'[q] = fs[q]

LEMMA ForeignStill ==
  ASSUME NEW c, Fit(c, fs'), NEW e \in Foreign(c)
  PROVE  Still(job[e].root)
  BY DEF Fit, Still, Reach

LEMMA StillEmpty ==
  ASSUME FsOk, FsOk', NEW r, Still(r), Tree(r) = {}
  PROVE  Tree(r)' = {}
  BY DEF FsOk, NodeOk, Tree, Still

(* What a path below it leads to has not changed either. *)
LEMMA StillReal ==
  ASSUME RootsOk, FsOk, FsOk', RootsKept, NEW e \in Owners(job), Still(job[e].root),
         NEW p \in Path, Under(p, job[e].root)
  PROVE  Real(p)' = Real(p)
  <1> DEFINE r == job[e].root
             links == {i \in 1..Len(p) : Is(SubSeq(p, 1, i), "link")}
  <1>1. r \in Path /\ Len(r) \in Nat /\ Len(p) \in Nat /\ e \in Owners(job') /\ job'[e].root = r
    BY DEF RootsOk, RootsKept, Path
  <1>2. ASSUME NEW i \in 1..Len(p)
        PROVE  /\ Is(SubSeq(p, 1, i), "link")' <=> Is(SubSeq(p, 1, i), "link")
               /\ Is(SubSeq(p, 1, i), "link") => fs'[SubSeq(p, 1, i)] = fs[SubSeq(p, 1, i)]
    <2> DEFINE q == SubSeq(p, 1, i)
    <2>1. q \in Path /\ Len(q) = i /\ \A k \in 1..i : q[k] = p[k]
      BY <1>1, <1>2, PrefixPath
    <2>2. CASE i <= Len(r)
      <3>1. i \in 1..Len(r) /\ i \in 0..Len(r)
        BY <1>1, <1>2, <2>2
      <3>2. q = SubSeq(r, 1, i)
        <4>1. SubSeq(r, 1, i) \in Path /\ Len(SubSeq(r, 1, i)) = i
              /\ \A k \in 1..i : SubSeq(r, 1, i)[k] = r[k]
          BY <1>1, <3>1, PrefixPath
        <4>2. \A k \in 1..i : p[k] = r[k]
          BY <1>1, <3>1 DEF Under
        <4> HIDE DEF q
        <4> QED
          BY <2>1, <4>1, <4>2, PathEqual
      <3>3. /\ \A x \in DOMAIN fs : fs[x].kind = "link" => (Under(x, r) /\ x # r) \/ ~Overlap(x, r)
            /\ \A x \in DOMAIN fs' : fs'[x].kind = "link" => (Under(x, r) /\ x # r) \/ ~Overlap(x, r)
        BY <1>1 DEF FsOk, NodeOk, LinkOk
      <3>4. q \in DOMAIN fs => fs[q].kind # "link"
        BY <1>1, <3>1, <3>2, <3>3, NoLinkOnWay
      <3>5. q \in DOMAIN fs' => fs'[q].kind # "link"
        BY <1>1, <3>1, <3>2, <3>3, NoLinkOnWay
      <3> QED
        BY <3>4, <3>5 DEF Is
    <2>3. CASE i > Len(r)
      <3>1. Under(q, r)
        BY <1>1, <2>1, <2>3 DEF Under
      <3> QED
        BY <2>1, <3>1 DEF Still, Is
    <2> QED
      BY <1>1, <2>2, <2>3
  <1>3. links' = links
    BY <1>2
  <1>4. CASE links = {}
    BY <1>3, <1>4 DEF Real
  <1>5. CASE links # {}
    <2> DEFINE i == CHOOSE k \in links : TRUE
    <2>1. i \in links /\ i' = i
      BY <1>3, <1>5
    <2>2. fs'[SubSeq(p, 1, i)] = fs[SubSeq(p, 1, i)]
      BY <1>2, <2>1
    <2>3. Real(p) = fs[SubSeq(p, 1, i)].to \o SubSeq(p, i + 1, Len(p))
      BY <1>5 DEF Real
    <2>4. Real(p)' = fs'[SubSeq(p, 1, i)].to \o SubSeq(p, i + 1, Len(p))
      BY <1>3, <1>5, <2>1 DEF Real
    <2> QED
      BY <2>2, <2>3, <2>4
  <1> QED
    BY <1>4, <1>5

-----------------------------------------------------------------------------
(* What a call keeps: its paths are away from all temporary directories, the *)
(* directories of a confined copy below its own, and what it will ask of a   *)
(* server makes names.                                                       *)

JobOk(c) ==
  /\ Away(job[c].dst)
  /\ IsFile(c) => Away(UrlPath(job[c].dst))
  /\ IsFile(c) /\ pc[c] = "begin" =>
       \A d \in ExpandPath(c, job[c].dst) : Away(d) /\ Away(UrlPath(d))
  /\ ~IsFile(c) => job[c].again = <<>> \/ Away(job[c].again)

Inside(c, p) == IsGit(c) => p \in Path /\ Under(p, job[c].root)

FrameOk(c, f) ==
  /\ DOMAIN f = {"src", "dst", "mode", "todo"}
  /\ Away(f.dst) /\ Inside(c, f.src)
  /\ \A e \in f.todo : e.name \in Name

StackOk(c, s) == IsStack(s) /\ \A i \in 1..Len(s) : FrameOk(c, s[i])

CurOk(c, at, f) ==
  /\ DOMAIN f = {"src", "dst", "off", "mode"}
  /\ at \in {"create", "write", "chmod", "close"} => Away(f.dst) /\ Inside(c, f.src)

CloneOk(c) == IsGit(c) =>
  /\ pc[c] \in CopyLabel \cup {"tmp", "subdir", "copied"} => Temporary(c)
  /\ DOMAIN clone[c] = {"have", "head", "before"} /\ clone[c].have \subseteq DOMAIN Commits
  /\ pc[c] = "checkout" => clone[c].head \in DOMAIN Commits

CallOk(c) ==
  /\ JobOk(c) /\ StackOk(c, stack[c]) /\ CurOk(c, pc[c], cur[c]) /\ CloneOk(c)
  /\ IsOci(c) => pull[c].todo \subseteq Name

CInv ==
  /\ RootsOk /\ FsOk
  /\ DOMAIN cur = Call /\ DOMAIN fault = Call /\ tip \in DOMAIN Commits
  /\ \A c \in Call : CallOk(c)

LEMMA InitCInv == Init => CInv
  <1> SUFFICES ASSUME Init PROVE CInv  OBVIOUS
  <1>1. job \in Scenario
    BY DEF Init
  <1>2. RootsOk
    BY <1>1, TemporaryAssumption DEF RootsOk, Owners
  <1>3. FsOk
    <2>1. ASSUME NEW p \in DOMAIN Tree0
          PROVE  NodeOk(p, Tree0[p])
      <3>1. p \in Path /\ Tree0[p] \in Node
        BY <2>1, SourceAssumption
      <3>2. Tree0[p].kind = "link" =>
              \A e \in Owners(job) : ~Overlap(p, job[e].root) /\ ~Overlap(Tree0[p].to, job[e].root)
        BY <1>1, <2>1, TemporaryAssumption DEF Leads
      <3> QED
        BY <3>1, <3>2 DEF NodeOk, Node, LinkOk
    <2> QED
      BY <2>1 DEF FsOk, Init
  <1>4. DOMAIN cur = Call /\ DOMAIN fault = Call /\ tip \in DOMAIN Commits
    BY SourceAssumption DEF Init
  <1>5. ASSUME NEW c \in Call
        PROVE  CallOk(c)
    <2>1. \A p \in Targets(job[c]) : Away(p)
      <3>1. /\ \A p \in Targets(job[c]) : p \in Path
            /\ \A e \in Owners(job) : \A p \in Targets(job[c]) : ~Overlap(p, job[e].root)
        BY <1>1, TemporaryAssumption
      <3> QED
        BY <3>1 DEF Away, Clear
    <2>2. JobOk(c)
      BY <2>1 DEF JobOk, Targets, IsFile, ExpandPath
    <2>3. StackOk(c, stack[c])
      <3>1. stack[c] = <<>>
        BY DEF Init
      <3> QED
        BY <3>1, EmptySeq DEF StackOk, IsStack
    <2>4. CurOk(c, pc[c], cur[c])
      BY DEF Init, CurOk, NoFile
    <2>5. CloneOk(c)
      BY DEF Init, CloneOk, NoClone, CopyLabel
    <2>6. pull[c].todo \subseteq Name
      BY DEF Init, NoPull
    <2> QED
      BY <2>2, <2>3, <2>4, <2>5, <2>6 DEF CallOk
  <1> QED
    BY <1>2, <1>3, <1>4, <1>5 DEF CInv

-----------------------------------------------------------------------------
(* A step of one call. *)

Own(d) == <<pc[d], job[d], meta[d], fault[d], stack[d], cur[d], clone[d], pull[d]>>

(* What each step of c has to be shown to do: keep the tree fit and its own  *)
(* part of the invariant, and leave the other calls alone.                   *)
Good(c) ==
  /\ RootsKept /\ Fit(c, fs') /\ CallOk(c)'
  /\ DOMAIN cur' = Call /\ DOMAIN fault' = Call /\ tip' \in DOMAIN Commits
  /\ \A d \in Call \ {c} : Own(d)' = Own(d)

LEMMA KeptInside ==
  ASSUME RootsKept, NEW d \in Call, IsGit(d)' <=> IsGit(d), NEW p, Inside(d, p)
  PROVE  Inside(d, p)'
  BY DEF Inside, RootsKept, Owners, IsGit

LEMMA KeptCall ==
  ASSUME RootsOk, RootsKept, NEW d \in Call, CallOk(d), Own(d)' = Own(d)
  PROVE  CallOk(d)'
  <1>1. /\ pc'[d] = pc[d] /\ job'[d] = job[d] /\ stack'[d] = stack[d] /\ cur'[d] = cur[d]
        /\ clone'[d] = clone[d] /\ pull'[d] = pull[d]
    BY DEF Own
  <1>2. \A p : Away(p) => Away(p)'
    BY KeptRoots
  <1>3. IsGit(d)' <=> IsGit(d)
    BY <1>1 DEF IsGit
  <1>4. \A p : Inside(d, p) => Inside(d, p)'
    BY <1>3, KeptInside
  <1> HIDE DEF Away, Inside
  <1>5. JobOk(d)'
    BY <1>1, <1>2 DEF CallOk, JobOk, IsFile, ExpandPath
  <1>6. StackOk(d, stack[d])'
    BY <1>1, <1>2, <1>4 DEF CallOk, StackOk, FrameOk
  <1>7. CurOk(d, pc[d], cur[d])'
    BY <1>1, <1>2, <1>4 DEF CallOk, CurOk
  <1>8. CloneOk(d)'
    BY <1>1 DEF CallOk, CloneOk, IsGit, Temporary, Url
  <1> QED
    BY <1>1, <1>5, <1>6, <1>7, <1>8 DEF CallOk, IsOci

LEMMA GoodKeeps ==
  ASSUME CInv, NEW c \in Call, Good(c)
  PROVE  CInv'
  <1>1. FsOk' /\ RootsOk'
    BY KeptTree, KeptRoots DEF CInv, Good
  <1>2. \A d \in Call : CallOk(d)'
    BY KeptCall DEF CInv, Good
  <1> QED
    BY <1>1, <1>2 DEF CInv, Good

(* For a step that changes no job it is enough to look at its new values. *)
LEMMA SameJobs ==
  ASSUME RootsOk, NEW c \in Call, CallOk(c), UNCHANGED job, pc'[c] # "begin",
         StackOk(c, stack'[c]), CurOk(c, pc'[c], cur'[c]), CloneOk(c)',
         IsOci(c) => pull'[c].todo \subseteq Name
  PROVE  RootsKept /\ CallOk(c)'
  <1>1. RootsKept
    BY DEF RootsKept
  <1>2. \A p : Away(p) => Away(p)'
    BY <1>1, KeptRoots
  <1>3. IsGit(c)' <=> IsGit(c)
    BY DEF IsGit
  <1>4. \A p : Inside(c, p) => Inside(c, p)'
    BY <1>1, <1>3, KeptInside
  <1> HIDE DEF Away, Inside
  <1>5. JobOk(c)'
    BY <1>2 DEF CallOk, JobOk, IsFile, ExpandPath
  <1>6. StackOk(c, stack[c])'
    BY <1>2, <1>4 DEF StackOk, FrameOk
  <1>7. CurOk(c, pc[c], cur[c])'
    BY <1>2, <1>4 DEF CurOk
  <1> QED
    BY <1>1, <1>5, <1>6, <1>7 DEF CallOk, IsOci

LEMMA StackOkPush ==
  ASSUME NEW c, NEW s, StackOk(c, s), NEW f, FrameOk(c, f)
  PROVE  StackOk(c, Append(s, f))
  BY StackPush DEF StackOk

LEMMA StackOkTop ==
  ASSUME NEW c, NEW s, StackOk(c, s), s # <<>>, NEW f, FrameOk(c, f)
  PROVE  StackOk(c, [s EXCEPT ![Len(s)] = f])
  <1> DEFINE t == [s EXCEPT ![Len(s)] = f]
  <1>1. /\ IsStack(t) /\ Len(s) \in Nat \ {0} /\ Len(t) = Len(s) /\ t[Len(s)] = f
        /\ \A i \in 1..Len(s) - 1 : t[i] = s[i]
    BY StackTop DEF StackOk
  <1> HIDE DEF t
  <1>2. ASSUME NEW i \in 1..Len(t)
        PROVE  FrameOk(c, t[i])
    <2>1. i = Len(s) \/ i \in 1..Len(s) - 1
      BY <1>1, <1>2
    <2> QED
      BY <1>1, <2>1 DEF StackOk
  <1>3. StackOk(c, t)
    BY <1>1, <1>2 DEF StackOk
  <1> QED
    BY <1>3 DEF t

LEMMA StackOkPop ==
  ASSUME NEW c, NEW s, StackOk(c, s), s # <<>>, NEW t, t = SubSeq(s, 1, Len(s) - 1)
  PROVE  StackOk(c, t)
  <1>1. /\ IsStack(t) /\ Len(s) \in Nat \ {0} /\ Len(t) = Len(s) - 1
        /\ \A i \in 1..Len(s) - 1 : t[i] = s[i]
    BY StackPop DEF StackOk
  <1> QED
    BY <1>1 DEF StackOk

LEMMA TopOk ==
  ASSUME NEW c \in Call, CallOk(c), stack[c] # <<>>
  PROVE  /\ FrameOk(c, Top(c)) /\ StackOk(c, stack[c])
         /\ Len(stack[c]) \in Nat \ {0}
  <1>1. StackOk(c, stack[c])
    BY DEF CallOk
  <1>2. Len(stack[c]) \in Nat \ {0}
    BY <1>1, StackTop DEF StackOk
  <1> QED
    BY <1>1, <1>2 DEF StackOk, Top

LEMMA AwayReach ==
  ASSUME RootsOk, FsOk, NEW c, NEW p, Away(p)
  PROVE  /\ Reach(c, Real(p)) /\ Clear(Entry(p), Foreign(c)) /\ Real(p) \in Path
  BY RealAway, EntryAway, AwayForeign, ClearReach DEF Away, Clear

(* A copy writes where its destination leads. *)
LEMMA CopyFits ==
  ASSUME CInv, NEW c \in Call, Walking(c), CopyStep(c)
  PROVE  Fit(c, fs')
  <1> USE DEF Goto
  <1>0. /\ RootsOk /\ FsOk /\ CallOk(c) /\ CurOk(c, pc[c], cur[c])
        /\ stack[c] # <<>> => Away(Top(c).dst)
    BY TopOk DEF CInv, CallOk, FrameOk
  <1>1. CASE UNCHANGED fs
    BY <1>1, SameFits
  <1>2. CASE Mkdir(c)
    <2>1. Away(Top(c).dst)
      BY <1>0, <1>2 DEF Mkdir, Walking
    <2>2. fs' = AfterMkdirAll(Entry(Top(c).dst), Top(c).mode)
      BY <1>2 DEF Mkdir
    <2>3. Clear(Entry(Top(c).dst), Foreign(c))
      BY <1>0, <2>1, AwayReach
    <2> QED
      BY <1>0, <2>2, <2>3, MkdirFits
  <1>3. CASE ChmodDir(c)
    <2>1. Away(Top(c).dst)
      BY <1>0, <1>3 DEF ChmodDir, Walking
    <2>2. fs' = WithMode(Real(Top(c).dst), Top(c).mode)
      BY <1>3 DEF ChmodDir
    <2> QED
      BY <1>0, <2>1, <2>2, AwayReach, ModeFits
  <1>4. CASE Create(c)
    <2>1. Away(cur[c].dst)
      BY <1>0, <1>4 DEF Create, CurOk
    <2>2. \/ fs' = fs
          \/ fs' = AfterCreate(Real(cur[c].dst),
                               IF Confined(c) THEN cur[c].mode ELSE Permission)
      BY <1>4 DEF Create
    <2> QED
      BY <1>0, <2>1, <2>2, AwayReach, CreateFits, SameFits
  <1>5. CASE Write(c)
    <2>1. Away(cur[c].dst)
      BY <1>0, <1>5 DEF Write, CurOk
    <2>2. \/ fs' = fs
          \/ fs' = WithData(Real(cur[c].dst), WriteAt(fs[Real(cur[c].dst)].data, cur[c].off,
                                                      Source(c).data[cur[c].off + 1]))
      BY <1>5 DEF Write
    <2> QED
      BY <1>0, <2>1, <2>2, AwayReach, DataFits, SameFits
  <1>6. CASE Chmod(c)
    <2>1. Away(cur[c].dst)
      BY <1>0, <1>6 DEF Chmod, CurOk
    <2>2. fs' = fs \/ fs' = WithMode(Real(cur[c].dst), FileMode(c))
      BY <1>6 DEF Chmod
    <2> QED
      BY <1>0, <2>1, <2>2, AwayReach, ModeFits, SameFits
  <1>7. CASE CloseFails(c)
    <2>1. Away(cur[c].dst)
      BY <1>0, <1>7 DEF CloseFails, CurOk
    <2>2. PICK n : fs' = WithData(Real(cur[c].dst), SubSeq(fs[Real(cur[c].dst)].data, 1, n))
      BY <1>7 DEF CloseFails
    <2> QED
      BY <1>0, <2>1, <2>2, AwayReach, DataFits
  <1> QED
    BY <1>1, <1>2, <1>3, <1>4, <1>5, <1>6, <1>7
    DEF CopyStep, Enter, EnterConfined, List, Ascend, Descend, Refuse, TakeFile, ReadFails,
        WriteDone, Close, CopyFault

LEMMA AppendUnder ==
  ASSUME NEW p \in Path, NEW r \in Path, Under(p, r), NEW n \in Name
  PROVE  Append(p, n) \in Path /\ Under(Append(p, n), r)
  BY AppendPath DEF Under, Path

(* The names of a listing. *)
LEMMA EntryNames ==
  ASSUME FsOk, NEW p, NEW e \in Entries(p)
  PROVE  e.name \in Name
  <1> PICK q \in DOMAIN fs : q # <<>> /\ e = [name |-> q[Len(q)], dir |-> fs[q].kind = "dir"]
    BY DEF Entries
  <1> QED
    BY ParentPath DEF FsOk, NodeOk

(* The confined copy enters a directory by the name it has in its parent.    *)
LEMMA EnteredInside ==
  ASSUME RootsOk, FsOk, NEW c \in Call, IsGit(c), NEW p, Inside(c, p), Opens(c, Parent(p))
  PROVE  Inside(c, Entry(p))
  <1>1. job[c].root \in Path \ {<<>>} /\ p \in Path /\ Under(p, job[c].root)
    BY DEF RootsOk, Inside, Owners, IsGit
  <1>2. p # <<>>
    BY <1>1, EmptySeq DEF Under, Path
  <1>3. Parent(p) \in Path /\ p[Len(p)] \in Name
    BY <1>1, <1>2, ParentPath
  <1>4. Real(Parent(p)) \in Path /\ Under(Real(Parent(p)), job[c].root)
    BY <1>3, RealPath DEF Opens, Confined, IsGit
  <1>5. Entry(p) = Append(Real(Parent(p)), p[Len(p)])
    BY <1>2 DEF Entry
  <1> QED
    BY <1>1, <1>3, <1>4, <1>5, AppendUnder DEF Inside

LEMMA CopyCalls ==
  ASSUME IInv, CInv, NEW c \in Call, Walking(c), CopyStep(c)
  PROVE  /\ StackOk(c, stack'[c]) /\ CurOk(c, pc'[c], cur'[c])
         /\ DOMAIN cur' = Call /\ DOMAIN fault' = Call
         /\ \A d \in Call \ {c} : cur'[d] = cur[d] /\ fault'[d] = fault[d]
         /\ pc'[c] \notin {"begin", "checkout", "tmp", "subdir"}
  <1> USE DEF Goto, Failing, callVars, copyVars
  <1>0. /\ RootsOk /\ FsOk /\ CallOk(c) /\ CurOk(c, pc[c], cur[c]) /\ StackOk(c, stack[c])
        /\ stack[c] # <<>> => FrameOk(c, Top(c)) /\ Len(stack[c]) \in Nat \ {0}
        /\ DOMAIN pc = Call /\ DOMAIN stack = Call /\ DOMAIN cur = Call /\ DOMAIN fault = Call
    BY TopOk DEF CInv, CallOk, IInv, Functions
  <1> DEFINE Result ==
        /\ StackOk(c, stack'[c]) /\ CurOk(c, pc'[c], cur'[c])
        /\ DOMAIN cur' = Call /\ DOMAIN fault' = Call
        /\ \A d \in Call \ {c} : cur'[d] = cur[d] /\ fault'[d] = fault[d]
        /\ pc'[c] \notin {"begin", "checkout", "tmp", "subdir"}
  <1>1. ASSUME NEW f, FrameOk(c, f), stack' = SetTop(c, f), stack[c] # <<>>
        PROVE  StackOk(c, stack'[c])
    <2>1. stack'[c] = [stack[c] EXCEPT ![Len(stack[c])] = f]
      BY <1>0, <1>1 DEF SetTop
    <2> QED
      BY <1>0, <1>1, <2>1, StackOkTop
  <1>2. ASSUME Enter(c) PROVE Result
    <2>1. CASE UNCHANGED stack
      BY <1>0, <1>2, <2>1 DEF Enter, CurOk
    <2>2. CASE stack' = SetTop(c, [Top(c) EXCEPT !.mode = fs[Real(Top(c).src)].mode])
      <3>1. stack[c] # <<>>
        BY <1>2 DEF Enter, Walking
      <3>2. FrameOk(c, [Top(c) EXCEPT !.mode = fs[Real(Top(c).src)].mode])
        BY <1>0, <3>1 DEF FrameOk
      <3> QED
        BY <1>0, <1>1, <1>2, <2>2, <3>1, <3>2 DEF Enter, CurOk
    <2> QED
      BY <1>2, <2>1, <2>2 DEF Enter
  <1>3. ASSUME EnterConfined(c) PROVE Result
    <2>1. CASE UNCHANGED stack
      BY <1>0, <1>3, <2>1 DEF EnterConfined, CurOk
    <2> DEFINE s == Entry(Top(c).src)
    <2>2. CASE stack' = SetTop(c, [Top(c) EXCEPT !.src = s, !.mode = fs[s].mode])
               /\ Opens(c, Parent(Top(c).src))
      <3>1. stack[c] # <<>> /\ IsGit(c)
        BY <1>3 DEF EnterConfined, Walking, Confined, IsGit
      <3>2. Inside(c, s)
        BY <1>0, <2>2, <3>1, EnteredInside DEF FrameOk
      <3> HIDE DEF s
      <3>3. FrameOk(c, [Top(c) EXCEPT !.src = s, !.mode = fs[s].mode])
        BY <1>0, <3>1, <3>2 DEF FrameOk
      <3> QED
        BY <1>0, <1>1, <1>3, <2>2, <3>1, <3>3 DEF EnterConfined, CurOk
    <2> QED
      BY <1>3, <2>1, <2>2 DEF EnterConfined
  <1>4. ASSUME List(c) PROVE Result
    <2>1. CASE UNCHANGED stack
      BY <1>0, <1>4, <2>1 DEF List, CurOk
    <2> DEFINE es == Entries(Real(Top(c).src))
    <2>2. CASE stack' = SetTop(c, [Top(c) EXCEPT !.todo = es])
      <3>1. stack[c] # <<>>
        BY <1>4 DEF List, Walking
      <3>2. \A e \in es : e.name \in Name
        BY <1>0, EntryNames
      <3> HIDE DEF es
      <3>3. FrameOk(c, [Top(c) EXCEPT !.todo = es])
        BY <1>0, <3>1, <3>2 DEF FrameOk
      <3> QED
        BY <1>0, <1>1, <1>4, <2>2, <3>1, <3>3 DEF List, CurOk
    <2> QED
      BY <1>4, <2>1, <2>2 DEF List
  <1>5. ASSUME Ascend(c) PROVE Result
    <2>1. stack[c] # <<>> /\ stack'[c] = SubSeq(stack[c], 1, Len(stack[c]) - 1)
      BY <1>0, <1>5 DEF Ascend, Walking
    <2>2. StackOk(c, stack'[c])
      BY <1>0, <2>1, StackOkPop
    <2> QED
      BY <1>0, <1>5, <2>2 DEF Ascend, CurOk
  <1>6. ASSUME NEW e \in Top(c).todo, pc[c] = "next"
        PROVE  /\ stack[c] # <<>> /\ FrameOk(c, Top(c)) /\ e.name \in Name
               /\ FrameOk(c, [Top(c) EXCEPT !.todo = @ \ {e}])
               /\ Away(TargetOf(c, e)) /\ Inside(c, ChildOf(c, e))
    <2>1. stack[c] # <<>> /\ FrameOk(c, Top(c)) /\ e.name \in Name
      BY <1>0, <1>6 DEF Walking, FrameOk
    <2>2. Away(TargetOf(c, e))
      BY <1>0, <2>1, AppendClear DEF FrameOk, TargetOf, Away
    <2>3. Inside(c, ChildOf(c, e))
      BY <1>0, <2>1, AppendUnder DEF FrameOk, ChildOf, Inside, RootsOk, Owners, IsGit
    <2> QED
      BY <2>1, <2>2, <2>3 DEF FrameOk
  <1>7. ASSUME NEW e \in Top(c).todo, pc[c] = "next", Descend(c, e) PROVE Result
    <2> DEFINE f == [Top(c) EXCEPT !.todo = @ \ {e}]
               s == [stack[c] EXCEPT ![Len(stack[c])] = f]
               g == Frame(ChildOf(c, e), TargetOf(c, e),
                          IF Confined(c) THEN fs[ChildOf(c, e)].mode ELSE {})
    <2>1. stack'[c] = Append(s, g)
      BY <1>0, <1>7 DEF Descend, Without, SetTop
    <2>2. FrameOk(c, g)
      BY <1>6, <1>7 DEF Frame, FrameOk
    <2>3. StackOk(c, s)
      BY <1>0, <1>6, <1>7, StackOkTop
    <2> HIDE DEF s, g
    <2>4. StackOk(c, stack'[c])
      BY <2>1, <2>2, <2>3, StackOkPush
    <2> QED
      BY <1>0, <1>7, <2>4 DEF Descend, CurOk
  <1>8. ASSUME NEW e \in Top(c).todo, Refuse(c, e) PROVE Result
    BY <1>0, <1>8 DEF Refuse, CurOk
  <1>9. ASSUME NEW e \in Top(c).todo, pc[c] = "next", TakeFile(c, e) PROVE Result
    <2>1. stack' = SetTop(c, [Top(c) EXCEPT !.todo = @ \ {e}])
      BY <1>9 DEF TakeFile, Without
    <2>2. StackOk(c, stack'[c])
      BY <1>1, <1>6, <1>9, <2>1
    <2>3. Away(TargetOf(c, e)) /\ Inside(c, ChildOf(c, e))
      BY <1>6, <1>9
    <2> HIDE DEF Away, Inside
    <2> QED
      BY <1>0, <1>9, <2>2, <2>3 DEF TakeFile, CurOk
  <1>10. ASSUME Write(c) PROVE Result
    BY <1>0, <1>10 DEF Write, CurOk
  <1>11. ASSUME Mkdir(c) \/ ChmodDir(c) \/ Create(c) \/ ReadFails(c) PROVE Result
    BY <1>0, <1>11 DEF Mkdir, ChmodDir, Create, ReadFails, CurOk
  <1>12. ASSUME WriteDone(c) \/ Chmod(c) \/ Close(c) PROVE Result
    BY <1>0, <1>12 DEF WriteDone, Chmod, Close, CurOk
  <1>13. ASSUME CloseFails(c) \/ CopyFault(c) PROVE Result
    BY <1>0, <1>13 DEF CloseFails, CopyFault, CurOk, Suffers
  <1>14. Result
    BY <1>2, <1>3, <1>4, <1>5, <1>7, <1>8, <1>9, <1>10, <1>11, <1>12, <1>13 DEF CopyStep
  <1> QED
    BY <1>14

LEMMA CopyGood ==
  ASSUME IInv, PInv, CInv, NEW c \in Call, CopyStep(c), UNCHANGED <<gitVars, ociVars>>
  PROVE  Good(c)
  <1>1. Walking(c) /\ RootsOk /\ CallOk(c) /\ tip \in DOMAIN Commits
    BY DEF PInv, CInv
  <1>2. pc[c] \in CopyLabel /\ UNCHANGED job
    BY CopyMoves DEF Moves
  <1>3. Fit(c, fs')
    BY <1>1, CopyFits
  <1>4. /\ StackOk(c, stack'[c]) /\ CurOk(c, pc'[c], cur'[c])
        /\ DOMAIN cur' = Call /\ DOMAIN fault' = Call
        /\ \A d \in Call \ {c} : cur'[d] = cur[d] /\ fault'[d] = fault[d]
        /\ pc'[c] \notin {"begin", "checkout", "tmp", "subdir"}
    BY <1>1, CopyCalls
  <1>5. \A d \in Call \ {c} : pc'[d] = pc[d] /\ meta'[d] = meta[d] /\ stack'[d] = stack[d]
    BY CopyKeeps DEF StepOf
  <1>6. UNCHANGED <<tip, clone, pull>>
    BY DEF gitVars, ociVars
  <1>7. CloneOk(c)'
    BY <1>1, <1>2, <1>4, <1>6 DEF CallOk, CloneOk, IsGit, Temporary, Url
  <1>8. RootsKept /\ CallOk(c)'
    BY <1>1, <1>2, <1>4, <1>6, <1>7, SameJobs DEF CallOk
  <1>9. \A d \in Call \ {c} : Own(d)' = Own(d)
    BY <1>2, <1>4, <1>5, <1>6 DEF Own
  <1> QED
    BY <1>1, <1>3, <1>4, <1>6, <1>8, <1>9 DEF Good

-----------------------------------------------------------------------------
(* The file gatherer: an archive is expanded into its destination. *)

LEMMA ExpandFits ==
  ASSUME RootsOk, FsOk, NEW c \in Call, Away(job[c].dst), Expand(c)
  PROVE  Fit(c, fs')
  <1> DEFINE rest == Tail(fs[Real(job[c].src)].data)
             room == AfterMkdirAll(Entry(job[c].dst), Permission)
             inner == Append(Real(job[c].dst), Inner)
             whole == Put(inner, File(Permission \ Umask, rest), room)
  <1>1. Fit(c, room)
    BY AwayReach, MkdirFits
  <1>2. Clear(inner, Foreign(c))
    BY RealAway, AppendClear, AwayForeign, SourceAssumption DEF Away
  <1>3. Reach(c, inner) /\ inner \in Path
    BY <1>2, ClearReach DEF Clear
  <1>4. Fit(c, whole)
    <2> HIDE DEF room, inner
    <2> QED
      BY <1>1, <1>3, PutFits, NewNodes
  <1>5. fs' = fs \/ fs' = whole
    BY DEF Expand
  <1> HIDE DEF whole
  <1> QED
    BY <1>4, <1>5, SameFits

LEMMA FileGood ==
  ASSUME IInv, PInv, CInv, NEW c \in Call, FileStep(c), UNCHANGED <<gitVars, ociVars, first>>
  PROVE  Good(c)
  <1> USE DEF Goto, callVars, copyVars
  <1>0. /\ RootsOk /\ FsOk /\ CallOk(c) /\ JobOk(c) /\ StackOk(c, stack[c])
        /\ CurOk(c, pc[c], cur[c]) /\ Place(c) /\ tip \in DOMAIN Commits
        /\ DOMAIN pc = Call /\ DOMAIN stack = Call /\ DOMAIN cur = Call /\ DOMAIN fault = Call
        /\ job[c] \in Job /\ job \in [Call -> Job]
    BY DEF CInv, CallOk, IInv, Functions, PInv, Typed
  <1>1. IsFile(c) /\ ~IsGit(c) /\ ~IsOci(c)
    BY <1>0 DEF FileStep, FileBegin, FileStat, Sniff, GetExpander, Expand, DirSize, ParseSave,
       FileFault, Place, IsGit, IsFile, IsOci, CopyLabel, FileLabel
  <1>2. UNCHANGED <<tip, clone, pull>>
    BY DEF gitVars, ociVars
  <1>3. \A d \in Call \ {c} : pc'[d] = pc[d] /\ meta'[d] = meta[d] /\ stack'[d] = stack[d]
    BY FileKeeps DEF StepOf
  <1>4. Fit(c, fs')
    <2>1. CASE Expand(c)
      BY <1>0, <2>1, ExpandFits DEF JobOk
    <2>2. CASE UNCHANGED fs
      BY <2>2, SameFits
    <2> QED
      BY <2>1, <2>2 DEF FileStep, FileBegin, FileStat, Sniff, GetExpander, DirSize, ParseSave,
         FileFault
  <1>5. /\ DOMAIN cur' = Call /\ DOMAIN fault' = Call
        /\ \A d \in Call \ {c} : cur'[d] = cur[d] /\ fault'[d] = fault[d]
    BY <1>0 DEF FileStep, FileBegin, FileStat, Sniff, GetExpander, Expand, DirSize, ParseSave,
       FileFault, Suffers
  <1>6. CASE FileBegin(c) /\ job' # job
    <2>1. PICK s \in ExpandPath(c, job[c].src), d \in ExpandPath(c, job[c].dst) :
            job' = [job EXCEPT ![c].src = s, ![c].dst = d]
      BY <1>6 DEF FileBegin
    <2>2. job' = [job EXCEPT ![c] = [job[c] EXCEPT !.src = s, !.dst = d]]
      BY <2>1
    <2>3. job[c] \in FileJob
      BY <1>0, <1>1 DEF IsFile, Job, FileJob, GitJob, OciJob
    <2>4. job'[c].kind = "file" /\ job'[c].dst = d
      BY <1>0, <2>2, <2>3 DEF FileJob
    <2>5. \A e \in Call \ {c} : job'[e] = job[e]
      BY <1>0, <2>2
    <2>6. RootsKept
      BY <1>1, <2>4, <2>5 DEF RootsKept, Owners, IsFile
    <2>7. pc'[c] = "stat" /\ pc[c] = "begin" /\ UNCHANGED <<stack, cur>>
      BY <1>0, <1>6 DEF FileBegin
    <2>8. \A p : Away(p) => Away(p)'
      BY <1>0, <2>6, KeptRoots
    <2>9. IsFile(c)' /\ ~IsGit(c)' /\ ~IsOci(c)'
      BY <2>4 DEF IsFile, IsGit, IsOci
    <2>10. JobOk(c)'
      <3>1. Away(d) /\ Away(UrlPath(d))
        BY <1>0, <1>1, <2>1, <2>7 DEF JobOk
      <3> HIDE DEF Away
      <3> QED
        BY <2>4, <2>7, <2>8, <2>9, <3>1 DEF JobOk
    <2>11. StackOk(c, stack[c])'
      BY <1>0, <2>7, <2>8, <2>9 DEF StackOk, FrameOk, Inside
    <2>12. CurOk(c, pc[c], cur[c])'
      BY <1>0, <2>7 DEF CurOk
    <2>13. CallOk(c)'
      BY <2>9, <2>10, <2>11, <2>12 DEF CallOk, CloneOk
    <2> QED
      BY <1>0, <1>2, <1>3, <1>4, <1>5, <2>5, <2>6, <2>13 DEF Good, Own
  <1>7. CASE UNCHANGED job
    <2>1. pc'[c] # "begin"
      BY <1>0 DEF FileStep, FileBegin, FileStat, Sniff, GetExpander, Expand, DirSize, ParseSave,
         FileFault
    <2>2. StackOk(c, stack'[c])
      <3>1. CASE stack' = Push(c, Frame(job[c].src, job[c].dst, {}))
        <4>1. FrameOk(c, Frame(job[c].src, job[c].dst, {}))
          BY <1>0, <1>1 DEF Frame, FrameOk, JobOk, Inside
        <4>2. stack'[c] = Append(stack[c], Frame(job[c].src, job[c].dst, {}))
          BY <1>0, <3>1 DEF Push
        <4> QED
          BY <1>0, <4>1, <4>2, StackOkPush
      <3> QED
        BY <1>0, <3>1 DEF FileStep, FileBegin, FileStat, Sniff, GetExpander, Expand, DirSize,
           ParseSave, FileFault
    <2>3. CurOk(c, pc'[c], cur'[c])
      <3>1. CASE ParseSave(c)
        <4>1. Away(UrlPath(job[c].dst))
          BY <1>0, <1>1 DEF JobOk
        <4> HIDE DEF Away
        <4> QED
          BY <1>0, <1>1, <3>1, <4>1 DEF ParseSave, CurOk, Inside, NoFile
      <3>2. CASE ~ParseSave(c)
        BY <1>0, <3>2 DEF FileStep, FileBegin, FileStat, Sniff, GetExpander, Expand, DirSize,
           FileFault, CurOk
      <3> QED
        BY <3>1, <3>2
    <2>4. CloneOk(c)'
      BY <1>1, <1>7 DEF CloneOk, IsGit
    <2>5. RootsKept /\ CallOk(c)'
      BY <1>0, <1>1, <1>7, <2>1, <2>2, <2>3, <2>4, SameJobs
    <2> QED
      BY <1>0, <1>2, <1>3, <1>4, <1>5, <1>7, <2>5 DEF Good, Own
  <1> QED
    BY <1>6, <1>7 DEF FileStep, FileBegin, FileStat, Sniff, GetExpander, Expand, DirSize,
       ParseSave, FileFault

-----------------------------------------------------------------------------
(* The git gatherer: it clones to its destination or into its own temporary  *)
(* directory.                                                                *)

LEMMA BaseClear ==
  ASSUME RootsOk, FsOk, NEW c \in Owners(job), Away(job[c].dst),
         pc[c] \in {"init", "fetch", "checkout"}
  PROVE  /\ \/ Away(Real(Base(c)))
            \/ c \in Owners(job) /\ Working(c) /\ Real(Base(c)) = job[c].root
         /\ Clear(Real(Base(c)), Foreign(c)) /\ Clear(Entry(Base(c)), Foreign(c))
  <1>1. CASE Temporary(c)
    <2>1. Working(c)
      BY <1>1 DEF Working, Owners, IsGit
    <2> QED
      BY <1>1, <2>1, RootReal, OwnForeign DEF Base
  <1>2. CASE ~Temporary(c)
    BY <1>2, RealAway, EntryAway, AwayForeign DEF Base
  <1> QED
    BY <1>1, <1>2

(* What is removed below a directory that c may change. *)
LEMMA RemoveFits ==
  ASSUME RootsOk, FsOk, NEW c, NEW p, Clear(p, Foreign(c)), NEW S \in SUBSET Tree(p)
  PROVE  Fit(c, [q \in DOMAIN fs \ S |-> fs[q]])
  <1>1. \A q \in S : q \in Path /\ Under(q, p)
    BY DEF Tree, FsOk, NodeOk
  <1> QED
    BY <1>1, BelowReach, CutFits

LEMMA GitFits ==
  ASSUME CInv, NEW c \in Call, IsGit(c), GitStep(c) \/ Fetch(c) \/ FetchFails(c)
  PROVE  Fit(c, fs')
  <1> USE DEF Goto
  <1>0. /\ RootsOk /\ FsOk /\ c \in Owners(job) /\ Away(job[c].dst) /\ CloneOk(c)
        /\ tip \in DOMAIN Commits
    BY DEF CInv, CallOk, JobOk, Owners, IsGit
  <1>1. CASE UNCHANGED fs
    BY <1>1, SameFits
  <1>2. CASE MkTemp(c)
    <2>1. Working(c)
      BY <1>0, <1>2 DEF MkTemp, Working, CloneOk
    <2>2. Reach(c, job[c].root)
      BY <1>0, <2>1, OwnForeign, ClearReach
    <2>3. fs' = Put(job[c].root, Dir(Permission \ Umask), fs)
      BY <1>2 DEF MkTemp
    <2> QED
      BY <2>2, <2>3, SameFits, PutFits, NewNodes DEF Reach
  <1>3. CASE PlainInit(c)
    <2> DEFINE git == Append(Real(Base(c)), DotGit)
               new == AfterMkdirAll(Entry(Base(c)), Permission)
    <2>1. Clear(Real(Base(c)), Foreign(c)) /\ Clear(Entry(Base(c)), Foreign(c))
      BY <1>0, <1>3, BaseClear DEF PlainInit
    <2>2. Fit(c, new)
      BY <1>0, <2>1, MkdirFits
    <2>3. Clear(git, Foreign(c))
      BY <1>0, <2>1, AppendClear, SourceAssumption DEF Foreign
    <2>4. Reach(c, git) /\ git \in Path
      BY <1>0, <2>3, ClearReach DEF Clear
    <2>5. fs' = fs \/ fs' = Put(git, Dir(Permission \ Umask), new)
      BY <1>3 DEF PlainInit
    <2> HIDE DEF git, new
    <2> QED
      BY <2>2, <2>4, <2>5, SameFits, PutFits, NewNodes
  <1>4. CASE Fetch(c)
    <2> DEFINE base == Real(Base(c))
    <2>1. Away(base) \/ (c \in Owners(job) /\ Working(c) /\ base = job[c].root)
      BY <1>0, <1>4, BaseClear DEF Fetch
    <2>2. fs' = Over(Placed(tip, base), fs)
      BY <1>4 DEF Fetch
    <2> HIDE DEF base
    <2>3. \A p \in DOMAIN Placed(tip, base) : Reach(c, p) /\ NodeOk(p, Placed(tip, base)[p])
      BY <1>0, <2>1, PlacedNodes
    <2> QED
      BY <2>2, <2>3, SameFits, OverFits
  <1>5. CASE FetchFails(c)
    <2>1. Clear(Real(Base(c)), Foreign(c))
      BY <1>0, <1>5, BaseClear DEF FetchFails
    <2>2. PICK S \in SUBSET Tree(Real(Base(c))) : fs' = [q \in DOMAIN fs \ S |-> fs[q]]
      BY <1>5 DEF FetchFails
    <2> QED
      BY <1>0, <2>1, <2>2, RemoveFits
  <1>6. CASE Checkout(c) /\ Revision(c) \in clone[c].have
    <2> DEFINE base == Real(Base(c))
               n == Revision(c)
               old == DOMAIN Placed(clone[c].head, base)
               kept == [p \in DOMAIN fs \ (old \ {base}) |-> fs[p]]
    <2>1. Away(base) \/ (c \in Owners(job) /\ Working(c) /\ base = job[c].root)
      BY <1>0, <1>6, BaseClear DEF Checkout
    <2>2. n \in DOMAIN Commits /\ clone[c].head \in DOMAIN Commits
      BY <1>0, <1>6 DEF CloneOk, Checkout, IsGit
    <2>3. fs' = Over(Placed(n, base), kept)
      BY <1>6 DEF Checkout
    <2> HIDE DEF base, n
    <2>4. \A p \in old \ {base} : Reach(c, p)
      BY <1>0, <2>1, <2>2, PlacedNodes
    <2> HIDE DEF old
    <2>5. Fit(c, kept)
      BY <2>4, CutFits
    <2> HIDE DEF kept
    <2>6. \A p \in DOMAIN Placed(n, base) : Reach(c, p) /\ NodeOk(p, Placed(n, base)[p])
      BY <1>0, <2>1, <2>2, PlacedNodes
    <2> QED
      BY <2>3, <2>5, <2>6, OverFits
  <1>7. CASE Checkout(c) /\ Revision(c) \notin clone[c].have
    BY <1>1, <1>7 DEF Checkout
  <1>8. CASE Cleanup(c)
    <2>1. CASE Temporary(c)
      <3>1. Working(c)
        BY <1>8, <2>1 DEF Cleanup, Return, Working
      <3>2. Clear(job[c].root, Foreign(c))
        BY <1>0, <3>1, OwnForeign
      <3>3. fs' = [p \in DOMAIN fs \ Tree(job[c].root) |-> fs[p]]
        BY <1>8, <2>1 DEF Cleanup
      <3> QED
        BY <1>0, <3>2, <3>3, RemoveFits
    <2>2. CASE ~Temporary(c)
      <3>1. fs' = [p \in DOMAIN fs \ {} |-> fs[p]]
        BY <1>8, <2>2 DEF Cleanup
      <3> QED
        BY <3>1, CutFits
    <2> QED
      BY <2>1, <2>2
  <1> QED
    BY <1>1, <1>2, <1>3, <1>4, <1>5, <1>6, <1>7, <1>8
    DEF GitStep, GitBegin, EnterSubdir, HeadRef, CleanupFails, GitFault

LEMMA GitGood ==
  ASSUME IInv, PInv, CInv, NEW c \in Call, GitStep(c) \/ Fetch(c) \/ FetchFails(c),
         UNCHANGED <<ociVars, first>>
  PROVE  Good(c)
  <1> USE DEF Goto, callVars, copyVars
  <1>0. /\ RootsOk /\ FsOk /\ CallOk(c) /\ JobOk(c) /\ CloneOk(c) /\ StackOk(c, stack[c])
        /\ CurOk(c, pc[c], cur[c]) /\ Place(c) /\ tip \in DOMAIN Commits
        /\ DOMAIN pc = Call /\ DOMAIN stack = Call /\ DOMAIN cur = Call /\ DOMAIN fault = Call
        /\ DOMAIN clone = Call /\ job[c] \in Job /\ tip \in Nat
    BY DEF CInv, CallOk, IInv, Functions, PInv, Typed
  <1>1. IsGit(c) /\ ~IsOci(c) /\ UNCHANGED job
    BY <1>0 DEF GitStep, GitBegin, MkTemp, PlainInit, Fetch, FetchFails, Checkout, EnterSubdir,
       HeadRef, Cleanup, CleanupFails, Return, GitFault, Place, IsGit, IsFile, IsOci, CopyLabel,
       FileLabel
  <1>2. Fit(c, fs')
    BY <1>1, GitFits
  <1>3. \A d \in Call \ {c} : pc'[d] = pc[d] /\ meta'[d] = meta[d] /\ stack'[d] = stack[d]
    BY GitKeeps DEF StepOf
  <1>4. UNCHANGED <<pull, cur, tip>> /\ pc'[c] # "begin"
    BY <1>0 DEF GitStep, GitBegin, MkTemp, PlainInit, Fetch, FetchFails, Checkout, EnterSubdir,
       HeadRef, Cleanup, CleanupFails, Return, GitFault, ociVars, gitVars
  <1>5. /\ DOMAIN fault' = Call
        /\ \A d \in Call \ {c} : fault'[d] = fault[d] /\ clone'[d] = clone[d]
    BY <1>0 DEF GitStep, GitBegin, MkTemp, PlainInit, Fetch, FetchFails, Checkout, EnterSubdir,
       HeadRef, Cleanup, CleanupFails, Return, GitFault, Suffers, gitVars
  <1>6. StackOk(c, stack'[c])
    <2>1. CASE EnterSubdir(c) /\ stack' # stack
      <3> DEFINE src == job[c].root \o Subdir(Url(c))
      <3>1. stack'[c] = Append(stack[c], Frame(src, job[c].dst, {}))
        BY <1>0, <2>1 DEF EnterSubdir, Push
      <3>2. job[c] \in GitJob
        BY <1>0, <1>1 DEF IsGit, Job, FileJob, GitJob, OciJob
      <3>3. Subdir(Url(c)) \in Path /\ job[c].root \in Path
        BY <3>2 DEF GitJob, GitUrl, Url, Subdir
      <3>4. ASSUME NEW p \in Path, NEW q \in Path
            PROVE  p \o q \in Path /\ Under(p \o q, p)
        <4>1. /\ p \o q \in Path /\ Len(p \o q) = Len(p) + Len(q) /\ Len(p) \in Nat /\ Len(q) \in Nat
              /\ \A i \in 1..Len(p) : (p \o q)[i] = p[i]
          BY ConcatPath
        <4> QED
          BY <4>1 DEF Under
      <3>5. Inside(c, src)
        BY <3>3, <3>4 DEF Inside
      <3> HIDE DEF src
      <3>6. FrameOk(c, Frame(src, job[c].dst, {}))
        BY <1>0, <3>5 DEF Frame, FrameOk, JobOk
      <3> QED
        BY <1>0, <3>1, <3>6, StackOkPush
    <2>2. CASE stack' = stack
      BY <1>0, <2>2
    <2> QED
      BY <2>1, <2>2 DEF GitStep, GitBegin, MkTemp, PlainInit, Fetch, FetchFails, Checkout,
         HeadRef, Cleanup, CleanupFails, GitFault
  <1>7. CurOk(c, pc'[c], cur'[c])
    BY <1>0, <1>4 DEF GitStep, GitBegin, MkTemp, PlainInit, Fetch, FetchFails, Checkout,
       EnterSubdir, HeadRef, Cleanup, CleanupFails, Return, GitFault, CurOk
  <1>8. CloneOk(c)'
    <2> USE DEF CloneOk, IsGit, Temporary, Url, CopyLabel
    <2>1. ASSUME PlainInit(c) PROVE CloneOk(c)'
      BY <1>0, <1>1, <2>1 DEF PlainInit, NoClone
    <2>2. ASSUME Fetch(c) PROVE CloneOk(c)'
      <3>1. DOMAIN Commits = 1..Len(Commits) /\ Len(Commits) \in Nat
        BY SourceAssumption
      <3>2. \A d \in Nat : {n \in 1..tip : d = 0 \/ n > tip - d} \subseteq DOMAIN Commits
        BY <1>0, <3>1
      <3>3. clone'[c].have \subseteq DOMAIN Commits /\ clone'[c].head = tip
            /\ DOMAIN clone'[c] = {"have", "head", "before"}
        BY <1>0, <1>1, <2>2, <3>1 DEF Fetch
      <3>4. pc'[c] \in {"checkout", "head"} \/ (pc'[c] = "subdir" /\ Temporary(c))
        BY <1>0, <2>2 DEF Fetch
      <3> QED
        BY <1>0, <1>1, <3>3, <3>4
    <2>3. ASSUME Checkout(c) PROVE CloneOk(c)'
      <3>1. pc'[c] \in {"cleanup", "head"} \/ (pc'[c] = "subdir" /\ Temporary(c))
        BY <1>0, <2>3 DEF Checkout
      <3>2. DOMAIN clone'[c] = DOMAIN clone[c] /\ clone'[c].have = clone[c].have
        BY <1>0, <1>1, <2>3 DEF Checkout
      <3> QED
        BY <1>0, <1>1, <3>1, <3>2
    <2>4. ASSUME GitBegin(c) \/ MkTemp(c) \/ EnterSubdir(c) \/ HeadRef(c) \/ Cleanup(c)
                 \/ CleanupFails(c) \/ GitFault(c) \/ FetchFails(c)
          PROVE  CloneOk(c)'
      BY <1>0, <1>1, <2>4 DEF GitBegin, MkTemp, EnterSubdir, HeadRef, Cleanup, CleanupFails,
         Return, GitFault, FetchFails, gitVars
    <2> QED
      BY <2>1, <2>2, <2>3, <2>4 DEF GitStep
  <1>9. RootsKept /\ CallOk(c)'
    BY <1>0, <1>1, <1>4, <1>6, <1>7, <1>8, SameJobs
  <1> QED
    BY <1>0, <1>1, <1>2, <1>3, <1>4, <1>5, <1>9 DEF Good, Own

-----------------------------------------------------------------------------
(* The OCI gatherer: its blobs are files of the destination. *)

LEMMA BlobFits ==
  ASSUME RootsOk, FsOk, NEW c \in Call, Away(job[c].dst), NEW t \in Name, NEW data
  PROVE  LET p == Real(Append(job[c].dst, t)) IN
         /\ Fit(c, AfterCreate(p, Permission))
         /\ Fit(c, [AfterCreate(p, Permission) EXCEPT ![p].data = data])
  <1> DEFINE p == Real(Append(job[c].dst, t))
             new == AfterCreate(p, Permission)
  <1>1. Away(Append(job[c].dst, t))
    BY AppendClear DEF Away
  <1>2. Reach(c, p) /\ p \in Path
    BY <1>1, AwayReach
  <1> HIDE DEF p
  <1>3. Fit(c, new)
    BY <1>2, CreateFits
  <1>4. PICK mode : new[p] = File(mode, <<>>)
    BY DEF AfterCreate, Put
  <1>5. [new[p] EXCEPT !.data = data] = File(mode, data)
    BY <1>4 DEF File
  <1>6. NodeOk(p, [new[p] EXCEPT !.data = data])
    BY <1>2, <1>5, NewNodes
  <1> HIDE DEF new
  <1>7. Fit(c, [new EXCEPT ![p] = [new[p] EXCEPT !.data = data]])
    BY <1>2, <1>3, <1>6 DEF Fit
  <1> QED
    BY <1>3, <1>7 DEF p, new

LEMMA OciGood ==
  ASSUME IInv, PInv, CInv, NEW c \in Call, UNCHANGED <<gitVars, first>>,
         \/ OciStep(c) \/ Resolve(c) \/ Repeat(c) \/ RequestFails(c)
         \/ \E t \in pull[c].todo : Pull(c, t)
  PROVE  Good(c)
  <1> USE DEF Goto, callVars, copyVars
  <1>0. /\ RootsOk /\ FsOk /\ CallOk(c) /\ JobOk(c) /\ StackOk(c, stack[c])
        /\ CurOk(c, pc[c], cur[c]) /\ Place(c) /\ tip \in DOMAIN Commits /\ Pins(c)
        /\ DOMAIN pc = Call /\ DOMAIN stack = Call /\ DOMAIN cur = Call /\ DOMAIN fault = Call
        /\ DOMAIN pull = Call /\ Away(job[c].dst)
    BY DEF CInv, CallOk, JobOk, IInv, Functions, PInv, Typed
  <1>1. IsOci(c) /\ ~IsGit(c) /\ UNCHANGED <<job, stack, cur, clone, tip>>
    BY <1>0 DEF OciStep, OciBegin, OpenStore, Pulled, CloseStore, CloseStoreFails, OciFault,
       Resolve, Repeat, RequestFails, Requesting, Pull, Place, IsGit, IsFile, IsOci, CopyLabel,
       FileLabel, gitVars
  <1>2. pull[c].todo \subseteq Name /\ DOMAIN pull[c] = {"plain", "digest", "todo", "tries"}
    BY <1>0, <1>1 DEF CallOk, Pins, OciPins
  <1>3. \A d \in Call \ {c} : pc'[d] = pc[d] /\ meta'[d] = meta[d] /\ stack'[d] = stack[d]
    BY OciKeeps DEF StepOf
  <1>4. Fit(c, fs')
    <2>1. CASE UNCHANGED fs
      BY <2>1, SameFits
    <2>2. CASE OpenStore(c)
      <3>1. fs' = AfterMkdirAll(Entry(job[c].dst), Permission)
        BY <2>2 DEF OpenStore
      <3> QED
        BY <1>0, <3>1, AwayReach, MkdirFits
    <2>3. CASE RequestFails(c) /\ fs' # fs
      <3>1. PICK t \in pull[c].todo :
              fs' = AfterCreate(Real(Append(job[c].dst, t)), Permission)
        BY <2>3 DEF RequestFails
      <3> QED
        BY <1>0, <1>2, <3>1, BlobFits
    <2>4. ASSUME NEW t \in pull[c].todo, Pull(c, t)
          PROVE  Fit(c, fs')
      <3>1. fs' = [AfterCreate(Real(Append(job[c].dst, t)), Permission)
                     EXCEPT ![Real(Append(job[c].dst, t))].data = PullOf(c)[t]]
        BY <2>4 DEF Pull
      <3> QED
        BY <1>0, <1>2, <3>1, BlobFits
    <2> QED
      BY <2>1, <2>2, <2>3, <2>4
      DEF OciStep, OciBegin, Pulled, CloseStore, CloseStoreFails, OciFault, Resolve, Repeat
  <1>5. DOMAIN fault' = Call /\ \A d \in Call \ {c} : fault'[d] = fault[d]
    BY <1>0 DEF OciStep, OciBegin, OpenStore, Pulled, CloseStore, CloseStoreFails, OciFault,
       Resolve, Repeat, RequestFails, Pull, Suffers
  <1>6. /\ pull'[c].todo \subseteq Name
        /\ \A d \in Call \ {c} : pull'[d] = pull[d]
    <2> DEFINE Result == /\ pull'[c].todo \subseteq Name
                         /\ \A d \in Call \ {c} : pull'[d] = pull[d]
    <2>1. ASSUME OciBegin(c) PROVE Result
      BY <1>0, <1>2, <2>1 DEF OciBegin, NoPull
    <2>2. ASSUME Resolve(c) PROVE Result
      <3>1. DOMAIN Artifact[Digest(c)] \subseteq Name
        BY <2>2, SourceAssumption DEF Resolve
      <3> QED
        BY <1>0, <1>2, <2>2, <3>1 DEF Resolve
    <2>3. ASSUME Repeat(c) PROVE Result
      BY <1>0, <1>2, <2>3 DEF Repeat
    <2>4. ASSUME NEW t \in pull[c].todo, Pull(c, t) PROVE Result
      BY <1>0, <1>2, <2>4 DEF Pull
    <2>5. ASSUME OpenStore(c) \/ Pulled(c) \/ CloseStore(c) \/ CloseStoreFails(c) \/ OciFault(c)
                 \/ RequestFails(c)
          PROVE  Result
      BY <1>2, <2>5 DEF OpenStore, Pulled, CloseStore, CloseStoreFails, OciFault, RequestFails,
         ociVars
    <2> QED
      BY <2>1, <2>2, <2>3, <2>4, <2>5 DEF OciStep
  <1>7. pc'[c] # "begin" /\ CurOk(c, pc'[c], cur'[c])
    BY <1>0, <1>1 DEF OciStep, OciBegin, OpenStore, Pulled, CloseStore, CloseStoreFails, OciFault,
       Resolve, Repeat, RequestFails, Requesting, Pull, CurOk
  <1>8. CloneOk(c)'
    BY <1>1 DEF CloneOk, IsGit
  <1>9. RootsKept /\ CallOk(c)'
    BY <1>0, <1>1, <1>6, <1>7, <1>8, SameJobs
  <1> QED
    BY <1>0, <1>1, <1>3, <1>4, <1>5, <1>6, <1>9 DEF Good, Own

-----------------------------------------------------------------------------

(* The second gather goes to the other directory it was given. *)
LEMMA AgainGood ==
  ASSUME IInv, PInv, CInv, NEW c \in Call, Again(c)
  PROVE  Good(c)
  <1>0. /\ RootsOk /\ FsOk /\ CallOk(c) /\ JobOk(c) /\ StackOk(c, stack[c])
        /\ CurOk(c, pc[c], cur[c]) /\ tip \in DOMAIN Commits
        /\ DOMAIN pc = Call /\ DOMAIN meta = Call /\ DOMAIN stack = Call /\ DOMAIN cur = Call
        /\ DOMAIN fault = Call /\ DOMAIN clone = Call /\ DOMAIN pull = Call
        /\ job[c] \in Job /\ job \in [Call -> Job]
    BY DEF CInv, CallOk, IInv, Functions, PInv, Typed
  <1>1. /\ IsGit(c) \/ IsOci(c)
        /\ ~IsFile(c) /\ job' = [job EXCEPT ![c] = Pinned(c)] /\ pc' = [pc EXCEPT ![c] = "begin"]
        /\ UNCHANGED <<stack, cur, fs, fault, tip>>
    BY DEF Again, IsGit, IsOci, IsFile, copyVars
  <1> DEFINE j == [job[c] EXCEPT !.dst = job[c].again, !.again = <<>>]
  <1>2. /\ Pinned(c).kind = job[c].kind /\ Pinned(c).dst = job[c].again
        /\ Pinned(c).again = <<>> /\ (IsGit(c) => Pinned(c).root = job[c].root)
    <2>1. CASE IsGit(c)
      <3>1. job[c] \in GitJob
        BY <1>0, <2>1 DEF Job, FileJob, GitJob, OciJob, IsGit
      <3>2. PICK u : Pinned(c) = [j EXCEPT !.url = u]
        BY <2>1 DEF Pinned
      <3> QED
        BY <2>1, <3>1, <3>2 DEF GitJob
    <2>2. CASE IsOci(c)
      <3>1. job[c] \in OciJob /\ ~IsGit(c)
        BY <1>0, <2>2 DEF Job, FileJob, GitJob, OciJob, IsOci, IsGit
      <3>2. PICK n : Pinned(c) = [j EXCEPT !.ref = n]
        BY <3>1 DEF Pinned
      <3> QED
        BY <2>2, <3>1, <3>2 DEF OciJob
    <2> QED
      BY <1>1, <2>1, <2>2
  <1> HIDE DEF j
  <1>3. /\ job'[c] = Pinned(c) /\ \A d \in Call \ {c} : job'[d] = job[d]
        /\ pc'[c] = "begin"
    <2> HIDE DEF Pinned
    <2> QED
      BY <1>0, <1>1
  <1>4. RootsKept
    BY <1>2, <1>3 DEF RootsKept, Owners, IsGit
  <1>5. \A p : Away(p) => Away(p)'
    BY <1>0, <1>4, KeptRoots
  <1>6. (IsFile(c)' <=> IsFile(c)) /\ (IsGit(c)' <=> IsGit(c)) /\ (IsOci(c)' <=> IsOci(c))
    BY <1>2, <1>3 DEF IsFile, IsGit, IsOci
  <1>7. \A p : Inside(c, p) => Inside(c, p)'
    BY <1>4, <1>6, KeptInside
  <1>8. JobOk(c)'
    <2>1. Away(job[c].again)
      BY <1>0, <1>1 DEF JobOk, Again
    <2> HIDE DEF Away
    <2> QED
      BY <1>1, <1>2, <1>3, <1>5, <1>6, <2>1 DEF JobOk
  <1> HIDE DEF Away, Inside
  <1>9. StackOk(c, stack[c])'
    BY <1>0, <1>1, <1>5, <1>7 DEF StackOk, FrameOk
  <1>10. CurOk(c, pc[c], cur[c])'
    BY <1>0, <1>1, <1>3 DEF CurOk
  <1>11. clone'[c] = NoClone /\ pull'[c] = NoPull
    BY <1>0 DEF Again
  <1>12. CloneOk(c)' /\ pull'[c].todo \subseteq Name
    BY <1>3, <1>11 DEF CloneOk, CopyLabel, NoClone, NoPull
  <1>13. CallOk(c)'
    BY <1>8, <1>9, <1>10, <1>12 DEF CallOk
  <1>14. Fit(c, fs')
    BY <1>1, SameFits
  <1>15. \A d \in Call \ {c} : Own(d)' = Own(d)
    BY <1>0, <1>1, <1>3 DEF Again, Own
  <1> QED
    BY <1>0, <1>1, <1>4, <1>13, <1>14, <1>15 DEF Good

LEMMA CrashGood ==
  ASSUME IInv, CInv, NEW c \in Call, Crash(c)
  PROVE  Good(c)
  <1>0. /\ RootsOk /\ FsOk /\ CallOk(c) /\ tip \in DOMAIN Commits
        /\ DOMAIN pc = Call /\ DOMAIN fault = Call /\ DOMAIN cur = Call
    BY DEF CInv, IInv, Functions
  <1>1. /\ pc' = [pc EXCEPT ![c] = "crashed"] /\ fault' = [fault EXCEPT ![c] = "crash"]
        /\ UNCHANGED <<job, meta, cancelled, fs, stack, cur, clone, tip, pull>>
    BY DEF Crash, Suffers, copyVars, gitVars, ociVars
  <1>2. StackOk(c, stack'[c]) /\ CurOk(c, pc'[c], cur'[c]) /\ CloneOk(c)'
    BY <1>0, <1>1 DEF CallOk, CurOk, CloneOk, IsGit, Temporary, Url, CopyLabel
  <1>3. RootsKept /\ CallOk(c)'
    BY <1>0, <1>1, <1>2, SameJobs DEF CallOk
  <1> QED
    BY <1>0, <1>1, <1>3, SameFits DEF Good, Own

(* The steps of a call, and those of nobody: a cancellation, and what others *)
(* do at the servers.                                                        *)
ByCall(c) ==
  \/ Local(c) \/ Answered(c) \/ Unanswered(c) \/ (Repeat(c) /\ UNCHANGED <<gitVars, first>>)
  \/ Crash(c) \/ Again(c)

LEMMA ByCallGood ==
  ASSUME IInv, PInv, CInv, NEW c \in Call, ByCall(c)
  PROVE  Good(c)
  BY CopyGood, FileGood, GitGood, OciGood, AgainGood, CrashGood
  DEF ByCall, Local, Answered, Unanswered

ByNobody ==
  /\ UNCHANGED <<pc, job, meta, fault, fs, stack, cur, pull>>
  /\ UNCHANGED <<clone, first>> /\ tip' \in DOMAIN Commits

LEMMA StepCases ==
  ASSUME CInv, [Next]_vars
  PROVE  ByNobody \/ \E c \in Call : ByCall(c)
  <1> USE DEF callVars, copyVars, gitVars, ociVars
  <1>1. CASE Elsewhere
    BY <1>1, SourceAssumption DEF Elsewhere, PushCommit, MoveTag, ByNobody, CInv
  <1>2. CASE UNCHANGED vars
    BY <1>2 DEF vars, ByNobody, CInv
  <1>3. ASSUME NEW c \in Call, Cancel(c)
        PROVE  ByNobody
    BY <1>3 DEF Cancel, ByNobody, CInv
  <1> QED
    BY <1>1, <1>2, <1>3 DEF Next, ByCall

LEMMA StepCInv ==
  ASSUME IInv, PInv, CInv, [Next]_vars
  PROVE  CInv'
  <1>1. CASE ByNobody
    <2>1. RootsKept
      BY <1>1 DEF RootsKept, ByNobody
    <2>2. RootsOk' /\ FsOk'
      BY <1>1, <2>1, KeptRoots DEF CInv, ByNobody, FsOk, NodeOk, LinkOk
    <2>3. \A c \in Call : CallOk(c)'
      BY <1>1, <2>1, KeptCall DEF CInv, ByNobody, Own
    <2> QED
      BY <1>1, <2>2, <2>3 DEF CInv, ByNobody
  <1> QED
    BY <1>1, StepCases, ByCallGood, GoodKeeps

THEOREM AwayInvariance == Spec => []CInv
  BY InitIInv, StepIInv, InitPInv, StepPInv, InitCInv, StepCInv, PTL DEF Spec

-----------------------------------------------------------------------------
(* What a git gather does: a step of the copy, of the clone, or one that     *)
(* ends it or starts it over.                                                *)

CloneStep(c) == GitStep(c) \/ Fetch(c) \/ FetchFails(c)

LEMMA GitByCall ==
  ASSUME IInv, PInv, NEW c \in Call, IsGit(c), ByCall(c)
  PROVE  \/ /\ CopyStep(c) /\ pc[c] \in CopyLabel /\ stack[c] # <<>> /\ UNCHANGED job
            /\ pc'[c] \in CopyLabel \cup {"copied", "cleanup"} /\ UNCHANGED meta
         \/ CloneStep(c) /\ pc[c] \notin CopyLabel /\ UNCHANGED job
         \/ Crash(c) \/ Again(c)
  <1>0. Place(c) /\ Walking(c) /\ ~IsFile(c) /\ ~IsOci(c)
    BY DEF PInv, IsFile, IsGit, IsOci
  <1>1. CASE CopyStep(c)
    <2>1. Moves(c)
      BY <1>1, CopyMoves
    <2> QED
      BY <1>0, <1>1, <2>1 DEF Moves, Walking, Failing, IsGit, CopyLabel
  <1>2. CASE CloneStep(c)
    BY <1>0, <1>2 DEF CloneStep, GitStep, GitBegin, MkTemp, PlainInit, Fetch, FetchFails, Checkout,
       EnterSubdir, HeadRef, Cleanup, CleanupFails, Return, GitFault, Goto, callVars, CopyLabel
  <1>3. ~FileStep(c)
    BY <1>0 DEF FileStep, FileBegin, FileStat, Sniff, GetExpander, Expand, DirSize, ParseSave,
       FileFault, Goto, Place, IsGit, IsFile, IsOci, CopyLabel
  <1>4. /\ ~OciStep(c) /\ ~Resolve(c) /\ ~Repeat(c) /\ ~RequestFails(c)
        /\ ~\E t \in pull[c].todo : Pull(c, t)
    BY <1>0 DEF OciStep, OciBegin, OpenStore, Pulled, CloseStore, CloseStoreFails, OciFault,
       Resolve, Repeat, RequestFails, Requesting, Pull, Goto, Place, IsGit, IsFile, IsOci, CopyLabel
  <1> QED
    BY <1>1, <1>2, <1>3, <1>4 DEF ByCall, Local, Answered, Unanswered, CloneStep

(* A step of the clone: only its end leads to a result.                      *)
LEMMA CloneMoves ==
  ASSUME IInv, NEW c \in Call, IsGit(c), CloneStep(c)
  PROVE  /\ pc'[c] = "enter" \/ UNCHANGED stack
         /\ pc'[c] \in CopyLabel => EnterSubdir(c)
         /\ pc[c] # "failed" /\ pc[c] # "crashed"
         /\ pc[c] = "cleanup" => UNCHANGED meta /\ (pc'[c] = "failed" \/ meta[c] # {})
         /\ \/ Cleanup(c) /\ UNCHANGED fault
            \/ CleanupFails(c)
            \/ /\ pc'[c] \notin {"begin", "ok", "failed", "crashed"}
               /\ fault'[c] = fault[c] \/ fault[c] = "none"
  <1>0. DOMAIN pc = Call
    BY DEF IInv, Functions
  <1> USE DEF Goto, callVars, copyVars, CopyLabel, Suffers, Calm
  <1> DEFINE Result ==
         /\ pc'[c] = "enter" \/ UNCHANGED stack
         /\ pc'[c] \in CopyLabel => EnterSubdir(c)
         /\ pc[c] # "failed" /\ pc[c] # "crashed"
         /\ pc[c] = "cleanup" => UNCHANGED meta /\ (pc'[c] = "failed" \/ meta[c] # {})
         /\ \/ Cleanup(c) /\ UNCHANGED fault
            \/ CleanupFails(c)
            \/ /\ pc'[c] \notin {"begin", "ok", "failed", "crashed"}
               /\ fault'[c] = fault[c] \/ fault[c] = "none"
  <1>1. ASSUME GitBegin(c) \/ MkTemp(c) \/ PlainInit(c) PROVE Result
    BY <1>0, <1>1 DEF GitBegin, MkTemp, PlainInit
  <1>2. ASSUME EnterSubdir(c) PROVE Result
    BY <1>0, <1>2 DEF EnterSubdir
  <1>3. ASSUME HeadRef(c) PROVE Result
    BY <1>0, <1>3 DEF HeadRef
  <1>4. ASSUME Cleanup(c) PROVE Result
    BY <1>0, <1>4 DEF Cleanup, Return
  <1>5. ASSUME CleanupFails(c) PROVE Result
    BY <1>0, <1>5 DEF CleanupFails, Return
  <1>6. ASSUME GitFault(c) PROVE Result
    BY <1>0, <1>6 DEF GitFault
  <1>7. ASSUME Fetch(c) \/ Checkout(c) PROVE Result
    BY <1>0, <1>7 DEF Fetch, Checkout
  <1>8. ASSUME FetchFails(c) PROVE Result
    BY <1>0, <1>8 DEF FetchFails
  <1> QED
    BY <1>1, <1>2, <1>3, <1>4, <1>5, <1>6, <1>7, <1>8 DEF CloneStep, GitStep

-----------------------------------------------------------------------------
(* Temporary clones are removed. *)

(* Before a call clones and once it returned there is nothing at its         *)
(* temporary directory, and never if it needs none.                          *)
Tidy(c) ==
  /\ IsGit(c) /\ fault[c] # "stray"
  /\ pc[c] \in {"begin", "ok", "failed"} \/ ~Temporary(c)
  => Tree(job[c].root) = {}

TInv == \A c \in Call : Tidy(c)

LEMMA InitTInv == Init => TInv
  <1> SUFFICES ASSUME Init, NEW c \in Call, IsGit(c) PROVE Tree(job[c].root) = {}
    BY DEF TInv, Tidy
  <1>1. job \in Scenario /\ c \in Owners(job)
    BY DEF Init, Owners, IsGit
  <1>2. \A p \in DOMAIN Tree0 : ~Under(p, job[c].root)
    BY <1>1, TemporaryAssumption
  <1> QED
    BY <1>2 DEF Tree, Init

(* A call that must leave its own directory alone, or another's, keeps it    *)
(* empty.                                                                    *)
LEMMA StaysEmpty ==
  ASSUME CInv, NEW c \in Call, Good(c), NEW e \in Call, IsGit(e), e # c \/ ~Working(c),
         Tree(job[e].root) = {}
  PROVE  Tree(job[e].root)' = {}
  <1>1. e \in Foreign(c) /\ FsOk /\ FsOk' /\ job'[e].root = job[e].root
    BY GoodKeeps DEF Foreign, Owners, IsGit, CInv, Good, RootsKept
  <1>2. Still(job[e].root)
    BY <1>1, ForeignStill DEF Good
  <1>3. Tree(job[e].root) = {} => \A q \in DOMAIN fs : ~Under(q, job[e].root)
    BY DEF Tree
  <1>4. \A q \in DOMAIN fs' : ~Under(q, job[e].root)
    BY <1>1, <1>2, <1>3 DEF Still, FsOk, NodeOk
  <1> QED
    BY <1>1, <1>4 DEF Tree

LEMMA StepTInv ==
  ASSUME IInv, PInv, CInv, TInv, [Next]_vars
  PROVE  TInv'
  <1>1. CASE ByNobody
    BY <1>1 DEF ByNobody, TInv, Tidy, IsGit, Temporary, Url, Tree
  <1>2. ASSUME NEW c \in Call, ByCall(c)
        PROVE  TInv'
    <2>1. Good(c) /\ \A e \in Call : IsGit(e)' <=> IsGit(e)
      BY <1>2, ByCallGood DEF Good, RootsKept, Owners, IsGit
    <2>2. ASSUME NEW e \in Call \ {c}
          PROVE  Tidy(e)'
      <3>1. pc'[e] = pc[e] /\ job'[e] = job[e] /\ fault'[e] = fault[e]
        BY <2>1 DEF Good, Own
      <3>2. Tidy(e)
        BY DEF TInv
      <3>3. Tree(job[e].root) = {} /\ IsGit(e) => Tree(job[e].root)' = {}
        BY <2>1, StaysEmpty
      <3> HIDE DEF Tree
      <3> QED
        BY <3>1, <3>2, <3>3 DEF Tidy, IsGit, Temporary, Url
    <2>3. Tidy(c)'
      <3> SUFFICES ASSUME IsGit(c) PROVE Tidy(c)'
        BY <2>1 DEF Tidy
      <3>0. Tidy(c) /\ (Tree(job[c].root) = {} /\ ~Working(c) => Tree(job[c].root)' = {})
        BY <2>1, StaysEmpty DEF TInv
      <3>1. ASSUME CloneStep(c), UNCHANGED job
            PROVE  Tidy(c)'
        <4>1. UNCHANGED Temporary(c) /\ UNCHANGED IsGit(c)
          BY <3>1 DEF Temporary, Url, IsGit
        <4>2. CASE Temporary(c) /\ Cleanup(c)
          <5>1. fs' = [p \in DOMAIN fs \ Tree(job[c].root) |-> fs[p]]
            BY <4>2 DEF Cleanup
          <5>2. Tree(job[c].root)' = {}
            BY <3>1, <5>1 DEF Tree
          <5> QED
            BY <5>2 DEF Tidy
        <4>3. CASE CleanupFails(c)
          <5>1. fault'[c] = "stray"
            BY <4>3 DEF CleanupFails, Suffers, CInv
          <5> QED
            BY <5>1 DEF Tidy
        <4>4. CASE ~Temporary(c) /\ Cleanup(c) /\ UNCHANGED fault
          <5>1. ~Working(c)
            BY <4>4 DEF Working
          <5> HIDE DEF Tree
          <5> QED
            BY <3>0, <4>1, <4>4, <5>1 DEF Tidy
        <4>5. CASE /\ pc'[c] \notin {"begin", "ok", "failed", "crashed"}
                   /\ fault'[c] = fault[c] \/ fault[c] = "none"
          <5>1. ~Temporary(c) => ~Working(c)
            BY DEF Working
          <5> HIDE DEF Tree
          <5> QED
            BY <3>0, <4>1, <4>5, <5>1 DEF Tidy
        <4> QED
          BY <3>1, <4>2, <4>3, <4>4, <4>5, CloneMoves
      <3>2. ASSUME CopyStep(c), pc[c] \in CopyLabel, UNCHANGED job,
                   pc'[c] \in CopyLabel \cup {"copied", "cleanup"}
            PROVE  Tidy(c)'
        <4>1. Temporary(c)
          BY <3>2 DEF CInv, CallOk, CloneOk
        <4> QED
          BY <3>2, <4>1 DEF Tidy, Temporary, Url, CopyLabel
      <3>3. ASSUME Crash(c)
            PROVE  Tidy(c)'
        <4>1. pc'[c] = "crashed" /\ UNCHANGED <<job, fs>> /\ fault[c] = "none"
          BY <3>3 DEF Crash, Suffers, Calm, IInv, Functions
        <4> QED
          BY <3>0, <4>1 DEF Tidy, Temporary, Url, IsGit, Tree
      <3>4. ASSUME Again(c)
            PROVE  Tidy(c)'
        <4>1. /\ pc[c] = "ok" /\ fault[c] = "none" /\ UNCHANGED fs
              /\ job'[c].root = job[c].root
          BY <2>1, <3>4 DEF Again, Good, RootsKept, Owners, IsGit
        <4> QED
          BY <3>0, <4>1 DEF Tidy, Tree
      <3> QED
        BY <1>2, <3>1, <3>2, <3>3, <3>4, GitByCall
    <2> QED
      BY <2>2, <2>3 DEF TInv
  <1> QED
    BY <1>1, <1>2, StepCases

(***************************************************************************)
(* git.go:135: a gather that returned has removed its temporary clone,     *)
(* on success and on every error, unless the removal failed.               *)
(***************************************************************************)
THEOREM ClonesRemoved == Spec => []CloneRemoved
  <1>1. TInv => CloneRemoved
    BY DEF TInv, Tidy, CloneRemoved
  <1> QED
    BY <1>1, InitIInv, StepIInv, InitPInv, StepPInv, InitCInv, StepCInv, InitTInv, StepTInv, PTL
    DEF Spec

-----------------------------------------------------------------------------
(* Copies out of a clone stay in it. *)

(* A git gather has directories on its stack only while it copies, or after  *)
(* the copy failed.                                                          *)
Idle(c) ==
  /\ IsGit(c)
  /\ \/ pc[c] \notin CopyLabel \cup {"cleanup", "failed", "crashed"}
     \/ pc[c] = "cleanup" /\ meta[c] # {}
  => stack[c] = <<>>

Within(c, p) == Under(Real(p), job[c].root)

Confine(c) ==
  IsGit(c) /\ pc[c] \in CopyLabel =>
    /\ pc[c] = "write" => Within(c, cur[c].src)
    /\ \A i \in Listed(c) : Within(c, stack[c][i].src)

RInv == \A c \in Call : Idle(c) /\ Confine(c)

LEMMA InitRInv == Init => RInv
  BY DEF Init, RInv, Idle, Confine, CopyLabel

(* What a path of a confined copy leads to is what it was: nobody changes    *)
(* what is below the root.                                                   *)
LEMMA StaysWithin ==
  ASSUME CInv, NEW c \in Call, Good(c), NEW e \in Call, IsGit(e), e # c \/ pc[c] \in CopyLabel,
         NEW p, Inside(e, p)
  PROVE  Within(e, p)' <=> Within(e, p)
  <1>1. e \in Owners(job) /\ job'[e].root = job[e].root /\ p \in Path /\ Under(p, job[e].root)
    BY DEF Good, RootsKept, Owners, IsGit, Inside
  <1>2. e \in Foreign(c)
    BY <1>1 DEF Foreign, Working, CopyLabel
  <1>3. Still(job[e].root)
    BY <1>2, ForeignStill DEF Good
  <1>4. RootsOk /\ FsOk /\ FsOk' /\ RootsKept
    BY GoodKeeps DEF CInv, Good
  <1>5. Real(p)' = Real(p)
    BY <1>1, <1>3, <1>4, StillReal
  <1> QED
    BY <1>1, <1>5 DEF Within

(* A step of the copy lists and opens only what os.Root finds below the root.*)
LEMMA CopyWithin ==
  ASSUME IInv, CInv, RInv, NEW c \in Call, IsGit(c), Walking(c), CopyStep(c), pc'[c] \in CopyLabel
  PROVE  /\ pc'[c] = "write" => Within(c, cur'[c].src)
         /\ \A i \in Listed(c)' : Within(c, stack'[c][i].src)
  <1> USE DEF Goto, Failing, callVars, copyVars, Confined, IsGit
  <1>0. /\ pc[c] \in CopyLabel => stack[c] # <<>>
        /\ stack[c] # <<>> => FrameOk(c, Top(c))
        /\ StackOk(c, stack[c]) /\ CurOk(c, pc[c], cur[c]) /\ Confine(c)
        /\ DOMAIN pc = Call /\ DOMAIN stack = Call /\ DOMAIN cur = Call
    BY TopOk DEF CInv, CallOk, IInv, Functions, RInv, Walking
  <1>1. ASSUME stack[c] # <<>>
        PROVE  /\ Len(stack[c]) \in Nat \ {0} /\ Top(c) = stack[c][Len(stack[c])]
               /\ DOMAIN Top(c) = {"src", "dst", "mode", "todo"}
    BY <1>0, <1>1, StackTop DEF Top, StackOk, FrameOk
  <1>2. ASSUME NEW f, stack' = SetTop(c, f), stack[c] # <<>>
        PROVE  /\ Len(stack'[c]) = Len(stack[c]) /\ stack'[c][Len(stack[c])] = f
               /\ \A i \in 1..Len(stack[c]) - 1 : stack'[c][i] = stack[c][i]
    <2>1. IsStack(stack[c]) /\ DOMAIN stack = Call /\ stack[c] # <<>>
      BY <1>0, <1>2 DEF StackOk
    <2> DEFINE s == stack[c]
               t == [s EXCEPT ![Len(s)] = f]
    <2>2. SetTop(c, f)[c] = t
      BY <2>1 DEF SetTop
    <2>3. Len(t) = Len(s) /\ t[Len(s)] = f /\ \A i \in 1..Len(s) - 1 : t[i] = s[i]
      BY <2>1, StackTop
    <2> QED
      BY <1>2, <2>2, <2>3
  <1> DEFINE Result == /\ pc'[c] = "write" => Within(c, cur'[c].src)
                       /\ \A i \in Listed(c)' : Within(c, stack'[c][i].src)
             All == \A i \in 1..Len(stack[c]) : Within(c, stack[c][i].src)
             Lower == \A i \in 1..Len(stack[c]) - 1 : Within(c, stack[c][i].src)
  <1>3. /\ pc[c] \in {"enter", "mkdir", "chdir", "list"} => Lower
        /\ pc[c] \in {"next", "create", "write", "chmod", "close"} => All
    BY <1>0 DEF Confine, Listed, CopyLabel
  <1>4. ASSUME EnterConfined(c) PROVE Result
    <2>1. stack[c] # <<>> /\ pc[c] = "enter" /\ pc'[c] = "mkdir"
      BY <1>0, <1>4 DEF EnterConfined, CopyLabel
    <2> DEFINE f == [Top(c) EXCEPT !.src = Entry(Top(c).src), !.mode = fs[Entry(Top(c).src)].mode]
    <2>2. stack' = SetTop(c, f)
      <3>1. CASE UNCHANGED stack /\ Goto(c, "enter", "cleanup")
        BY <1>0, <2>1, <3>1
      <3> QED
        BY <1>4, <3>1, Zenon DEF EnterConfined
    <2> HIDE DEF f
    <2>3. Listed(c)' = 1..Len(stack[c]) - 1
      BY <1>2, <2>1, <2>2 DEF Listed
    <2> QED
      BY <1>2, <1>3, <2>1, <2>2, <2>3
  <1>5. ASSUME Mkdir(c) \/ ChmodDir(c) PROVE Result
    <2>1. /\ pc[c] \in {"mkdir", "chdir"} /\ UNCHANGED stack
          /\ pc'[c] \in {"chdir", "list"}
      BY <1>0, <1>5 DEF Mkdir, ChmodDir, CopyLabel
    <2>2. Listed(c)' = 1..Len(stack[c]) - 1
      BY <2>1 DEF Listed
    <2> QED
      BY <1>3, <2>1, <2>2
  <1>6. ASSUME List(c) PROVE Result
    <2>1. stack[c] # <<>> /\ pc[c] = "list" /\ pc'[c] = "next" /\ Within(c, Top(c).src)
      BY <1>0, <1>6 DEF List, CopyLabel, Opens, Within
    <2> DEFINE f == [Top(c) EXCEPT !.todo = Entries(Real(Top(c).src))]
    <2>2. stack' = SetTop(c, f)
      <3>1. CASE UNCHANGED stack /\ Goto(c, "list", Failing(c))
        BY <1>0, <2>1, <3>1
      <3> QED
        BY <1>6, <3>1, Zenon DEF List
    <2>5. f.src = Top(c).src
      BY <1>1, <2>1
    <2> HIDE DEF f
    <2>3. Listed(c)' = 1..Len(stack[c])
      BY <1>2, <2>1, <2>2 DEF Listed
    <2>4. ASSUME NEW i \in 1..Len(stack[c])
          PROVE  Within(c, stack'[c][i].src)
      <3>1. i = Len(stack[c]) \/ i \in 1..Len(stack[c]) - 1
        BY <1>1, <2>1, <2>4
      <3> QED
        BY <1>1, <1>2, <1>3, <2>1, <2>2, <2>5, <3>1
    <2> QED
      BY <2>1, <2>3, <2>4
  <1>7. ASSUME Ascend(c) PROVE Result
    <2>1. stack[c] # <<>> /\ pc[c] = "next" /\ pc'[c] = "next"
      BY <1>0, <1>7 DEF Ascend, CopyLabel
    <2>2. stack'[c] = SubSeq(stack[c], 1, Len(stack[c]) - 1)
      BY <1>0, <1>7 DEF Ascend
    <2>3. /\ Len(stack'[c]) = Len(stack[c]) - 1
          /\ \A i \in 1..Len(stack[c]) - 1 : stack'[c][i] = stack[c][i]
      BY <1>0, <2>1, <2>2, StackPop DEF StackOk
    <2>4. Listed(c)' = 1..Len(stack[c]) - 1
      BY <2>1, <2>3 DEF Listed
    <2>5. \A i \in 1..Len(stack[c]) - 1 : i \in 1..Len(stack[c])
      BY <1>1, <2>1
    <2> QED
      BY <1>3, <2>1, <2>3, <2>4, <2>5
  <1>8. ASSUME NEW e \in Top(c).todo, pc[c] = "next"
        PROVE  LET f == [Top(c) EXCEPT !.todo = @ \ {e}]
                   s == [stack[c] EXCEPT ![Len(stack[c])] = f]
               IN  /\ IsStack(s) /\ Len(s) = Len(stack[c])
                   /\ \A i \in 1..Len(s) : Within(c, s[i].src)
    <2> DEFINE f == [Top(c) EXCEPT !.todo = @ \ {e}]
               s == [stack[c] EXCEPT ![Len(stack[c])] = f]
    <2>1. stack[c] # <<>>
      BY <1>0, <1>8 DEF CopyLabel
    <2>2. f.src = stack[c][Len(stack[c])].src
      BY <1>1, <2>1
    <2> HIDE DEF f
    <2>3. /\ IsStack(s) /\ Len(s) = Len(stack[c]) /\ s[Len(stack[c])] = f
          /\ Len(stack[c]) \in Nat \ {0} /\ \A i \in 1..Len(stack[c]) - 1 : s[i] = stack[c][i]
      BY <1>0, <2>1, StackTop DEF StackOk
    <2> HIDE DEF s
    <2>4. ASSUME NEW i \in 1..Len(s)
          PROVE  Within(c, s[i].src)
      <3>1. i \in 1..Len(stack[c]) /\ (i = Len(stack[c]) \/ i \in 1..Len(stack[c]) - 1)
        BY <2>3, <2>4
      <3> QED
        BY <1>3, <1>8, <2>2, <2>3, <3>1
    <2> QED
      BY <2>3, <2>4 DEF f, s
  <1>9. ASSUME NEW e \in Top(c).todo, pc[c] = "next", Descend(c, e) PROVE Result
    <2> DEFINE f == [Top(c) EXCEPT !.todo = @ \ {e}]
               s == [stack[c] EXCEPT ![Len(stack[c])] = f]
    <2>1. PICK g : stack'[c] = Append(s, g)
      BY <1>0, <1>9 DEF Descend, Without, SetTop
    <2>2. IsStack(s) /\ \A i \in 1..Len(s) : Within(c, s[i].src)
      BY <1>8, <1>9
    <2> HIDE DEF s
    <2>3. /\ Len(s) \in Nat /\ Len(stack'[c]) = Len(s) + 1
          /\ \A i \in 1..Len(s) : stack'[c][i] = s[i]
      BY <2>1, <2>2, StackPush
    <2>4. pc'[c] = "mkdir"
      BY <1>0, <1>9 DEF Descend
    <2>5. Listed(c)' = 1..Len(s)
      BY <2>3, <2>4 DEF Listed
    <2> QED
      BY <2>2, <2>3, <2>4, <2>5
  <1>10. ASSUME NEW e \in Top(c).todo, Refuse(c, e) PROVE Result
    BY <1>0, <1>10 DEF Refuse, CopyLabel
  <1>11. ASSUME NEW e \in Top(c).todo, pc[c] = "next", TakeFile(c, e) PROVE Result
    <2> DEFINE f == [Top(c) EXCEPT !.todo = @ \ {e}]
               s == [stack[c] EXCEPT ![Len(stack[c])] = f]
    <2>1. stack'[c] = s /\ pc'[c] = "create"
      BY <1>0, <1>11 DEF TakeFile, Without, SetTop
    <2>2. IsStack(s) /\ \A i \in 1..Len(s) : Within(c, s[i].src)
      BY <1>8, <1>11
    <2> HIDE DEF s
    <2> QED
      BY <2>1, <2>2 DEF Listed
  <1>12. ASSUME Create(c) PROVE Result
    <2>1. pc[c] = "create" /\ pc'[c] = "write" /\ UNCHANGED copyVars /\ Within(c, cur[c].src)
      BY <1>0, <1>12 DEF Create, CopyLabel, Opens, Within
    <2>2. Listed(c)' = 1..Len(stack[c])
      BY <2>1 DEF Listed
    <2> QED
      BY <1>3, <2>1, <2>2
  <1>13. ASSUME Write(c) PROVE Result
    <2>1. pc[c] = "write" /\ pc'[c] = "write" /\ UNCHANGED stack /\ cur'[c].src = cur[c].src
      BY <1>0, <1>13 DEF Write, CurOk
    <2>2. Within(c, cur[c].src) /\ Listed(c)' = 1..Len(stack[c])
      BY <1>0, <2>1 DEF Confine, Listed, CopyLabel
    <2> QED
      BY <1>3, <2>1, <2>2
  <1>14. ASSUME WriteDone(c) \/ Chmod(c) \/ Close(c) \/ CloseFails(c) PROVE Result
    <2>1. /\ pc[c] \in {"write", "chmod", "close"} /\ pc'[c] \in {"chmod", "close", "next"}
          /\ UNCHANGED stack
      BY <1>0, <1>14 DEF WriteDone, Chmod, Close, CloseFails, CopyLabel
    <2>2. Listed(c)' = 1..Len(stack[c])
      BY <2>1 DEF Listed
    <2> QED
      BY <1>3, <2>1, <2>2
  <1>15. ~Enter(c) /\ ~ReadFails(c) /\ ~CopyFault(c)
    BY <1>0 DEF Enter, ReadFails, CopyFault, CopyLabel
  <1> QED
    BY <1>4, <1>5, <1>6, <1>7, <1>9, <1>10, <1>11, <1>12, <1>13, <1>14, <1>15 DEF CopyStep

(* The copy that is done leaves no directory behind. *)
LEMMA CopiedEmpty ==
  ASSUME IInv, CInv, NEW c \in Call, CopyStep(c), pc'[c] = "copied", pc[c] \in CopyLabel,
         stack[c] # <<>>, IsGit(c)
  PROVE  stack'[c] = <<>>
  <1>0. DOMAIN pc = Call /\ DOMAIN stack = Call /\ StackOk(c, stack[c])
    BY DEF IInv, Functions, CInv, CallOk
  <1>1. Ascend(c)
    BY <1>0 DEF CopyStep, Enter, EnterConfined, Mkdir, ChmodDir, List, Descend, Refuse, TakeFile,
       Create, Write, ReadFails, WriteDone, Chmod, Close, CloseFails, CopyFault, Goto, Failing
  <1>2. Len(stack[c]) = 1 /\ stack'[c] = SubSeq(stack[c], 1, Len(stack[c]) - 1)
    BY <1>0, <1>1 DEF Ascend, Goto
  <1>4. IsStack(stack[c])
    BY <1>0 DEF StackOk
  <1>5. IsStack(stack'[c]) /\ Len(stack'[c]) = Len(stack[c]) - 1
    BY <1>2, <1>4, StackPop, Zenon
  <1>3. IsStack(stack'[c]) /\ Len(stack'[c]) = 0
    BY <1>2, <1>5
  <1> QED
    BY <1>3, EmptySeq DEF IsStack

LEMMA StepRInv ==
  ASSUME IInv, PInv, CInv, RInv, [Next]_vars
  PROVE  RInv'
  <1>1. CASE ByNobody
    <2>1. UNCHANGED <<pc, job, meta, fs, stack, cur>>
      BY <1>1 DEF ByNobody
    <2>2. \A p : UNCHANGED Real(p)
      BY <2>1 DEF Real, Is
    <2>3. \A c \in Call : UNCHANGED <<IsGit(c), Listed(c), pc[c], meta[c], stack[c], cur[c], job[c]>>
      BY <2>1 DEF Listed, IsGit
    <2>4. \A c \in Call : \A p : Within(c, p)' <=> Within(c, p)
      BY <2>2, <2>3 DEF Within
    <2> HIDE DEF Within
    <2>5. ASSUME NEW c \in Call
          PROVE  Idle(c)' /\ Confine(c)'
      <3>1. Idle(c)'
        BY <2>3 DEF RInv, Idle
      <3>2. Confine(c)'
        <4>1. ASSUME NEW p, Within(c, p) PROVE Within(c, p)'
          BY <2>4, <4>1
        <4> QED
          BY <2>3, <4>1 DEF RInv, Confine
      <3> QED
        BY <3>1, <3>2
    <2> QED
      BY <2>5 DEF RInv
  <1>2. ASSUME NEW c \in Call, ByCall(c)
        PROVE  RInv'
    <2>1. /\ Good(c) /\ \A e \in Call : IsGit(e)' <=> IsGit(e)
          /\ \A e \in Call : CallOk(e)'
      BY <1>2, ByCallGood, GoodKeeps DEF Good, RootsKept, Owners, IsGit, CInv
    <2>2. ASSUME NEW e \in Call \ {c}
          PROVE  Idle(e)' /\ Confine(e)'
      <3>1. pc'[e] = pc[e] /\ meta'[e] = meta[e] /\ stack'[e] = stack[e] /\ cur'[e] = cur[e]
        BY <2>1 DEF Good, Own
      <3>2. Idle(e)'
        BY <2>1, <3>1 DEF RInv, Idle
      <3>3. ASSUME IsGit(e), pc[e] \in CopyLabel
            PROVE  /\ pc[e] = "write" => Inside(e, cur[e].src)
                   /\ \A i \in Listed(e) : Inside(e, stack[e][i].src)
        <4>1. CurOk(e, pc[e], cur[e]) /\ StackOk(e, stack[e])
          BY DEF CInv, CallOk
        <4>2. Len(stack[e]) \in Nat
          BY <4>1, StackPush DEF StackOk
        <4>3. \A i \in Listed(e) : i \in 1..Len(stack[e])
          BY <4>2 DEF Listed
        <4> QED
          BY <4>1, <4>3 DEF CurOk, StackOk, FrameOk
      <3>4. \A p : IsGit(e) /\ Inside(e, p) => (Within(e, p)' <=> Within(e, p))
        BY <2>1, StaysWithin
      <3>5. UNCHANGED Listed(e)
        BY <3>1 DEF Listed
      <3> HIDE DEF Within, Inside
      <3>6. Confine(e)'
        BY <2>1, <3>1, <3>3, <3>4, <3>5 DEF RInv, Confine
      <3> QED
        BY <3>2, <3>6
    <2>3. Idle(c)' /\ Confine(c)'
      <3> SUFFICES ASSUME IsGit(c) PROVE Idle(c)' /\ Confine(c)'
        BY <2>1 DEF Idle, Confine
      <3>0. Idle(c) /\ Confine(c) /\ Walking(c) /\ Settled(c) /\ DOMAIN pc = Call
        BY DEF RInv, PInv, IInv, Functions
      <3>1. ASSUME CloneStep(c), pc[c] \notin CopyLabel
            PROVE  Idle(c)' /\ Confine(c)'
        <4>1. CASE pc'[c] \in CopyLabel
          <5>1. EnterSubdir(c)
            BY <3>1, <4>1, CloneMoves
          <5>2. pc[c] = "subdir" /\ pc'[c] = "enter"
            BY <3>0, <4>1, <5>1 DEF EnterSubdir, Goto, CopyLabel
          <5>3. stack[c] = <<>>
            BY <3>0, <5>2 DEF Idle, CopyLabel
          <5>4. stack' = Push(c, Frame(job[c].root \o Subdir(Url(c)), job[c].dst, {}))
            BY <3>0, <5>1, <5>2 DEF EnterSubdir, Goto
          <5>5. PICK f : stack'[c] = Append(stack[c], f)
            BY <5>4 DEF Push, IInv, Functions
          <5>6. IsStack(stack[c])
            BY DEF PInv
          <5>7. Len(stack'[c]) = Len(stack[c]) + 1 /\ Len(stack[c]) = 0
            BY <5>3, <5>5, <5>6, StackPush, EmptySeq
          <5>8. Listed(c)' = {}
            BY <5>2, <5>7 DEF Listed
          <5> QED
            BY <4>1, <5>2, <5>8 DEF Idle, Confine, CopyLabel
        <4>2. CASE pc'[c] \notin CopyLabel
          <5>1. /\ UNCHANGED stack /\ pc[c] # "failed" /\ pc[c] # "crashed"
                /\ pc[c] = "cleanup" => UNCHANGED meta /\ (pc'[c] = "failed" \/ meta[c] # {})
            BY <3>1, <4>2, CloneMoves DEF CopyLabel
          <5> QED
            BY <3>0, <3>1, <4>2, <5>1 DEF Idle, Confine
        <4> QED
          BY <4>1, <4>2
      <3>2. ASSUME CopyStep(c), pc[c] \in CopyLabel, stack[c] # <<>>, UNCHANGED meta,
                   pc'[c] \in CopyLabel \cup {"copied", "cleanup"}
            PROVE  Idle(c)' /\ Confine(c)'
        <4>1. Idle(c)'
          <5>1. meta[c] = {}
            BY <3>0, <3>2 DEF Settled, CopyLabel
          <5>2. pc'[c] = "copied" => stack'[c] = <<>>
            BY <3>2, CopiedEmpty
          <5> QED
            BY <3>2, <5>1, <5>2 DEF Idle
        <4>2. ASSUME pc'[c] \in CopyLabel
              PROVE  Confine(c)'
          <5>1. /\ pc'[c] = "write" => Within(c, cur'[c].src)
                /\ \A i \in Listed(c)' : Within(c, stack'[c][i].src)
            BY <3>0, <3>2, <4>2, CopyWithin
          <5>2. StackOk(c, stack'[c]) /\ CurOk(c, pc'[c], cur'[c])
            BY <3>0, <3>2, CopyCalls
          <5>3. Len(stack'[c]) \in Nat
            BY <5>2, StackPush DEF StackOk
          <5>4. /\ pc'[c] = "write" => Inside(c, cur'[c].src)
                /\ \A i \in Listed(c)' : Inside(c, stack'[c][i].src)
            <6>1. \A i \in Listed(c)' : i \in 1..Len(stack'[c])
              BY <5>3 DEF Listed
            <6> QED
              BY <5>2, <6>1 DEF CurOk, StackOk, FrameOk
          <5>5. ASSUME NEW p, Inside(c, p), Within(c, p)
                PROVE  Within(c, p)'
            BY <2>1, <3>2, <5>5, StaysWithin
          <5>6. pc'[c] = "write" => Within(c, cur[c].src)'
            <6>1. ASSUME NEW p, p = cur'[c].src, pc'[c] = "write"
                  PROVE  Within(c, p)'
              BY <5>1, <5>4, <5>5, <6>1
            <6> QED
              BY <6>1 DEF Within
          <5>7. \A i \in Listed(c)' : Within(c, stack[c][i].src)'
            <6>1. ASSUME NEW i \in Listed(c)', NEW p, p = stack'[c][i].src
                  PROVE  Within(c, p)'
              BY <5>1, <5>4, <5>5, <6>1
            <6> QED
              BY <6>1 DEF Within
          <5> QED
            BY <5>6, <5>7 DEF Confine
        <4> QED
          BY <4>1, <4>2 DEF Confine
      <3>3. ASSUME Crash(c)
            PROVE  Idle(c)' /\ Confine(c)'
        BY <3>0, <3>3 DEF Crash, Idle, Confine, CopyLabel
      <3>4. ASSUME Again(c)
            PROVE  Idle(c)' /\ Confine(c)'
        BY <3>0, <3>4 DEF Again, Idle, Confine, CopyLabel, copyVars
      <3> QED
        BY <1>2, <3>1, <3>2, <3>3, <3>4, GitByCall
    <2> QED
      BY <2>2, <2>3 DEF RInv
  <1> QED
    BY <1>1, <1>2, StepCases

(***************************************************************************)
(* copydir_confined.go:27-31: the copy out of a clone lists directories    *)
(* and opens files below the root of the clone only, whatever links the    *)
(* repository has, and other calls cannot make its paths lead elsewhere.   *)
(***************************************************************************)
THEOREM CopiesConfined == Spec => []ReadsConfined
  <1>1. RInv => ReadsConfined
    BY DEF RInv, Confine, Within, ReadsConfined
  <1> QED
    BY <1>1, InitIInv, StepIInv, InitPInv, StepPInv, InitCInv, StepCInv, InitRInv, StepRInv, PTL
    DEF Spec
=============================================================================
