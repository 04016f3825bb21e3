--------------------------- MODULE MCArchiveExpand ---------------------------
(* TLC instances of ArchiveExpand. *)
EXTENDS ArchiveExpand, TLC

CONSTANTS c1, c2

Dir(n, open)    == [name |-> n, kind |-> "dir", declared |-> 0, size |-> 0,
                    broken |-> FALSE, open |-> open]
File(n, d, s)   == [name |-> n, kind |-> "file", declared |-> d, size |-> s,
                    broken |-> FALSE, open |-> TRUE]
Pax(n)          == [File(n, 0, 0) EXCEPT !.kind = "meta"]
Torn(f)         == [f EXCEPT !.broken = TRUE]
ReadOnly(f)     == [f EXCEPT !.open = FALSE]

(* Two destinations: "a" holds a directory and a file, "b" a file.  "b", a  *)
(* file of "a" or a directory of "a" may be a link into the other one, or,  *)
(* if there is nothing, to nothing.                                         *)
TwoNode  == {"a", "a/d", "a/d/f", "a/f", "b", "b/f"}
TwoAbove == [n \in TwoNode |->
  CASE n \in {"a/d", "a/f"} -> {"a"}
    [] n = "a/d/f" -> {"a", "a/d"}
    [] n = "b/f" -> {"b"}
    [] OTHER -> {}]
TwoRoot    == (c1 :> "a") @@ (c2 :> "b")
TwoFormat  == (c1 :> "tar") @@ (c2 :> "zip")

TwoLayouts ==
  LET none == [n \in TwoNode |-> n] IN
  {none, ("b" :> "a/d") @@ ("b/f" :> "a/d/f") @@ none,
   ("a/f" :> "b/f") @@ none, ("a/d" :> "b") @@ ("a/d/f" :> "b/f") @@ none}

(* Limits: two units per entry, three in total, two entries; the zip takes *)
(* the default of two units for its total and no limit on entry sizes.     *)
TwoEntry == (c1 :> 2) @@ (c2 :> -1)
TwoTotal == (c1 :> 3) @@ (c2 :> 0)
TwoCount == (c1 :> 2) @@ (c2 :> 2)

TwoArchives ==
  (c1 :> {<< >>,
          <<Pax("a"), Dir("a/d", FALSE), File("a/f", 1, 1)>>,
          <<Dir("a/d", FALSE), File("a/d/f", 1, 1)>>,
          <<File("a/f", 2, 2), File("a/d/f", 0, 2)>>,
          <<File("a/d/f", 3, 3)>>,
          <<Dir("a", TRUE), Dir("a/d", TRUE), File("a/f", 0, 0)>>,
          <<ReadOnly(File("a/f", 1, 1)), File("a/f", 1, 1)>>,
          <<Dir("a/d", TRUE), Torn(File("a/d/f", 2, 1))>>,
          <<File("a", 1, 1), File("a/f", 0, 0)>>})
  @@ (c2 :> {<<File("b/f", 1, 1)>>,
             <<Dir("b", TRUE), File("b/f", 4, 4)>>,
             <<Dir("b", TRUE), File("b/f", 0, 0), File("b/f", 0, 0)>>})

(* The tar destination "a", or the file in it, may be a link to something, *)
(* or to nothing, in the zip destination "t"; no entry names "t/k".         *)
LinkNode   == {"a", "a/f", "t", "t/f", "t/k"}
LinkAbove  == [n \in LinkNode |->
  CASE n = "a/f" -> {"a"} [] n \in {"t/f", "t/k"} -> {"t"} [] OTHER -> {}]
LinkLayouts ==
  LET none == [n \in LinkNode |-> n] IN
  {none, ("a" :> "t") @@ ("a/f" :> "t/f") @@ none,
   ("a/f" :> "t/f") @@ none, ("a/f" :> "t/k") @@ none}
LinkRoot     == (c1 :> "a") @@ (c2 :> "t")
LinkFormat   == (c1 :> "tar") @@ (c2 :> "zip")
LinkArchives ==
  (c1 :> {<<Dir("a", TRUE), Torn(File("a/f", 1, 1))>>,
          <<File("a/f", 1, 1), File("a/f", 1, 1)>>,
          <<File("a", 1, 1), File("a/f", 0, 0)>>})
  @@ (c2 :> {<<Torn(File("t/f", 1, 1))>>})

(* One tar call whose destination may be a link to nothing. *)
DanglingNode     == {"a", "a/f", "t", "t/f"}
DanglingAbove    == [n \in DanglingNode |->
  CASE n = "a/f" -> {"a"} [] n = "t/f" -> {"t"} [] OTHER -> {}]
DanglingLayouts  == {("a" :> "t") @@ ("a/f" :> "t/f") @@ [n \in DanglingNode |-> n]}
DanglingRoot     == c1 :> "a"
DanglingFormat   == c1 :> "tar"
DanglingArchives == c1 :> {<<File("a/f", 1, 1)>>}

(* Two zip calls for one destination; one archive is damaged. *)
SharedNode     == {"a", "a/f"}
SharedAbove    == [n \in SharedNode |-> IF n = "a/f" THEN {"a"} ELSE {}]
SharedLayouts  == {[n \in SharedNode |-> n]}
SharedRoot     == (c1 :> "a") @@ (c2 :> "a")
SharedFormat   == (c1 :> "zip") @@ (c2 :> "zip")
SharedArchives == (c1 :> {<<File("a/f", 1, 1)>>}) @@ (c2 :> {<<Torn(File("a/f", 1, 1))>>})

(* One tar call with a directory that may not be searched around another. *)
NestedNode     == {"a", "a/d", "a/d/e"}
NestedAbove    == [n \in NestedNode |->
  CASE n = "a" -> {} [] n = "a/d" -> {"a"} [] OTHER -> {"a", "a/d"}]
NestedLayouts  == {[n \in NestedNode |-> n]}
NestedRoot     == c1 :> "a"
NestedFormat   == c1 :> "tar"
NestedArchives == c1 :> {<<Dir("a/d", FALSE), Dir("a/d/e", TRUE)>>}
OneLimit       == c1 :> 0
=============================================================================
