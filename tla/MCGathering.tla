----------------------------- MODULE MCGathering -----------------------------
(* Instances of Gathering: two calls on one small tree. *)
EXTENDS GatheringFailures, TLC

Names == {"c", "s", "a", "d", "l", "r", "k", "f", "w", "z", "e", "n", "b", "j", "g", "q", "h",
          "h#", "x%", "m", "o", "p", "t", "v", "u", "~", "home", ".git", ".."}

All == Permission
D == Dir(All)
F(data) == File(All, data)

(* s is copied whole, and c/s, with a link to a file next to it; r may not   *)
(* be written into; k has a link to a directory; z is an archive, e an empty *)
(* one, b a damaged one, n one with no expander, g a read-only file, j a     *)
(* link to the empty home, h# a name that url.Parse cuts to h; c is a         *)
(* repository already.                                                       *)
MCTree0 ==
  (<<>> :> D) @@ (<<"home">> :> D)
  @@ (<<"s">> :> D) @@ (<<"s", "a">> :> File({"write"}, <<"x">>))
  @@ (<<"s", "d">> :> D) @@ (<<"s", "d", "b">> :> F(<<"y">>)) @@ (<<"s", "l">> :> Link(<<"f">>))
  @@ (<<"r">> :> Dir({})) @@ (<<"r", "a">> :> F(<<"x">>))
  @@ (<<"c">> :> D) @@ (<<"c", ".git">> :> D) @@ (<<"c", "f">> :> F(<<"y">>)) @@ (<<"c", "s">> :> D)
  @@ (<<"c", "s", "a">> :> File({"write"}, <<"x">>)) @@ (<<"c", "s", "l">> :> Link(<<"c", "f">>))
  @@ (<<"k">> :> D) @@ (<<"k", "l">> :> Link(<<"s">>))
  @@ (<<"f">> :> F(<<"x", "y">>)) @@ (<<"g">> :> File({"shared"}, <<"y">>))
  @@ (<<"q">> :> F(<<"y", "y", "y">>)) @@ (<<"w">> :> F(<<>>))
  @@ (<<"z">> :> F(<<"m", "x">>)) @@ (<<"e">> :> F(<<"m">>)) @@ (<<"b">> :> F(<<"m", "bad">>))
  @@ (<<"j">> :> Link(<<"home">>)) @@ (<<"n">> :> F(<<"m", "x">>)) @@ (<<"h#">> :> F(<<"x">>)) @@ (<<"h">> :> F(<<"y">>))

MCFormat == [n \in Names |-> IF n \in {"z", "e", "b"} THEN "expander"
                             ELSE IF n = "n" THEN "nil" ELSE "error"]
MCStem == ("h#" :> "h")

(* In the first commit d has a link to the file a; in the second links lead   *)
(* out of the repository, to a file and to a directory, and one to d.         *)
MCCommits ==
  << (<<>> :> D) @@ (<<"a">> :> F(<<"x">>)) @@ (<<"d">> :> D)
     @@ (<<"d", "b">> :> F(<<"y">>)) @@ (<<"d", "l">> :> Link(<<"a">>)),
     (<<>> :> D) @@ (<<"a">> :> F(<<"y">>)) @@ (<<"d">> :> D)
     @@ (<<"d", "l">> :> Link(<<"..", "f">>)) @@ (<<"k">> :> D) @@ (<<"k", "l">> :> Link(<<"d">>))
     @@ (<<"m">> :> Link(<<"..", "s">>)) >>

MCArtifact == << ("a" :> <<"x">>) @@ ("b" :> <<"y">>), ("a" :> <<"y">>) >>

Local1(src, dst) == [kind |-> "file", src |-> src, dst |-> dst, home |-> {<<"home">>}]
Homeless(src, dst) == [Local1(src, dst) EXCEPT !.home = {}]

Plain == [ref |-> [kind |-> "none", hash |-> 0], depth |-> 0, depthFirst |-> FALSE,
          pathSub |-> <<>>, querySub |-> <<>>]
Main  == [kind |-> "branch", hash |-> 0]
Hash(n) == [kind |-> "hash", hash |-> n]
Git(url, dst, again) ==
  [kind |-> "git", url |-> url, dst |-> dst, root |-> <<"t">>, again |-> again]
Oci(ref, host, serves, tls, retrying, dst, again) ==
  [kind |-> "oci", ref |-> ref, host |-> host, serves |-> serves, tls |-> tls,
   retrying |-> retrying, dst |-> dst, again |-> again]

(* Temporary directories differ: os.MkdirTemp makes a new one. *)
Two(j1, j2) ==
  (1 :> j1) @@ (2 :> IF j2.kind = "git" THEN [j2 EXCEPT !.root = <<"v">>] ELSE j2)

s == <<"s">>
o == <<"o">>
p == <<"p">>
(* A call that ends at once leaves the other to itself. *)
Alone(j) == Two(j, Homeless(<<"~", "f">>, <<"u">>))

FileJobs ==
  { Two(Local1(s, o), Local1(<<"s", "d">>, o)),
    Two(Local1(s, <<"o", "p">>), Local1(<<"f">>, <<"s", "a">>)),
    Two(Local1(s, <<"s", "o">>), Local1(<<"z">>, o)),
    Two(Local1(s, o), Local1(<<"f">>, <<"u">>)),
    Two(Local1(<<"c", "s">>, o), Local1(<<"c", "s">>, p)),
    Two(Local1(<<"s", "d">>, <<"j">>), Local1(<<"e">>, p)),
    Two(Local1(<<"k">>, o), Local1(<<"z">>, <<"s", "a">>)),
    Two(Local1(<<"r">>, o), Local1(<<"n">>, p)),
    Two(Local1(<<"f">>, <<"h">>), Local1(<<"q">>, <<"h">>)),
    Two(Local1(<<"f">>, <<"~", "a">>), Homeless(<<"~", "f">>, o)),
    Two(Local1(<<"b">>, s), Local1(<<"w">>, <<"u">>)),
    Alone(Local1(<<"home">>, <<"home", "o">>)),
    Two(Local1(o, p), Git(Plain, o, <<>>)),
    Two(Local1(<<"c", "s">>, <<"o", "d">>), Git(Plain, o, <<>>)),
    Two(Local1(<<"g">>, <<"h#">>), Git(Plain, <<"c">>, <<>>)),
    Two(Local1(<<"f">>, <<"g">>), Local1(<<"f">>, <<"x%">>)) }

GitJobs ==
  { Two(Git(Plain, o, p), Git([Plain EXCEPT !.ref = Main], o, <<>>)),
    Two(Git(Plain, o, <<>>), Git([Plain EXCEPT !.pathSub = <<"d">>], o, <<>>)),
    Two(Git(Plain, <<"home">>, <<>>), Git(Plain, <<"k">>, <<>>)),
    Two(Git([Plain EXCEPT !.ref = Hash(1), !.depth = 1], o, p),
        Git([Plain EXCEPT !.pathSub = <<"..", "f">>], <<"u">>, <<>>)),
    Two(Git([Plain EXCEPT !.depth = 1, !.depthFirst = TRUE], o, p),
        Git([Plain EXCEPT !.ref = Main, !.pathSub = <<"k">>], <<"u">>, <<>>)),
    Alone(Git([Plain EXCEPT !.pathSub = <<"d">>], o, p)),
    Alone(Git([Plain EXCEPT !.pathSub = <<"a">>], o, p)),
    Alone(Git([Plain EXCEPT !.pathSub = <<"m", "d">>], o, <<>>)),
    Alone(Git([Plain EXCEPT !.ref = Main, !.querySub = <<"d">>], o, p)),
    Alone(Git([Plain EXCEPT !.depth = 1, !.depthFirst = TRUE, !.ref = Main], o, p)) }

OciJobs ==
  { Two(Oci(0, "remote", "https", "unset", FALSE, o, <<>>),
        Oci(0, "loopback", "http", "unset", FALSE, o, <<>>)),
    Two(Oci(2, "loopback", "http", "on", TRUE, o, p),
        Oci(0, "remote", "http", "off", FALSE, <<"u">>, <<"h">>)),
    Two(Oci(0, "ipv6", "http", "unset", TRUE, o, p), Git(Plain, o, <<>>)),
    Alone(Oci(3, "remote", "https", "unset", TRUE, o, p)),
    Alone(Oci(0, "loopback", "http", "unset", TRUE, o, p)) }

MCScenario == FileJobs \cup GitJobs \cup OciJobs

(* A file saved onto itself, and one whose name url.Parse cuts. *)
SaveScenario == { Two(Local1(<<"f">>, <<"f">>), Local1(<<"h#">>, o)) }

CloseScenario == { Two(Local1(s, o), Local1(<<"w">>, <<"u">>)) }
=============================================================================
