-------------------------------- MODULE Routing --------------------------------
(***************************************************************************)
(* How a source and an archive find their handler: the first registered    *)
(* gatherer (gather/gatherer.go) or expander (expand/expander.go) whose    *)
(* Matcher accepts wins, so a correct choice is a matter of all matchers   *)
(* and of the order the packages of registry/ register them in.            *)
(***************************************************************************)
EXTENDS Naturals, Sequences

(* Package initialisation runs in import-path order. *)
Gatherers == <<"file", "git", "http", "oci">>
ExpandersSwapped == <<"zip", "tar", "bzip2">>  \* mutant: another order
Expanders == <<"bzip2", "tar", "zip">>

(***************************************************************************)
(* A source as its matchers tell it apart: the go-getter "force::" prefix, *)
(* the scheme (git@ is one here), the kind of host, whether scheme and     *)
(* host are in upper case, whether github.com, gitlab.com or bitbucket.org *)
(* occurs after the host, a .git suffix, whether it is an existing         *)
(* relative path, and, where there is no prefix, whether "::" occurs       *)
(* anywhere else (in a path, a query or the host [::1]) and what the first *)
(* one is followed by.                                                     *)
(***************************************************************************)
Forced == {"none", "file", "git", "oci", "http", "s3"}
Scheme == {"none", "path", "file", "git@", "git", "http", "https", "oci", "ssh"}
Host   == {"vendor", "vendor-subdomain", "vendor-lookalike", "registry.gitlab.com",
           "registry", "loopback", "[::1]", "other"}
Colons == {"no", "registry", "other"}

Source ==
  {u \in [force: Forced, scheme: Scheme, host: Host, upper: BOOLEAN,
          mention: BOOLEAN, dotGit: BOOLEAN, exists: BOOLEAN, colons: Colons] :
     /\ u.exists => u.force = "none" /\ u.scheme \in {"none", "path"}
     /\ u.scheme = "path" => ~u.upper
     /\ u.colons # "no" => u.force = "none"
     /\ u.host = "[::1]" /\ u.force = "none" => u.colons = "other"}

VendorHost == {"vendor", "vendor-subdomain", "registry.gitlab.com"}

(* Prefixes are those of the whole source, in lower case. *)
Prefix(u, scheme) == u.force = "none" /\ u.scheme = scheme /\ ~u.upper

FileMatcher(u) ==
  u.force = "file" \/ Prefix(u, "file") \/ Prefix(u, "path") \/ u.exists

NamesVendorHost(u) == u.host = "vendor" /\ ~u.upper  \* mutant: compares the host

(* strings.Contains(uri, "github.com") and the other two. *)
NamesVendor(u) ==
  u.mention \/ (u.host \in VendorHost \cup {"vendor-lookalike"} /\ ~u.upper)

GitMatcherGreedy(u) ==  \* mutant: "::" is not looked for
  Prefix(u, "git@") \/ Prefix(u, "git") \/ u.force = "git" \/ NamesVendor(u) \/ u.dotGit

(* strings.Contains(uri, "::") *)
HasColons(u) == u.force # "none" \/ u.colons # "no"

GitMatcher(u) ==
  \/ Prefix(u, "git@") \/ Prefix(u, "git") \/ u.force = "git"
  \/ ~HasColons(u) /\ (NamesVendor(u) \/ u.dotGit)

(* url.Parse takes "http::" for an opaque URL, which has no host. *)
HttpMatcher(u) ==
  u.force = "none" /\ u.scheme \in {"http", "https"} /\ u.host \notin VendorHost

(* extractHost drops what precedes the host and lowers its case; it finds no *)
(* host in a path, and none in the user@host:path form.  Where the first     *)
(* "::" is no prefix, what follows it is taken for the source.               *)
ContainsOCIRegistry(u) ==
  IF u.colons = "no"
    THEN /\ u.scheme \notin {"git@", "path"}
         /\ u.host \in {"registry.gitlab.com", "registry", "loopback", "[::1]"}
    ELSE u.colons = "registry"

OciMatcher(u) ==
  Prefix(u, "oci") \/ u.force = "oci" \/ ContainsOCIRegistry(u)

Accepts(g, u) ==
  CASE g = "file" -> FileMatcher(u)
    [] g = "git" -> GitMatcher(u)
    [] g = "http" -> HttpMatcher(u)
    [] g = "oci" -> OciMatcher(u)

(* getExpander's format for a file name suffix, tried in this order. *)
Suffix == {"tar", "tar.gz", "tgz", "tar.bz2", "tbz2", "bz2", "gzip", "gz", "zip", "xz"}

FormatOf(suffix) ==
  CASE suffix \in {"tar", "tar.gz", "tgz", "tar.bz2", "tbz2"} -> "tar"
    [] suffix = "bz2" -> "bzip2"
    [] suffix \in {"gzip", "gz"} -> "gzip"
    [] suffix = "zip" -> "zip"
    [] OTHER -> "unsupported"

(* "gzip" and "bzip2" contain "zip". *)
Handles(e, format) ==
  CASE e = "bzip2" -> format = "bzip2"
    [] e = "tar" -> format = "tar"
    [] e = "zip" -> format \in {"zip", "gzip", "bzip2"}

VARIABLES
  query,       \* what is looked up
  registered,  \* the handlers in registration order
  at,          \* the handler the loop is at
  result       \* the handler it returned

vars == <<query, registered, at, result>>

(* Expanders are those the program imports, still in order. *)
InOrder(all) ==
  {[i \in DOMAIN pick |-> all[pick[i]]] :
     pick \in {f \in UNION {[1..n -> DOMAIN all] : n \in 0..Len(all)} :
              \A i, j \in DOMAIN f : i < j => f[i] < f[j]}}

Init ==
  /\ \/ query \in [uri: Source] /\ registered = Gatherers
     \/ query \in [suffix: Suffix] /\ registered \in InOrder(Expanders)
  /\ at = 1
  /\ result = "pending"

IsSource == DOMAIN query = {"uri"}

Matches(h) == IF IsSource THEN Accepts(h, query.uri)
                          ELSE Handles(h, FormatOf(query.suffix))

(* getExpander fails on a suffix it has no format for. *)
Unsupported == ~IsSource /\ FormatOf(query.suffix) = "unsupported"

Try ==
  /\ result = "pending" /\ ~Unsupported /\ at <= Len(registered)
  /\ IF Matches(registered[at])
       THEN result' = registered[at] /\ UNCHANGED at
       ELSE at' = at + 1 /\ UNCHANGED result
  /\ UNCHANGED <<query, registered>>

NothingDefault == IF IsSource \/ Unsupported THEN "error" ELSE "tar"  \* mutant

(* GetGatherer returns an error, GetExpander nil. *)
Nothing == IF IsSource \/ Unsupported THEN "error" ELSE "nil"

GiveUp ==
  /\ result = "pending"
  /\ Unsupported \/ at > Len(registered)
  /\ result' = Nothing
  /\ UNCHANGED <<query, registered, at>>

Next == Try \/ GiveUp

Spec == Init /\ [][Next]_vars

-----------------------------------------------------------------------------
(* Properties. *)

(* A handler that is returned is a registered one. *)
TypeOK ==
  /\ query \in [uri: Source] \cup [suffix: Suffix]
  /\ registered \in {Gatherers} \cup Seq({"bzip2", "tar", "zip"})
  /\ at \in 1..Len(registered) + 1
  /\ result \in {registered[i] : i \in 1..Len(registered)} \cup {"pending", "error", "nil"}

Routed(g) == result = "pending" \/ result = g

(***************************************************************************)
(* A source forced with file::, git:: or oci:: goes to that gatherer       *)
(* whatever else it looks like to the matchers asked before it.            *)
(***************************************************************************)
ForcedGathererWins ==
  IsSource /\ query.uri.force \in {"file", "git", "oci"} => Routed(query.uri.force)

(***************************************************************************)
(* The HTTP gatherer refuses the hosts of git vendors by parsing the host, *)
(* the git gatherer accepts by searching the text: for a lower-case web    *)
(* address without "::" the two agree, so each is routed to exactly one of *)
(* them.  With "::" in its path or query they do not: UriSelectsGatherer.  *)
(***************************************************************************)
WebVendor(u) ==
  u.force = "none" /\ u.scheme \in {"http", "https"} /\ u.host \in VendorHost /\ ~u.upper

WebVendorGoesToGit ==
  IsSource => (WebVendor(query.uri) /\ query.uri.colons = "no" => Routed("git"))

(***************************************************************************)
(* A program that has registered the expander of an archive's format gets  *)
(* that one, although the zip expander accepts other formats too.          *)
(***************************************************************************)
OwnExpanderWins ==
  ~IsSource => LET f == FormatOf(query.suffix) IN
    (\E i \in 1..Len(registered) : registered[i] = f) => Routed(f)

(***************************************************************************)
(* README.md:15: "URI-based routing selects the correct gatherer (file,    *)
(* git, HTTP, OCI) without caller intervention".  A web address has one,   *)
(* whatever the case of its host (README.md:17) and whatever its query; a  *)
(* source with an OCI scheme (oci.go:166) goes to the OCI gatherer, and so *)
(* does one whose host is a local registry (oci.go:91-93) and that looks   *)
(* neither like a path nor like a repository.                              *)
(***************************************************************************)
UriSelectsGatherer ==
  IsSource => LET u == query.uri IN
    /\ u.force = "none" /\ u.scheme \in {"http", "https"} => result # "error"
    /\ Prefix(u, "oci") => Routed("oci")
    /\ /\ u.force = "none" /\ u.scheme = "none" /\ u.host \in {"loopback", "[::1]"}
       /\ ~u.mention /\ ~u.dotGit /\ ~u.exists /\ (u.host = "loopback" => u.colons = "no")
       => Routed("oci")
=============================================================================
