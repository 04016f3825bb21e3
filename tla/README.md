# A verification of go-gather in TLA+

go-gather downloads ("gathers") a source (a path, a git repository, a web
address, an OCI artifact) into a destination and expands archives on the way.
It is a library: every call runs in its caller's goroutine, several calls may
run at once, in one process or in several, and what they share is the file
system. What can go wrong is therefore what can go wrong between two
file-system operations: another call, an error, a timeout, a crash.

## The system

| part | code | state it keeps | operations |
|---|---|---|---|
| HTTP gatherer | `gather/http/http.go` | per call: the reply, a temporary file's name, the bytes copied, the committed flag | `Gather`, `Matcher` |
| File gatherer | `gather/file/file.go` | per call: source and destination | `Gather`, `FileSaver.save`, `getExpander`, `Matcher`, `GetPinnedURL` |
| Git gatherer | `gather/git/git.go` | per call: a temporary clone | `Gather`, `processUrl`, `Matcher`, `GetPinnedURL` |
| OCI gatherer | `gather/oci/oci.go` | per call: a file store on the destination | `Gather`, `Matcher`, `GetPinnedURL` |
| Expander limits and cleanup | `expand/expander.go` | `expanders`; per call the units extracted | `GetExpander`, `RegisterExpander`, `Effective`, `CopyBounded`, `RemoveOnError`, `IsCompressedFile`, `IsTarFile` |
| Tar, zip, bzip2 expanders | `expand/{tar,zip,bzip2}` | per call: entry counts, totals, `seenDirs`, `createdDst` or a temporary file | `Expand`, `Matcher` |
| Registries | `gather/gatherer.go`, `registry/` | `gatherers`, filled by package initialisation | `GetGatherer`, `RegisterGatherer` |
| Helpers | `internal/helpers` | none | `CopyDir`, `CopyFile`, `CopyDirConfined`, `ExpandPath`, `GetDirectorySize` |
| OCI client | `internal/oci` | a shared transport | `SetupClient`, `Client` |
| Detector, metadata | `detector`, `metadata` | none | thin wrappers and an interface |

The parts interact by plain calls: a caller asks the registry for a gatherer
and calls its `Gather`; the file gatherer asks for an expander, by the suffix of
the file name, and calls its `Expand`; gatherers and expanders use the helpers
and the limits of `expand`. No part starts a goroutine of its own.

What makes each part correct, and what is hard about it:

* **HTTP gatherer**: a destination is never partial, over the limit or mixed,
  whatever fails; no temporary file strays; the mode of a replaced file stays;
  the call ends. Hard: the temporary name is free for a moment between
  `os.Remove` and `O_EXCL`; errors return from nine places after the file
  exists; `limit+1` at `math.MaxInt64`; servers that stall.
* **Tar and zip**: limits hold for delivered and not declared sizes; success
  means everything is there; failure leaves nothing new and destroys nothing
  old. Hard: whether the destination is the call's own is decided long before
  it is made, by an `os.Stat` that follows links; directory modes are set last,
  in map order; the cleanup can fail.
* **Bzip2**: one atomic output within both limits.
* **Registries**: each source and format goes to the handler meant for it.
  Hard: the matchers overlap, the first registered wins, and `::` is looked for
  anywhere in the text.
* **File gatherer and helpers**: a directory, an archive or a file gathered
  without error is all there, and the size is its size; an error is returned
  only for a reason; nothing but the destination changes. Hard: listings are
  taken long before their entries are opened; a destination may be inside its
  source, be a link, or be the source; a deferred close can fail after success.
* **Git gatherer**: the commit reported is the one in the destination; a
  temporary clone goes whatever fails; no link of a repository is followed out
  of it; a pinned address gathers the same again. Hard: the branch moves
  meanwhile; the clone leaves its own directory when the checkout fails.
* **OCI gatherer**: all blobs of the digest reported, and of no other, are in
  the destination. Hard: the tag moves meanwhile; requests are repeated; blobs
  come in any order; the protocol depends on the host and a flag.

## The modules

| module | models | correspondence |
|---|---|---|
| `AtomicReplace` | the promise of a call that installs one file | abstract: `Install`, `Return`, `Fail`, `Die` |
| `HttpGather` | concurrent `HTTPGatherer.Gather` calls in one directory | one action per file-system or network operation, in the order of http.go:88-247 |
| `HttpGatherProofs` | theorems about `HttpGather` | |
| `ArchiveExpand` | concurrent tar and zip `Expand` calls | one action per step of the entry loop, of the mode pass and of the deferred cleanup |
| `ArchiveExpandProofs`, `ArchiveOutcomeProofs` | theorems about `ArchiveExpand`: what every call keeps, and what a call alone in its destination achieves | |
| `Bzip2Expand` | concurrent `Bzip2Expander.Expand` calls | one action per operation of bzip2.go:49-116 |
| `Bzip2Proofs` | theorems about `Bzip2Expand` | |
| `Routing` | `GetGatherer`, `getExpander`, `GetExpander` and every `Matcher` | one action per turn of the lookup loop |
| `RoutingProofs` | theorems about `Routing` | |
| `TreeCopy` | a tree of directories, files and links, and `CopyDir`, `CopyFile`, `CopyDirConfined` in it | one action per file-system operation; the recursion is a stack of frames (`Enter`, `Mkdir`, `List`, `Descend`, `TakeFile`, `Create`, `Write`, `Chmod`, `Close`, `Ascend`) |
| `FileGather` | `FileGatherer.Gather`, `FileSaver.save`, `getExpander`, the magic-number tests, `GetDirectorySize`, `ExpandPath` | `FileBegin`, `FileStat`, `Sniff`, `GetExpander`, `Expand`, `DirSize`, `ParseSave`; the copies are those of `TreeCopy` |
| `GitGather` | `GitGatherer.Gather`, the parts of `processUrl`, `GetPinnedURL` | `MkTemp`, `PlainInit`, `Fetch`, `Checkout`, `EnterSubdir`, `HeadRef`, `Cleanup`; the confined copy is that of `TreeCopy` |
| `OciGather` | `OCIGatherer.Gather`, the plain-HTTP rule of `SetupClient`, `GetPinnedURL` | `OpenStore`, `Resolve`, one `Pull` per blob, `Repeat`, `Pulled`, `CloseStore` |
| `Gathering` | concurrent calls of these three on one tree, cancellation, crashes, and a second gather of the pinned source | composes the three modules |
| `GatheringFailures` | why such a call may fail | operators on the tree before any call (`Start`, an instance of `TreeCopy`) |
| `GatheringProofs` | theorems about the results of `Gathering`: metadata or an error, and what a pinned source reports | |
| `ConfinementProofs` | theorems about the temporary clones of `Gathering` | |
| `DeliveryProofs` | theorems about what the calls of `Gathering` deliver | |
| `MC...` | instances for TLC | |

**State.** `HttpGather` separates names from inodes (`entry`, `file`), because
`os.Chmod`, `os.Rename` and `os.Remove` act on a name while the open file goes on
being written, and whether the two still agree is what `TempOwned` asks. In
`ArchiveExpand` paths are a small tree (`Node`, `Above`); a node records who made
it, from which entry, and how much it holds. Links are those that were there
before any call, since an extraction writes a link entry as an empty file:
`leads` says where each path leads while they are in place and `Real` what the
system then finds. `os.Stat`, `os.MkdirAll`, `os.OpenFile`, `os.Chmod` and
`os.Chtimes` go by `Real`, `os.RemoveAll` by the name. A link leads to no other
link, possibly to nothing; the parents of a destination are no links.
In `Bzip2Expand` a call's temporary
file is identified with the call, since its name is never given up. `pc[c]` is
where the call is; a label is the operation it will do next.

**What is abstract.** Data is counted in units; a body is its length, whether
`net/http` declared it and whether it ends cleanly. Modes are model values, or
just whether the owner may search and write. Headers, messages and timestamps
are left out. `os.RemoveAll` and `os.MkdirAll` are one step each, `io.Copy` one
step per unit. Entry names arrive below the destination, as the archive library
delivers them, so the containment check does not fail. Any operation of an
extraction may fail, also `os.Chmod` and `os.Chtimes` on a directory the call made
itself (tar.go:244-258), the second after the first took effect. A process is not root:
a directory that may not be searched stops it.

**Environment.** Network failures, cancellation, the client timeout, failing
operations, crashes at any point, and in `HttpGather` a program that creates
files under the temporary names (`Squat`).

**The tree.** In `TreeCopy` and the modules on top of it `fs` maps the paths that
exist to nodes with a kind, a mode, data or a link's target; what a listing,
`os.Stat`, `os.Create` or `os.MkdirAll` does is defined on it once (`Entries`,
`Real`, `CanCreate`, `AfterMkdirAll`). Links matter: `CopyDir` goes by the type in
the listing and so fails at a link to a directory, while the confined copy looks
at each entry again and refuses it; `Walk` does not follow a destination that is
a link. Of a mode it matters whether the owner may write and whether the umask
takes something away, because `CopyFile` restores the source's mode and
`os.MkdirAll` does not.
`CopyDirConfined` opens everything through an `os.Root`, which fails once a path
leads out of the clone; `Opens` says that at each operation anew, so a link put in
place between two steps is met where the code meets it. `Put` and `Over` are `:>`
and `@@` written out, because the provers know no definition of those two.
A call's arguments are its `job`: paths for a file, the parts of an address that
`processUrl` or `ParseReference` tell apart for the others. go-git and oras-go
appear as what they leave in the tree: a clone brings the commits its depth
reaches and removes on failure only a directory it made or found empty; each
blob is fetched, checked and stored in one step. `Expand` is one step here:
`ArchiveExpand` has its steps, and this one is limited to what `Gather` sees of
them (everything, nothing, or partial output in a destination that was there).

## The runs

| run | question | bounds and why they are enough |
|---|---|---|
| `HttpRace` | are concurrent downloads to one destination safe at every step? | two calls are needed for a race and two temporary names so that one may be free, squatted or shared; `MaxInt` = 3 puts a body at the limit of 1, above it and at `math.MaxInt64`, where `limit+1` would wrap; the destination starts absent, as file, directory, link or dangling link, with either mode |
| `HttpLive` | does every call end, and is each replacement one step? | the same race with servers that break off, exceed the limit, or never answer, and a call without a limit |
| `ArchiveAlone` | limits, completeness and cleanup of a tar and a zip call in destinations of their own: `SuccessIsComplete` and `FailedRemoved` are about a call with no other and no link in or into its destination (`Alone`), the second about archives that shut no directory around an entry and name no file for the destination itself (`Removable`, see `ArchiveNested`). Does what was there before stay, wherever links lead (`PreexistingKept`)? | limits of two units per entry, three in total and two entries, with archives at and above each, a PAX header, entries that deliver more than they declare, a read-only file extracted twice, a non-searchable directory with and without a file in it, a file in place of the destination, an empty and a damaged archive; every initial tree without links, and with a link from the zip destination, from a directory or from a file of the tar destination into the other one, or to nothing |
| `ArchiveDangling` | is a destination that was there never removed? (no) | one tar call, a destination that may be a link to nothing |
| `ArchiveShared` | may two calls share a missing destination? (no) | one file, one damaged archive |
| `ArchiveNested` | does a failure always clean up? (no) | one non-searchable directory around another |
| `Bzip2` | are outputs whole and replaced in one step? | two calls for one output, a third for another; limits set, default and disabled; good and damaged streams |
| `Routing` | do forced sources, vendors' addresses and registered formats reach their handler? | every combination of the eight features the matchers look at, `::` in the text besides a force prefix among them; every set of imported expanders |
| `RoutingByUri` | does a source without a force prefix reach the right gatherer? (no) | as `Routing` |
| `Gathering` | do the file, git and OCI gatherers deliver what they report, alone and beside another call? | two calls, since every conflict is between two; 31 pairs of sources and destinations: apart, the same, one inside the other, a destination inside its source, through a link, missing, read-only, a repository already, a name with `#`; plain files, directories two deep, good, empty, damaged and unsupported archives; two commits, the second with links out of the repository, to a file and to a directory that is then named as subdirectory, and one to a directory inside; two artifacts, the second smaller, and a digest nobody has; one cancellation; one failing operation *or* one crash, at any step (`Calm`); one repetition per request (`Retries`); paths of up to four names (`PathMax`), the point where a copy into itself ends |
| `SaveOnto` | does a saved file have the source's content? (no) | a file onto itself, and a name with `#` |
| `CloseDropped` | is a failing close always reported? (no) | one directory copy |

In `Gathering`, what each property asks: `CopyDelivers`, `SizeReported`,
`CloneDelivers` and `ArtifactDelivers` compare the tree after a success with what
the source had and with the metadata; they speak of calls no other call writes
into (`Apart`), and leave out the data lost by a failing `Close`, which
`CloseDropped` shows. `PinnedReportsSame` and `PinnedGathersSame` relate a gather
to a later one of its pinned address: the commit or digest is the same whatever
other calls do, the files are while nobody else writes there. `FailureExplained` is the converse of the four: a call that
nobody disturbs, cancels or breaks fails only for a reason (`FileReason`,
`GitReason`, `OciReason`). A reason is evaluated on the tree before any call, so
nothing the gather did can be one; what a commit lacks or holds is a reason only
once a clone was fetched, and a bad depth or an unknown ref only if the
caller gave it. Three kinds of call are left out by name (`Divergence`), because
the repository says that they do not fail, and they do; they are listed below.
`ReadsConfined` and `CloneRemoved` are about the untrusted clone,
`MetadataOrError` about results, `CallsEnd` about every path out of a call.
`OnlyDestinationsChange` is about every write of every step, and asks whether the
call that takes the step was itself told to write there (`Acts`, `Entitled`): what
another call was given entitles it to nothing. Copies and pulls follow
links below their destination, as `os.Create` does, and that is part of `Entitled`; of a
name with `#` it takes the name that `save` opens, which is a neighbour of the
one the caller gave (see `SaveOnto`).
Some bounds keep the instance small without hiding a case: a cancellation is a
step only where the context is looked at again (`UsesContext`), and pushes to a
server only while a call may still ask it (`Asks`). A path crosses at most one
link; `CopyDir` visits a listing in one fixed order, as `os.ReadDir` sorts, and
the confined copy in any order.

Deadlock is not checked: in every module a system whose calls have all ended
stops.

**Fairness** is assumed in the runs of `HttpGather`: the scheduler runs every
call whose next step needs nothing else; the 30-second timeout fires
(http.go:76), after which the pending request or read returns an error; a reader
at its limit returns `io.EOF` without asking the server. Nothing is assumed of
the server. A caller that disables the timeout is not covered. In `Gathering` the
scheduler runs every call whose next step needs no answer, and a wait for a
server ends once the context is done, because the context is passed to
`PlainCloneContext` and `oras.Copy` (git.go:137,142, oci.go:154). No server has to
answer, so git and OCI calls are claimed to end only when they are cancelled;
file gathers always end.

## What the violations show

* `ArchiveShared`: `createdDst` (tar.go:80, zip.go:73) is a check long before the
  act. Two calls that both find the destination missing both count as its
  creator, and the one that fails deletes the other's output, although
  zip.go:71 promises to remove a destination "only if we created dst".
* `ArchiveNested`: `seenDirs` is a map, so an outer directory may lose its search
  permission before an inner one gets its mode; that fails, and `RemoveAll`
  fails for the same reason, silently (expander.go:169). Partial output stays,
  against expander.go:163-165. With the other order the extraction succeeds.
* `ArchiveDangling`: `createdDst` asks `os.Stat`, which follows links. A destination
  that is a link to nothing counts as missing although it is there, `os.MkdirAll`
  fails at it, and the cleanup deletes the link, against tar.go:79 ("never
  delete a pre-existing destination").
* `RoutingByUri`: README.md:15 promises that the URI selects the correct gatherer.
  Four kinds of source are against it; TLC stops at one and prints the others with
  `-continue`. `oci://registry.gitlab.com/group/image` contains `gitlab.com` and
  goes to the git gatherer, which is registered first, although oci.go:89 lists
  that registry and oci.go:166 claims the scheme. `https://GITHUB.com/x` is refused by
  the HTTP gatherer, which compares hosts in lower case, and missed by the git
  gatherer, which searches the text as written. `https://github.com/org/repo?ref=a::b`
  is refused by the git gatherer, which takes any `::` for a prefix (git.go:79), and
  by the HTTP gatherer because of its host. Of `[::1]:5000/image` `extractHost` keeps
  what follows the first `::` (oci.go:221), so nobody takes it, although oci.go:93
  lists `::1`. `WebVendorGoesToGit` is therefore about lower-case addresses without `::`.
* `SaveOnto`: `save` opens the source and then truncates the destination
  (file.go:198) without comparing them. Gathering a file onto itself empties it
  and returns metadata of size 0 without an error, although file.go:165 says that
  save copies from source to destination. The run also holds the second way to
  copy the wrong thing: `Gather` checks the name it was given and `save` opens the
  `Path` of `url.Parse`, which ends at a `#` or `?`. It creates that name for a
  destination too (file.go:181), so a file saved to `h#` overwrites its neighbour `h`.
* `CloseDropped`: `CopyFile` (helpers.go:115) and `copyFileConfined`
  (copydir_confined.go:137) discard the error of the destination's `Close`. A
  directory gather then succeeds with a file cut short, against README.md:18.

Further disagreements met while modelling, which the model reproduces without a
run of their own:

* bzip2.go:34-36 says that only `MaxEntrySize` applies to a bzip2 stream. The code
  and the comment at bzip2.go:93-96 say that both limits do, and that is what
  `OutputWhole` states: a total limit below the entry limit refuses a
  stream the entry limit allows.
* The three kinds of gather that `FailureExplained` leaves out (`Divergence`):
  `CopyDir` says that it follows links (helpers.go:49), but goes by the type in the
  listing, hands a link to a directory to `CopyFile` and fails. `oci://[::1]:5000/image`
  fails before its first request, because `ociURLParse` loses the host
  (oci.go:238-239), although oci.go:93 and network.go:48 count `::1` as loopback.
  An address with the depth before the ref is not pinned by `GetPinnedURL`, which
  cuts at `?ref=` and appends a new one (git.go:219): the result has an invalid
  depth or two refs, and its gather fails, against git.go:205.
* `CopyDir` says it makes a missing destination with the source's mode
  (helpers.go:45-46), but `os.MkdirAll` applies the umask.
* An archive without entries expands successfully and then fails the gather, because
  the destination it never made has no size (file.go:133).
* A format whose expander is not imported makes `Gather` call a nil expander
  (file.go:129).
* A checkout of an unknown revision leaves the clone in the destination, so a
  corrected second call fails (git.go:152).
* An extraction truncates the file that a link in its destination leads to (tar.go:132,
  zip.go:135). `PreexistingKept` counts that file as named by the entry (`Aimed`).

## What is proved

All theorems are about the specification without fairness, hence hold of the one
with it, and rest only on the assumptions on the constants that the modules name.

* `HttpGatherProofs`. `Invariance`: `Spec => []IInv`; from it `TypeCorrect`,
  `OwnershipHolds` (`TempOwned`), `DestinationsWhole`, `NoTempFileStrays`,
  `SizeReported`; the action property `OthersStay`; and
  `GatherReplacesAtomically`, the refinement of `AtomicReplace`.
  None of these is inductive by itself. That a destination is whole is
  settled by the rename, which moves whatever the temporary *name* holds, so it
  needs that the name still holds the file this call opened (`TempOwned`). That
  again needs where each inode may be: a file that was there from the start only
  under its own name, a call's file only under its temporary name or, once
  committed, its destination, a squatter's only under temporary names
  (`PlacedOld`, `PlacedTemp`, `PlacedForeign`, `PlacedProbe`). And it needs that the count
  the code compared with the limit is the length of that file at every stage
  (`Counted`), and which answers reach the rename at all (`Accepted`).
  The refinement maps `entry` and `file` to the content of each destination.
  Only `Rename` maps to `Install`; that every other action leaves the content of
  every destination alone is the same placement argument.
  `ReplacementKeepsMode` (`ModeKept`), by a second invariant on
  top of `IInv`: the mode `os.Stat` reports is always the one the first file had,
  because every call that could have replaced that file in the meantime kept it;
  a temporary file has the umask's mode until `chmod`; and a destination that was
  a directory stays one, so no call that read a directory's mode can install.
* `Bzip2Proofs`. The same argument without names: `Invariance`, `TypeCorrect`,
  `OutputsWhole`, and the refinement `ExpandReplacesAtomically`. The part that
  needs care is `Checked`: what lies between the copy and the rename is a whole
  stream within *both* limits, although the reader stops at the smaller one.
* `ArchiveExpandProofs`. `TypeCorrect`, `LimitsKept` (`WithinLimits`) and
  `Preexisting` (`PreexistingKept`), for any tree of paths, any archives and any
  number of calls, also in one destination. All three follow from the six ways in
  which a step may change a path (`StepChanges`). `TypeOK` is inductive only with
  `Writing`, the file a call is writing holds what it has moved, and `Charged`,
  the running total is within the limit until the call gives up. `LimitsKept`
  compares the units on disk with the count the code checks: no more units than
  `total`, and no more files than entries counted (tar) or passed (zip), where a step
  of another call only takes units and files away (`UnitsWithin`, `FilesWithin`).
  `Preexisting` is about trees with links, of calls that may share destinations. It
  needs that whatever is in the tree is in a directory (`Rooted`), also below the
  target of a link; that a link stands only where the layout has one, so that what
  a name is found at is what it leads to (`OldLinks`, `FoundIsAimed`); and that below
  a destination a call counts as created nothing was there before any call but
  possibly the destination itself, as a link to nothing (`Fresh`), so its
  cleanup meets nothing else. That one case is the exception in the property,
  which `ArchiveDangling` shows; the other is what an entry names, itself or
  through a link.
  Assumed of the tree, with the module's other constants: it is finite, the
  ancestors of a path are comparable and lie above it.
* `ArchiveOutcomeProofs`. `Completeness` (`SuccessIsComplete`), `FailureRemoves`
  (`FailedRemoved`) and `AloneRemovesOwn`, for a call that is alone in its
  destination. The invariant (`OutcomeInvariance`) says, for every position of
  the entry loop, which entries have been delivered and are not yet replaced, and
  for every subset of `seenDirs` still to be shut, which directories are open: a
  directory is shut after all below it was written, but in map order.
  That a failed call can still empty what it made needs that no directory it
  shut holds anything it made, whichever of `os.Chmod` and `os.Chtimes` fails, and
  that no file took the place of the destination, which is the hypothesis
  `Removable` of `FailedRemoved`; and that no link leads into the destination or out
  of it (`Unlinked`, part of `Alone`). Without it the statement is `FailedLeavesNothing`, which
  `ArchiveNested` refutes.
* `RoutingProofs`. `ForcedSources`, `WebVendors`, `OwnExpanders` and `TypeCorrect`. The run
  covers every value there is, so the theorems add the reason: the invariant is
  that every handler asked before has refused, and each theorem shows which
  part of a matcher makes it refuse or accept. `WebVendors` is about lower-case
  addresses without `::`: for the others the statement is false (`RoutingByUri`).
* `GatheringProofs`. `ReturnsMetadataOrError` (`MetadataOrError`), without any
  assumption on the tree, the sources or the servers. It is not inductive: a file
  is closed by the same step when it was saved alone, where metadata exists
  already and a failing close must take it back, and inside a directory copy,
  where none exists and the error is dropped. `Settled` tells the two apart by the
  stack of copies, and says that metadata otherwise exists only at the deferred
  function of a git or OCI gather.
  `PinnedAgain` (`PinnedReportsSame`): a second gather of the pinned source
  reports what the first did. Its invariant `PInv` follows the commit from the
  address through `ResolveRevision` and the checkout to `Head`, and the digest
  through the resolution and every blob; it also has where each kind of call can
  be and that a copy that is running has a directory to run in, since a step
  of one kind must not set another's result. Assumed: `ScenarioAssumption`, the
  jobs are jobs.
* `ConfinementProofs`. `ClonesRemoved` (`CloneRemoved`) and `CopiesConfined`
  (`ReadsConfined`), for any number of calls of the three kinds on any tree, with
  any commits and links in them, at every interleaving. Both are about one call's
  clone, and what could break them is any other call: a file written into the
  clone after it was removed, or a link in it that leads out once another call
  has replaced what it led to. So the invariant is about all paths at once.
  `CInv` says that every path a call may yet write to is *away*: it neither lies
  in the temporary directory of any call nor contains one. And each link in the
  tree either lies in a temporary directory, or neither it nor what it leads to
  has to do with one (`LinkOk`). Each half needs the other: a path that
  is away crosses links of the second kind only and so resolves to a path that
  is away, which is where the call writes; and links come only from the
  initial tree, and from commits that are placed at a path that is away or in
  the call's own clone, whose links lead into the same placed commit or
  where `TemporaryAssumption` allows (`AwayInvariance`).
  So what is below a clone's root is changed by its own call alone, and that call
  places the commit there once and removes it. `TInv` adds at which stages there
  may be something, and `ClonesRemoved` follows. `RInv` adds that each
  directory on the stack and the open file resolve below the root from the moment
  the `os.Root` opened them, and `CopiesConfined` follows.
  Assumed: `SourceAssumption`, trees and commits are trees of
  nodes and a link leads somewhere; and `TemporaryAssumption`, which is
  `os.MkdirTemp`: a temporary directory has a name that did not exist, that no
  link of the tree and no outward link of a commit leads into or past, and that is
  not part of a destination a call was given (where the system's temporary
  directory is itself a link, the name is the resolved one); a call may still be given
  a *source* inside one. TLC evaluates both on the instance of the run.
* `DeliveryProofs`. What a call that returned has delivered: `ArtifactsArrive`
  (`ArtifactDelivers`), `ClonesArrive` (`CloneDelivers`), `CopiesArrive`
  (`CopyDelivers`), `PinnedSameFiles` (`PinnedGathersSame`) and `GatheredStays`,
  for any number of calls of the three kinds, on any tree and with any commits
  and artifacts. The properties are about calls whose places are apart, and a
  theorem has to say apart *from the start*, so each has a hypothesis on the
  initial state, which is all that a caller can see to: the destination overlaps no
  path that another call is given, and no link of the tree and no outward link
  of a commit leads there (`Secluded`); nothing is there yet (`Fresh`, for a
  whole content and not only for what is in it).
  Then the place is *fenced* (`Fenced`): the paths another call has in hand (its
  arguments, the directories on its stack, the file it has open) do not
  overlap it, and no link leads there from outside. A fence is kept by
  every step of every call, as a path that does not overlap a fenced place
  resolves to one that does not (`RealOff`), and so no step of another call
  changes anything in it (`ByOther`). What is left is one call's own sequence of
  steps.
  For an artifact that is `Landed`: each blob no longer to be pulled is a file
  with the data of the digest resolved. For a whole repository or artifact,
  `Stage` gives the exact content of the destination at every label, from nothing
  over `.git` and the fetched commit to the commit checked out; it is exact, so
  it also says that nothing else is there, that a checkout removes what it has to
  remove, and, for a second gather, that the first one's destination still has
  what it had. `PinnedSameFiles` joins two such contents by the commit or digest,
  which is the same by `PinnedAgain`.
  A directory copy has the most states in between. Its source must be in order
  (`Orderly`: a tree of directories, its links leading to a place reached without
  another link) in a place `r` nobody writes to; `r` may be larger than the
  source, because `CopyFile` follows links (`Tended`). `Walk` then says of every
  path of the source that it is still *pending* (below an entry that a frame of
  the stack has yet to visit, below the directory being entered, or the
  file in hand) or has arrived, directories as directories and files with
  the data and mode of what they lead to; that the part of a file in hand that
  has been written is a prefix of it (`Begun`); and that every path of the
  destination has its counterpart in the source with the same kind (`Shape`), so
  that no step meets a file where it needs a directory. A step either takes one
  path from pending to arrived or replaces a pending directory by its entries,
  and when the stack is empty nothing is pending. `Pair` relates the paths: two
  sources never have the same copy.
  Each hypothesis is met by pairs of the `Gathering` run in which the calls
  succeed, `Tended` by two copies of `c/s` running side by side.
  Assumed besides: `CommitAssumption`, a commit is a directory and git tracks no
  `.git`, which TLC evaluates on the instance.

## What is only model-checked

* **Liveness** (`CallsEnd`, in both modules) rests on fairness.
* **Delivery to places that are apart only when the call ends.** The run checks
  `CopyDelivers`, `CloneDelivers`, `ArtifactDelivers` and `PinnedGathersSame`
  for calls that are apart *now* (`Apart`), the theorems for calls that were apart
  at the start, with no link leading in. Without that, `ArtifactDelivers` is
  false for jobs the run does not have: one call clones a repository with a link
  into the second's destination, a third saves through that link over a blob of
  the second, and then a checkout removes the link, after which nothing shows that
  the second was ever disturbed.
* **Clones of a subdirectory** in `CloneDelivers`: `ClonesArrive` is about whole
  repositories. A subdirectory is copied out of the temporary clone by the
  confined copy, which visits its entries in any order; where it may read is
  proved (`CopiesConfined`), what arrives is checked.
* **`SizeReported`** of `Gathering` sums over a tree with a fold of the community
  modules, which the provers cannot unfold by induction.
* **`FailureExplained`** relates where a call gave up to everything in the initial
  tree that could be in its way. A proof would have to follow what each call
  itself has made since, and show that it is never in its own way.
* **`Gathering.TypeOK`**: that the tree is one, every node in a directory, holds
  of the run's pairs of jobs and not of all: with one clone into a directory below
  the destination of another, a failing fetch of the outer one removes the inner
  one, whose checkout then appears, as one step of the model, without its parent.
* **`OnlyDestinationsChange`** is checked for the pairs of the run, one of which copies
  into a directory that the other call clones, with the links of the commit. That no
  such write leads into a temporary clone is proved, for all jobs, by
  `AwayInvariance`.

## What is not modelled

* **A retry after a crash** in `ArchiveExpand`: a second call finds the partial
  destination and must keep it; `PreexistingKept` covers that call, whoever left
  the destination, but not the pair of calls.
* **Links made by an extraction** do not exist (link entries are written as empty
  files); links to links, and links among the parents of a destination, are
  left out of `ArchiveExpand`.
* **Text**: of `processUrl`, `ociURLParse`, `url.Parse` and the loopback rewriting
  only what they tell apart is modelled, as parts of a job.
* `CopyReader` and the append mode of `save` have no caller in the library.
* **Credentials** and the user agent of the OCI client configure a library.
* The detector is a stateless wrapper around the matchers, which `Routing` has;
  the examples only call the library.
* Decompression, HTTP, git and OCI protocols belong to libraries and appear as
  what they deliver.

That `FileGather.Expand`, one step, is an abstraction of the extraction of
`ArchiveExpand` is argued above and not proved: the two describe an archive
differently, as data with an inner name and as entries with declared and
delivered sizes, and a mapping would have to relate the two descriptions before it could
relate the steps.
