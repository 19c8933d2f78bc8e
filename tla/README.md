# Verification of the service catalog generator

TLA+ models, TLC runs and TLAPS proofs for `scg`, the service catalog generator:
a command line tool that discovers service manifests below a workspace, compiles
them into one catalog snapshot and publishes JSON, DOT and HTML reports as one
directory that is replaced as a whole.

`PROJECT.json` lists for each definition the lines of code it stands for, for
each run its properties, and for each property a mutant of the model that the
run refutes. This file explains the whole.

## Inventory

One invocation is a pipeline: configuration, source selection, discovery, parse
pool, validation and assembly, report. It runs in one process on one event loop,
so that parts of it interleave only where they await; other processes (an
editor, `git checkout`, a second `scg report`) change the same files in between.

| Part | Source (below `packages/` unless stated) | State | Operations | What is hard | Correct means |
| --- | --- | --- | --- | --- | --- |
| Report publisher | `report/src/generation-publisher.ts` | lock, staging, backup, output directories; locals of a call | acquire lock, validate, stage, swap, roll back, clean up, release | concurrent commands; crash between two renames; refused calls on error paths; operators who clear locks | one generation at a time, none lost, none mixed, lock released |
| Report writer | `report/src/index.ts` | none | render, check the byte limit, publish | mapping of errors to exit codes | nothing published beyond the limit |
| Parse pool | `core/src/scan.ts` 181-213 | next index, results, promise | start, finish, reject | workers share a counter across awaits; one rejects while others run | each manifest once, no hole |
| Compiler | `core/src/scan.ts`, `parser.ts`, `validator.ts`, `graph.ts` | outcomes, diagnostics, services | parse all, budgets, isolate duplicates, graph | sizes stale when used; stages that must run in one order | each manifest accounted for; graph and records agree |
| Bounded reader | `core/src/parser.ts` 10-97, `cli/src/index.ts` 459-492 | handle, offset, chunks | open, stat, read, close | file grows or shrinks while it is read; short reads | bounded memory, no truncation |
| Source selection | `core/src/source-config.ts`, `path-policy.ts`, `schema/src/config.ts` | resolved roots | check lexically, resolve, compare | links make disjoint texts overlap; only neighbours of a sort are compared | one owner for each manifest |
| Discovery | `core/src/discovery.ts` | visited directories, manifests, recursion | resolve root, list, look at entries, add | tree changes between any two calls; cycles of links; overlapping roots; manifest limit | what is found lies inside, once; nothing untouched is missed |
| Glob matcher | `core/src/discovery.ts` 196-296 | memo table | match | `**` backtracks | agrees with the meaning of patterns |
| Contents | `core/src/adapters.ts`, `validator.ts`, `normalizer.ts`, `redaction.ts`, `schema/src` | none | adapt, validate, normalise, redact | an adapter whose output a schema refuses | what the schema asks and no more is refused |
| Command line | `cli/src/index.ts` | parsed arguments, merged configuration, snapshot, exit code | parse arguments, load configuration, run, publish, print, choose exit code | which of several failures decides; a config file that changes; errors after the reports were replaced | exit code, output and reports say the same |
| Action wrapper | `action/src/index.ts` | output file | build arguments, run the command line, set outputs | failures before, while and after outputs are set | success only with all outputs and the reports asked for |
| Release workflow | `.github/workflows/release.yml`, `scripts/github-major-tag.mjs`, `scripts/npm-release-visibility.mjs`, `scripts/release-evidence.mjs` | GitHub release, tags, npm versions and channels, receipts of a run | look up, create, move tag, publish, recover | two services without a transaction; lost answers; a killed runner; a registry that lags | no release without a package, none removed over a package |
| Other scripts, conformance, `dist` | `scripts`, `conformance`, `dist` | none | run tools, compare | sequential or generated | - |

The hazards, each at its line and with the properties that would catch it, are
in `PROJECT.json` under `hazards`.

## Modules

| Module | Models | Checked by | Proved in |
| --- | --- | --- | --- |
| `ReportPublisher` | `publishReportGeneration`, call by call | `MCReportPublisher` | `ReportPublisherProofs` |
| `GenerationStore` | what a reader of the output path is promised | refined by `ReportPublisher` | `ReportPublisherProofs` |
| `ParsePool` | `mapWithConcurrency` | through `CatalogCompile` | `CatalogCompileProofs` |
| `ConcurrentMap` | what its caller is promised, without workers or a counter | refined by `ParsePool` | `CatalogCompileProofs` |
| `CatalogCompile` | `compileCatalog` from discovery's result to the snapshot; extends `ParsePool` | `MCCatalogCompile` | `CatalogCompileProofs` |
| `BoundedRead` | the read loops of manifests and configuration | `MCBoundedRead` | `BoundedReadProofs` |
| `AtomicRead` | a read that takes one moment | refined by `BoundedRead` | `BoundedReadProofs` |
| `PathPolicy` | `isPathInside`, `comparePathHierarchy`, sorting by it | through its users | `SourceSelectionProofs` |
| `SourceSelection` | the check of `sources` and `resolveDiscoverySources` | `MCSourceSelection` | `SourceSelectionProofs` |
| `DiscoveryWalk` | `discoverManifestFiles`, `walkDirectory` and the matcher of patterns | `MCDiscoveryWalk` | `DiscoveryWalkProofs` |
| `ManifestContents` | the ZDP adapter, the service schema and the checks of one manifest, as operators | through `Invocation` | `InvocationProofs` |
| `Invocation` | the Action, the command line and the report writer; extends `ManifestContents` | `MCInvocation` | `InvocationProofs` |
| `ReleaseWorkflow` | the release workflow, its scripts, GitHub and npm | `MCReleaseWorkflow` | `ReleaseWorkflowProofs` |
| `DataLemmas` | facts on sequences, recursion and sums that proofs share | - | itself |

How they fit: `SourceSelection` gives `DiscoveryWalk` its resolved roots
(`scan.resolved`); `DiscoveryWalk` gives `CatalogCompile` its list (`found`,
`limitHit`); `CatalogCompile` reads each file in one step, which `BoundedRead`
justifies by implementing `AtomicRead` as long as others only append;
`CatalogCompile` takes the steps of `ParsePool`, which implements `ConcurrentMap`;
its snapshot is what a writer of `ReportPublisher` publishes. `Invocation` stands around them: it takes from the
compiler the codes that one manifest and one scan give rise to, from the
publisher that a call replaces the reports or fails with the old ones or the new
ones in place (what `HonestResult` allows), and from the reader that the config
file is read at one moment.

An operator named `X_Something` is a mutant of `X`: a plausible bug, used by no
specification, that shows that a property can fail.

### ReportPublisher

A writer is one call in its own process. Each action is one awaited file system
call together with the synchronous code up to the next: `mkdir` of the lock,
`writeFile` of the owner, the look at the output, `mkdir` of staging, each of the
`writeFile` calls of `Promise.all`, the marker, the renames, each `unlink` of the
recursive removals, and the three steps that give the lock back. `pc[w]` names
the call that is awaited; the other locals keep the names of the code. A
directory is a function from entries to origins (which generation wrote them, the
user, a torn write), so that a mixture is visible.

* Failures: any call whose name is in `Faulty` may be refused. A write that is
  refused may leave a torn file. When one write of `Promise.all` is refused the
  others stay in flight (`pending`) while cleanup removes staging.
* Crashes: a process in `Crashable` may be killed between any two calls. Nothing
  restarts it: a later call is another writer.
* Others: an operator removes locks by hand. A careful one does so only when no
  writer is alive behind it, as the hint of the code asks; a careless one at any
  time. A user may add a file to the output.

Left out: the path checks before the lock (52-80, 301-343), which are pure.

### ParsePool and CatalogCompile

`Start` is the synchronous part of `mapWithConcurrency`; `Finish` and `Fail` are
the continuations of an awaited parse. Everything after `Promise.all` is
synchronous and therefore the one action `Assemble`, whose stages are operators
in the order of the code. A manifest is a record of what the stages branch on:
id, size, well-formed, valid, depth, entries, extension bytes, review,
dependencies. `Edit` changes a file between discovery and its parse.

The workers share a counter and the call waits for workers, not for items.
`ConcurrentMap` has neither: items are pending, running or returned, an item that
returns makes room for one that is pending in the same step, one that rejects
makes none, and the call resolves in the step that fills the last place.
`MapsConcurrently` maps what lies from the counter on to the pending items and
what the workers hold to the running ones; an index handed out twice or never, a
worker that ends too early and a `Promise.all` that resolves too early are no
steps of `ConcurrentMap`. `GraphAgrees` ties three stages that look ids up
separately: an edge is resolved exactly if its target is a record, the edges of a
record are exactly its dependencies, and exactly the records with an unresolved
edge are reported. `Determined` says which files become records and which are
reported as duplicates, from the files alone. With three manifests at most and as
many admitted, `compile_edits` has no list that was cut at the manifest limit;
`compile_limits` has.

### BoundedRead

Open, stat, reads of any length up to the buffer, close; every call may fail, and
`Write` lengthens or shortens the file between any two. Bytes are counted, not
represented. `least`, `peak` and `shortened` are history.

### SourceSelection and PathPolicy

A path is a sequence of segments, which are numbers ordered as the names are.
`Resolve` lets each root resolve to any of `RealPaths` at the moment it is
resolved, which covers every arrangement and every retargeting of links. Only
neighbours of the sort are compared, as in the code.

### DiscoveryWalk

`fs` gives each path what is there: nothing, a directory, a file or a link. The
recursion of `walkDirectory` is the variable `stack`; each of `lstat`, `stat`,
`realpath` and `readdir` is an action, and `Change` puts something else in the
place of any path between two of them. A frame of the stack holds the names of
its directory that have not been taken yet, of which the least comes next, as the
code's sort has it; duplicates cannot occur in a listing. A call that throws ends
the walk (`failed`), since nothing catches it below the command line. A manifest
has the path where it was found (`absolutePath`) and the one `realpath` gave
(`realPath`). `strayed` and `walked` are history: some directory that was entered
led to another place of the same root; and where the roots that were walked led,
since the code applies patterns from there, not from the root as it is configured.
A pattern is a
sequence of segments, each the set of names it matches or `AnyDepth` for `**`;
`MatchGlobSegments` is the recursion of the code over what is left of pattern and
path. The properties do not use it: `Covers` says that a pattern matches if the
path can be cut into pieces, one for each segment, and `KeptOut` asks that of the
pattern and of the output directory. `Expected` says which manifests a scan owes:
those to which plain directories lead from a root, and which no root that was
walked keeps out.

### ManifestContents and Invocation

A text of a contract is told apart by what the adapter and the schema tell apart
(`IsText`): whether it is an id as it stands, its length in characters, the length
of the id that `toStableId` finds in it and whether that begins with a digit, and
whether it looks like a secret as it stands, as an id, or with `-contract` added.
`AdaptZdpV2Manifest` makes every string of the manifest that a rule can refuse:
id, name, owner, slug, platform, framework, `${id}-contract`, dependencies, the
owner of costs, the review and the extensions. `SchemaAccepts` has the rule of
each, with its length, and `Strings` what is searched for secrets. `ManifestCodes`
gives the codes of the diagnostics. `RefusesFaulty` says in terms of the contract
which ones are refused (`Faulty`), in both directions: ids beyond 119 characters,
owners whose id is beyond 121, dependencies whose id is beyond 128 or a letter,
display names beyond 160, repositories beyond 200, the runtime names that count
beyond 80, a day that no calendar has, `sunset`, and secrets in a place where they
survive what is done to the text. `MCInvocation` has contracts at each limit and
one past it.

An invocation has its command line, or the inputs of the Action that builds one.
One action stands for the code from one await to the next: `BuildArguments`,
`Parse` (or `Complete`), `LookForConfig`, `LoadConfig`, `Configure`, `Compile`,
`Publish`, `PrintResult`, `Return`, and `AppendOutput` for each output.
`ParseArgs` folds over the tokens with `awaiting` for a flag that wants its
value. `EditConfig` changes the config file before it is read. `Publish` may
succeed, fail before or after the reports were replaced, or fail to resolve the
workspace.

The properties do not use the parser: `Uses`, `LastUse` and `FormatsAsked` read
off the command line what it asks for, and `IsClean` compares the exit code with
that and with what the config file said at some moment of the invocation.

### ReleaseWorkflow

One action for each request of the workflow: the lookups of the registry, the
creation of the release, the lookup and the write of the major tag, the
publication, and their inverses in the recovery step, with the receipts
`created` and `changed`. A request may be refused; that of a kind in
`LostAnswers` may be carried out while the step fails. `Kill` ends a run at any
request, without recovery, since a cancelled job does not satisfy `failure()`.
`Start` admits the next run, for any version, the same one included; the
concurrency group admits one at a time. `CreateByHand` is somebody on GitHub.
`package[v]` counts how many more lookups may miss a version that is published.

`trouble` is history: versions one of whose runs was killed, lost an answer that
a receipt depends on, could not ask the registry although nothing was published,
or had a request of its recovery refused. The workflow cannot undo these ("where
possible", `release.yml` 127) and the properties exempt them; a lost answer of
`npm publish` is no trouble.

## Runs

| Run | Instance | States | Shows |
| --- | --- | --- | --- |
| `publisher_careless` | 2 writers, 5 kinds of start directory, every call may be refused, one writer may crash, careless operator, user | 2.0 M | even without exclusion nothing is mixed or lost, results are honest, only crashes and refused removals leave locks, foreign files survive |
| `publisher_three` | 3 writers, 5 refusable calls, all may crash, careful operator | 218 k | the lock excludes, the publisher implements `GenerationStore`, ended calls leave no residue |
| `publisher_liveness` | 2 writers, all calls refusable but those that give the lock back | 81 k | every call ends |
| `publisher_drop_error` | 1 writer, removal of the backup refused | stops at the violation, within the removal | finding 1 |
| `compile_edits` | up to 3 manifests of 9 kinds, 2 workers, 1 edit, close may fail | 389 k | accounting, budgets, graph, independence of scheduling, `ConcurrentMap`, termination |
| `compile_limits` | up to 3 paths | stops at the violation | finding 2 |
| `read_edited` | limit 4, buffer 2, file up to 7, any call may fail | 4 k | bounded memory, explained answers, atomicity, termination |
| `sources` | up to 3 of 7 declarations, 7 real paths | 3 k | containment, single ownership, independence of order |
| `walk` | 20 scans of a tree with 10 paths, 1 or 2 paths change | 359 k | see below |
| `release` | 2 stable versions and a prerelease, 3 runs, 3 lookups, a lag of up to 2, any answer lost | 157 k | what recovery undoes and what it keeps; see below |
| `invocation` | command lines of up to two flags, inputs of the Action, 68 kinds of manifest, 4 kinds of scan, 19 config files, 2 edits | 1.4 M | exit code, output and reports agree with what was asked for |
| `config_spread` | a section that is no mapping | stops at the violation | finding 3 |

`walk` covers overlapping roots in both orders, a root outside of the workspace,
a directory that cannot be listed, an excluded subtree and the output directory;
links that are followed to the workspace, to a parent, to themselves, to a
sibling and outside; a root that is a link, from whose target a pattern covers
another manifest than from the workspace; and resolved sources one of which is
replaced by a link to the other or elsewhere. It shows that what is found lies in its root and in the
workspace, that no file is found twice, that the limit holds and is reported only
if it is used up, that no manifest is missed that nobody touched, that nothing
that a pattern covers is found, that no directory is walked below itself, and that the walk
ends. `OncePerFile` speaks of manifests that lie where they were found: a file that
is replaced by a link to its sibling between `lstat` and `realpath`, or a link to a
file when links are followed, gives that sibling a second time, as the code has
it. `ExclusionKept` holds for the path of a manifest always, and for the
directories on the way to it unless the walk strayed: a directory is listed where
`realpath` says it is, and patterns are not applied to that place.

`release` shows that no release is removed over a published version nor one that
somebody made by hand (`RemovedJustly`), that a failed run leaves GitHub as it was
(`RollbackComplete`), that between runs the major tag and each release have their
packages (`RestingAgrees`), and that success leaves what `release-evidence.mjs`
asks for (`SuccessEvidenced`). It also shows the assumption that is needed:
`RegistryAssumption`, that the registry shows a version before the last lookup,
which the script's 6 lookups at 5 seconds each stand for.

`invocation` runs every command line with one or two flags over four workspaces,
and seven command lines and three sets of inputs over every kind of manifest, scan
and config file.

Why these bounds. Two writers show every race for a lock, a third one shows the
stale release: an operator clears the lock of the first, the second takes it, the
first releases. Two formats distinguish a whole generation from a part, and
unequal format sets a mixture from either. The pool's interesting moments are one
worker that goes on while another ends, which three items for two workers have.
Reads need a limit of more than one buffer and a file of more than the limit.
Three roots are the fewest where a neighbour of the sort could hide an overlap.
Three runs let a version fail, another one move the
tag, and the first one be run again; a lag of two of three lookups is the largest
that the registry is assumed to have. Two flags are the fewest that contradict, repeat or follow
one another. The tree has a manifest above, below and beside each directory that is excluded,
linked or replaced. The theorems remove the bounds where it matters most.

Every bound is a constant or a field named in the module: `Writers`, `MaxItems`,
`MaxEdits`, `MaxSize`, `MaxSources`, `MaxLinks`, `maxTouched`, `MaxRuns`,
`Attempts`, `Lag`.

Fairness. `FairSpec`, `FairCompileSpec`, `FairReadSpec` and `FairWalkSpec` have
weak fairness of the program's own steps only: Node's event loop resumes every
continuation, and each awaited call returns, with an error if need be. Nothing is
assumed of other writers, editors or operators. The publisher's liveness excludes
refusals of the calls that give the lock back, since a lock that the file system
refuses to remove does stay; this is stated by `KeepsNoLock`. The release workflow
and an invocation have no loop and no fairness: whether a run ends is up to the
runner, which may be lost.

Deadlock is checked in every run; a system that has ended stutters explicitly.

## Proofs

All theorems are checked by tlapm for every value of the constants that satisfies
the named assumptions of the modules.

* `TypeCorrect`, `Exclusion`, `OutputIsWhole`, `LatestSurvives`, `Implements`
  (`ReportPublisherProofs`). `MutualExclusion` alone is not inductive: `LockInv`
  adds that whoever is in its section owns the lock and that the lock names
  nobody else. `WholeInv` says what each kind of directory may hold at each `pc`
  (staging is partial before the marker, whole after), `RecoverInv` that a backup
  that holds the latest generation is never dropped before another is in place.
  Wholeness and survival assume nothing of locks or operators; exclusion and the
  refinement assume that no operator removes the lock of a live writer. The
  refinement maps a rename onto the output to `Publish` or `Restore`, a rename
  away from it to `Hide`, all else to stuttering.
* `ResultsHonest`, `LocksReleased`, `ForeignEntriesKept`, `NothingLeft`
  (`ReportPublisherProofs`), for any operator and any crash. `ResultInv` follows
  result, installation and preserved backup through every `pc`. `BehindLock` names
  who stands behind each value of the lock: a writer between `mkdir` and
  `owner.json` or inside of a removal, one whose `owner.json` is torn, or the one
  it names, which has not begun to give it back. `ForeignInv` keeps foreign
  entries out of every backup, and out of the output from a validation to the
  promotion, until one comes late. `ResidueInv` rests on `Promise.all` having
  waited for every write; `NothingLeft` therefore assumes that no write of a
  report file is refused, nor a best-effort removal, which by its name may fail.
* `PoolCorrect` (`CatalogCompileProofs`): `CounterSplits` says that indices below the
  counter are finished or awaited and those above are neither. It holds for every
  concurrency, also zero and values that are no numbers, by `ConcurrencyBounds`.
* `CompileTypeCorrect`, `EveryManifestAccountedFor`, `GraphFollowsRecords`
  (`CatalogCompileProofs`): `ResultsMatch` ties each result to the manifest with
  its index and `SnapshotAssembled` the snapshot to the stages, which do not change
  once the pool is done. The graph needs that a record is found by its id as well
  as by its path (`RecordByIdOrPath`), since each stage looks up in its own way.
* `CompilerMaps` (`CatalogCompileProofs`): `CounterSplits` and `NoneTwice` make the
  mapped sets those of `ConcurrentMap`; that the last worker to return is the last
  item to return (`LastReturn`) makes the promise agree.
* `RecordsWithinBudgets`, `ResultDetermined` (`CatalogCompileProofs`): the stages
  compare a total over all that was parsed with a limit, the properties speak of
  the records, which are fewer. That a total over fewer is not larger
  (`SumsBounded` in `DataLemmas`) needs that the fold of a sum solves its
  recursion, which is proved once for all well-founded relations (`Recursion`) by
  way of a least counterexample, since an induction rule that takes an operator
  cannot be used here. `ResultDetermined` shows both inclusions: a record is sound
  and alone with its id, and whatever is sound and alone was parsed, kept by every
  stage and not isolated; and likewise for what is reported as a duplicate.
* `ReadCorrect`, `MemoryBounded`, `AppendedReadIsAtomic` (`BoundedReadProofs`): the size lies
  between the extremes of its history, the offset below the peak; as long as
  nobody shortens the file a reader is never ahead of it (`NeverAhead`).
* `RootsContained`, `NeighboursFindEveryOverlap`, `OverlapsAreReal`,
  `DeclarationOrderIrrelevant` (`SourceSelectionProofs`): in a list sorted by
  `Precedes` whatever lies between a path and one below it is below it as well
  (`PrefixBetween`), so that an overlap of any two shows in neighbours.
* `ReleaseTypeCorrect`, `RollbackAlwaysComplete`, `RestingAlwaysAgrees`,
  `SuccessAlwaysEvidenced`, `RemovesJustly` (`ReleaseWorkflowProofs`), for any
  versions, runs, lookups and lags below the lookups. `ReleaseInv` has twelve
  parts. `Receipts` says what a receipt stands for at each step, `ReleaseStands`
  and `TagStands` that what this run made is still there, `LagKept` that the
  lookups that may still miss a published version are fewer than those to come,
  from which `OnlyAbsentDeleted` follows: the step that deletes is reached only
  for a version that is not published. `Remembered`, `MajorBacked` and
  `ReleasesBacked` tie tag and releases to packages across runs, and
  `ChannelsKept` the channels to versions of their kind.
* `WalkStaysInside`, `WalkNeverCycles`, `WalkLimitHolds` (`DiscoveryWalkProofs`):
  whatever `realpath` answers and whatever others change, what is added was
  contained when it was added, a directory on the stack has been visited, and a
  reported limit is used up.
* `FoundOnce` (`DiscoveryWalkProofs`): `PathsInv` says that a path is ahead of the
  walk, in its hand, or found, and never two of these, and that a path found was
  taken from a directory that was visited. A directory is listed once, a name taken
  from its listing is not in it any more, and two directories have no path in
  common. No assumption on links or on what others do is needed.
* `MatcherCorrect` (`DiscoveryWalkProofs`): `Covers`, the cutting of a path into
  pieces, solves the recursion of the matcher (`CoversAnswers`), and the recursion
  has only one solution, by a least pattern and a least path for which they differ.
* `ExcludedStaysOut` (`DiscoveryWalkProofs`): `ExcludedInv` says that what is in
  hand or found has passed the rules of its root, and so has each directory on the
  stack and all that is above it below the root, unless the walk strayed.
  `RulesKeepOut` shows, by `MatcherCorrect`, that the rules of the code refuse
  whatever a pattern covers and all of the output directory.
* `NoneMissed` (`DiscoveryWalkProofs`): a scan that ends and does not report the
  limit has found each manifest that nobody touched and that it owes (`Expected`),
  whatever else others change and wherever other links lead. `MissedInv` says that
  such a path is ahead of the walk: as long as a directory on the way to it has
  been visited, the walk has the next step of that way in hand or still in the
  listing of a frame, or the manifest is found (`Met`), and of each root that
  leads to it the walk has begun or is still to begin (`Begun`). `RootedInv` ties
  what is walked to where its root leads. It rests on three lemmas:
  `RealIsStraight`, that `realpath` leaves a path alone to which plain directories
  lead, by a least segment at which it would not; `RulesSpare`, the converse of
  `RulesKeepOut`, that the rules refuse nothing but what `KeptOut` says; and that
  an untouched directory still lists its entry.
* `CallMakesProgress` (`ReportPublisherProofs`), `CompileMakesProgress`
  (`CatalogCompileProofs`), `ReadMakesProgress` (`BoundedReadProofs`),
  `WalkMakesProgress` (`DiscoveryWalkProofs`): the safety half of termination.
  Each names a natural number that every step of the program decreases and no step
  of anybody else changes, so that no infinite behaviour has infinitely many steps
  of the program, however others act. `CallsLeft` of the publisher counts the
  calls that its control flow still allows, the writes in flight and the entries
  to remove from the backup; that of the reader the bytes up to the limit, since a
  read without one is the end; `CompileLeft` the items to be taken and the workers
  that are busy; `StepsLeft` the directories not visited, each with the cost of a
  listing, the entries on the stack and the roots. The publisher's number assumes
  finitely many report names, the walk's finitely many paths: on a tree that
  others let grow without end a walk need not end. That a step of the program is
  possible until it has ended, and is taken, is the other half, and stays with
  TLC.
* `InvocationInvariant` (`InvocationProofs`) and from it `ExitCodeTruthful`,
  `OneDocument`, `ReportsAsAsked`, `ActionTruthful` and `RefusalsExact`. The
  invariant has seven parts: what is given stays (`GivenTyped`); before the scan
  there is a command line and a config file only (`Progress`); `args` is what
  `ParseArgs` makes of the command line (`ParsedRead`); the config is one of the
  states the file had, under the flags (`ConfigRead`); exit code and reports follow
  from the scan unless something failed (`ResultFollows`); there is one answer
  (`Answered`); the outputs are the result line by line (`OutputsFollow`). None
  of the properties follows from the step that ends an invocation alone. The
  long part of the proof is about the fold over tokens, for command lines of any
  length: once misused it stays so; otherwise each flag has the last value that
  was given and the formats are those that follow `--format`, which is what the
  properties read off the command line without the parser (`Uses`, `LastUse`,
  `FormatsAsked`); and the command line that the Action builds parses to its
  inputs. A string that is written out cannot be proved to be in `STRING` with
  these provers; the proofs therefore speak of `Words`, which adds the strings
  the module names, and assume nothing about them. `RefusalsExact` rests on
  `FaultyRefused`, which has one step for each string of the adapted manifest, and
  on what `toStableId` and `toOwnerRef` make of a text (`StableIdOf`,
  `OwnerRefOf`).

The assumptions are those the modules name. They say of which kind the constants
are, and for a few what the code relies on: `LimitsAssumption`, that limits are
natural numbers, as the constants of the code are; `ScenariosAssumption`, that
inputs and command lines are strings, that a config file is unreadable, broken or
a mapping whose fields have passed or failed the schema, and that a contract has
texts that are possible (`IsText`); `PathsAssumption`, that a
file lies below `/` and that whatever leads to a path is a path;
`RegistryAssumption`, as above.

Only model-checked: liveness (`EveryCallEnds`, `CompileEnds`, `ReadEnds`,
`WalkEnds`), which needs fairness and ENABLED; the theorems on progress are its
other half. Each invariant and each action property of the passing runs, and each
refinement, is a theorem. The type invariants are proved and not repeated in the
runs.

## Findings

1. `publisher_drop_error`: the backup is removed entry by entry after the swap.
   When that is refused on the way, the call throws (exit code 4) with the new
   generation in the output and a part of the previous one in the backup that it
   leaves; in the trace one report file of the previous generation is nowhere any
   more. `docs/architecture/02-runtime-flow.md:59` promises "preserve or restore
   the complete previous report generation" for an output error. The property
   admits both: the complete previous generation in the output or in the backup.
2. `compile_limits`: at the manifest limit, and for a manifest that is nested too
   deeply, the rest of the catalog stays in the snapshot.
   `docs/product/03-risk-register.md:70` says that resource failures discard the
   partial catalog.

3. `config_spread`: `mergeCliFlags` spreads the sections `scan`, `validation` and
   `output` of the config file before the schema sees them, so that a section that
   is a number, a Boolean, null or an empty list counts as an empty mapping, and
   the defaults apply. `docs/cli/output-and-exit-codes.md:69` says that config
   schema failures use `config.invalid`.

Observed, without a run: an aggregate limit on entries or extensions also drops
the diagnostics of single manifests (`scan.ts` 87-90); `relativePathFrom` skips
names that begin with two dots; overlapping `scan.roots` with different relative
excludes depend on their order; the default exclude patterns are anchored at the
root; a link to a file, when links are followed, yields the file twice; a ZDP
contract with the status `sunset` becomes a retired service without the
retirement that the schema asks for, and is refused; an id of 120 to 128
characters is a valid one, but the reference `${id}-contract` that the adapter
derives from it is too long and the contract is refused; the pattern for secrets
that begin with `sk-` is not anchored, so that it also matches kebab-case text such
as `risk-` or `task-` and 20 characters more, and `-contract` can be what makes
them 20 (`RefusesFaulty` lists these refusals); a directory that cannot be read gives exit code 5 where
`docs/architecture/02-runtime-flow.md:57` has 3, and the manifest limit gives exit
code 2 after scanning and publishing where line 56 has it before; a tag that is
released or rerun after a newer one moves the major tag and npm's `latest` back.

## Not modelled

Redaction, the pattern of secrets (where it is applied is modelled), the texts of
reports, messages, help and completion scripts, fields that no rule refuses, and
the measure of depth and entries of a value: pure, and within reach of tests. The
throw of `CatalogSnapshotSchema.parse` (`scan.ts` 157) for manifests whose relative
path has more than 512 characters. A config file that is rewritten in place while
it is read: open, stat and read of it are one step of `Invocation`, and
`BoundedRead` says what such a read may return. Windows paths and
case-insensitive file systems. Wildcards within a segment, which become one
regular expression. Of the release, provenance, signatures and smoke tests, which
ask external tools once; and the checks before its preflight, which change
nothing. The scripts that only run other tools, and the generated Action bundle.

## Plan

The plan was to begin with the publisher, as the only part that shares mutable
state with other processes, then the compiler with its pool, the reader, source
selection and discovery, then the matcher, the invocation around them and the
release workflow. All of it is done. What would come next, in this order:

1. The measure of nested values that YAML aliases share, against its definition
   as the longest path.
2. Rendering of the DOT graph: its nodes and edges against those of the snapshot.
