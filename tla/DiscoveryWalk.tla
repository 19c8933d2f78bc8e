---------------------------- MODULE DiscoveryWalk ----------------------------
(***************************************************************************)
(* discoverManifestFiles and walkDirectory in                              *)
(* packages/core/src/discovery.ts: the walk over the scan roots that finds *)
(* the manifests.  The recursion is a stack of frames.  Every lstat, stat, *)
(* realpath and readdir is awaited, so that a path is used long after it   *)
(* was looked at, while others add, delete, replace and relink what is     *)
(* there.                                                                  *)
(*                                                                         *)
(* The file system gives each path a thing; what lies below a path that is *)
(* no directory cannot be reached.                                         *)
(***************************************************************************)
EXTENDS Integers, SequencesExt, FiniteSets, PathPolicy

CONSTANTS
  Paths,            \* all paths but "/"; names are numbers, in the order of the sort
  Cwd,              \* the workspace, which is no link
  ManifestNames,
  OutputDirectory,
  Scans             \* the scans to choose from, see ScansAssumption

\* A scan has its roots; whether SourceSelection has resolved them already;
\* whether links are followed; the patterns of what is excluded, whose segments
\* are the sets of the names that match, or AnyDepth; the limit; the tree at
\* first; the directories that cannot be listed; what others may put in the
\* place of something and, as a bound, of how many paths.
IsThing(thing) ==
  /\ thing.kind \in {"none", "dir", "file", "link"}
  /\ thing.kind = "link" => thing.to \in Seq(Nat)

ASSUME ScansAssumption ==
  \A s \in Scans :
    /\ s.roots \in Seq(Paths)
    /\ {s.resolved, s.followSymlinks} \subseteq BOOLEAN
    /\ s.excluded \subseteq Seq(SUBSET Int)
    /\ {s.maxManifests, s.maxTouched} \subseteq Nat
    /\ DOMAIN s.tree = Paths /\ s.locked \subseteq Paths
    /\ \A thing \in s.things : IsThing(thing)
    /\ \A p \in Paths : IsThing(s.tree[p])

\* Whatever leads to a path is a path.
ASSUME PathsAssumption ==
  /\ Paths \subseteq Seq(Nat) \ {<<>>}
  /\ \A p \in Paths : \A n \in 1..Len(p) : SubSeq(p, 1, n) \in Paths
  /\ {Cwd, OutputDirectory} \subseteq Seq(Nat)

VARIABLES
  fs,               \* the file system
  scan,             \* the options and sources
  next,             \* the number of the root whose walk is under way or next
  rootRealPath,
  pc,               \* the call that is awaited: "root", "enter", "list", "lstat",
                    \* "stat", "real"; "loop" between two; "done", "failed"
  path,             \* its argument
  stack,            \* the directories that are being walked: [directory, entries]
  visitedDirectories,
  manifests,        \* [absolutePath, realPath, root]
  outside,          \* the paths reported to lie outside of their root
  limited,          \* whether the limit is reported
  touched,          \* history: the paths that others changed
  walked,           \* history: where the roots that were walked lead
  strayed           \* history: whether a directory that was entered led to
                    \* another one in the same root

fileVars == <<fs, scan, touched, strayed>>
frameVars == <<next, rootRealPath, walked, stack>>
foundVars == <<visitedDirectories, manifests, outside, limited>>
walkVars == <<fileVars, frameVars, foundVars, pc, path>>

-----------------------------------------------------------------------------
(* The file system *)

Absent == [kind |-> "none"]
Directory == [kind |-> "dir"]
File == [kind |-> "file"]
Link(target) == [kind |-> "link", to |-> target]

Places == Paths \cup {<<>>}
Nowhere == <<-1>>
MaxLinks == 3

IsDirectory(p) == p = <<>> \/ (p \in Paths /\ fs[p] = Directory)

\* realpath: what rest, below the directory at, leads to through at most a
\* number of links.
Ways == [links : 0..MaxLinks, at : Places, rest : Seq(Nat)]
RealThrough[way \in Ways] ==
  LET here == Append(way.at, Head(way.rest))
      below == Tail(way.rest) IN
  IF way.rest = <<>> THEN way.at
  ELSE IF ~IsDirectory(way.at) \/ here \notin Paths \/ fs[here] = Absent THEN Nowhere
  ELSE IF fs[here].kind # "link"
  THEN RealThrough[[links |-> way.links, at |-> here, rest |-> below]]
  ELSE IF way.links = 0 THEN Nowhere
  ELSE RealThrough[[links |-> way.links - 1, at |-> <<>>, rest |-> fs[here].to \o below]]

Real(p) == RealThrough[[links |-> MaxLinks, at |-> <<>>, rest |-> p]]

\* lstat follows links but for the last segment.
Lstat(p) ==
  LET parent == IF Len(p) = 1 THEN <<>> ELSE Real(Front(p)) IN
  IF IsDirectory(parent) /\ Append(parent, Last(p)) \in Paths
  THEN fs[Append(parent, Last(p))] ELSE Absent

Names(directory) ==
  {Last(p) : p \in {q \in Paths : Front(q) = directory /\ fs[q] # Absent}}

-----------------------------------------------------------------------------
(* Exclusion *)

Relative(root, p) == SubSeq(p, Len(root) + 1, Len(p))

AnyDepth == {-1}   \* "**"

\* Mutant: "**" stands for one segment at least.
Starts_Later(segments) == 1..Len(segments)

\* How many segments "**" may stand for.
Starts(segments) == 0..Len(segments)

\* matchGlobSegmentAt, whose memo is left out.
MatchGlobSegments[pattern \in Seq(SUBSET Int)] ==
  [segments \in Seq(Nat) |->
     IF pattern = <<>> THEN segments = <<>>
     ELSE IF Head(pattern) = AnyDepth
     THEN \/ Len(pattern) = 1
          \/ \E n \in Starts(segments) :
               MatchGlobSegments[Tail(pattern)][SubSeq(segments, n + 1, Len(segments))]
     ELSE /\ segments # <<>> /\ Head(segments) \in Head(pattern)
          /\ MatchGlobSegments[Tail(pattern)][Tail(segments)]]

\* createExcludeRules adds all that is below the output directory.
ExcludeRules(root) ==
  LET output == Relative(root, OutputDirectory) IN
  scan.excluded \cup
  {rule \in {Append([i \in DOMAIN output |-> {output[i]}], AnyDepth)} :
     root # OutputDirectory /\ IsPathInside(root, OutputDirectory)}

ShouldExclude(root, p) ==
  \E rule \in ExcludeRules(root) : MatchGlobSegments[rule][Relative(root, p)]

-----------------------------------------------------------------------------
(* The walk *)

WalkInit ==
  /\ scan \in Scans /\ fs = scan.tree
  /\ next = 1 /\ rootRealPath = Nowhere
  /\ pc = "root" /\ path = Nowhere /\ stack = <<>>
  /\ visitedDirectories = {} /\ manifests = <<>> /\ outside = {} /\ limited = FALSE
  /\ touched = {} /\ walked = {} /\ strayed = FALSE

Awaits(call, p) == pc' = call /\ path' = p
Loops == Awaits("loop", Nowhere)
Reports(p) == outside' = outside \cup {p}
                /\ UNCHANGED <<visitedDirectories, manifests, limited>>

RootPath == IF scan.resolved THEN scan.roots[next] ELSE Real(scan.roots[next])

\* Mutants: each root has a set of visited directories of its own; a root
\* that is left out is tried again.
EnterRoot_OwnSet ==
  /\ rootRealPath' = RootPath /\ Awaits("enter", RootPath)
  /\ walked' = walked \cup {RootPath} /\ visitedDirectories' = {}
  /\ UNCHANGED <<next, stack, manifests, outside, limited>>
LeaveOutRoot_Again ==
  Reports(scan.roots[next]) /\ UNCHANGED <<frameVars, pc, path>>

EnterRoot ==
  /\ rootRealPath' = RootPath /\ Awaits("enter", RootPath)
  /\ walked' = walked \cup {RootPath}
  /\ UNCHANGED <<next, stack, foundVars>>
LeaveOutRoot ==
  /\ Reports(scan.roots[next]) /\ next' = next + 1
  /\ UNCHANGED <<rootRealPath, walked, stack, pc, path>>

\* The next root is resolved and entered, unless it leads elsewhere.
BeginRoot ==
  /\ pc = "root" /\ next <= Len(scan.roots)
  /\ IF /\ RootPath \in Places
        /\ IsPathInside(Cwd, scan.roots[next]) /\ IsPathInside(Cwd, RootPath)
     THEN EnterRoot ELSE LeaveOutRoot
  /\ UNCHANGED fileVars

\* discoverManifestFiles returns, with the manifests sorted by their paths.
SortAndReturn ==
  /\ pc = "root" /\ next > Len(scan.roots)
  /\ Awaits("done", Nowhere)
  /\ \E p \in Sortings([i \in DOMAIN manifests |-> manifests[i].realPath]) :
       manifests' = Arranged(manifests, p)
  /\ UNCHANGED <<fileVars, frameVars, visitedDirectories, outside, limited>>

\* Mutants: the path that was looked at is compared; the limit is off by one.
Contained_Lexical(real) == real \in Places /\ IsPathInside(rootRealPath, path)
Full_OffByOne == Len(manifests) > scan.maxManifests

Contained(real) == real \in Places /\ IsPathInside(rootRealPath, real)
Full == Len(manifests) >= scan.maxManifests
Skips == Reports(path) /\ UNCHANGED stack

\* Mutants: a directory is marked when one below it is entered; one that is left
\* out is marked, too.
Visits_Late(real) ==
  visitedDirectories' = visitedDirectories \cup {stack[i].directory : i \in DOMAIN stack}
StaysOut_Marked(real) ==
  /\ visitedDirectories' = visitedDirectories \cup {real}
  /\ outside' = outside \cup {path} /\ UNCHANGED <<manifests, limited>>

Visits(real) == visitedDirectories' = visitedDirectories \cup {real}
StaysOut(real) == Reports(path)

\* walkDirectory begins: nothing is walked twice, nor outside of the root.
EnterDirectory ==
  /\ pc = "enter"
  /\ LET real == Real(path) IN
     IF real = Nowhere \/ real \in visitedDirectories
     THEN Loops /\ UNCHANGED foundVars
     ELSE IF ~Contained(real) THEN Loops /\ StaysOut(real)
     ELSE /\ Awaits("list", real) /\ Visits(real)
          /\ UNCHANGED <<manifests, outside, limited>>
  /\ strayed' = (strayed \/ (pc' = "list" /\ path' # path))
  /\ UNCHANGED <<fs, scan, touched, frameVars>>

\* A call that throws ends the walk of everything.
Throws == Awaits("failed", Nowhere) /\ UNCHANGED stack

ListDirectory ==
  /\ pc = "list"
  /\ LET real == Real(path) IN
     IF IsDirectory(real) /\ real \notin scan.locked
     THEN /\ stack' = Append(stack, [directory |-> path,
                                     entries |-> Names(real)])
          /\ Loops
     ELSE Throws
  /\ UNCHANGED <<fileVars, foundVars, next, rootRealPath, walked>>

Excluded(entry) == ShouldExclude(rootRealPath, entry)

\* The next entry of the directory on top, in the order of their names;
\* without one, walkDirectory returns.
NextEntry ==
  /\ pc = "loop" /\ stack # <<>>
  /\ LET top == Last(stack) IN
     \/ top.entries = {} /\ stack' = Front(stack) /\ UNCHANGED <<pc, path>>
     \/ \E name \in top.entries :
          /\ \A other \in top.entries : name <= other
          /\ stack' = [stack EXCEPT ![Len(stack)].entries = @ \ {name}]
          /\ LET entry == Append(top.directory, name) IN
             IF Excluded(entry) THEN UNCHANGED <<pc, path>> ELSE Awaits("lstat", entry)
  /\ UNCHANGED <<fileVars, foundVars, next, rootRealPath, walked>>

EndRoot ==
  /\ pc = "loop" /\ stack = <<>>
  /\ next' = next + 1 /\ Awaits("root", Nowhere)
  /\ UNCHANGED <<fileVars, foundVars, rootRealPath, walked, stack>>

\* What is done with an entry, by what it is.
Examine(thing) ==
  CASE thing = Directory                               -> Awaits("enter", path)
    [] thing = File /\ Last(path) \in ManifestNames    -> Awaits("real", path)
    [] OTHER                                           -> Loops

LstatEntry ==
  /\ pc = "lstat"
  /\ CASE Lstat(path) = Absent      -> Throws
       [] Lstat(path).kind = "link" -> /\ IF scan.followSymlinks THEN Awaits("stat", path)
                                                            ELSE Loops
                                       /\ UNCHANGED stack
       [] OTHER                     -> Examine(Lstat(path)) /\ UNCHANGED stack
  /\ UNCHANGED <<fileVars, foundVars, next, rootRealPath, walked>>

StatEntry ==
  /\ pc = "stat"
  /\ IF Real(path) = Nowhere THEN Throws ELSE Examine(fs[Real(path)]) /\ UNCHANGED stack
  /\ UNCHANGED <<fileVars, foundVars, next, rootRealPath, walked>>

\* The file is found; beyond the limit the directory is left, while those
\* that contain it go on.
AddManifest ==
  /\ pc = "real" /\ Loops
  /\ IF ~Contained(Real(path)) THEN Skips
     ELSE IF Full
     THEN /\ limited' = TRUE /\ stack' = Front(stack)
          /\ UNCHANGED <<visitedDirectories, manifests, outside>>
     ELSE /\ manifests' = Append(manifests, [absolutePath |-> path, realPath |-> Real(path),
                                             root |-> rootRealPath])
          /\ UNCHANGED <<visitedDirectories, outside, limited, stack>>
  /\ UNCHANGED <<fileVars, next, rootRealPath, walked>>

\* Others put something in the place of what a path has.
Change(p, thing) ==
  /\ pc \notin {"done", "failed"} /\ fs[p] # thing
  /\ Cardinality(touched \cup {p}) <= scan.maxTouched
  /\ fs' = [fs EXCEPT ![p] = thing]
  /\ touched' = touched \cup {p}
  /\ UNCHANGED <<scan, strayed, frameVars, foundVars, pc, path>>

Walk ==
  \/ BeginRoot \/ SortAndReturn \/ EnterDirectory \/ ListDirectory
  \/ NextEntry \/ EndRoot \/ LstatEntry \/ StatEntry \/ AddManifest

WalkNext ==
  \/ Walk
  \/ \E p \in Paths, thing \in scan.things : Change(p, thing)
  \/ pc \in {"done", "failed"} /\ UNCHANGED walkVars

WalkSpec == WalkInit /\ [][WalkNext]_walkVars
\* Every call returns.
FairWalkSpec == WalkSpec /\ WF_walkVars(Walk)

-----------------------------------------------------------------------------
(* Properties *)

WalkTypeOK ==
  /\ DOMAIN fs = Paths /\ scan \in Scans /\ next \in 1..Len(scan.roots) + 1
  /\ pc \in {"root", "enter", "list", "lstat", "stat", "real", "loop", "done", "failed"}
  /\ path = Nowhere <=> pc \in {"root", "loop", "done", "failed"}
  /\ visitedDirectories \subseteq Places /\ outside \subseteq Paths
  /\ \A i \in DOMAIN stack : stack[i].directory \in visitedDirectories
  /\ {limited, strayed} \subseteq BOOLEAN

\* Whatever is replaced or linked elsewhere during the walk, what it finds was
\* in its root, and the root in the workspace.
FoundInside ==
  \A i \in DOMAIN manifests : /\ IsPathInside(Cwd, manifests[i].root)
                              /\ IsPathInside(manifests[i].root, manifests[i].realPath)

\* No file is found twice where it lies, although roots overlap, links lead
\* from one place to another and what was walked is replaced.
OncePerFile ==
  \A i, j \in DOMAIN manifests :
    /\ manifests[i].realPath = manifests[j].realPath
    /\ \A m \in {manifests[i], manifests[j]} : m.absolutePath = m.realPath
    => i = j

\* No directory is on the stack twice, wherever links lead: the recursion is
\* no deeper than the directories there are.
NoCycle ==
  \A i, j \in DOMAIN stack : stack[i].directory = stack[j].directory => i = j

\* The limit holds, and is reported only if it is used up.
WithinLimit ==
  Len(manifests) <= scan.maxManifests /\ (limited => Len(manifests) = scan.maxManifests)

\* A pattern covers a path if the path can be cut into as many pieces as the
\* pattern has segments, each a name that matches or, for "**", anything.
Covers(pattern, segments) ==
  \E cut \in [0..Len(pattern) -> 0..Len(segments)] :
    /\ cut[0] = 0 /\ cut[Len(pattern)] = Len(segments)
    /\ \A i \in DOMAIN pattern :
         IF pattern[i] = AnyDepth THEN cut[i - 1] <= cut[i]
         ELSE cut[i] = cut[i - 1] + 1 /\ segments[cut[i]] \in pattern[i]

\* What a scan of a root is to keep out.
KeptOut(root, p) ==
  \/ root # OutputDirectory /\ IsPathInside(root, OutputDirectory) /\ IsPrefix(OutputDirectory, p)
  \/ \E pattern \in scan.excluded : Covers(pattern, Relative(root, p))

\* p and what leads to it are as they were at first.
Untouched(p) == \A q \in touched : ~IsPrefix(q, p)

\* p is a manifest that a scan of a root ought to find: directories lead to
\* it from one, and none that was walked keeps it out.  A root that is a link
\* is walked where it leads, and there its patterns apply.
Expected(p) ==
  /\ fs[p] = File /\ Last(p) \in ManifestNames
  /\ \A q \in Paths : IsStrictPrefix(q, p) => fs[q] = Directory
  /\ \E i \in DOMAIN scan.roots : IsPathInside(Cwd, scan.roots[i]) /\ IsStrictPrefix(scan.roots[i], p)
  /\ \A root \in walked : IsStrictPrefix(root, p) =>
       \A q \in Paths : IsStrictPrefix(root, q) /\ IsPrefix(q, p) => ~KeptOut(root, q)

\* Whatever happens elsewhere, a manifest that nobody touches is found by a
\* scan that ends, or the scan is reported to be cut short.
NothingMissed ==
  pc = "done" => \A p \in Paths :
    Expected(p) /\ Untouched(p) =>
      limited \/ \E i \in DOMAIN manifests : manifests[i].realPath = p

\* A scan that ends has found no manifest that its patterns cover from the root it
\* was found in, nor output; nor one below what they cover, unless links lead
\* around.
ExclusionKept == pc = "done" =>
  \A i \in DOMAIN manifests :
    LET root == manifests[i].root
        found == manifests[i].absolutePath
    IN \A n \in Len(root) + 1 .. Len(found) :
         n = Len(found) \/ ~strayed => ~KeptOut(root, SubSeq(found, 1, n))

\* The walk ends, also where links form a cycle.
WalkEnds == <>(pc \in {"done", "failed"})
=============================================================================
