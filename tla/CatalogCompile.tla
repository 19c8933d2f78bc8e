---------------------------- MODULE CatalogCompile ----------------------------
(***************************************************************************)
(* compileCatalog (packages/core/src/scan.ts) from the result of discovery *)
(* to the catalog snapshot.                                                *)
(*                                                                         *)
(* Discovery has listed some manifests with the sizes it saw.  The parse   *)
(* pool reads the files later, while they may be edited, and everything    *)
(* after the pool is one synchronous step.  A path is a number, so that    *)
(* paths are ordered as localeCompare orders them; a file's contents are a *)
(* record of what the compiler tells apart.                                *)
(***************************************************************************)
EXTENDS ParsePool, SequencesExt

CONSTANTS
  Paths,         \* where a manifest may be: a set of numbers
  Contents,      \* what a manifest file may hold
  Gone,          \* no file at a path
  Nowhere,       \* the path of a diagnostic about the whole catalog
  MaxManifestBytes, MaxTotalManifestBytes, MaxObjectDepth,
  MaxCollectionEntries, MaxExtensionBytes,                \* config.limits
  MinimumServiceCount, AllowUnknownDependencies,          \* config.validation
  CloseFails,    \* whether closing a manifest's handle may be refused
  MaxEdits       \* how many files are edited after discovery

ASSUME PathsAssumption ==
  Paths \subseteq Nat /\ IsFiniteSet(Paths) /\ Nowhere \notin Paths
ASSUME ContentsAssumption ==
  /\ Gone \notin Contents
  /\ \A c \in Contents :
       /\ {c.size, c.depth, c.entries, c.extensionBytes} \subseteq Nat
       /\ {c.wellFormed, c.valid, c.reviewed} \subseteq BOOLEAN
       /\ \A d \in c.dependencies : d = [type |-> d.type, target |-> d.target]
ASSUME LimitsAssumption ==
  {MaxManifestBytes, MaxTotalManifestBytes, MaxObjectDepth,
   MaxCollectionEntries, MaxExtensionBytes} \subseteq Nat

VARIABLES
  disk,          \* disk[p]: the file at path p now
  found,         \* discovery.manifests: a sequence of [path, size]
  limitHit,      \* whether discovery gave up at the manifest limit
  pc,            \* "found", "pool", "done", "failed"
  snapshot,      \* the CatalogSnapshot
  edited         \* history: the files edited after discovery

compileVars == <<poolVars, disk, found, limitHit, pc, snapshot, edited>>

-----------------------------------------------------------------------------
(* parseManifestFile *)

Parsed(p, c) == [path |-> p, ok |-> TRUE, content |-> c]
Refused(p, code) == [path |-> p, ok |-> FALSE, code |-> code]
ParseOutcomes ==
  [path : Paths, ok : {TRUE}, content : Contents] \cup
  [path : Paths, ok : {FALSE},
   code : {"manifest.invalid_yaml", "resource.limit_exceeded"}]
ASSUME OutcomesAssumption == Outcomes = ParseOutcomes

\* Mutant: the size is the one discovery saw, so the file is read whatever
\* its size has become.
ParseManifestFile_NoSizeCheck(p) ==
  LET c == disk[p] IN
  IF c = Gone THEN Refused(p, "manifest.invalid_yaml")
  ELSE IF ~c.wellFormed THEN Refused(p, "manifest.invalid_yaml")
  ELSE IF c.depth > MaxObjectDepth THEN Refused(p, "resource.limit_exceeded")
  ELSE Parsed(p, c)

\* A file that cannot be opened, is too large now, or is not YAML; then one
\* that is nested too deeply.
ParseManifestFile(p) ==
  LET c == disk[p] IN
  IF c = Gone THEN Refused(p, "manifest.invalid_yaml")
  ELSE IF c.size > MaxManifestBytes \/ ~c.wellFormed
       THEN Refused(p, "manifest.invalid_yaml")
  ELSE IF c.depth > MaxObjectDepth THEN Refused(p, "resource.limit_exceeded")
  ELSE Parsed(p, c)

-----------------------------------------------------------------------------
(* The stages of compileCatalog after the pool *)

Diagnostic(severity, code, path) ==
  [severity |-> severity, code |-> code, path |-> path]
LimitExceeded == Diagnostic("error", "resource.limit_exceeded", Nowhere)
CountExceeded == Diagnostic("error", "config.invalid", Nowhere)

\* The total of a function's values.
Total(f) == FoldFunction(LAMBDA v, total : v + total, 0, f)

InputBudgetExceeded ==
  Total([i \in DOMAIN found |-> found[i].size]) > MaxTotalManifestBytes

Outcome == {results[i] : i \in 1..count}
Readable == {o \in Outcome : o.ok}

CollectionBudgetExceeded ==
  Total([o \in Readable |-> o.content.entries]) > MaxCollectionEntries

\* The validation loop is left at once when the budget is exceeded.
Validated ==
  {o \in Readable : o.content.valid /\ ~CollectionBudgetExceeded}

\* Mutant: only manifests that could be parsed reach the validation loop.
Invalid_ReadableOnly ==
  {Diagnostic("error", "manifest.invalid", o.path) :
      o \in {o \in Readable : ~CollectionBudgetExceeded /\ ~o.content.valid}}

Invalid ==
  IF CollectionBudgetExceeded THEN {}
  ELSE {Diagnostic("error", o.code, o.path) : o \in Outcome \ Readable}
       \cup {Diagnostic("error", "manifest.invalid", o.path) :
               o \in {o \in Readable : ~o.content.valid}}

ExtensionBudgetExceeded ==
  Total([o \in Validated |-> o.content.extensionBytes]) > MaxExtensionBytes

\* validatedManifests.length = 0
Normalized == IF ExtensionBudgetExceeded THEN {} ELSE Validated

\* isolateDuplicateServiceIds: no manifest wins.
IsDuplicate(o) ==
  \E other \in Normalized : other # o /\ other.content.id = o.content.id

\* Mutant: the first manifest by path keeps the id.
Services_FirstWins ==
  {o \in Normalized : \A other \in Normalized :
     other.content.id = o.content.id => o.path <= other.path}

Services == {o \in Normalized : ~IsDuplicate(o)}
Duplicates ==
  {Diagnostic("error", "manifest.duplicate_id", o.path) :
      o \in {o \in Normalized : IsDuplicate(o)}}

\* Mutant: the ids are collected before duplicates are isolated.
KnownServiceIds_All == {o.content.id : o \in Normalized}

KnownServiceIds == {o.content.id : o \in Services}

Reviews ==
  {Diagnostic("warning", "metadata.stale_review", o.path) :
      o \in {o \in Services : ~o.content.reviewed}}

IsUnknown(d) == d.type = "service" /\ d.target \notin KnownServiceIds
UnknownDependencies ==
  IF AllowUnknownDependencies THEN {}
  ELSE {Diagnostic("error", "dependency.unknown_target", o.path) :
          o \in {o \in Services : \E d \in o.content.dependencies : IsUnknown(d)}}

TooFewServices == Cardinality(Services) < MinimumServiceCount

Diagnostics ==
  Invalid \cup Duplicates \cup Reviews \cup UnknownDependencies
  \cup (IF limitHit THEN {CountExceeded} ELSE {})
  \cup (IF InputBudgetExceeded \/ CollectionBudgetExceeded
           \/ ExtensionBudgetExceeded THEN {LimitExceeded} ELSE {})
  \cup (IF TooFewServices
        THEN {Diagnostic("error", "catalog.minimum_service_count", Nowhere)}
        ELSE {})

\* buildGraphEdges collects the known ids anew.
Resolution(d) ==
  IF d.type # "service" THEN "external"
  ELSE IF d.target \in {o.content.id : o \in Services} THEN "catalog"
  ELSE "unresolved"
GraphEdges ==
  UNION {{[source |-> o.content.id, target |-> d.target, type |-> d.type,
           resolution |-> Resolution(d)] : d \in o.content.dependencies}
         : o \in Services}

NoSnapshot == [services |-> {}, diagnostics |-> {}, edges |-> {}]

-----------------------------------------------------------------------------
(* The steps *)

Present == {p \in Paths : disk[p] # Gone}

\* Discovery returns every manifest there is, or as many as the limit allows,
\* in the order of their paths and with the sizes it saw.
CompileInit ==
  /\ disk \in [Paths -> Contents \cup {Gone}]
  /\ limitHit = (Cardinality(Present) > MaxItems)
  /\ \E order \in [1..(IF limitHit THEN MaxItems ELSE Cardinality(Present)) -> Present] :
       /\ \A i, j \in DOMAIN order : i < j => order[i] < order[j]
       /\ found = [i \in DOMAIN order |->
                     [path |-> order[i], size |-> disk[order[i]].size]]
  /\ pc = "found"
  /\ snapshot = NoSnapshot
  /\ edited = {}
  /\ PoolInit

\* Somebody edits, adds or deletes a manifest after discovery.
Edit(p, c) ==
  /\ p \notin edited /\ Cardinality(edited) < MaxEdits
  /\ pc \in {"found", "pool"}
  /\ c # disk[p]
  /\ disk' = [disk EXCEPT ![p] = c]
  /\ edited' = edited \cup {p}
  /\ UNCHANGED <<poolVars, found, limitHit, pc, snapshot>>

\* The sizes discovery saw decide whether the files are parsed at all.
ParseAll ==
  /\ pc = "found"
  /\ pc' = "pool"
  /\ Start(IF InputBudgetExceeded THEN 0 ELSE Len(found))
  /\ UNCHANGED <<disk, found, limitHit, snapshot, edited>>

\* Worker k reads and parses its manifest as it is now.
ParseOne(k) ==
  /\ at[k] # 0
  /\ Finish(k, ParseManifestFile(found[at[k]].path))
  /\ UNCHANGED <<disk, found, limitHit, pc, snapshot, edited>>

\* handle.close() rejects in the finally block of parseManifestFile.
ParseRejects(k) ==
  /\ CloseFails
  /\ Fail(k)
  /\ UNCHANGED <<disk, found, limitHit, pc, snapshot, edited>>

\* The stages after the pool, which no await interrupts.
Assemble ==
  /\ pc = "pool" /\ settled = "resolved"
  /\ pc' = "done"
  /\ snapshot' = [services |-> Services, diagnostics |-> Diagnostics,
                  edges |-> GraphEdges]
  /\ UNCHANGED <<poolVars, disk, found, limitHit, edited>>

\* Mutant: nobody awaits the rejected promise.
CompileRejects_Swallowed ==
  pc = "pool" /\ settled = "rejected" /\ UNCHANGED compileVars

\* The rejection of the pool is the rejection of compileCatalog.
CompileRejects ==
  /\ pc = "pool" /\ settled = "rejected"
  /\ pc' = "failed"
  /\ UNCHANGED <<poolVars, disk, found, limitHit, snapshot, edited>>

Compile ==
  \/ ParseAll \/ Assemble \/ CompileRejects
  \/ \E k \in Workers : ParseOne(k) \/ ParseRejects(k)

CompileNext ==
  \/ Compile
  \/ \E p \in Paths, c \in Contents \cup {Gone} : Edit(p, c)
  \/ pc \in {"done", "failed"} /\ UNCHANGED compileVars

CompileSpec == CompileInit /\ [][CompileNext]_compileVars
FairCompileSpec == CompileSpec /\ WF_compileVars(Compile)

-----------------------------------------------------------------------------
(* Properties *)

Errors == {d \in snapshot.diagnostics : d.severity = "error"}
Records == {o.path : o \in snapshot.services}

CompileTypeOK ==
  /\ PoolTypeOK
  /\ disk \in [Paths -> Contents \cup {Gone}]
  /\ \A i \in DOMAIN found : found[i].path \in Paths /\ found[i].size \in Nat
  /\ limitHit \in BOOLEAN
  /\ pc \in {"found", "pool", "done", "failed"}
  /\ snapshot.services \subseteq ParseOutcomes
  /\ edited \subseteq Paths

\* No manifest is lost in silence: each one that was discovered is either a
\* record of the catalog or has an error of its own, and never both, unless
\* an error about the whole catalog explains why all records are gone.
AccountedFor ==
  pc = "done" => \A i \in DOMAIN found :
    \/ (found[i].path \in Records)
         # (\E d \in Errors : d.path = found[i].path /\ d.code # "dependency.unknown_target")
    \/ LimitExceeded \in Errors /\ Records = {}

\* Graph, records and diagnostics agree, although three stages look the ids up
\* separately: an edge is resolved if and only if its target is a record; a
\* record's edges are its dependencies; and the manifests that are reported are
\* those whose id is the source of an unresolved edge.
GraphAgrees ==
  pc = "done" =>
    LET ids == {o.content.id : o \in snapshot.services}
        Unresolved(e) == e.type = "service" /\ e.target \notin ids
    IN
    /\ \A e \in snapshot.edges :
         /\ e.resolution = "catalog" <=> e.type = "service" /\ e.target \in ids
         /\ e.resolution = "unresolved" <=> Unresolved(e)
    /\ \A o \in snapshot.services :
         /\ {[type |-> e.type, target |-> e.target] :
               e \in {e \in snapshot.edges : e.source = o.content.id}} = o.content.dependencies
         /\ (\E e \in Errors : e.path = o.path /\ e.code = "dependency.unknown_target")
              <=> /\ ~AllowUnknownDependencies
                  /\ \E e \in snapshot.edges : e.source = o.content.id /\ Unresolved(e)

\* The budgets hold for what is in the catalog, not only for what was found:
\* file by file and for the entries and extensions in total, whatever was
\* edited; for the total of bytes unless a file was edited after discovery.
BudgetsHold ==
  /\ \A o \in snapshot.services :
       o.content.size <= MaxManifestBytes /\ o.content.depth <= MaxObjectDepth
  /\ Total([o \in snapshot.services |-> o.content.entries]) <= MaxCollectionEntries
  /\ Total([o \in snapshot.services |-> o.content.extensionBytes]) <= MaxExtensionBytes
  /\ edited = {} => Total([o \in snapshot.services |-> o.content.size]) <= MaxTotalManifestBytes

\* Without edits the result depends on the files alone, not on the order in
\* which the workers finish: a manifest is a record just if it is sound and has
\* an id of its own among the sound ones, it is reported as a duplicate just if
\* another sound one has its id, and no budget is exceeded.
Sound(p) ==
  /\ disk[p].size <= MaxManifestBytes /\ disk[p].wellFormed
  /\ disk[p].depth <= MaxObjectDepth /\ disk[p].valid
Determined ==
  pc = "done" /\ edited = {} /\ LimitExceeded \notin Errors =>
    LET sound == {p \in {found[i].path : i \in DOMAIN found} : Sound(p)}
        rivals == {p \in sound : \E q \in sound : q # p /\ disk[q].id = disk[p].id}
    IN /\ Records = sound \ rivals
       /\ {e.path : e \in {e \in Errors : e.code = "manifest.duplicate_id"}} = rivals

\* A compilation ends, although files change and closing them is refused.
CompileEnds == <>(pc \in {"done", "failed"})

\* The risk register: "Resource failures discard the partial catalog."
ResourceFailureDiscards ==
  CountExceeded \in Errors \/ (\E d \in Errors : d.code = "resource.limit_exceeded")
    => snapshot.services = {}
=============================================================================
