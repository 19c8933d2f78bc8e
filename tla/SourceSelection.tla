--------------------------- MODULE SourceSelection ---------------------------
(***************************************************************************)
(* Which directories are scanned, and by which adapter, when the           *)
(* configuration has sources: the lexical check of the roots in            *)
(* packages/schema/src/config.ts, then resolveDiscoverySources in          *)
(* packages/core/src/source-config.ts, which resolves every root on disk.  *)
(* "Every discovered manifest must belong to exactly one source", and the  *)
(* code shows it by comparing neighbours of a sort only.                   *)
(*                                                                         *)
(* Paths are those of PathPolicy; a segment is a number, ordered as the    *)
(* texts are.                                                              *)
(***************************************************************************)
EXTENDS Integers, SequencesExt, PathPolicy

CONSTANTS
  Segments,      \* names of directories
  Here, Up,      \* the segments "." and ".."
  Declarable,    \* what may be written as a root: sequences of the above
  MaxSources,    \* bound: how many sources a configuration has
  Cwd,           \* the workspace as the caller names it
  Workspace,     \* and resolved
  RealPaths,     \* what a root may resolve to, now that links may point anywhere
  Missing        \* a root that does not exist

ASSUME SegmentsAssumption == Segments \subseteq Nat /\ {Here, Up} \cap Segments = {}
ASSUME DeclarableAssumption == Declarable \subseteq Seq(Segments \cup {Here, Up})
ASSUME MaxSourcesAssumption == MaxSources \in Nat
ASSUME WorkspaceAssumption == {Cwd, Workspace} \subseteq Seq(Segments)
ASSUME RealPathsAssumption ==
  RealPaths \subseteq Seq(Segments) /\ Missing \notin RealPaths

VARIABLES
  declared,      \* config.sources: their roots as they are written
  pc,            \* "config", "resolve", "done", "rejected"
  resolved,      \* resolvedSources: [source, real] in the order of declaration
  sources,       \* the result: the same sorted
  reason         \* why the configuration is rejected

selectVars == <<declared, pc, resolved, sources, reason>>

\* Two neighbours of a list of paths overlap.
Neighbours(paths, Inside(_, _)) ==
  \E i \in 2..Len(paths) :
    Inside(paths[i - 1], paths[i]) \/ Inside(paths[i], paths[i - 1])

-----------------------------------------------------------------------------
(* The lexical check *)

Outside == <<Up>>

\* normalizeRelativeSourceRoot, segment by segment.
Normalize(root) ==
  LET Walk(path, segment) ==
        CASE path = Outside \/ segment = Here -> path
          [] segment = Up /\ path = <<>>      -> Outside
          [] segment = Up                     -> Front(path)
          [] OTHER                            -> Append(path, segment)
  IN FoldLeft(Walk, <<>>, root)

Lexical == [i \in DOMAIN declared |-> Normalize(declared[i])]
Escapes == \E i \in DOMAIN declared : Lexical[i] = Outside

Reject(why) ==
  pc' = "rejected" /\ reason' = why /\ UNCHANGED <<declared, resolved, sources>>

\* superRefine reports the roots that escape and the neighbours that overlap
\* among the others; whatever it reports ends the run.
ValidateConfig ==
  /\ pc = "config"
  /\ IF Escapes THEN Reject("config")
     ELSE \E p \in Sortings(Lexical) :
            IF Neighbours(Arranged(Lexical, p), IsPrefix)
            THEN Reject("config")
            ELSE pc' = "resolve" /\ UNCHANGED <<declared, resolved, sources, reason>>

-----------------------------------------------------------------------------
(* resolveDiscoverySources *)

Reals(known) == [i \in DOMAIN known |-> known[i].real]

\* Mutant: the sources stay in the order of declaration.
Decide_Unsorted(known) ==
  IF Neighbours(Reals(known), IsPathInside)
  THEN pc' = "rejected" /\ reason' = "overlap" /\ UNCHANGED sources
  ELSE pc' = "done" /\ sources' = known /\ UNCHANGED reason

OverlapFound(known, p) == Neighbours(Arranged(Reals(known), p), IsPathInside)

\* With the last root resolved, they are sorted and neighbours compared.
Decide(known) ==
  \E p \in Sortings(Reals(known)) :
    IF OverlapFound(known, p)
    THEN pc' = "rejected" /\ reason' = "overlap" /\ UNCHANGED sources
    ELSE pc' = "done" /\ sources' = Arranged(known, p) /\ UNCHANGED reason

\* Mutant: containment is only checked before links are resolved.
Refusal_LexicalOnly(root, real) ==
  CASE ~IsPathInside(Cwd, Cwd \o root)  -> "outside"
    [] real = Missing                   -> "missing"
    [] OTHER                            -> "none"

\* Why a root that resolves to real is refused.
Refusal(root, real) ==
  CASE ~IsPathInside(Cwd, Cwd \o root)  -> "outside"
    [] real = Missing                   -> "missing"
    [] real # Missing /\ ~IsPathInside(Workspace, real)
                                        -> "outside"
    [] OTHER                            -> "none"

Known(real) == Append(resolved, [source |-> Len(resolved) + 1, real |-> real])

\* The next root resolves to where it points at that moment.
Resolve(real) ==
  /\ pc = "resolve"
  /\ LET why == Refusal(Lexical[Len(resolved) + 1], real) IN
     IF why # "none" THEN Reject(why)
     ELSE /\ resolved' = Known(real)
          /\ UNCHANGED declared
          /\ IF Len(resolved) + 1 = Len(declared) THEN Decide(Known(real))
             ELSE UNCHANGED <<pc, sources, reason>>

SelectInit ==
  /\ declared \in UNION {[1..n -> Declarable] : n \in 1..MaxSources}
  /\ pc = "config"
  /\ resolved = <<>> /\ sources = <<>> /\ reason = "none"

SelectNext ==
  \/ ValidateConfig
  \/ \E real \in RealPaths \cup {Missing} : Resolve(real)
  \/ pc \in {"done", "rejected"} /\ UNCHANGED selectVars

SelectSpec == SelectInit /\ [][SelectNext]_selectVars

-----------------------------------------------------------------------------
(* Properties *)

Overlap(left, right) == IsPrefix(left, right) \/ IsPrefix(right, left)

SelectTypeOK ==
  /\ declared \in UNION {[1..n -> Declarable] : n \in 1..MaxSources}
  /\ pc \in {"config", "resolve", "done", "rejected"}
  /\ Len(resolved) <= Len(declared)
  /\ \A i \in DOMAIN resolved : resolved[i].source = i /\ resolved[i].real \in RealPaths
  /\ reason \in {"none", "config", "missing", "outside", "overlap"}

\* No root that is used lies outside of the workspace, wherever links lead.
Contained == \A i \in DOMAIN resolved : IsPrefix(Workspace, resolved[i].real)

\* Every manifest has one owner: no two sources share a directory, wherever
\* links had them resolve, although only neighbours are compared.
OneSchemaOwner ==
  pc = "done" => \A i, j \in DOMAIN sources :
    i # j => ~Overlap(sources[i].real, sources[j].real)

\* A run is rejected for an overlap only if two roots do overlap.
OverlapReal ==
  reason = "overlap" => \E i, j \in DOMAIN resolved :
    i # j /\ Overlap(resolved[i].real, resolved[j].real)

\* "Declaration order never changes catalog output": all sources are in the
\* result and their places are decided by their paths alone.
OrderIrrelevant ==
  pc = "done" =>
    /\ {sources[i] : i \in DOMAIN sources} = {resolved[i] : i \in DOMAIN resolved}
    /\ Len(sources) = Len(declared)
    /\ \A i, j \in DOMAIN sources : i < j =>
         /\ Precedes(sources[i].real, sources[j].real)
         /\ ~Precedes(sources[j].real, sources[i].real)
=============================================================================
