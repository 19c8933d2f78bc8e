------------------------ MODULE SourceSelectionProofs ------------------------
(***************************************************************************)
(* What TLAPS proves about SourceSelection for all paths and any number of *)
(* sources: comparing the neighbours of a sort by comparePathHierarchy     *)
(* finds every overlap, so that each manifest has one owner.               *)
(***************************************************************************)
EXTENDS SourceSelection, FiniteSetTheorems, DataLemmas

-----------------------------------------------------------------------------
(* The order of paths *)

\* The order of paths with all its terms spelled out.
LEMMA PrecedesPointwise ==
  ASSUME NEW a \in Seq(Nat), NEW b \in Seq(Nat), Precedes(a, b)
  PROVE  \/ IsPrefix(a, b)
         \/ \E i \in Nat \ {0} : /\ i <= Len(a) /\ i <= Len(b) /\ a[i] < b[i]
                                 /\ \A j \in 1..i - 1 : a[j] = b[j]
<1>1. DOMAIN a = 1..Len(a) /\ DOMAIN b = 1..Len(b)
        /\ Len(a) \in Nat /\ Len(b) \in Nat
  BY LenProperties
<1>2. CASE IsPrefix(a, b)
  BY <1>2
<1>3. CASE ~IsPrefix(a, b)
  <2>1. PICK i \in DOMAIN a \cap DOMAIN b :
          a[i] < b[i] /\ \A j \in 1..i - 1 : a[j] = b[j]
    BY <1>3 DEF Precedes
  <2>2. i \in Nat \ {0} /\ i <= Len(a) /\ i <= Len(b)
    BY <1>1
  <2> QED BY <2>1, <2>2
<1> QED BY <1>2, <1>3

\* What lies between a path and one below it is below it, too.
LEMMA PrefixBetween ==
  ASSUME NEW a \in Seq(Nat), NEW b \in Seq(Nat), NEW c \in Seq(Nat),
         Precedes(a, b), Precedes(b, c), IsPrefix(a, c)
  PROVE  IsPrefix(a, b)
<1> SUFFICES ASSUME ~IsPrefix(a, b) PROVE FALSE
  OBVIOUS
<1>1. Len(a) \in Nat /\ Len(b) \in Nat /\ Len(c) \in Nat
  BY LenProperties
<1>2. PICK d \in Nat \ {0} : /\ d <= Len(a) /\ d <= Len(b) /\ a[d] < b[d]
                             /\ \A j \in 1..d - 1 : a[j] = b[j]
  BY PrecedesPointwise
<1>3. Len(a) <= Len(c) /\ \A i \in 1..Len(a) : a[i] = c[i]
  BY PrefixPointwise
<1>4. d \in 1..Len(a) /\ d \in 1..Len(b) /\ d \in 1..Len(c)
  BY <1>1, <1>2, <1>3
<1>5. a[d] \in Nat /\ b[d] \in Nat /\ c[d] = a[d]
  BY <1>3, <1>4, ElementOfSeq
<1>6. CASE IsPrefix(b, c)
  <2>1. b[d] = c[d]
    BY <1>4, <1>6, PrefixPointwise
  <2> QED BY <1>2, <1>5, <2>1
<1>7. CASE ~IsPrefix(b, c)
  <2>1. PICK e \in Nat \ {0} : /\ e <= Len(b) /\ e <= Len(c) /\ b[e] < c[e]
                               /\ \A j \in 1..e - 1 : b[j] = c[j]
    BY <1>7, PrecedesPointwise
  <2>2. e \in 1..Len(b) /\ b[e] \in Nat
    BY <1>1, <2>1, ElementOfSeq
  <2>3. CASE e < d
    <3>1. e \in 1..d - 1 /\ e \in 1..Len(a)
      BY <1>1, <1>2, <2>1, <2>3
    <3>2. a[e] = b[e] /\ a[e] = c[e]
      BY <1>2, <1>3, <3>1
    <3> QED BY <2>1, <2>2, <3>2
  <2>4. CASE e = d
    <3>1. a[d] < b[d] /\ b[d] < c[d] /\ c[d] = a[d]
      BY <1>2, <1>5, <2>1, <2>4
    <3> QED BY <1>5, <3>1
  <2>5. CASE e > d
    <3>1. d \in 1..e - 1
      BY <2>1, <2>5
    <3>2. b[d] = c[d]
      BY <2>1, <3>1
    <3> QED BY <1>2, <1>5, <3>2
  <2> QED BY <2>1, <2>3, <2>4, <2>5
<1> QED BY <1>6, <1>7

\* A path does not come before one that it is below of, unless they are equal.
LEMMA PrefixBack ==
  ASSUME NEW a \in Seq(Nat), NEW b \in Seq(Nat), Precedes(a, b), IsPrefix(b, a)
  PROVE  IsPrefix(a, b)
<1> SUFFICES ASSUME ~IsPrefix(a, b) PROVE FALSE
  OBVIOUS
<1>1. PICK d \in Nat \ {0} : d <= Len(a) /\ d <= Len(b) /\ a[d] < b[d]
  BY PrecedesPointwise
<1>2. d \in 1..Len(b) /\ d \in 1..Len(a)
  BY <1>1, LenProperties
<1>3. a[d] = b[d] /\ a[d] \in Nat
  BY <1>2, PrefixPointwise, ElementOfSeq
<1> QED BY <1>1, <1>3

\* In a sorted list, any overlap shows between two neighbours.
LEMMA NeighboursSuffice ==
  ASSUME NEW n \in Nat, NEW t \in [1..n -> Seq(Nat)],
         \A i, j \in 1..n : i < j => Precedes(t[i], t[j]),
         NEW i \in 1..n, NEW j \in 1..n, i < j, Overlap(t[i], t[j])
  PROVE  \E k \in 2..n : IsPrefix(t[k - 1], t[k])
<1>1. IsPrefix(t[i], t[j])
  BY PrefixBack DEF Overlap
<1>2. i + 1 \in 1..n /\ i + 1 \in 2..n /\ i < i + 1 /\ (i + 1) - 1 = i
  OBVIOUS
<1>3. Precedes(t[i], t[i + 1])
  BY <1>2
<1>4. CASE i + 1 = j
  BY <1>1, <1>2, <1>4
<1>5. CASE i + 1 < j
  <2>1. Precedes(t[i + 1], t[j])
    BY <1>2, <1>5
  <2>2. t[i] \in Seq(Nat) /\ t[i + 1] \in Seq(Nat) /\ t[j] \in Seq(Nat)
    BY <1>2
  <2>3. IsPrefix(t[i], t[i + 1])
    BY <1>1, <1>3, <2>1, <2>2, PrefixBetween
  <2> QED BY <1>2, <2>3
<1>6. i + 1 = j \/ i + 1 < j
  OBVIOUS
<1> QED BY <1>4, <1>5, <1>6

-----------------------------------------------------------------------------
(* The invariant *)

Entry == [source : Nat, real : RealPaths]

\* Roots are resolved in order and lie inside the workspace.
ResolvedInside ==
  /\ declared \in Seq(Declarable)
  /\ resolved \in Seq(Entry)
  /\ \A i \in 1..Len(resolved) :
       resolved[i].source = i /\ IsPathInside(Workspace, resolved[i].real)
  /\ Len(resolved) <= Len(declared)
  /\ pc \in {"config", "resolve"} => Len(resolved) < Len(declared)
  /\ pc = "done" => Len(resolved) = Len(declared)

\* The decision was taken on a sort of what is resolved.
Decided ==
  /\ pc = "done" => \E p \in Sortings(Reals(resolved)) :
                      ~OverlapFound(resolved, p) /\ sources = Arranged(resolved, p)
  /\ reason = "overlap" => /\ pc = "rejected"
                           /\ \E p \in Sortings(Reals(resolved)) :
                                OverlapFound(resolved, p)

SelectInv == SelectTypeOK /\ ResolvedInside /\ Decided

LEMMA EntryPath == ASSUME NEW e \in Entry PROVE e.real \in Seq(Nat)
BY RealPathsAssumption, SegmentsAssumption, SeqMonotonic DEF Entry

LEMMA SelectInitHolds == SelectInit => SelectInv
<1> SUFFICES ASSUME SelectInit PROVE SelectInv
  OBVIOUS
<1>1. PICK n \in 1..MaxSources : declared \in [1..n -> Declarable]
  BY DEF SelectInit
<1>2. n \in Nat /\ 1 \in 1..n
  BY <1>1, MaxSourcesAssumption
<1>3. declared \in Seq(Declarable)
  BY <1>1, <1>2, SeqDef
<1>4. declared # <<>>
  BY <1>1, <1>2
<1>5. Len(declared) \in Nat \ {0}
  BY <1>3, <1>4, EmptySeq
<1>6. resolved = <<>> /\ Len(resolved) = 0 /\ DOMAIN resolved = {} /\ resolved \in Seq(Entry)
  BY EmptySeq DEF SelectInit
<1>7. SelectTypeOK
  BY <1>5, <1>6 DEF SelectInit, SelectTypeOK
<1>8. ResolvedInside
  BY <1>3, <1>5, <1>6 DEF SelectInit, ResolvedInside
<1>9. Decided
  BY DEF SelectInit, Decided
<1> QED BY <1>7, <1>8, <1>9 DEF SelectInv

LEMMA RejectKeeps ==
  ASSUME SelectInv, NEW why \in {"config", "missing", "outside"}, Reject(why)
  PROVE  SelectInv'
BY DEF SelectInv, SelectTypeOK, ResolvedInside, Decided, Reject

LEMMA ValidateKeeps ==
  ASSUME SelectInv, ValidateConfig
  PROVE  SelectInv'
<1>1. CASE Reject("config")
  BY <1>1, RejectKeeps
<1>2. CASE pc' = "resolve" /\ UNCHANGED <<declared, resolved, sources, reason>>
  BY <1>2 DEF SelectInv, SelectTypeOK, ResolvedInside, Decided, ValidateConfig
<1> QED BY <1>1, <1>2 DEF ValidateConfig

\* What a step that resolves one more root knows about the list.
LEMMA KnownTyped ==
  ASSUME SelectInv, NEW real \in RealPaths, pc = "resolve",
         IsPathInside(Workspace, real)
  PROVE  /\ Known(real) \in Seq(Entry)
         /\ Len(Known(real)) = Len(resolved) + 1
         /\ Len(Known(real)) <= Len(declared)
         /\ \A i \in 1..Len(Known(real)) :
              /\ Known(real)[i].source = i
              /\ IsPathInside(Workspace, Known(real)[i].real)
<1> DEFINE n == Len(resolved)
           e == [source |-> n + 1, real |-> real]
<1>1. resolved \in Seq(Entry) /\ n \in Nat /\ Len(declared) \in Nat /\ n < Len(declared)
  BY LenProperties DEF SelectInv, ResolvedInside
<1>2. e \in Entry
  BY <1>1 DEF Entry
<1> HIDE DEF e
<1>3. /\ Append(resolved, e) \in Seq(Entry)
      /\ Len(Append(resolved, e)) = n + 1
      /\ \A i \in 1..n : Append(resolved, e)[i] = resolved[i]
      /\ Append(resolved, e)[n + 1] = e
  BY <1>1, <1>2, AppendProperties
<1>4. \A i \in 1..n :
        resolved[i].source = i /\ IsPathInside(Workspace, resolved[i].real)
  BY DEF SelectInv, ResolvedInside
<1>5. e.source = n + 1 /\ e.real = real
  BY DEF e
<1>6. Known(real) = Append(resolved, e)
  BY DEF Known, e
<1>7. \A i \in 1..n + 1 : i \in 1..n \/ i = n + 1
  BY <1>1
<1> QED BY <1>1, <1>3, <1>4, <1>5, <1>6, <1>7

LEMMA ResolveKeeps ==
  ASSUME SelectInv, NEW real \in RealPaths \cup {Missing}, Resolve(real)
  PROVE  SelectInv'
<1> DEFINE why == Refusal(Lexical[Len(resolved) + 1], real)
<1>1. CASE why # "none"
  <2>1. why \in {"config", "missing", "outside"}
    BY <1>1 DEF Refusal
  <2>2. Reject(why)
    BY <1>1 DEF Resolve
  <2> QED BY <2>1, <2>2, RejectKeeps
<1>2. CASE why = "none"
  <2>1. pc = "resolve" /\ real \in RealPaths /\ IsPathInside(Workspace, real)
    BY <1>2 DEF Refusal, Resolve
  <2>2. /\ resolved' = Known(real) /\ declared' = declared
        /\ IF Len(resolved) + 1 = Len(declared) THEN Decide(Known(real))
           ELSE UNCHANGED <<pc, sources, reason>>
    BY <1>2 DEF Resolve
  <2>3. /\ resolved' \in Seq(Entry)
        /\ Len(resolved') = Len(resolved) + 1
        /\ Len(resolved') <= Len(declared)
        /\ \A i \in 1..Len(resolved') :
             /\ resolved'[i].source = i
             /\ IsPathInside(Workspace, resolved'[i].real)
    BY <2>1, <2>2, KnownTyped
  <2>4. /\ Len(resolved) \in Nat /\ Len(declared) \in Nat
        /\ declared \in Seq(Declarable)
        /\ DOMAIN resolved' = 1..Len(resolved')
        /\ \A i \in 1..Len(resolved') : resolved'[i] \in Entry
    BY <2>3, LenProperties, ElementOfSeq DEF SelectInv, ResolvedInside
  <2>5. CASE Len(resolved) + 1 = Len(declared)
    <3>1. PICK p \in Sortings(Reals(resolved')) :
            IF OverlapFound(resolved', p)
            THEN pc' = "rejected" /\ reason' = "overlap" /\ UNCHANGED sources
            ELSE pc' = "done" /\ sources' = Arranged(resolved', p) /\ UNCHANGED reason
      BY <2>2, <2>5 DEF Decide
    <3>3. SelectTypeOK'
      BY <2>2, <2>3, <2>4, <3>1 DEF SelectInv, SelectTypeOK, Entry
    <3>4. ResolvedInside'
      BY <2>2, <2>3, <2>4, <2>5, <3>1 DEF ResolvedInside
    <3>5. reason # "overlap"
      BY <2>1 DEF SelectInv, Decided
    <3>6. Decided'
      BY <3>1, <3>5 DEF Decided
    <3> QED BY <3>3, <3>4, <3>6 DEF SelectInv
  <2>6. CASE Len(resolved) + 1 # Len(declared)
    <3>1. UNCHANGED <<pc, sources, reason>>
      BY <2>2, <2>6
    <3>2. SelectTypeOK'
      BY <2>2, <2>3, <2>4, <3>1 DEF SelectInv, SelectTypeOK, Entry
    <3>3. ResolvedInside'
      BY <2>1, <2>2, <2>3, <2>4, <2>6, <3>1 DEF ResolvedInside
    <3>4. Decided'
      BY <2>1, <3>1 DEF SelectInv, Decided
    <3> QED BY <3>2, <3>3, <3>4 DEF SelectInv
  <2> QED BY <2>5, <2>6
<1> QED BY <1>1, <1>2

LEMMA SelectInvariant == SelectSpec => []SelectInv
<1>1. SelectInv /\ [SelectNext]_selectVars => SelectInv'
  <2> SUFFICES ASSUME SelectInv, [SelectNext]_selectVars PROVE SelectInv'
    OBVIOUS
  <2>1. CASE UNCHANGED selectVars
    BY <2>1 DEF selectVars, SelectInv, SelectTypeOK, ResolvedInside, Decided
  <2> QED BY <2>1, ValidateKeeps, ResolveKeeps DEF SelectNext
<1> QED BY SelectInitHolds, <1>1, PTL DEF SelectSpec

-----------------------------------------------------------------------------
(* From the invariant to the properties *)

LEMMA PrefixSelf == ASSUME NEW a \in Seq(Nat) PROVE IsPrefix(a, a)
BY PrefixPointwise, LenProperties

\* Inside a workspace the comparison of texts is that of paths.
LEMMA InsideIsPrefix ==
  ASSUME NEW a \in Seq(Nat), NEW b \in Seq(Nat),
         IsPathInside(Workspace, a), IsPathInside(Workspace, b)
  PROVE  IsPathInside(a, b) <=> IsPrefix(a, b)
<1>1. Workspace \in Seq(Nat)
  BY WorkspaceAssumption, SegmentsAssumption, SeqMonotonic
<1>2. CASE Workspace = <<>>
  BY <1>2, PrefixSelf DEF IsPathInside
<1>3. CASE Workspace # <<>>
  <2>1. IsPrefix(Workspace, a)
    BY <1>3, PrefixSelf DEF IsPathInside
  <2>2. Len(Workspace) \in Nat \ {0} /\ Len(a) \in Nat /\ Len(Workspace) <= Len(a)
    BY <1>1, <1>3, <2>1, EmptySeq, LenProperties, PrefixPointwise
  <2>3. a # <<>>
    <3>1. CASE a = <<>>
      <4>1. Len(a) = 0
        BY <3>1, EmptySeq
      <4> QED BY <2>2, <4>1
    <3> QED BY <3>1
  <2> QED BY <2>3, PrefixSelf DEF IsPathInside
<1> QED BY <1>2, <1>3

\* What a sort of the resolved roots looks like.
LEMMA ArrangedFacts ==
  ASSUME SelectInv, NEW p \in Sortings(Reals(resolved)), NEW n, NEW t,
         n = Len(resolved), t = Arranged(Reals(resolved), p)
  PROVE  /\ n \in Nat /\ DOMAIN resolved = 1..n
         /\ p \in [1..n -> 1..n]
         /\ \A i, j \in 1..n : i < j => p[i] # p[j] /\ Precedes(t[i], t[j])
         /\ t \in [1..n -> Seq(Nat)] /\ Len(t) = n
         /\ \A i \in 1..n : t[i] = resolved[p[i]].real /\ IsPathInside(Workspace, t[i])
<1>1. /\ resolved \in Seq(Entry) /\ n \in Nat /\ DOMAIN resolved = 1..n
      /\ \A i \in 1..n : resolved[i] \in Entry /\ IsPathInside(Workspace, resolved[i].real)
  BY LenProperties, ElementOfSeq DEF SelectInv, ResolvedInside
<1>2. DOMAIN Reals(resolved) = 1..n
        /\ \A i \in 1..n : Reals(resolved)[i] = resolved[i].real
  BY <1>1 DEF Reals
<1>3. /\ p \in [1..n -> 1..n]
      /\ \A i, j \in 1..n :
           i < j => p[i] # p[j] /\ Precedes(Reals(resolved)[p[i]], Reals(resolved)[p[j]])
  BY <1>2 DEF Sortings
<1>4. \A i \in 1..n : t[i] = Reals(resolved)[p[i]]
  BY <1>3 DEF Arranged
<1>5. \A i \in 1..n : t[i] = resolved[p[i]].real /\ t[i] \in Seq(Nat)
                        /\ IsPathInside(Workspace, t[i])
  <2> SUFFICES ASSUME NEW i \in 1..n
               PROVE  /\ t[i] = resolved[p[i]].real /\ t[i] \in Seq(Nat)
                      /\ IsPathInside(Workspace, t[i])
    OBVIOUS
  <2>1. p[i] \in 1..n
    BY <1>3
  <2>2. t[i] = resolved[p[i]].real
    BY <1>2, <1>4, <2>1
  <2>3. resolved[p[i]] \in Entry /\ IsPathInside(Workspace, resolved[p[i]].real)
    BY <1>1, <2>1
  <2>4. resolved[p[i]].real \in Seq(Nat)
    BY <2>3, EntryPath
  <2> QED BY <2>2, <2>3, <2>4
<1>6. t \in [1..n -> Seq(Nat)]
  BY <1>3, <1>5 DEF Arranged
<1>7. Len(t) = n
  BY <1>1, <1>6, ListOf
<1> QED BY <1>1, <1>3, <1>4, <1>5, <1>6, <1>7

LEMMA ContainedHolds == SelectInv => Contained
<1> SUFFICES ASSUME SelectInv, NEW i \in DOMAIN resolved
             PROVE  IsPrefix(Workspace, resolved[i].real)
  BY DEF Contained
<1>1. i \in 1..Len(resolved) /\ resolved[i] \in Entry
  BY LenProperties, ElementOfSeq DEF SelectInv, ResolvedInside
<1>2. IsPathInside(Workspace, resolved[i].real)
  BY <1>1 DEF SelectInv, ResolvedInside
<1>3. Workspace \in Seq(Nat)
  BY WorkspaceAssumption, SegmentsAssumption, SeqMonotonic
<1> QED BY <1>2, <1>3, PrefixSelf DEF IsPathInside

LEMMA OneSchemaOwnerHolds == SelectInv => OneSchemaOwner
<1> SUFFICES ASSUME SelectInv, pc = "done",
                    NEW i \in DOMAIN sources, NEW j \in DOMAIN sources, i # j,
                    Overlap(sources[i].real, sources[j].real)
             PROVE  FALSE
  BY DEF OneSchemaOwner
<1>1. PICK p \in Sortings(Reals(resolved)) :
        ~OverlapFound(resolved, p) /\ sources = Arranged(resolved, p)
  BY DEF SelectInv, Decided
<1> DEFINE n == Len(resolved)
           t == Arranged(Reals(resolved), p)
<1>2. /\ n \in Nat /\ p \in [1..n -> 1..n]
      /\ \A k, m \in 1..n : k < m => Precedes(t[k], t[m])
      /\ t \in [1..n -> Seq(Nat)] /\ Len(t) = n
      /\ \A k \in 1..n : t[k] = resolved[p[k]].real /\ IsPathInside(Workspace, t[k])
  BY ArrangedFacts
<1>3. ~Neighbours(t, IsPathInside)
  BY <1>1 DEF OverlapFound
<1> HIDE DEF n, t
<1>4. i \in 1..n /\ j \in 1..n /\ sources[i].real = t[i] /\ sources[j].real = t[j]
  BY <1>1, <1>2 DEF Arranged
<1>5. \E k \in 2..n : IsPrefix(t[k - 1], t[k])
  <2>1. CASE i < j
    BY <1>2, <1>4, <2>1, NeighboursSuffice
  <2>2. CASE j < i
    <3>1. Overlap(t[j], t[i])
      BY <1>4 DEF Overlap
    <3> QED BY <1>2, <1>4, <2>2, <3>1, NeighboursSuffice
  <2> QED BY <1>2, <1>4, <2>1, <2>2
<1>6. PICK k \in 2..n : IsPrefix(t[k - 1], t[k])
  BY <1>5
<1>7. k \in 1..n /\ k - 1 \in 1..n
  BY <1>2, <1>6
<1>8. IsPathInside(t[k - 1], t[k])
  BY <1>2, <1>6, <1>7, InsideIsPrefix
<1> QED BY <1>2, <1>3, <1>6, <1>8 DEF Neighbours

LEMMA OverlapRealHolds == SelectInv => OverlapReal
<1> SUFFICES ASSUME SelectInv, reason = "overlap"
             PROVE  \E i, j \in DOMAIN resolved :
                      i # j /\ Overlap(resolved[i].real, resolved[j].real)
  BY DEF OverlapReal
<1>1. PICK p \in Sortings(Reals(resolved)) : OverlapFound(resolved, p)
  BY DEF SelectInv, Decided
<1> DEFINE n == Len(resolved)
           t == Arranged(Reals(resolved), p)
<1>2. /\ n \in Nat /\ p \in [1..n -> 1..n] /\ DOMAIN resolved = 1..n
      /\ \A k, m \in 1..n : k < m => p[k] # p[m]
      /\ t \in [1..n -> Seq(Nat)] /\ Len(t) = n
      /\ \A k \in 1..n : t[k] = resolved[p[k]].real /\ IsPathInside(Workspace, t[k])
  BY ArrangedFacts
<1>3. Neighbours(t, IsPathInside)
  BY <1>1 DEF OverlapFound
<1> HIDE DEF n, t
<1>4. PICK k \in 2..n : IsPathInside(t[k - 1], t[k]) \/ IsPathInside(t[k], t[k - 1])
  BY <1>2, <1>3 DEF Neighbours
<1>5. k \in 1..n /\ k - 1 \in 1..n /\ k - 1 < k
  BY <1>2, <1>4
<1>6. Overlap(t[k - 1], t[k])
  BY <1>2, <1>4, <1>5, InsideIsPrefix DEF Overlap
<1>7. p[k - 1] \in DOMAIN resolved /\ p[k] \in DOMAIN resolved /\ p[k - 1] # p[k]
  BY <1>2, <1>5
<1>8. Overlap(resolved[p[k - 1]].real, resolved[p[k]].real)
  BY <1>2, <1>5, <1>6
<1> QED BY <1>7, <1>8

\* Two paths that both come before one another are equal, so prefixes.
LEMMA PrecedesBoth ==
  ASSUME NEW a \in Seq(Nat), NEW b \in Seq(Nat), Precedes(a, b), Precedes(b, a)
  PROVE  Overlap(a, b)
<1> SUFFICES ASSUME ~IsPrefix(a, b), ~IsPrefix(b, a) PROVE FALSE
  BY DEF Overlap
<1>1. PICK d \in Nat \ {0} : /\ d <= Len(a) /\ d <= Len(b) /\ a[d] < b[d]
                             /\ \A j \in 1..d - 1 : a[j] = b[j]
  BY PrecedesPointwise
<1>2. PICK e \in Nat \ {0} : /\ e <= Len(b) /\ e <= Len(a) /\ b[e] < a[e]
                             /\ \A j \in 1..e - 1 : b[j] = a[j]
  BY PrecedesPointwise
<1>3. d \in 1..Len(a) /\ d \in 1..Len(b) /\ e \in 1..Len(a) /\ e \in 1..Len(b)
  BY <1>1, <1>2, LenProperties
<1>4. a[d] \in Nat /\ b[d] \in Nat /\ a[e] \in Nat /\ b[e] \in Nat
  BY <1>3, ElementOfSeq
<1>5. CASE d < e
  BY <1>1, <1>2, <1>4, <1>5
<1>6. CASE e < d
  BY <1>1, <1>2, <1>4, <1>6
<1>7. CASE e = d
  BY <1>1, <1>2, <1>4, <1>7
<1> QED BY <1>5, <1>6, <1>7

LEMMA OrderIrrelevantHolds == SelectInv => OrderIrrelevant
<1> SUFFICES ASSUME SelectInv, pc = "done"
             PROVE  /\ {sources[i] : i \in DOMAIN sources}
                         = {resolved[i] : i \in DOMAIN resolved}
                    /\ Len(sources) = Len(declared)
                    /\ \A i, j \in DOMAIN sources : i < j =>
                         /\ Precedes(sources[i].real, sources[j].real)
                         /\ ~Precedes(sources[j].real, sources[i].real)
  BY DEF OrderIrrelevant
<1>1. PICK p \in Sortings(Reals(resolved)) : sources = Arranged(resolved, p)
  BY DEF SelectInv, Decided
<1> DEFINE n == Len(resolved)
           t == Arranged(Reals(resolved), p)
<1>2. /\ n \in Nat /\ p \in [1..n -> 1..n] /\ DOMAIN resolved = 1..n
      /\ \A k, m \in 1..n : k < m => p[k] # p[m] /\ Precedes(t[k], t[m])
      /\ t \in [1..n -> Seq(Nat)]
      /\ \A k \in 1..n : t[k] = resolved[p[k]].real
  BY ArrangedFacts
<1> HIDE DEF t
<1>3. DOMAIN sources = 1..n /\ \A k \in 1..n : sources[k] = resolved[p[k]]
  BY <1>1, <1>2 DEF Arranged
<1>4. p \in Surjection(1..n, 1..n)
  <2>1. p \in Injection(1..n, 1..n)
    <3>1. \A k, m \in 1..n : k # m => p[k] # p[m]
      BY <1>2
    <3> QED BY <1>2, <3>1 DEF Injection, IsInjective
  <2>2. IsFiniteSet(1..n)
    BY <1>2, FS_Interval
  <2> QED BY <2>1, <2>2, FS_Injection
<1>5. {sources[i] : i \in DOMAIN sources} = {resolved[i] : i \in DOMAIN resolved}
  <2>1. \A k \in 1..n : \E m \in 1..n : p[m] = k
    BY <1>4 DEF Surjection
  <2>2. \A k \in 1..n : p[k] \in 1..n
    BY <1>2
  <2>3. ASSUME NEW x PROVE (\E i \in 1..n : x = sources[i]) <=> (\E i \in 1..n : x = resolved[i])
    <3>1. ASSUME NEW i \in 1..n, x = sources[i] PROVE \E m \in 1..n : x = resolved[m]
      BY <1>3, <2>2, <3>1
    <3>2. ASSUME NEW i \in 1..n, x = resolved[i] PROVE \E m \in 1..n : x = sources[m]
      <4>1. PICK m \in 1..n : p[m] = i
        BY <2>1
      <4>2. x = sources[m]
        BY <1>3, <3>2, <4>1
      <4> QED BY <4>2
    <3> QED BY <3>1, <3>2
  <2>4. DOMAIN resolved = 1..n /\ DOMAIN sources = 1..n
    BY <1>2, <1>3
  <2> HIDE DEF n
  <2> QED BY <2>3, <2>4
<1>6. Len(sources) = Len(declared)
  <2>1. sources \in [1..n -> Entry]
    <3>1. \A k \in 1..n : resolved[k] \in Entry
      BY ElementOfSeq DEF SelectInv, ResolvedInside
    <3> QED BY <1>1, <1>2, <1>3, <3>1 DEF Arranged
  <2>2. Len(sources) = n
    BY <1>2, <2>1, ListOf
  <2> QED BY <2>2 DEF SelectInv, ResolvedInside
<1>7. ASSUME NEW i \in 1..n, NEW j \in 1..n, i < j
      PROVE  Precedes(t[i], t[j]) /\ ~Precedes(t[j], t[i])
  <2>1. Precedes(t[i], t[j])
    BY <1>2, <1>7
  <2>2. ASSUME Precedes(t[j], t[i]) PROVE FALSE
    <3>1. Overlap(t[i], t[j])
      BY <1>2, <2>1, <2>2, PrecedesBoth
    <3>2. Overlap(sources[i].real, sources[j].real) /\ i # j
      BY <1>2, <1>3, <1>7, <3>1
    <3> QED BY <1>3, <3>2, OneSchemaOwnerHolds DEF OneSchemaOwner
  <2> QED BY <2>1, <2>2
<1>8. ASSUME NEW i \in DOMAIN sources, NEW j \in DOMAIN sources, i < j
      PROVE  /\ Precedes(sources[i].real, sources[j].real)
             /\ ~Precedes(sources[j].real, sources[i].real)
  <2>1. i \in 1..n /\ j \in 1..n
    BY <1>3
  <2>2. sources[i].real = t[i] /\ sources[j].real = t[j]
    BY <1>2, <1>3, <2>1
  <2> QED BY <1>7, <1>8, <2>1, <2>2
<1> QED BY <1>5, <1>6, <1>8

-----------------------------------------------------------------------------
(* The theorems *)

\* Roots are resolved one by one and stay inside the workspace.
THEOREM RootsContained == SelectSpec => [](SelectTypeOK /\ Contained)
<1>1. SelectInv => SelectTypeOK /\ Contained
  BY ContainedHolds DEF SelectInv
<1> QED BY <1>1, SelectInvariant, PTL

\* Comparing neighbours is enough: no two sources that are accepted overlap,
\* for any number of sources and any paths.
THEOREM NeighboursFindEveryOverlap == SelectSpec => []OneSchemaOwner
BY SelectInvariant, OneSchemaOwnerHolds, PTL

\* Nothing is rejected as an overlap that is none.
THEOREM OverlapsAreReal == SelectSpec => []OverlapReal
BY SelectInvariant, OverlapRealHolds, PTL

\* The result is the one sorted list of what was declared.
THEOREM DeclarationOrderIrrelevant == SelectSpec => []OrderIrrelevant
BY SelectInvariant, OrderIrrelevantHolds, PTL
=============================================================================
