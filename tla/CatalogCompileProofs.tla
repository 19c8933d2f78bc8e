------------------------ MODULE CatalogCompileProofs ------------------------
(***************************************************************************)
(* What TLAPS proves about ParsePool and CatalogCompile for all manifests, *)
(* limits, edits and concurrencies: the pool parses every item once, no    *)
(* manifest is lost in silence, records, graph and reports agree, the      *)
(* budgets hold for the records, the workers of the pool do what           *)
(* ConcurrentMap asks for, and each step brings the end nearer.            *)
(***************************************************************************)
EXTENDS CatalogCompile, FiniteSetTheorems, DataLemmas

-----------------------------------------------------------------------------
(* The pool by itself *)

\* Every index handed out has its result or a worker that awaits it, unless
\* some parse has rejected.
HandedKept ==
  settled # "rejected" =>
    \A i \in 1..nextIndex - 1 : results[i] # Unset \/ \E k \in Workers : at[k] = i

\* The counter separates what was handed out from what was not.
CounterSplits ==
  /\ \A k \in Workers : at[k] < nextIndex
  /\ \A i \in nextIndex..count : results[i] = Unset

\* What the state of the promise says about the workers.
PromiseAgrees ==
  /\ settled = "idle" => count = 0 /\ \A k \in Workers : at[k] = 0
  /\ settled = "pending" => /\ \E k \in Workers : at[k] # 0
                            /\ \A k \in Workers : at[k] = 0 => nextIndex > count
  /\ settled = "resolved" => nextIndex > count /\ \A k \in Workers : at[k] = 0

\* The inductive invariant.
PoolInv ==
  PoolTypeOK /\ NoneTwice /\ HandedKept /\ CounterSplits /\ PromiseAgrees

\* The concurrency is a number between 1 and 64, whatever was asked for.
LEMMA ConcurrencyBounds == Concurrency \in 1..64
BY RequestedAssumption, NotFiniteAssumption DEF Concurrency, NormalizeConcurrency

LEMMA WorkerCountBounds ==
  ASSUME NEW n \in Nat
  PROVE  /\ WorkerCount(n) \in Nat /\ WorkerCount(n) <= n
         /\ \A k \in Workers : k \in Nat \ {0} /\ (k <= n <=> k <= WorkerCount(n))
         /\ WorkerCount(n) = 0 <=> n = 0
         /\ WorkerCount(n) < n => \A k \in Workers : k <= n
BY ConcurrencyBounds DEF WorkerCount, Workers

\* The first indices are the numbers of the workers that are started.
LEMMA FirstWorkers ==
  ASSUME NEW n \in Nat, NEW i \in 1..WorkerCount(n)
  PROVE  i \in Workers /\ i <= n /\ i # 0
BY ConcurrencyBounds DEF WorkerCount, Workers

LEMMA InitHolds == PoolInit => PoolInv
BY ConcurrencyBounds DEF PoolInit, PoolInv, PoolTypeOK, NoneTwice, HandedKept,
   CounterSplits, PromiseAgrees, Workers

\* Calling the pool starts one worker for each of the first indices.
LEMMA StartKeeps ==
  ASSUME NEW n \in Nat, PoolInv, Start(n)
  PROVE  PoolInv'
<1> DEFINE wc == WorkerCount(n)
<1>1. /\ wc \in Nat /\ wc <= n
      /\ wc = 0 <=> n = 0
      /\ wc < n => \A k \in Workers : k <= n
      /\ \A k \in Workers : k \in Nat /\ k # 0 /\ (k <= n <=> k <= wc)
  BY WorkerCountBounds
<1>2. /\ count' = n /\ nextIndex' = wc + 1
      /\ at' = [k \in Workers |-> IF k <= n THEN k ELSE 0]
      /\ results' = [i \in 1..n |-> Unset]
      /\ settled' = IF wc = 0 THEN "resolved" ELSE "pending"
  BY DEF Start
<1>3. \A i \in 1..wc : i \in Workers /\ i <= n /\ i # 0
  BY FirstWorkers
<1> HIDE DEF wc
<1>4. PoolTypeOK'
  <2>1. at' \in [Workers -> 0..n]
    BY <1>1, <1>2
  <2> QED BY <1>1, <1>2, <2>1 DEF PoolTypeOK
<1>5. NoneTwice'
  BY <1>1, <1>2 DEF NoneTwice
<1>6. HandedKept'
  BY <1>1, <1>2, <1>3 DEF HandedKept
<1>7. CounterSplits'
  BY <1>1, <1>2 DEF CounterSplits
<1>8. PromiseAgrees'
  <2>1. CASE n = 0
    BY <1>1, <1>2, <2>1 DEF PromiseAgrees
  <2>2. CASE n # 0
    <3>1. 1 \in Workers /\ at'[1] # 0
      BY <1>1, <1>2, <1>3, <2>2
    <3> QED BY <1>1, <1>2, <2>2, <3>1 DEF PromiseAgrees
  <2> QED BY <2>1, <2>2
<1> QED BY <1>4, <1>5, <1>6, <1>7, <1>8 DEF PoolInv

\* A finished parse moves its index from the workers to the results.
LEMMA FinishKeeps ==
  ASSUME NEW k \in Workers, NEW outcome \in Outcomes, PoolInv, Finish(k, outcome)
  PROVE  PoolInv'
<1> USE DEF PoolInv
<1>0. outcome # Unset /\ at[k] \in 1..count
  BY UnsetAssumption DEF PoolTypeOK, Finish
<1>1. CASE nextIndex <= count
  <2>1. PoolTypeOK'
    <3>1. /\ count' = count /\ settled' = settled
          /\ nextIndex' = nextIndex + 1
          /\ at' = [at EXCEPT ![k] = nextIndex]
          /\ results' = [results EXCEPT ![at[k]] = outcome]
      BY <1>1 DEF Finish, TakeNext
    <3>2. nextIndex' \in 1..count' + 1 /\ nextIndex \in 0..count
      BY <1>1, <3>1 DEF PoolTypeOK
    <3>3. at' \in [Workers -> 0..count']
      BY <3>1, <3>2 DEF PoolTypeOK
    <3>4. results' \in [1..count' -> Outcomes \cup {Unset}]
      BY <1>0, <3>1 DEF PoolTypeOK
    <3> QED BY <3>1, <3>2, <3>3, <3>4 DEF PoolTypeOK
  <2>2. NoneTwice'
    BY <1>0, <1>1 DEF PoolTypeOK, Finish, TakeNext, NoneTwice, CounterSplits
  <2>3. HandedKept'
    BY <1>0, <1>1 DEF PoolTypeOK, Finish, TakeNext, HandedKept, CounterSplits
  <2>4. CounterSplits'
    BY <1>0, <1>1 DEF PoolTypeOK, Finish, TakeNext, CounterSplits
  <2>5. PromiseAgrees'
    BY <1>0, <1>1 DEF PoolTypeOK, Finish, TakeNext, PromiseAgrees
  <2> QED BY <2>1, <2>2, <2>3, <2>4, <2>5
<1>2. CASE ~(nextIndex <= count)
  <2>1. PoolTypeOK'
    BY <1>0, <1>2 DEF PoolTypeOK, Finish, TakeNext
  <2>2. NoneTwice'
    BY <1>0, <1>2 DEF PoolTypeOK, Finish, TakeNext, NoneTwice
  <2>3. HandedKept'
    BY <1>0, <1>2 DEF PoolTypeOK, Finish, TakeNext, HandedKept, PromiseAgrees
  <2>4. CounterSplits'
    BY <1>0, <1>2 DEF PoolTypeOK, Finish, TakeNext, CounterSplits
  <2>5. PromiseAgrees'
    BY <1>0, <1>2 DEF PoolTypeOK, Finish, TakeNext, PromiseAgrees
  <2> QED BY <2>1, <2>2, <2>3, <2>4, <2>5
<1> QED BY <1>1, <1>2

\* A rejected parse leaves its index without a result, and settles the call.
LEMMA FailKeeps ==
  ASSUME NEW k \in Workers, PoolInv, Fail(k)
  PROVE  PoolInv'
<1> USE DEF PoolInv
<1>0. settled' = "rejected"
  BY DEF Fail, PromiseAgrees, PoolTypeOK
<1>1. PoolTypeOK' BY <1>0 DEF PoolTypeOK, Fail
<1>2. NoneTwice' BY DEF NoneTwice, Fail, PoolTypeOK
<1>3. HandedKept' BY <1>0 DEF HandedKept
<1>4. CounterSplits' BY DEF CounterSplits, Fail, PoolTypeOK
<1>5. PromiseAgrees' BY <1>0 DEF PromiseAgrees
<1> QED BY <1>1, <1>2, <1>3, <1>4, <1>5

LEMMA StutterKeeps ==
  ASSUME PoolInv, UNCHANGED poolVars
  PROVE  PoolInv'
BY DEF PoolInv, PoolTypeOK, NoneTwice, HandedKept, CounterSplits, PromiseAgrees,
   poolVars

LEMMA PoolInvWhole == PoolInv => ResolvedWhole
BY DEF PoolInv, ResolvedWhole, HandedKept, PromiseAgrees, PoolTypeOK

\* mapWithConcurrency resolves only with a whole array and no worker left, and
\* hands every index to one worker, for all items and every concurrency.
THEOREM PoolCorrect == PoolSpec => [](PoolTypeOK /\ ResolvedWhole /\ NoneTwice)
<1>1. PoolInv /\ [PoolNext]_poolVars => PoolInv'
  <2> SUFFICES ASSUME PoolInv, [PoolNext]_poolVars PROVE PoolInv'
    OBVIOUS
  <2>1. CASE \E n \in 0..MaxItems : Start(n)
    BY <2>1, StartKeeps, MaxItemsAssumption
  <2>2. CASE \E k \in Workers : Running(k)
    BY <2>2, FinishKeeps, FailKeeps DEF Running
  <2>3. CASE UNCHANGED poolVars
    BY <2>3, StutterKeeps
  <2> QED BY <2>1, <2>2, <2>3 DEF PoolNext
<1>2. PoolInv => PoolTypeOK /\ ResolvedWhole /\ NoneTwice
  BY PoolInvWhole DEF PoolInv
<1> QED BY InitHolds, <1>1, <1>2, PTL DEF PoolSpec

-----------------------------------------------------------------------------
(* The workers and their counter in terms of the items *)

LEMMA MapInitHolds == PoolInit => Map!MapInit
<1> SUFFICES ASSUME PoolInit PROVE Map!MapInit
  OBVIOUS
<1>1. nextIndex..count = {} /\ {at[k] : k \in Workers} \ {0} = {}
  BY DEF PoolInit
<1> QED BY <1>1 DEF Map!MapInit, PoolInit

\* The workers that are started are the items that begin.
LEMMA StartMaps ==
  ASSUME PoolInv, NEW n \in 0..MaxItems, Start(n)
  PROVE  Map!Call(n)
<1> DEFINE wc == WorkerCount(n)
<1>1. n \in Nat
  BY MaxItemsAssumption
<1>2. /\ wc \in Nat /\ wc <= n /\ (wc = 0 <=> n = 0)
      /\ \A k \in Workers : k \in Nat \ {0} /\ (k <= n <=> k <= wc)
      /\ \A i \in 1..wc : i \in Workers /\ i <= n
  BY <1>1, WorkerCountBounds, FirstWorkers
<1>3. /\ settled = "idle" /\ count' = n /\ nextIndex' = wc + 1
      /\ at' = [k \in Workers |-> IF k <= n THEN k ELSE 0]
      /\ results' = [i \in 1..n |-> Unset]
      /\ settled' = IF wc = 0 THEN "resolved" ELSE "pending"
  BY DEF Start
<1>4. wc = IF n < Concurrency THEN n ELSE Concurrency
  BY DEF WorkerCount
<1> HIDE DEF wc
<1>5. ({at[k] : k \in Workers} \ {0})' = 1..wc
  <2>1. \A i : i \in ({at[k] : k \in Workers} \ {0})' <=> \E k \in Workers : i = at'[k] /\ i # 0
    BY DEF Workers
  <2>2. \A k \in Workers : at'[k] # 0 <=> k <= wc
    BY <1>2, <1>3
  <2>3. \A k \in Workers : at'[k] # 0 => at'[k] = k
    BY <1>3
  <2>4. \A k : k \in Workers /\ k <= wc <=> k \in 1..wc
    BY <1>2
  <2>5. \A i \in 1..wc : at'[i] = i /\ i # 0
    BY <2>2, <2>3, <2>4
  <2> QED BY <2>1, <2>2, <2>3, <2>4, <2>5
<1>6. (nextIndex..count)' = (1..n) \ (1..wc)
  BY <1>1, <1>2, <1>3
<1> QED BY <1>2, <1>3, <1>4, <1>5, <1>6 DEF Map!Call

\* When all but one result is there, the last one is under way alone.
LEMMA LastReturn ==
  ASSUME PoolInv, settled = "pending", NEW k \in Workers, at[k] # 0
  PROVE  (nextIndex > count /\ \A j \in Workers \ {k} : at[j] = 0)
           <=> \A i \in 1..count : i # at[k] => results[i] # Unset
<1> USE DEF PoolInv
<1>0. /\ count \in Nat /\ nextIndex \in 1..count + 1
      /\ at \in [Workers -> 0..count] /\ at[k] \in 1..count /\ at[k] < nextIndex
  BY DEF PoolTypeOK, CounterSplits
<1>1. ASSUME nextIndex > count, \A j \in Workers \ {k} : at[j] = 0,
             NEW i \in 1..count, i # at[k]
      PROVE  results[i] # Unset
  <2>1. i \in 1..nextIndex - 1 /\ i # 0
    BY <1>0, <1>1
  <2>2. results[i] # Unset \/ \E j \in Workers : at[j] = i
    BY <2>1 DEF HandedKept
  <2> QED BY <1>1, <2>1, <2>2
<1>2. ASSUME \A i \in 1..count : i # at[k] => results[i] # Unset
      PROVE  nextIndex > count /\ \A j \in Workers \ {k} : at[j] = 0
  <2>1. nextIndex > count
    <3> SUFFICES ASSUME ~(nextIndex > count) PROVE FALSE
      OBVIOUS
    <3>1. nextIndex \in nextIndex..count /\ nextIndex \in 1..count /\ nextIndex # at[k]
      BY <1>0
    <3> QED BY <1>2, <3>1 DEF CounterSplits
  <2>2. ASSUME NEW j \in Workers \ {k}, at[j] # 0 PROVE FALSE
    <3>1. results[at[j]] = Unset /\ at[j] # at[k] /\ at[j] \in 1..count
      BY <1>0, <2>2 DEF NoneTwice
    <3> QED BY <1>2, <3>1
  <2> QED BY <2>1, <2>2
<1> QED BY <1>1, <1>2

\* A worker that goes round ends one item and begins the next that waits.
LEMMA FinishMaps ==
  ASSUME PoolInv, NEW k \in Workers, NEW outcome \in Outcomes, NEW m, m = at[k],
         Finish(k, outcome)
  PROVE  Map!Return(m, outcome)
<1> DEFINE run == {at[j] : j \in Workers} \ {0}
<1>0. /\ count \in Nat /\ nextIndex \in 1..count + 1 /\ nextIndex # 0
      /\ at \in [Workers -> 0..count] /\ m \in 1..count /\ m # 0
      /\ DOMAIN results = 1..count /\ count' = count
      /\ results' = [results EXCEPT ![m] = outcome]
      /\ \A j \in Workers : at[j] = m => j = k
      /\ \A j \in Workers : at[j] # nextIndex
  BY DEF PoolInv, PoolTypeOK, NoneTwice, CounterSplits, Finish
<1>1. m \in run
  BY <1>0
<1>2. \A j \in 1..count : results'[j] # Unset <=> (j # m => results[j] # Unset)
  BY <1>0, UnsetAssumption
<1>3. CASE nextIndex <= count
  <2>1. at' = [at EXCEPT ![k] = nextIndex] /\ nextIndex' = nextIndex + 1 /\ settled' = settled
    BY <1>3 DEF Finish, TakeNext
  <2>2. run' = (run \ {m}) \cup {nextIndex}
    <3>1. \A j \in Workers : at'[j] = IF j = k THEN nextIndex ELSE at[j]
      BY <1>0, <2>1
    <3>2. run' = {at'[j] : j \in Workers} \ {0}
      BY DEF Workers
    <3> QED BY <1>0, <3>1, <3>2
  <2>3. nextIndex \in nextIndex..count
        /\ (nextIndex..count)' = (nextIndex..count) \ {nextIndex}
    BY <1>0, <1>3, <2>1
  <2>4. settled = "pending" => \E j \in DOMAIN results : results'[j] = Unset
    <3>1. nextIndex \in 1..count /\ nextIndex # m /\ results[nextIndex] = Unset
      BY <1>0, <2>3 DEF PoolInv, CounterSplits
    <3> QED BY <1>0, <1>2, <3>1
  <2>5. Map!Replace(m)
    BY <2>2, <2>3 DEF Map!Replace
  <2> QED BY <1>0, <1>1, <2>1, <2>4, <2>5 DEF Map!Return
<1>4. CASE ~(nextIndex <= count)
  <2>1. /\ at' = [at EXCEPT ![k] = 0] /\ nextIndex' = nextIndex
        /\ settled' = IF settled = "pending" /\ \A j \in Workers \ {k} : at[j] = 0
                      THEN "resolved" ELSE settled
    BY <1>4 DEF Finish, TakeNext
  <2>2. run' = run \ {m}
    <3>1. \A j \in Workers : at'[j] = IF j = k THEN 0 ELSE at[j]
      BY <1>0, <2>1
    <3>2. run' = {at'[j] : j \in Workers} \ {0}
      BY DEF Workers
    <3> QED BY <1>0, <3>1, <3>2
  <2>3. nextIndex..count = {} /\ (nextIndex..count)' = {} /\ nextIndex > count
    BY <1>0, <1>4, <2>1
  <2>4. settled = "pending" =>
          ((\A j \in Workers \ {k} : at[j] = 0) <=> \A j \in DOMAIN results : results'[j] # Unset)
    <3> SUFFICES ASSUME settled = "pending"
                 PROVE  (\A j \in Workers \ {k} : at[j] = 0)
                          <=> \A j \in DOMAIN results : results'[j] # Unset
      OBVIOUS
    <3>1. (\A j \in Workers \ {k} : at[j] = 0) <=> \A i \in 1..count : i # m => results[i] # Unset
      BY <1>0, <2>3, LastReturn
    <3>2. (\A j \in DOMAIN results : results'[j] # Unset)
            <=> \A i \in 1..count : i # m => results[i] # Unset
      BY <1>0, <1>2
    <3> QED BY <3>1, <3>2
  <2>5. Map!Replace(m)
    BY <2>2, <2>3 DEF Map!Replace
  <2> QED BY <1>0, <1>1, <2>1, <2>4, <2>5 DEF Map!Return
<1> QED BY <1>3, <1>4

LEMMA FailMaps ==
  ASSUME PoolInv, NEW k \in Workers, NEW m, m = at[k], Fail(k)
  PROVE  Map!Reject(m)
<1> DEFINE run == {at[j] : j \in Workers} \ {0}
<1>1. /\ m # 0 /\ at \in [Workers -> 0..count] /\ at' = [at EXCEPT ![k] = 0]
      /\ \A j \in Workers : at[j] = m => j = k
      /\ UNCHANGED <<count, nextIndex, results>>
      /\ settled' = IF settled = "pending" THEN "rejected" ELSE settled
  BY DEF PoolInv, PoolTypeOK, NoneTwice, Fail
<1>2. m \in run
  BY <1>1
<1>3. run' = run \ {m}
  <2>1. \A j \in Workers : at'[j] = IF j = k THEN 0 ELSE at[j]
    BY <1>1
  <2>2. run' = {at'[j] : j \in Workers} \ {0}
    BY DEF Workers
  <2> QED BY <1>1, <2>1, <2>2
<1> QED BY <1>1, <1>2, <1>3 DEF Map!Reject

\* Each step of the pool is a step of the map.
LEMMA PoolStepMaps ==
  ASSUME PoolInv, [PoolNext]_poolVars
  PROVE  [Map!MapNext]_(Map!mapVars)
<1>1. CASE \E n \in 0..MaxItems : Start(n)
  BY <1>1, StartMaps DEF Map!MapNext
<1>2. ASSUME NEW k \in Workers, Running(k)
      PROVE  Map!MapNext
  <2>1. PICK i \in {at[j] : j \in Workers} \ {0} : i = at[k]
    BY <1>2 DEF Running, Finish, Fail
  <2>2. Map!Reject(i) \/ \E outcome \in Outcomes : Map!Return(i, outcome)
    BY <1>2, <2>1, FailMaps, FinishMaps DEF Running
  <2> QED BY <2>1, <2>2 DEF Map!MapNext
<1>3. CASE UNCHANGED poolVars
  BY <1>3 DEF poolVars, Map!mapVars, Workers
<1> QED BY <1>1, <1>2, <1>3 DEF PoolNext

-----------------------------------------------------------------------------
(* The compiler *)

\* What discovery returned does not change: distinct paths, few enough.
FoundTyped ==
  /\ found \in Seq([path : Paths, size : Nat])
  /\ Len(found) <= MaxItems
  /\ \A i, j \in 1..Len(found) : found[i].path = found[j].path => i = j

DiskTyped ==
  /\ disk \in [Paths -> Contents \cup {Gone}]
  /\ limitHit \in BOOLEAN
  /\ edited \subseteq Paths

\* The pool has the items that the input budget lets through.
PoolFed ==
  /\ pc \in {"found", "pool", "done", "failed"}
  /\ pc = "found" <=> settled = "idle"
  /\ settled # "idle" => count = IF InputBudgetExceeded THEN 0 ELSE Len(found)
  /\ settled = "idle" => count = 0

\* A result belongs to the manifest at its index.
ResultsMatch ==
  \A i \in 1..count : results[i] # Unset =>
    i \in 1..Len(found) /\ results[i].path = found[i].path

\* What could be parsed was small enough when it was read.
ParsedSmall ==
  \A i \in 1..count : results[i] # Unset /\ results[i].ok =>
    /\ results[i].content.size <= MaxManifestBytes
    /\ results[i].content.depth <= MaxObjectDepth

\* As long as nobody has edited a file, discovery and the pool have seen the
\* files as they are.
UneditedSeen ==
  edited = {} =>
    /\ \A i \in 1..Len(found) :
         disk[found[i].path] # Gone /\ found[i].size = disk[found[i].path].size
    /\ \A i \in 1..count :
         results[i] # Unset => results[i] = ParseManifestFile(found[i].path)

\* The snapshot is assembled once, from a whole array that stays as it is.
SnapshotAssembled ==
  IF pc = "done"
  THEN /\ settled = "resolved"
       /\ snapshot = [services |-> Services, diagnostics |-> Diagnostics,
                      edges |-> GraphEdges]
  ELSE snapshot = NoSnapshot

\* The inductive invariant.
CompileInv ==
  /\ PoolInv /\ FoundTyped /\ DiskTyped /\ PoolFed
  /\ ResultsMatch /\ ParsedSmall /\ UneditedSeen /\ SnapshotAssembled

-----------------------------------------------------------------------------
(* The pool inside the compiler *)

\* Whatever a file has become, parsing it returns one of the outcomes.
LEMMA ParseReturns ==
  ASSUME NEW p \in Paths, DiskTyped
  PROVE  ParseManifestFile(p) \in Outcomes /\ ParseManifestFile(p).path = p
BY OutcomesAssumption
   DEF ParseManifestFile, ParseOutcomes, Parsed, Refused, DiskTyped

\* It returns the contents of the file just if the file is small, sound YAML
\* and not too deep.
LEMMA ParseAccepts ==
  ASSUME NEW p \in Paths, DiskTyped
  PROVE  /\ ParseManifestFile(p).ok <=>
              /\ disk[p] # Gone /\ disk[p].size <= MaxManifestBytes
              /\ disk[p].wellFormed /\ disk[p].depth <= MaxObjectDepth
         /\ ParseManifestFile(p).ok => ParseManifestFile(p).content = disk[p]
<1>1. disk[p] # Gone =>
        disk[p].size \in Nat /\ disk[p].depth \in Nat /\ disk[p].wellFormed \in BOOLEAN
  BY ContentsAssumption DEF DiskTyped
<1>2. MaxManifestBytes \in Nat /\ MaxObjectDepth \in Nat
  BY LimitsAssumption
<1>3. \A c, code : Parsed(p, c).ok /\ ~Refused(p, code).ok /\ Parsed(p, c).content = c
  BY DEF Parsed, Refused
<1> QED BY <1>1, <1>2, <1>3 DEF ParseManifestFile

\* An index that a worker awaits is the index of a manifest.
LEMMA AwaitedIsFound ==
  ASSUME PoolInv, PoolFed, FoundTyped, NEW k \in Workers, at[k] # 0
  PROVE  /\ at[k] \in 1..Len(found) /\ at[k] \in 1..count
         /\ found[at[k]].path \in Paths
<1>1. at[k] \in 1..count
  BY DEF PoolInv, PoolTypeOK
<1>2. count \in {0, Len(found)}
  BY DEF PoolFed
<1>3. Len(found) \in Nat
  BY DEF FoundTyped
<1>4. at[k] \in 1..Len(found)
  BY <1>1, <1>2, <1>3
<1>5. found[at[k]] \in [path : Paths, size : Nat]
  BY <1>4, ElementOfSeq DEF FoundTyped
<1> QED BY <1>1, <1>4, <1>5

\* The definitions of the assembly read these variables only.
LEMMA AssemblyStable ==
  ASSUME UNCHANGED <<results, count, found, limitHit>>
  PROVE  /\ InputBudgetExceeded' = InputBudgetExceeded
         /\ Services' = Services /\ Diagnostics' = Diagnostics
         /\ GraphEdges' = GraphEdges
BY SMTT(30) DEF InputBudgetExceeded, Services, Diagnostics, GraphEdges, Outcome, Readable,
   CollectionBudgetExceeded, Validated, Invalid, ExtensionBudgetExceeded,
   Normalized, IsDuplicate, Duplicates, KnownServiceIds, Reviews, IsUnknown,
   UnknownDependencies, TooFewServices, Resolution

LEMMA BudgetStable ==
  ASSUME UNCHANGED found
  PROVE  InputBudgetExceeded' = InputBudgetExceeded
BY DEF InputBudgetExceeded

\* What has been seen is still so when neither the files nor the results change.
LEMMA SeenStable ==
  ASSUME UneditedSeen, UNCHANGED <<disk, edited, found, results, count>>
  PROVE  UneditedSeen'
<1>1. \A p : ParseManifestFile(p)' = ParseManifestFile(p)
  BY DEF ParseManifestFile
<1> QED BY <1>1 DEF UneditedSeen

LEMMA CompileInitHolds == CompileInit => CompileInv
<1> SUFFICES ASSUME CompileInit PROVE CompileInv
  OBVIOUS
<1>1. PoolInv
  BY InitHolds DEF CompileInit
<1>2. DiskTyped
  BY DEF CompileInit, DiskTyped
<1>3. FoundTyped /\ \A i \in 1..Len(found) :
         disk[found[i].path] # Gone /\ found[i].size = disk[found[i].path].size
  <2>1. Present \subseteq Paths /\ IsFiniteSet(Present)
    BY FS_Subset, PathsAssumption DEF Present
  <2>2. Cardinality(Present) \in Nat
    BY <2>1, FS_CardinalityType
  <2> DEFINE n == IF limitHit THEN MaxItems ELSE Cardinality(Present)
  <2>3. PICK order \in [1..n -> Present] :
          /\ \A i, j \in 1..n : i < j => order[i] < order[j]
          /\ found = [i \in 1..n |-> [path |-> order[i], size |-> disk[order[i]].size]]
    BY DEF CompileInit
  <2>7. n \in 0..MaxItems
    <3>1. limitHit <=> Cardinality(Present) > MaxItems
      BY DEF CompileInit
    <3>2. CASE limitHit
      BY <3>2, MaxItemsAssumption
    <3>3. CASE ~limitHit
      <4>1. Cardinality(Present) <= MaxItems
        BY <2>2, <3>1, <3>3, MaxItemsAssumption
      <4> QED BY <2>2, <3>3, <4>1, MaxItemsAssumption
    <3> QED BY <3>2, <3>3
  <2> HIDE DEF n
  <2>4. \A i \in 1..n : order[i] \in Paths /\ disk[order[i]].size \in Nat
    BY <2>3, <1>2, ContentsAssumption DEF DiskTyped, Present
  <2>5. found \in Seq([path : Paths, size : Nat]) /\ Len(found) = n
    <3>1. found \in [1..n -> [path : Paths, size : Nat]]
      BY <2>3, <2>4
    <3>2. n \in Nat
      BY <2>7, MaxItemsAssumption
    <3> QED BY <3>1, <3>2, ListOf
  <2>6. \A i, j \in 1..n : found[i].path = found[j].path => i = j
    <3> SUFFICES ASSUME NEW i \in 1..n, NEW j \in 1..n, order[i] = order[j]
                 PROVE  i = j
      BY <2>3
    <3>1. order[i] \in Nat /\ order[j] \in Nat
      BY <2>4, PathsAssumption
    <3>2. i \in Int /\ j \in Int
      OBVIOUS
    <3>3. ~(order[i] < order[j]) /\ ~(order[j] < order[i])
      BY <3>1
    <3>4. ~(i < j) /\ ~(j < i)
      BY <2>3, <3>3
    <3> QED BY <3>2, <3>4
  <2>8. \A i \in 1..n : disk[found[i].path] # Gone
                           /\ found[i].size = disk[found[i].path].size
    BY <2>3 DEF Present
  <2> QED BY <2>5, <2>6, <2>7, <2>8 DEF FoundTyped
<1>4. PoolFed /\ ResultsMatch /\ ParsedSmall /\ SnapshotAssembled
  BY DEF CompileInit, PoolInit, PoolFed, ResultsMatch, ParsedSmall, SnapshotAssembled
<1>5. UneditedSeen
  <2>1. count = 0 /\ \A i \in 1..count : FALSE
    BY DEF CompileInit, PoolInit
  <2> QED BY <1>3, <2>1 DEF UneditedSeen
<1> QED BY <1>1, <1>2, <1>3, <1>4, <1>5 DEF CompileInv

LEMMA EditKeeps ==
  ASSUME CompileInv, NEW p \in Paths, NEW c \in Contents \cup {Gone}, Edit(p, c)
  PROVE  CompileInv'
<1> USE DEF CompileInv, Edit
<1>1. PoolInv'
  BY StutterKeeps
<1>2. DiskTyped'
  BY DEF DiskTyped
<1>3. FoundTyped' /\ ResultsMatch'
  BY DEF FoundTyped, ResultsMatch, poolVars
<1>4. PoolFed'
  BY BudgetStable DEF PoolFed, poolVars
<1>5. SnapshotAssembled'
  BY DEF SnapshotAssembled
<1>6. ParsedSmall' /\ UneditedSeen'
  BY DEF ParsedSmall, UneditedSeen, poolVars
<1> QED BY <1>1, <1>2, <1>3, <1>4, <1>5, <1>6

LEMMA ParseAllKeeps ==
  ASSUME CompileInv, ParseAll
  PROVE  /\ CompileInv'
         /\ \E n \in 0..MaxItems : Start(n)
<1> USE DEF CompileInv, ParseAll
<1> DEFINE n == IF InputBudgetExceeded THEN 0 ELSE Len(found)
<1>0. Len(found) \in Nat /\ Len(found) <= MaxItems
  BY LenProperties DEF FoundTyped
<1>1. n \in 0..MaxItems /\ n \in Nat
  BY <1>0, MaxItemsAssumption
<1>2. PoolInv'
  BY <1>1, StartKeeps
<1>3. DiskTyped' /\ FoundTyped'
  BY DEF DiskTyped, FoundTyped
<1>4. count' = n /\ settled' # "idle" /\ results' = [i \in 1..n |-> Unset]
  BY DEF Start
<1>5. PoolFed'
  BY <1>4, BudgetStable DEF PoolFed
<1>6. ResultsMatch' /\ ParsedSmall' /\ UneditedSeen'
  BY <1>4 DEF ResultsMatch, ParsedSmall, UneditedSeen
<1>7. SnapshotAssembled'
  BY DEF SnapshotAssembled
<1> QED BY <1>1, <1>2, <1>3, <1>5, <1>6, <1>7

LEMMA ParseOneKeeps ==
  ASSUME CompileInv, NEW k \in Workers, ParseOne(k)
  PROVE  CompileInv' /\ Running(k)
<1> USE DEF CompileInv, ParseOne
<1> DEFINE m == at[k]
           outcome == ParseManifestFile(found[m].path)
<1>1. m \in 1..Len(found) /\ m \in 1..count /\ found[m].path \in Paths
  BY AwaitedIsFound
<1>2. outcome \in Outcomes /\ outcome.path = found[m].path
  BY <1>1, ParseReturns
<1>3. Finish(k, outcome)
  OBVIOUS
<1> HIDE DEF outcome
<1>4. PoolInv'
  BY <1>2, <1>3, FinishKeeps
<1>5. DiskTyped' /\ FoundTyped'
  BY DEF DiskTyped, FoundTyped
<1>6. settled \in {"pending", "rejected"}
  BY <1>1 DEF PoolInv, PoolTypeOK, PromiseAgrees
<1>7. settled' # "idle" /\ count' = count
  BY <1>3, <1>6 DEF Finish, TakeNext
<1>8. PoolFed'
  BY <1>6, <1>7, BudgetStable DEF PoolFed
<1>9. ResultsMatch'
  BY <1>1, <1>2, <1>3, <1>7 DEF ResultsMatch, Finish, PoolInv, PoolTypeOK
<1>10. SnapshotAssembled'
  BY <1>6 DEF SnapshotAssembled
<1>11. outcome.ok => /\ outcome.content.size <= MaxManifestBytes
                     /\ outcome.content.depth <= MaxObjectDepth
  BY <1>1, ParseAccepts DEF outcome
<1>12. results' = [results EXCEPT ![m] = outcome] /\ results \in [1..count -> Outcomes \cup {Unset}]
  BY <1>3 DEF Finish, PoolInv, PoolTypeOK
<1>13. ParsedSmall'
  BY <1>7, <1>11, <1>12 DEF ParsedSmall
<1>14. UneditedSeen'
  <2>1. outcome = ParseManifestFile(found[m].path)
    BY DEF outcome
  <2>2. \A p : ParseManifestFile(p)' = ParseManifestFile(p)
    BY DEF ParseManifestFile
  <2> QED BY <1>7, <1>12, <2>1, <2>2 DEF UneditedSeen
<1> QED BY <1>2, <1>3, <1>4, <1>5, <1>8, <1>9, <1>10, <1>13, <1>14 DEF Running

LEMMA ParseRejectsKeeps ==
  ASSUME CompileInv, NEW k \in Workers, ParseRejects(k)
  PROVE  CompileInv' /\ Running(k)
<1> USE DEF CompileInv, ParseRejects
<1>1. PoolInv'
  BY FailKeeps
<1>2. DiskTyped' /\ FoundTyped'
  BY DEF DiskTyped, FoundTyped
<1>3. settled \in {"pending", "rejected"} /\ settled' # "idle"
  BY DEF Fail, PoolInv, PoolTypeOK, PromiseAgrees
<1>4. PoolFed' /\ ResultsMatch' /\ SnapshotAssembled'
  BY <1>3, BudgetStable DEF PoolFed, ResultsMatch, SnapshotAssembled, Fail
<1>5. ParsedSmall' /\ UneditedSeen'
  BY SeenStable DEF ParsedSmall, Fail
<1> QED BY <1>1, <1>2, <1>4, <1>5 DEF Running

LEMMA AssembleKeeps ==
  ASSUME CompileInv, Assemble
  PROVE  CompileInv'
<1> USE DEF CompileInv, Assemble
<1>1. PoolInv' /\ UNCHANGED <<results, count, found, limitHit, settled>>
  BY StutterKeeps DEF poolVars
<1>2. DiskTyped' /\ FoundTyped' /\ ResultsMatch'
  BY <1>1 DEF DiskTyped, FoundTyped, ResultsMatch
<1>5. ParsedSmall' /\ UneditedSeen'
  BY <1>1, SeenStable DEF ParsedSmall
<1>3. PoolFed'
  BY <1>1, BudgetStable DEF PoolFed
<1>4. SnapshotAssembled'
  BY <1>1, AssemblyStable DEF SnapshotAssembled
<1> QED BY <1>1, <1>2, <1>3, <1>4, <1>5

LEMMA RejectsKeeps ==
  ASSUME CompileInv, CompileRejects
  PROVE  CompileInv'
<1> USE DEF CompileInv, CompileRejects
<1>1. PoolInv' /\ UNCHANGED <<results, count, found, limitHit, settled>>
  BY StutterKeeps DEF poolVars
<1>2. DiskTyped' /\ FoundTyped' /\ ResultsMatch'
  BY <1>1 DEF DiskTyped, FoundTyped, ResultsMatch
<1>5. ParsedSmall' /\ UneditedSeen'
  BY <1>1, SeenStable DEF ParsedSmall
<1>3. PoolFed'
  BY <1>1, BudgetStable DEF PoolFed
<1>4. SnapshotAssembled'
  BY DEF SnapshotAssembled
<1> QED BY <1>1, <1>2, <1>3, <1>4, <1>5

LEMMA CompileStutterKeeps ==
  ASSUME CompileInv, UNCHANGED compileVars
  PROVE  CompileInv'
<1> USE DEF CompileInv, compileVars
<1>1. PoolInv' /\ UNCHANGED <<results, count, found, limitHit, settled>>
  BY StutterKeeps DEF poolVars
<1>2. DiskTyped' /\ FoundTyped' /\ ResultsMatch'
  BY <1>1 DEF DiskTyped, FoundTyped, ResultsMatch
<1>5. ParsedSmall' /\ UneditedSeen'
  BY <1>1, SeenStable DEF ParsedSmall
<1>3. PoolFed'
  BY <1>1, BudgetStable DEF PoolFed
<1>4. SnapshotAssembled'
  BY <1>1, AssemblyStable DEF SnapshotAssembled
<1> QED BY <1>1, <1>2, <1>3, <1>4, <1>5

\* A step keeps the invariant and is a step of the pool or leaves it alone.
LEMMA CompileStep ==
  ASSUME CompileInv, [CompileNext]_compileVars
  PROVE  CompileInv' /\ [PoolNext]_poolVars
<1>1. CASE ParseAll
  BY <1>1, ParseAllKeeps DEF PoolNext
<1>2. CASE Assemble
  BY <1>2, AssembleKeeps DEF Assemble
<1>3. CASE CompileRejects
  BY <1>3, RejectsKeeps DEF CompileRejects
<1>4. CASE \E k \in Workers : ParseOne(k) \/ ParseRejects(k)
  BY <1>4, ParseOneKeeps, ParseRejectsKeeps DEF PoolNext
<1>5. CASE \E p \in Paths, c \in Contents \cup {Gone} : Edit(p, c)
  BY <1>5, EditKeeps DEF Edit
<1>6. CASE UNCHANGED compileVars
  BY <1>6, CompileStutterKeeps DEF compileVars
<1> QED BY <1>1, <1>2, <1>3, <1>4, <1>5, <1>6 DEF CompileNext, Compile

LEMMA CompileInvariant == CompileSpec => []CompileInv
<1>1. CompileInv /\ [CompileNext]_compileVars => CompileInv'
  BY CompileStep
<1> QED BY CompileInitHolds, <1>1, PTL DEF CompileSpec

-----------------------------------------------------------------------------
(* What the snapshot is made of *)

\* When the compilation is done, the outcomes are the manifests' own.
LEMMA OutcomesWhole ==
  ASSUME CompileInv, pc = "done"
  PROVE  /\ \A i \in 1..count : /\ results[i] \in ParseOutcomes
                                /\ i \in 1..Len(found)
                                /\ results[i].path = found[i].path
         /\ count = IF InputBudgetExceeded THEN 0 ELSE Len(found)
<1>1. settled = "resolved" /\ PoolTypeOK /\ PoolFed /\ ResultsMatch
  BY DEF CompileInv, PoolInv, SnapshotAssembled
<1>2. \A i \in 1..count : results[i] # Unset
  BY <1>1, PoolInvWhole DEF CompileInv, ResolvedWhole
<1>3. \A i \in 1..count : results[i] \in ParseOutcomes
  BY <1>1, <1>2, OutcomesAssumption DEF PoolTypeOK
<1> QED BY <1>1, <1>2, <1>3 DEF PoolFed, ResultsMatch

\* Two outcomes never belong to one path.
LEMMA OutcomeByPath ==
  ASSUME CompileInv, pc = "done", NEW o \in Outcome, NEW other \in Outcome,
         o.path = other.path
  PROVE  o = other
<1>1. PICK i \in 1..count : o = results[i]
  BY DEF Outcome
<1>2. PICK j \in 1..count : other = results[j]
  BY DEF Outcome
<1>3. i \in 1..Len(found) /\ j \in 1..Len(found) /\ found[i].path = found[j].path
  BY <1>1, <1>2, OutcomesWhole
<1>4. i = j
  BY <1>3 DEF CompileInv, FoundTyped
<1> QED BY <1>1, <1>2, <1>4

LEMMA OutcomeTyped ==
  ASSUME CompileInv, pc = "done", NEW o \in Outcome
  PROVE  o \in ParseOutcomes /\ o.path \in Paths
<1>1. o \in ParseOutcomes
  BY OutcomesWhole DEF Outcome
<1> QED BY <1>1 DEF ParseOutcomes

\* Records come from the outcomes that could be parsed and are valid.
LEMMA ServicesReadable ==
  Services \subseteq Normalized /\ Normalized \subseteq Validated
    /\ Validated \subseteq Outcome
BY DEF Services, Normalized, Validated, Readable

LEMMA SnapshotParts ==
  ASSUME CompileInv, pc = "done"
  PROVE  /\ snapshot.services = Services
         /\ snapshot.diagnostics = Diagnostics
         /\ snapshot.edges = GraphEdges
BY DEF CompileInv, SnapshotAssembled

-----------------------------------------------------------------------------
(* The agreement of graph, records and diagnostics *)

\* A code tells which stage an error comes from.
LEMMA ErrorStage ==
  ASSUME CompileInv, pc = "done", NEW d \in Errors
  PROVE  /\ d.code = "dependency.unknown_target" => d \in UnknownDependencies
         /\ d.code = "manifest.duplicate_id" => d \in Duplicates
<1>1. d \in Diagnostics
  BY SnapshotParts DEF Errors
<1>2. \A severity, code, path : Diagnostic(severity, code, path).code = code
  BY DEF Diagnostic
<1>3. d \in Invalid =>
        d.code \in {"manifest.invalid_yaml", "resource.limit_exceeded", "manifest.invalid"}
  <2>1. ASSUME NEW o \in Outcome \ Readable
        PROVE  o.code \in {"manifest.invalid_yaml", "resource.limit_exceeded"}
    <3>1. o \in ParseOutcomes /\ ~o.ok
      BY OutcomeTyped DEF Readable
    <3> QED BY <3>1 DEF ParseOutcomes
  <2> QED BY <1>2, <2>1 DEF Invalid
<1>4. d \in Reviews => d.code = "metadata.stale_review"
  BY <1>2 DEF Reviews
<1>5. d \in Duplicates => d.code = "manifest.duplicate_id"
  BY <1>2 DEF Duplicates
<1>6. d \in UnknownDependencies => d.code = "dependency.unknown_target"
  BY <1>2 DEF UnknownDependencies
<1>7. \/ d \in Invalid \cup Duplicates \cup Reviews \cup UnknownDependencies
      \/ d.code \in {"config.invalid", "resource.limit_exceeded",
                     "catalog.minimum_service_count"}
  BY <1>1, <1>2 DEF Diagnostics, CountExceeded, LimitExceeded
<1> QED BY <1>3, <1>4, <1>5, <1>6, <1>7

\* A record is known by its id, and by its path.
LEMMA RecordByIdOrPath ==
  ASSUME CompileInv, pc = "done", NEW o \in Services, NEW other \in Services,
         o.content.id = other.content.id \/ o.path = other.path
  PROVE  o = other
<1>1. CASE o.content.id = other.content.id
  BY <1>1 DEF Services, IsDuplicate
<1>2. CASE o.path = other.path
  BY <1>2, ServicesReadable, OutcomeByPath
<1> QED BY <1>1, <1>2

\* The edges that start at a record are its dependencies, since no other
\* record has its id.
LEMMA EdgesOfRecord ==
  ASSUME CompileInv, pc = "done", NEW o \in Services
  PROVE  {e \in GraphEdges : e.source = o.content.id} =
           {[source |-> o.content.id, target |-> d.target, type |-> d.type,
             resolution |-> Resolution(d)] : d \in o.content.dependencies}
<1> DEFINE Edge(q, d) == [source |-> q.content.id, target |-> d.target, type |-> d.type,
                          resolution |-> Resolution(d)]
<1>1. \A e : e \in GraphEdges <=>
               \E q \in Services : \E d \in q.content.dependencies : e = Edge(q, d)
  BY DEF GraphEdges
<1>2. \A q, d : Edge(q, d).source = q.content.id
  OBVIOUS
<1> HIDE DEF Edge
<1>3. \A e : e \in GraphEdges /\ e.source = o.content.id <=>
               \E d \in o.content.dependencies : e = Edge(o, d)
  BY <1>1, <1>2, RecordByIdOrPath
<1>4. {e \in GraphEdges : e.source = o.content.id} =
        {Edge(o, d) : d \in o.content.dependencies}
  BY <1>3
<1> QED BY <1>4 DEF Edge

LEMMA GraphAgreesHolds == CompileInv => GraphAgrees
<1> DEFINE ids == {o.content.id : o \in snapshot.services}
           Unresolved(e) == e.type = "service" /\ e.target \notin ids
<1> SUFFICES ASSUME CompileInv, pc = "done"
             PROVE  /\ \A e \in snapshot.edges :
                         /\ e.resolution = "catalog" <=> e.type = "service" /\ e.target \in ids
                         /\ e.resolution = "unresolved" <=> Unresolved(e)
                    /\ \A o \in snapshot.services :
                         /\ {[type |-> e.type, target |-> e.target] :
                               e \in {e \in snapshot.edges : e.source = o.content.id}}
                              = o.content.dependencies
                         /\ (\E e \in Errors : e.path = o.path
                                                 /\ e.code = "dependency.unknown_target")
                              <=> /\ ~AllowUnknownDependencies
                                  /\ \E e \in snapshot.edges :
                                       e.source = o.content.id /\ Unresolved(e)
  BY DEF GraphAgrees
<1>1. snapshot.services = Services /\ snapshot.edges = GraphEdges
      /\ snapshot.diagnostics = Diagnostics
  BY SnapshotParts
<1>2. ids = {o.content.id : o \in Services} /\ ids = KnownServiceIds
  BY <1>1 DEF KnownServiceIds
<1>3. \A d : /\ Resolution(d) = "catalog" <=> d.type = "service" /\ d.target \in ids
             /\ Resolution(d) = "unresolved" <=> d.type = "service" /\ d.target \notin ids
             /\ IsUnknown(d) <=> d.type = "service" /\ d.target \notin ids
  BY <1>2 DEF Resolution, IsUnknown
<1> HIDE DEF ids
<1>4. ASSUME NEW e \in GraphEdges
      PROVE  /\ e.resolution = "catalog" <=> e.type = "service" /\ e.target \in ids
             /\ e.resolution = "unresolved" <=> Unresolved(e)
  <2>1. PICK o \in Services : \E d \in o.content.dependencies :
               e = [source |-> o.content.id, target |-> d.target, type |-> d.type,
                    resolution |-> Resolution(d)]
    BY DEF GraphEdges
  <2>2. PICK d \in o.content.dependencies :
               e = [source |-> o.content.id, target |-> d.target, type |-> d.type,
                    resolution |-> Resolution(d)]
    BY <2>1
  <2>3. e.target = d.target /\ e.type = d.type /\ e.resolution = Resolution(d)
    BY <2>2
  <2> QED BY <1>3, <2>3
<1>5. ASSUME NEW o \in Services
      PROVE  /\ {[type |-> e.type, target |-> e.target] :
                   e \in {e \in GraphEdges : e.source = o.content.id}} = o.content.dependencies
             /\ (\E e \in Errors : e.path = o.path /\ e.code = "dependency.unknown_target")
                  <=> /\ ~AllowUnknownDependencies
                      /\ \E e \in GraphEdges : e.source = o.content.id /\ Unresolved(e)
  <2> DEFINE own == {e \in GraphEdges : e.source = o.content.id}
             Edge(d) == [source |-> o.content.id, target |-> d.target, type |-> d.type,
                         resolution |-> Resolution(d)]
             deps == o.content.dependencies
  <2>1. own = {Edge(d) : d \in deps}
    BY EdgesOfRecord
  <2>2. \A d : Edge(d).type = d.type /\ Edge(d).target = d.target
    OBVIOUS
  <2>3. \A d \in deps : d = [type |-> d.type, target |-> d.target]
    <3>1. o.content \in Contents
      BY OutcomeTyped, ServicesReadable DEF ParseOutcomes, Validated, Readable
    <3> QED BY <3>1, ContentsAssumption
  <2> HIDE DEF own, Edge, deps
  <2>4. {[type |-> e.type, target |-> e.target] : e \in own} = deps
    BY <2>1, <2>2, <2>3
  <2>5. (\E e \in GraphEdges : e.source = o.content.id /\ Unresolved(e))
          <=> \E d \in deps : IsUnknown(d)
    <3>1. (\E e \in GraphEdges : e.source = o.content.id /\ Unresolved(e))
            <=> \E e \in own : Unresolved(e)
      BY DEF own
    <3>2. \A d : Unresolved(Edge(d)) <=> IsUnknown(d)
      BY <1>3, <2>2
    <3> HIDE DEF Unresolved
    <3> QED BY <2>1, <3>1, <3>2
  <2>6. ASSUME NEW e \in Errors, e.path = o.path, e.code = "dependency.unknown_target"
        PROVE  ~AllowUnknownDependencies /\ \E d \in deps : IsUnknown(d)
    <3>1. e \in UnknownDependencies
      BY <2>6, ErrorStage
    <3>2. PICK q \in Services : /\ \E d \in q.content.dependencies : IsUnknown(d)
                                /\ e = Diagnostic("error", "dependency.unknown_target", q.path)
      BY <3>1 DEF UnknownDependencies
    <3>3. q = o
      BY <2>6, <3>2, RecordByIdOrPath DEF Diagnostic
    <3> QED BY <3>1, <3>2, <3>3 DEF UnknownDependencies, deps
  <2>7. ASSUME ~AllowUnknownDependencies, \E d \in deps : IsUnknown(d)
        PROVE  \E e \in Errors : e.path = o.path /\ e.code = "dependency.unknown_target"
    <3> DEFINE e == Diagnostic("error", "dependency.unknown_target", o.path)
    <3>1. e \in UnknownDependencies
      BY <2>7 DEF UnknownDependencies, deps
    <3>2. e \in snapshot.diagnostics
      BY <1>1, <3>1 DEF Diagnostics
    <3>3. e.severity = "error" /\ e.path = o.path /\ e.code = "dependency.unknown_target"
      BY DEF Diagnostic
    <3> QED BY <3>2, <3>3 DEF Errors
  <2> QED BY <2>4, <2>5, <2>6, <2>7 DEF own, deps
<1> HIDE DEF Unresolved
<1> QED BY <1>1, <1>4, <1>5

-----------------------------------------------------------------------------
(* Every manifest is accounted for *)

\* An exceeded budget empties the catalog and is reported.
LEMMA BudgetExplains ==
  ASSUME CompileInv, pc = "done",
         InputBudgetExceeded \/ CollectionBudgetExceeded \/ ExtensionBudgetExceeded
  PROVE  LimitExceeded \in Errors /\ Records = {}
<1>1. LimitExceeded \in Diagnostics /\ LimitExceeded.severity = "error"
  BY DEF Diagnostics, LimitExceeded, Diagnostic
<1>2. InputBudgetExceeded => Outcome = {}
  BY OutcomesWhole DEF Outcome
<1>3. Services = {}
  BY <1>2, ServicesReadable DEF Normalized, Validated
<1> QED BY <1>1, <1>3, SnapshotParts DEF Errors, Records

\* An error that names a path and is no unknown dependency comes from an
\* outcome at that path that could not be parsed, is invalid or is duplicated.
LEMMA ErrorOrigin ==
  ASSUME CompileInv, pc = "done", NEW d \in Errors, d.path \in Paths,
         d.code # "dependency.unknown_target"
  PROVE  \E o \in Outcome : o.path = d.path /\ o \notin Services
<1>1. d \in Diagnostics /\ d.severity = "error"
  BY SnapshotParts DEF Errors
<1>2. d \in Invalid \cup Duplicates
  <2>1. d \notin Reviews
    BY <1>1 DEF Reviews, Diagnostic
  <2>2. d \notin UnknownDependencies
    BY DEF UnknownDependencies, Diagnostic
  <2>3. d # CountExceeded /\ d # LimitExceeded
          /\ d # Diagnostic("error", "catalog.minimum_service_count", Nowhere)
    BY PathsAssumption DEF CountExceeded, LimitExceeded, Diagnostic
  <2> QED BY <1>1, <2>1, <2>2, <2>3 DEF Diagnostics
<1>3. CASE d \in Duplicates
  <2>1. PICK o \in Normalized :
          IsDuplicate(o) /\ d = Diagnostic("error", "manifest.duplicate_id", o.path)
    BY <1>3 DEF Duplicates
  <2>2. o \in Outcome /\ o \notin Services /\ o.path = d.path
    BY <2>1, ServicesReadable DEF Services, Diagnostic
  <2> QED BY <2>2
<1>4. CASE d \in Invalid
  <2>1. CASE \E o \in Outcome \ Readable : d = Diagnostic("error", o.code, o.path)
    <3>1. PICK o \in Outcome \ Readable : d = Diagnostic("error", o.code, o.path)
      BY <2>1
    <3>2. o \notin Services
      BY <3>1 DEF Services, Normalized, Validated
    <3>3. o.path = d.path
      BY <3>1 DEF Diagnostic
    <3> QED BY <3>1, <3>2, <3>3
  <2>2. CASE \E o \in Readable : ~o.content.valid
                /\ d = Diagnostic("error", "manifest.invalid", o.path)
    <3>1. PICK o \in Readable : ~o.content.valid
                /\ d = Diagnostic("error", "manifest.invalid", o.path)
      BY <2>2
    <3>2. o \notin Services /\ o \in Outcome
      BY <3>1 DEF Services, Normalized, Validated, Readable
    <3>3. o.path = d.path
      BY <3>1 DEF Diagnostic
    <3> QED BY <3>2, <3>3
  <2> QED BY <1>4, <2>1, <2>2 DEF Invalid
<1> QED BY <1>2, <1>3, <1>4

\* An outcome that is no record is reported, unless a budget is exceeded.
LEMMA RefusalReported ==
  ASSUME CompileInv, pc = "done", NEW o \in Outcome, o \notin Services,
         ~CollectionBudgetExceeded, ~ExtensionBudgetExceeded
  PROVE  \E d \in Errors : d.path = o.path /\ d.code # "dependency.unknown_target"
<1>1. \A code : LET d == Diagnostic("error", code, o.path) IN
                d.severity = "error" /\ d.path = o.path /\ d.code = code
  BY DEF Diagnostic
<1>2. CASE o \notin Readable
  <2>1. Diagnostic("error", o.code, o.path) \in Errors
    BY <1>1, <1>2, SnapshotParts DEF Errors, Diagnostics, Invalid
  <2>2. o.code # "dependency.unknown_target"
    <3>1. o \in ParseOutcomes /\ ~o.ok
      BY <1>2, OutcomeTyped DEF Readable
    <3> QED BY <3>1 DEF ParseOutcomes
  <2> QED BY <1>1, <2>1, <2>2
<1>3. CASE o \in Readable /\ ~o.content.valid
  <2>1. Diagnostic("error", "manifest.invalid", o.path) \in Errors
    BY <1>1, <1>3, SnapshotParts DEF Errors, Diagnostics, Invalid
  <2> QED BY <1>1, <2>1
<1>4. CASE o \in Readable /\ o.content.valid
  <2>1. o \in Normalized /\ IsDuplicate(o)
    BY <1>4 DEF Services, Normalized, Validated
  <2>2. Diagnostic("error", "manifest.duplicate_id", o.path) \in Errors
    BY <1>1, <2>1, SnapshotParts DEF Errors, Diagnostics, Duplicates
  <2> QED BY <1>1, <2>2
<1> QED BY <1>2, <1>3, <1>4

LEMMA AccountedForHolds == CompileInv => AccountedFor
<1> SUFFICES ASSUME CompileInv, pc = "done", NEW i \in DOMAIN found,
                    ~(LimitExceeded \in Errors /\ Records = {})
             PROVE  (found[i].path \in Records)
                      # (\E d \in Errors : d.path = found[i].path
                                             /\ d.code # "dependency.unknown_target")
  BY DEF AccountedFor
<1> DEFINE p == found[i].path
<1>1. /\ ~InputBudgetExceeded /\ ~CollectionBudgetExceeded
      /\ ~ExtensionBudgetExceeded
  BY BudgetExplains
<1>2. i \in 1..count
  <2>1. found \in Seq([path : Paths, size : Nat])
    BY DEF CompileInv, FoundTyped
  <2>2. DOMAIN found = 1..Len(found)
    BY <2>1, LenProperties
  <2> QED BY <1>1, <2>2, OutcomesWhole
<1> DEFINE o == results[i]
<1>3. o \in Outcome /\ o.path = p
  BY <1>2, OutcomesWhole DEF Outcome
<1>4. p \in Paths
  BY <1>3, OutcomeTyped
<1> HIDE DEF o, p
<1>5. p \in Records <=> o \in Services
  <2>1. o \in Services => p \in Records
    BY <1>3, SnapshotParts DEF Records
  <2>2. ASSUME p \in Records PROVE o \in Services
    <3>1. PICK q \in Services : q.path = p
      BY <2>2, SnapshotParts DEF Records
    <3>2. q = o
      BY <1>3, <3>1, ServicesReadable, OutcomeByPath
    <3> QED BY <3>1, <3>2
  <2> QED BY <2>1, <2>2
<1>6. (\E d \in Errors : d.path = p /\ d.code # "dependency.unknown_target")
        <=> o \notin Services
  <2>1. ASSUME NEW d \in Errors, d.path = p, d.code # "dependency.unknown_target"
        PROVE  o \notin Services
    <3>1. PICK q \in Outcome : q.path = p /\ q \notin Services
      BY <1>4, <2>1, ErrorOrigin
    <3>2. q = o
      BY <1>3, <3>1, OutcomeByPath
    <3> QED BY <3>1, <3>2
  <2>2. o \notin Services =>
          \E d \in Errors : d.path = o.path /\ d.code # "dependency.unknown_target"
    BY <1>1, <1>3, RefusalReported
  <2> QED BY <1>3, <2>1, <2>2
<1> QED BY <1>5, <1>6 DEF p

-----------------------------------------------------------------------------
(* The budgets *)

LEMMA TotalIsSum == ASSUME NEW f PROVE Total(f) = Sums(f)[DOMAIN f]
BY DEF Total, Sums, FoldFunction, FoldFunctionOnSet, MapThenFoldSet

\* A total is at most another when each of its terms has one of its own there.
LEMMA TotalBounded ==
  ASSUME NEW A, IsFiniteSet(A), NEW f \in [A -> Nat],
         NEW D, IsFiniteSet(D), NEW e \in [D -> Nat],
         NEW own \in [A -> D], \A a, b \in A : own[a] = own[b] => a = b,
         \A a \in A : f[a] <= e[own[a]]
  PROVE  Total(f) \in Nat /\ Total(e) \in Nat /\ Total(f) <= Total(e)
<1>1. DOMAIN f = A /\ DOMAIN e = D
  OBVIOUS
<1>2. /\ Sums(f)[A] \in Nat /\ Sums(e)[D] \in Nat
      /\ Sums(f)[A] <= Sums(e)[D]
  BY SumsBounded
<1> QED BY <1>1, <1>2, TotalIsSum

LEMMA TotalOfNone ==
  ASSUME NEW f, DOMAIN f = {}
  PROVE  Total(f) = 0
<1>1. f \in [{} -> Nat]
  <2>1. f = [x \in {} |-> 0]
    OBVIOUS
  <2> QED BY <2>1
<1> QED BY <1>1, FS_EmptySet, SumsDefined, TotalIsSum

LEMMA OutcomeFinite ==
  ASSUME CompileInv
  PROVE  IsFiniteSet(Outcome)
<1>1. count \in Nat
  BY DEF CompileInv, PoolInv, PoolTypeOK
<1>2. IsFiniteSet(1..count)
  BY <1>1, FS_Interval
<1> DEFINE f == [i \in 1..count |-> results[i]]
<1>3. f \in Surjection(1..count, Outcome)
  BY DEF Surjection, Outcome
<1> QED BY <1>2, <1>3, FS_Surjection

\* What is known of a record: it stands for a parsed file, and no budget that
\* was measured on the outcomes was exceeded.
LEMMA RecordsBounded ==
  ASSUME CompileInv, pc = "done", NEW o \in Services
  PROVE  /\ o \in Validated /\ o \in Readable /\ o.content \in Contents
         /\ o.content.size <= MaxManifestBytes /\ o.content.depth <= MaxObjectDepth
         /\ ~InputBudgetExceeded /\ ~CollectionBudgetExceeded /\ ~ExtensionBudgetExceeded
<1>1. o \in Normalized /\ o \in Validated
  BY ServicesReadable
<1>2. o \in Readable /\ ~CollectionBudgetExceeded /\ ~ExtensionBudgetExceeded
  BY <1>1 DEF Validated, Normalized
<1>3. PICK i \in 1..count : o = results[i]
  BY <1>2 DEF Readable, Outcome
<1>4. o \in ParseOutcomes /\ o.ok
  BY <1>2, OutcomeTyped DEF Readable
<1>5. o.content \in Contents /\ results[i] # Unset
  BY <1>3, <1>4, UnsetAssumption, OutcomesAssumption DEF ParseOutcomes
<1>6. o.content.size <= MaxManifestBytes /\ o.content.depth <= MaxObjectDepth
  BY <1>3, <1>4, <1>5 DEF CompileInv, ParsedSmall
<1>7. ~InputBudgetExceeded
  <2>1. count = IF InputBudgetExceeded THEN 0 ELSE Len(found)
    BY OutcomesWhole
  <2> QED BY <1>3, <2>1
<1> QED BY <1>1, <1>2, <1>5, <1>6, <1>7

\* The records are some of the manifests that were measured.
LEMMA EntriesBounded ==
  ASSUME CompileInv, pc = "done", Services # {}
  PROVE  Total([o \in Services |-> o.content.entries]) <= MaxCollectionEntries
<1> DEFINE own == [o \in Services |-> o]
           f == [o \in Services |-> o.content.entries]
           e == [o \in Readable |-> o.content.entries]
<1>1. IsFiniteSet(Services) /\ IsFiniteSet(Readable)
  BY OutcomeFinite, FS_Subset, ServicesReadable DEF Readable
<1>2. \A o \in Readable : o.content \in Contents /\ o.content.entries \in Nat
  BY OutcomeTyped, ContentsAssumption DEF Readable, ParseOutcomes
<1>3. Services \subseteq Readable /\ ~CollectionBudgetExceeded
  BY RecordsBounded
<1>4. Total(f) \in Nat /\ Total(e) \in Nat /\ Total(f) <= Total(e)
  <2>1. f \in [Services -> Nat] /\ e \in [Readable -> Nat]
        /\ own \in [Services -> Readable]
    BY <1>2, <1>3
  <2>2. \A a, b \in Services : own[a] = own[b] => a = b
    OBVIOUS
  <2>3. \A a \in Services : f[a] <= e[own[a]]
    BY <1>2, <1>3
  <2> HIDE DEF f, e, own
  <2> QED BY <1>1, <2>1, <2>2, <2>3, TotalBounded
<1>5. ~(Total(e) > MaxCollectionEntries)
  BY <1>3 DEF CollectionBudgetExceeded
<1>6. MaxCollectionEntries \in Nat
  BY LimitsAssumption
<1> HIDE DEF f, e
<1>7. Total(f) <= MaxCollectionEntries
  BY <1>4, <1>5, <1>6
<1> QED BY <1>7 DEF f

LEMMA ExtensionsBounded ==
  ASSUME CompileInv, pc = "done", Services # {}
  PROVE  Total([o \in Services |-> o.content.extensionBytes]) <= MaxExtensionBytes
<1> DEFINE own == [o \in Services |-> o]
           f == [o \in Services |-> o.content.extensionBytes]
           e == [o \in Validated |-> o.content.extensionBytes]
<1>1. IsFiniteSet(Services) /\ IsFiniteSet(Validated)
  BY OutcomeFinite, FS_Subset, ServicesReadable
<1>2. \A o \in Validated : o.content \in Contents /\ o.content.extensionBytes \in Nat
  BY OutcomeTyped, ContentsAssumption DEF Validated, Readable, ParseOutcomes
<1>3. Services \subseteq Validated /\ ~ExtensionBudgetExceeded
  BY RecordsBounded
<1>4. Total(f) \in Nat /\ Total(e) \in Nat /\ Total(f) <= Total(e)
  <2>1. f \in [Services -> Nat] /\ e \in [Validated -> Nat]
        /\ own \in [Services -> Validated]
    BY <1>2, <1>3
  <2>2. \A a, b \in Services : own[a] = own[b] => a = b
    OBVIOUS
  <2>3. \A a \in Services : f[a] <= e[own[a]]
    BY <1>2, <1>3
  <2> HIDE DEF f, e, own
  <2> QED BY <1>1, <2>1, <2>2, <2>3, TotalBounded
<1>5. ~(Total(e) > MaxExtensionBytes)
  BY <1>3 DEF ExtensionBudgetExceeded
<1>6. MaxExtensionBytes \in Nat
  BY LimitsAssumption
<1> HIDE DEF f, e
<1>7. Total(f) <= MaxExtensionBytes
  BY <1>4, <1>5, <1>6
<1> QED BY <1>7 DEF f

\* Without edits a record has the size that discovery saw at its index.
LEMMA BytesBounded ==
  ASSUME CompileInv, pc = "done", Services # {}, edited = {}
  PROVE  Total([o \in Services |-> o.content.size]) <= MaxTotalManifestBytes
<1> DEFINE index(o) == CHOOSE i \in 1..count : results[i] = o
           own == [o \in Services |-> index(o)]
           f == [o \in Services |-> o.content.size]
           e == [i \in DOMAIN found |-> found[i].size]
<1>1. ~InputBudgetExceeded
  BY RecordsBounded
<1>2. DOMAIN found = 1..Len(found) /\ Len(found) \in Nat /\ count = Len(found)
  BY <1>1, LenProperties, OutcomesWhole DEF CompileInv, FoundTyped
<1>3. IsFiniteSet(Services) /\ IsFiniteSet(DOMAIN found)
  BY SMTT(30), <1>2, OutcomeFinite, FS_Subset, FS_Interval, ServicesReadable
<1>4. ASSUME NEW o \in Services
      PROVE  index(o) \in DOMAIN found /\ results[index(o)] = o
  <2>1. \E i \in 1..count : results[i] = o
    BY ServicesReadable DEF Outcome
  <2> QED BY <1>2, <2>1
<1>5. ASSUME NEW i \in DOMAIN found PROVE found[i].size \in Nat
  <2>1. found \in Seq([path : Paths, size : Nat]) /\ i \in 1..Len(found)
    BY <1>2 DEF CompileInv, FoundTyped
  <2>2. found[i] \in [path : Paths, size : Nat]
    BY <2>1, ElementOfSeq
  <2> QED BY <2>2
<1> HIDE DEF index
<1>6. ASSUME NEW o \in Services
      PROVE  o.content.size = found[index(o)].size
  <2> DEFINE i == index(o)
             p == found[i].path
  <2>1. i \in 1..count /\ i \in 1..Len(found) /\ results[i] = o
    BY <1>2, <1>4
  <2>2. o.ok /\ o \in ParseOutcomes
    BY RecordsBounded, OutcomeTyped DEF Readable
  <2> HIDE DEF i
  <2>3. p \in Paths /\ o = ParseManifestFile(p) /\ found[i].size = disk[p].size
    <3>1. results[i] # Unset
      BY <2>1, <2>2, UnsetAssumption, OutcomesAssumption
    <3>2. p = o.path
      BY <2>1, OutcomesWhole
    <3> QED BY <2>1, <2>2, <3>1, <3>2 DEF CompileInv, UneditedSeen, ParseOutcomes
  <2> HIDE DEF p
  <2>4. o.content = disk[p]
    BY <2>2, <2>3, ParseAccepts DEF CompileInv
  <2> QED BY <2>3, <2>4 DEF i
<1>7. Total(f) \in Nat /\ Total(e) \in Nat /\ Total(f) <= Total(e)
  <2>1. f \in [Services -> Nat] /\ e \in [DOMAIN found -> Nat]
        /\ own \in [Services -> DOMAIN found]
    BY <1>4, <1>5, <1>6
  <2>2. \A a, b \in Services : own[a] = own[b] => a = b
    BY <1>4
  <2>3. \A a \in Services : f[a] <= e[own[a]]
    BY <1>4, <1>5, <1>6
  <2> HIDE DEF f, e, own
  <2> QED BY <1>3, <2>1, <2>2, <2>3, TotalBounded
<1>8. ~(Total(e) > MaxTotalManifestBytes)
  BY <1>1 DEF InputBudgetExceeded
<1>9. MaxTotalManifestBytes \in Nat
  BY LimitsAssumption
<1> HIDE DEF f, e
<1>10. Total(f) <= MaxTotalManifestBytes
  BY <1>7, <1>8, <1>9
<1> QED BY <1>10 DEF f

LEMMA BudgetsHoldInv == CompileInv => BudgetsHold
<1> SUFFICES ASSUME CompileInv PROVE BudgetsHold
  OBVIOUS
<1>1. CASE pc = "done" /\ Services # {}
  BY <1>1, RecordsBounded, EntriesBounded, ExtensionsBounded, BytesBounded, SnapshotParts
     DEF BudgetsHold
<1>2. CASE ~(pc = "done" /\ Services # {})
  <2>1. snapshot.services = {}
    BY <1>2 DEF CompileInv, SnapshotAssembled, NoSnapshot
  <2>2. /\ Total([o \in snapshot.services |-> o.content.entries]) = 0
        /\ Total([o \in snapshot.services |-> o.content.extensionBytes]) = 0
        /\ Total([o \in snapshot.services |-> o.content.size]) = 0
    BY <2>1, TotalOfNone
  <2>3. 0 <= MaxCollectionEntries /\ 0 <= MaxExtensionBytes /\ 0 <= MaxTotalManifestBytes
    BY LimitsAssumption
  <2> QED BY <2>1, <2>2, <2>3 DEF BudgetsHold
<1> QED BY <1>1, <1>2

-----------------------------------------------------------------------------
(* The result without edits *)

\* Without edits and with all budgets kept, the manifests that reach the check
\* of ids are the sound files, as they are on disk.
LEMMA NormalizedAreSound ==
  ASSUME CompileInv, pc = "done", edited = {},
         ~InputBudgetExceeded, ~CollectionBudgetExceeded, ~ExtensionBudgetExceeded
  PROVE  /\ \A o \in Normalized :
              /\ o.path \in {found[i].path : i \in DOMAIN found}
              /\ o.content = disk[o.path] /\ Sound(o.path)
         /\ \A p \in {found[i].path : i \in DOMAIN found} : Sound(p) =>
              \E o \in Normalized : o.path = p /\ o.content = disk[p]
<1>1. DOMAIN found = 1..Len(found) /\ count = Len(found)
  BY LenProperties, OutcomesWhole DEF CompileInv, FoundTyped
<1>2. ASSUME NEW i \in 1..count
      PROVE  /\ results[i] = ParseManifestFile(found[i].path)
             /\ results[i] \in Outcome /\ results[i].path = found[i].path
             /\ found[i].path \in Paths /\ disk[found[i].path] # Gone
  <2>1. results[i] \in ParseOutcomes /\ results[i].path = found[i].path
    BY OutcomesWhole
  <2>2. results[i] # Unset
    BY <2>1, UnsetAssumption, OutcomesAssumption
  <2>3. i \in 1..Len(found)
    BY <1>1
  <2> QED BY <2>1, <2>2, <2>3 DEF CompileInv, UneditedSeen, Outcome, ParseOutcomes
<1>3. ASSUME NEW i \in 1..count
      PROVE  /\ results[i].ok <=> /\ disk[found[i].path].size <= MaxManifestBytes
                                  /\ disk[found[i].path].wellFormed
                                  /\ disk[found[i].path].depth <= MaxObjectDepth
             /\ results[i].ok => results[i].content = disk[found[i].path]
  BY <1>2, ParseAccepts DEF CompileInv
<1>4. \A o : o \in Normalized <=> o \in Outcome /\ o.ok /\ o.content.valid
  BY DEF Normalized, Validated, Readable
<1>5. ASSUME NEW o \in Normalized
      PROVE  /\ o.path \in {found[i].path : i \in DOMAIN found}
             /\ o.content = disk[o.path] /\ Sound(o.path)
  <2>1. PICK i \in 1..count : o = results[i]
    BY <1>4 DEF Outcome
  <2> QED BY <1>1, <1>2, <1>3, <1>4, <2>1 DEF Sound
<1>6. ASSUME NEW i \in 1..count, Sound(found[i].path)
      PROVE  \E o \in Normalized : o.path = found[i].path /\ o.content = disk[found[i].path]
  <2>1. results[i] \in Outcome /\ results[i].ok /\ results[i].path = found[i].path
        /\ results[i].content = disk[found[i].path] /\ results[i].content.valid
    BY <1>2, <1>3, <1>6 DEF Sound
  <2>2. results[i] \in Normalized
    BY <1>4, <2>1
  <2> QED BY <2>1, <2>2
<1> QED BY <1>1, <1>5, <1>6

LEMMA DeterminedHolds == CompileInv => Determined
<1> DEFINE listed == {found[i].path : i \in DOMAIN found}
           sound == {p \in listed : Sound(p)}
           rivals == {p \in sound : \E q \in sound : q # p /\ disk[q].id = disk[p].id}
<1> SUFFICES ASSUME CompileInv, pc = "done", edited = {}, LimitExceeded \notin Errors
             PROVE  /\ Records = sound \ rivals
                    /\ {e.path : e \in {e \in Errors : e.code = "manifest.duplicate_id"}}
                         = rivals
  BY DEF Determined
<1>1. /\ \A o \in Normalized : o.path \in sound /\ o.content = disk[o.path]
      /\ \A p \in sound : \E o \in Normalized : o.path = p /\ o.content = disk[p]
  BY BudgetExplains, NormalizedAreSound
<1>2. \A o, other \in Normalized : o.path = other.path => o = other
  BY ServicesReadable, OutcomeByPath
<1> HIDE DEF sound
<1>3. \A o \in Normalized : IsDuplicate(o) <=> o.path \in rivals
  <2> SUFFICES ASSUME NEW o \in Normalized PROVE IsDuplicate(o) <=> o.path \in rivals
    OBVIOUS
  <2>1. ASSUME NEW other \in Normalized, other # o, other.content.id = o.content.id
        PROVE  o.path \in rivals
    BY <1>1, <1>2, <2>1
  <2>2. ASSUME NEW q \in sound, q # o.path, disk[q].id = disk[o.path].id
        PROVE  IsDuplicate(o)
    <3>1. PICK other \in Normalized : other.path = q /\ other.content = disk[q]
      BY <1>1
    <3> QED BY <1>1, <2>2, <3>1 DEF IsDuplicate
  <2> QED BY <2>1, <2>2 DEF IsDuplicate
<1> HIDE DEF rivals
<1>4. \A p : p \in Records <=> \E o \in Normalized : o.path = p /\ ~IsDuplicate(o)
  BY SnapshotParts DEF Records, Services
<1>5. Records = sound \ rivals
  BY <1>1, <1>3, <1>4
<1>6. \A e : e \in Errors /\ e.code = "manifest.duplicate_id" <=> e \in Duplicates
  <2>1. ASSUME NEW e \in Duplicates PROVE e \in Errors /\ e.code = "manifest.duplicate_id"
    <3>1. e.severity = "error" /\ e.code = "manifest.duplicate_id"
      BY DEF Duplicates, Diagnostic
    <3> QED BY <3>1, SnapshotParts DEF Errors, Diagnostics
  <2> QED BY <2>1, ErrorStage
<1>7. \A p : p \in rivals <=> \E e \in Duplicates : e.path = p
  <2> DEFINE Report(o) == Diagnostic("error", "manifest.duplicate_id", o.path)
  <2>3. \A o : Report(o).path = o.path
    BY DEF Diagnostic
  <2>4. Duplicates = {Report(o) : o \in {o \in Normalized : IsDuplicate(o)}}
    BY DEF Duplicates
  <2> HIDE DEF Report
  <2>1. \A p : (\E e \in Duplicates : e.path = p)
                 <=> \E o \in Normalized : IsDuplicate(o) /\ o.path = p
    BY <2>3, <2>4
  <2>2. rivals \subseteq sound
    BY DEF rivals
  <2> QED BY <1>1, <1>3, <2>1, <2>2
<1>8. {e.path : e \in {e \in Errors : e.code = "manifest.duplicate_id"}} = rivals
  BY <1>6, <1>7
<1> QED BY <1>5, <1>8

-----------------------------------------------------------------------------
(* The theorems *)

LEMMA CompileTyped == CompileInv => CompileTypeOK
<1> SUFFICES ASSUME CompileInv PROVE CompileTypeOK
  OBVIOUS
<1>1. PoolTypeOK /\ DiskTyped /\ FoundTyped /\ PoolFed
  BY DEF CompileInv, PoolInv
<1>2. \A i \in DOMAIN found : found[i].path \in Paths /\ found[i].size \in Nat
  <2>1. found \in Seq([path : Paths, size : Nat])
    BY <1>1 DEF FoundTyped
  <2>2. DOMAIN found = 1..Len(found)
    BY <2>1, LenProperties
  <2>3. \A i \in 1..Len(found) : found[i] \in [path : Paths, size : Nat]
    BY <2>1, ElementOfSeq
  <2> QED BY <2>2, <2>3
<1>3. snapshot.services \subseteq ParseOutcomes
  <2>1. CASE pc = "done"
    <3>1. Services \subseteq Outcome
      BY ServicesReadable
    <3>2. Outcome \subseteq ParseOutcomes
      BY <2>1, OutcomeTyped
    <3> QED BY <2>1, <3>1, <3>2, SnapshotParts
  <2>2. CASE pc # "done"
    BY <2>2 DEF CompileInv, SnapshotAssembled, NoSnapshot
  <2> QED BY <2>1, <2>2
<1> QED BY <1>1, <1>2, <1>3 DEF CompileTypeOK, DiskTyped, PoolFed

\* Every variable of the compiler keeps its type, whatever is edited and
\* whichever parses reject.
THEOREM CompileTypeCorrect == CompileSpec => []CompileTypeOK
BY CompileInvariant, CompileTyped, PTL

\* No manifest that was discovered is lost in silence, for any manifests,
\* limits, edits and concurrency.
THEOREM EveryManifestAccountedFor == CompileSpec => []AccountedFor
BY CompileInvariant, AccountedForHolds, PTL

\* The catalog keeps within every budget, file by file and in total, for any
\* limits and manifests and whatever is edited on the way.
THEOREM RecordsWithinBudgets == CompileSpec => []BudgetsHold
BY CompileInvariant, BudgetsHoldInv, PTL

\* Without edits the records follow from the files alone, whatever the order
\* and the number of the workers.
THEOREM ResultDetermined == CompileSpec => []Determined
BY CompileInvariant, DeterminedHolds, PTL

\* Edges, records and reports of unknown dependencies agree, whatever was edited.
THEOREM GraphFollowsRecords == CompileSpec => []GraphAgrees
BY CompileInvariant, GraphAgreesHolds, PTL

\* The workers of the compiler's pool do what its call asks for: each item
\* begins once and as soon as there is room, and the call resolves when all have
\* returned, for all items, every concurrency and every rejection.
THEOREM CompilerMaps == CompileSpec => MapsConcurrently
<1>1. CompileInit => Map!MapInit
  BY MapInitHolds DEF CompileInit
<1>2. CompileInv /\ [CompileNext]_compileVars => [Map!MapNext]_(Map!mapVars)
  <2> SUFFICES ASSUME CompileInv, [CompileNext]_compileVars
               PROVE  [Map!MapNext]_(Map!mapVars)
    OBVIOUS
  <2>1. PoolInv /\ [PoolNext]_poolVars
    BY CompileStep DEF CompileInv
  <2> QED BY <2>1, PoolStepMaps
<1> QED BY CompileInvariant, <1>1, <1>2, PTL DEF CompileSpec, MapsConcurrently, Map!MapSpec

-----------------------------------------------------------------------------
(* Termination *)

\* The parses that are still to be finished: of items that wait, and of those
\* that a worker awaits.
Busy == {k \in Workers : at[k] # 0}
ParsesLeft == count + 1 - nextIndex + Cardinality(Busy)

LEMMA BusyFinite == IsFiniteSet(Busy) /\ Cardinality(Busy) \in Nat
<1>1. IsFiniteSet(Workers)
  BY ConcurrencyBounds, FS_Interval DEF Workers
<1>2. Busy \in SUBSET Workers
  BY DEF Busy
<1> QED BY <1>1, <1>2, FS_Subset, FS_CardinalityType

LEMMA ParsesCount == PoolInv => ParsesLeft \in Nat
<1> SUFFICES ASSUME PoolInv PROVE ParsesLeft \in Nat
  OBVIOUS
<1>1. count \in Nat /\ nextIndex \in 1..count + 1
  BY DEF PoolInv, PoolTypeOK
<1>2. Cardinality(Busy) \in Nat
  BY BusyFinite
<1> HIDE DEF Busy
<1> QED BY <1>1, <1>2 DEF ParsesLeft

\* Calling the pool hands it as many parses as there are items.
LEMMA StartCounts ==
  ASSUME NEW n \in Nat, Start(n)
  PROVE  ParsesLeft' = n
<1> DEFINE wc == WorkerCount(n)
<1>1. /\ wc \in Nat /\ wc <= n
      /\ \A k \in Workers : k \in Nat \ {0} /\ (k <= n <=> k <= wc)
      /\ \A i \in 1..wc : i \in Workers
  BY WorkerCountBounds, FirstWorkers
<1>2. count' = n /\ nextIndex' = wc + 1 /\ at' = [k \in Workers |-> IF k <= n THEN k ELSE 0]
  BY DEF Start
<1> HIDE DEF wc
<1>3. Busy' = 1..wc
  <2>1. Busy' = {k \in Workers : at'[k] # 0}
    BY DEF Busy, Workers
  <2>2. \A k \in Workers : at'[k] # 0 <=> k <= wc
    BY <1>1, <1>2
  <2>3. \A k : k \in Workers /\ k <= wc <=> k \in 1..wc
    BY <1>1
  <2> QED BY <2>1, <2>2, <2>3
<1>4. Cardinality(1..wc) = wc
  BY <1>1, FS_Interval
<1>5. ParsesLeft' = n + 1 - (wc + 1) + wc
  BY <1>2, <1>3, <1>4 DEF ParsesLeft
<1> QED BY <1>1, <1>5

\* A worker that finishes a parse takes an item that waits, or it ends; one
\* whose parse rejects ends.
LEMMA ParsesShrink ==
  ASSUME PoolInv, NEW k \in Workers, Running(k)
  PROVE  ParsesLeft' = ParsesLeft - 1
<1>1. /\ count \in Nat /\ nextIndex \in 1..count + 1 /\ at \in [Workers -> 0..count]
      /\ at[k] # 0 /\ count' = count
  BY DEF PoolInv, PoolTypeOK, Running, Finish, Fail
<1>2. IsFiniteSet(Busy) /\ Cardinality(Busy) \in Nat /\ k \in Busy
  BY <1>1, BusyFinite DEF Busy
<1>3. \/ nextIndex \in 1..count /\ at' = [at EXCEPT ![k] = nextIndex] /\ nextIndex' = nextIndex + 1
      \/ at' = [at EXCEPT ![k] = 0] /\ nextIndex' = nextIndex
  BY <1>1 DEF Running, Finish, Fail, TakeNext
<1>4. CASE at' = [at EXCEPT ![k] = nextIndex] /\ nextIndex' = nextIndex + 1
  <2>1. nextIndex # 0
    BY <1>1
  <2>2. Busy' = Busy
    BY <1>1, <1>4, <2>1 DEF Busy, Workers
  <2>3. ParsesLeft' = count + 1 - (nextIndex + 1) + Cardinality(Busy)
    BY <1>1, <1>4, <2>2 DEF ParsesLeft
  <2> HIDE DEF Busy
  <2> QED BY <1>1, <1>2, <2>3 DEF ParsesLeft
<1>5. CASE at' = [at EXCEPT ![k] = 0] /\ nextIndex' = nextIndex
  <2>1. Busy' = Busy \ {k}
    BY <1>1, <1>5 DEF Busy, Workers
  <2>2. Cardinality(Busy \ {k}) = Cardinality(Busy) - 1
    BY <1>2, FS_RemoveElement
  <2>3. ParsesLeft' = count + 1 - nextIndex + (Cardinality(Busy) - 1)
    BY <1>1, <1>5, <2>1, <2>2 DEF ParsesLeft
  <2> HIDE DEF Busy
  <2> QED BY <1>1, <1>2, <2>3 DEF ParsesLeft
<1> QED BY <1>3, <1>4, <1>5

\* What a compilation has still to do: to call the pool, to parse, to assemble
\* or reject.  Workers go on after a rejection.
CompileLeft ==
  CASE pc = "found"              -> Len(found) + 2
    [] pc = "pool"               -> ParsesLeft + 1
    [] pc \in {"done", "failed"} -> ParsesLeft

LEMMA CompileShrinks ==
  ASSUME CompileInv, ParsesLeft \in Nat, (ParsesLeft \in Nat)', Compile
  PROVE  CompileLeft' < CompileLeft
<1>1. ParsesLeft \in Nat /\ ParsesLeft' \in Nat /\ Len(found) \in Nat
  BY LenProperties DEF CompileInv, FoundTyped
<1>2. CASE ParseAll
  <2> DEFINE n == IF InputBudgetExceeded THEN 0 ELSE Len(found)
  <2>1. n \in Nat /\ n <= Len(found)
    BY <1>1
  <2>2. pc = "found" /\ pc' = "pool" /\ Start(n)
    BY <1>2 DEF ParseAll
  <2> HIDE DEF n
  <2>3. ParsesLeft' = n
    BY <2>1, <2>2, StartCounts
  <2>4. CompileLeft = Len(found) + 2 /\ CompileLeft' = n + 1
    BY <2>2, <2>3 DEF CompileLeft
  <2> QED BY <1>1, <2>1, <2>4
<1>3. CASE Assemble \/ CompileRejects
  <2>1. ParsesLeft' = ParsesLeft /\ pc = "pool" /\ pc' \in {"done", "failed"}
    BY <1>3 DEF Assemble, CompileRejects, poolVars, ParsesLeft, Busy, Workers
  <2>2. CompileLeft = ParsesLeft + 1 /\ CompileLeft' = ParsesLeft
    BY <2>1 DEF CompileLeft
  <2> QED BY <1>1, <2>2
<1>4. ASSUME NEW k \in Workers, ParseOne(k) \/ ParseRejects(k)
      PROVE  CompileLeft' < CompileLeft
  <2>1. Running(k) /\ pc' = pc /\ at[k] # 0
    BY <1>4, ParseOneKeeps, ParseRejectsKeeps DEF ParseOne, ParseRejects, Fail
  <2>2. ParsesLeft' = ParsesLeft - 1
    BY <2>1, ParsesShrink DEF CompileInv
  <2>3. pc \in {"pool", "done", "failed"}
    BY <2>1 DEF CompileInv, PoolFed, PoolInv, PromiseAgrees
  <2>4. \/ CompileLeft = ParsesLeft + 1 /\ CompileLeft' = ParsesLeft - 1 + 1
        \/ CompileLeft = ParsesLeft /\ CompileLeft' = ParsesLeft - 1
    BY <2>1, <2>2, <2>3 DEF CompileLeft
  <2> QED BY <1>1, <2>4
<1> QED BY <1>2, <1>3, <1>4 DEF Compile

\* Each step of a compilation brings its end nearer, and what others edit does
\* not put it off: a compilation takes at most two steps more than there are
\* manifests, the parses that go on after a rejection included.
THEOREM CompileMakesProgress ==
  CompileSpec => /\ CompileLeft = Len(found) + 2
                 /\ [](CompileLeft \in Nat)
                 /\ [][IF Compile THEN CompileLeft' < CompileLeft
                                  ELSE CompileLeft' = CompileLeft]_compileVars
<1>1. CompileInit => CompileLeft = Len(found) + 2
  BY DEF CompileInit, CompileLeft
<1>2. CompileInv => ParsesLeft \in Nat
  BY ParsesCount DEF CompileInv
<1>3. CompileInv /\ ParsesLeft \in Nat => CompileLeft \in Nat
  <2> SUFFICES ASSUME CompileInv, ParsesLeft \in Nat PROVE CompileLeft \in Nat
    OBVIOUS
  <2>1. Len(found) \in Nat /\ pc \in {"found", "pool", "done", "failed"}
    BY LenProperties DEF CompileInv, FoundTyped, PoolFed
  <2> QED BY <2>1 DEF CompileLeft
<1>4. CompileInv /\ ParsesLeft \in Nat /\ (ParsesLeft \in Nat)' /\ [CompileNext]_compileVars
        => [IF Compile THEN CompileLeft' < CompileLeft
                       ELSE CompileLeft' = CompileLeft]_compileVars
  <2> SUFFICES ASSUME CompileInv, ParsesLeft \in Nat, (ParsesLeft \in Nat)',
                      CompileNext, ~UNCHANGED compileVars
               PROVE  IF Compile THEN CompileLeft' < CompileLeft ELSE CompileLeft' = CompileLeft
    OBVIOUS
  <2>1. CASE Compile
    BY <2>1, CompileShrinks
  <2>2. CASE ~Compile
    <3>1. UNCHANGED <<poolVars, found, pc>>
      BY <2>2 DEF CompileNext, Edit
    <3> QED BY <2>2, <3>1 DEF CompileLeft, poolVars, ParsesLeft, Busy, Workers
  <2> QED BY <2>1, <2>2
<1> QED BY <1>1, <1>2, <1>3, <1>4, CompileInvariant, PTL DEF CompileSpec
=============================================================================
