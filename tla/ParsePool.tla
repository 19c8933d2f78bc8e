------------------------------ MODULE ParsePool ------------------------------
(***************************************************************************)
(* mapWithConcurrency (packages/core/src/scan.ts): the manifests that were *)
(* discovered are parsed by a bounded number of workers, which take the    *)
(* next index from a shared counter whenever they finish one.              *)
(*                                                                         *)
(* JavaScript runs a worker without interruption up to its await, so       *)
(* calling the pool starts every worker at once, and the continuation of a *)
(* parse stores its result and takes the next index in one step.  Indices  *)
(* count from 1.                                                           *)
(***************************************************************************)
EXTENDS Integers, FiniteSetsExt

CONSTANTS
  Requested,     \* options.parseConcurrency, or NotFinite
  NotFinite,     \* Infinity or NaN
  MaxItems,      \* limits.maxManifests: no call has more items
  Outcomes,      \* what parsing an item may return
  Unset          \* an array element nobody has assigned

ASSUME RequestedAssumption == Requested \in Int \cup {NotFinite}
ASSUME NotFiniteAssumption == NotFinite \notin Int
ASSUME MaxItemsAssumption == MaxItems \in Nat
ASSUME UnsetAssumption == Unset \notin Outcomes

VARIABLES
  count,         \* items.length
  nextIndex,     \* the next index to hand out
  at,            \* at[k]: the index worker k awaits, 0 when it is not running
  results,       \* the array of results
  settled        \* the promise of the call: "idle" before the call

poolVars == <<count, nextIndex, at, results, settled>>

NormalizeConcurrency(value) ==
  IF value = NotFinite THEN 16 ELSE IF value > 64 THEN 64
  ELSE IF value < 1 THEN 1 ELSE value

Concurrency == NormalizeConcurrency(Requested)
Workers == 1..Concurrency

WorkerCount(n) == IF n < Concurrency THEN n ELSE Concurrency

PoolInit ==
  /\ count = 0
  /\ nextIndex = 1
  /\ at = [k \in Workers |-> 0]
  /\ results = [i \in {} |-> Unset]
  /\ settled = "idle"

\* Promise.all of no worker at all resolves at once.
Start(n) ==
  /\ settled = "idle"
  /\ count' = n
  /\ nextIndex' = WorkerCount(n) + 1
  /\ at' = [k \in Workers |-> IF k <= n THEN k ELSE 0]
  /\ results' = [i \in 1..n |-> Unset]
  /\ settled' = IF WorkerCount(n) = 0 THEN "resolved" ELSE "pending"

\* Mutant: the loop condition is nextIndex < items.length - 1.
TakeNext_SkipsLast(k) ==
  IF nextIndex < count
  THEN /\ at' = [at EXCEPT ![k] = nextIndex]
       /\ nextIndex' = nextIndex + 1
       /\ UNCHANGED settled
  ELSE /\ at' = [at EXCEPT ![k] = 0]
       /\ settled' = IF settled = "pending" /\ \A j \in Workers \ {k} : at[j] = 0
                     THEN "resolved" ELSE settled
       /\ UNCHANGED nextIndex

\* The loop of worker k goes round: it takes an index, or it returns, and
\* Promise.all resolves with the last worker that returns.
TakeNext(k) ==
  IF nextIndex <= count
  THEN /\ at' = [at EXCEPT ![k] = nextIndex]
       /\ nextIndex' = nextIndex + 1
       /\ UNCHANGED settled
  ELSE /\ at' = [at EXCEPT ![k] = 0]
       /\ settled' = IF settled = "pending" /\ \A j \in Workers \ {k} : at[j] = 0
                     THEN "resolved" ELSE settled
       /\ UNCHANGED nextIndex

Finish(k, outcome) ==
  /\ at[k] # 0
  /\ results' = [results EXCEPT ![at[k]] = outcome]
  /\ TakeNext(k)
  /\ UNCHANGED count

\* The parse of worker k rejects: that worker ends, the call rejects, and the
\* other workers go on until the items run out.
Fail(k) ==
  /\ at[k] # 0
  /\ at' = [at EXCEPT ![k] = 0]
  /\ settled' = IF settled = "pending" THEN "rejected" ELSE settled
  /\ UNCHANGED <<count, nextIndex, results>>

Running(k) == (\E outcome \in Outcomes : Finish(k, outcome)) \/ Fail(k)

PoolNext == (\E n \in 0..MaxItems : Start(n)) \/ (\E k \in Workers : Running(k))

PoolSpec == PoolInit /\ [][PoolNext]_poolVars

-----------------------------------------------------------------------------
(* Properties *)

PoolTypeOK ==
  /\ count \in Nat
  /\ nextIndex \in 1..count + 1
  /\ at \in [Workers -> 0..count]
  /\ results \in [1..count -> Outcomes \cup {Unset}]
  /\ settled \in {"idle", "pending", "resolved", "rejected"}

\* When the call resolves, no element of its array is missing and no worker
\* is left to write into it.
ResolvedWhole ==
  settled = "resolved" =>
    /\ \A i \in 1..count : results[i] # Unset
    /\ \A k \in Workers : at[k] = 0

\* No manifest is parsed twice: two workers never await the same index, and
\* nobody awaits an index that has its result.
NoneTwice ==
  \A j, k \in Workers : at[k] # 0 =>
    /\ results[at[k]] = Unset
    /\ at[j] = at[k] => j = k

\* Workers that share a counter do what compileCatalog asks for: an item begins
\* once and without delay when another one returns, and the call resolves just
\* when every item has returned, though only the workers are counted.
Map == INSTANCE ConcurrentMap WITH
  Limit <- Concurrency,
  pending <- nextIndex..count,
  running <- {at[k] : k \in Workers} \ {0},
  promise <- settled
MapsConcurrently == Map!MapSpec
=============================================================================
