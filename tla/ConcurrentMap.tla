---------------------------- MODULE ConcurrentMap ----------------------------
(***************************************************************************)
(* What compileCatalog relies on when it calls mapWithConcurrency          *)
(* (packages/core/src/scan.ts), in terms of the items alone: there are no  *)
(* workers and no counter here.  Every item begins once, as many at a time *)
(* as the limit allows; its outcome goes to its own place; the call        *)
(* resolves in the very step that fills the last place, and never after a  *)
(* rejection.                                                              *)
(***************************************************************************)
EXTENDS Naturals

CONSTANTS
  Limit,         \* how many items may be under way at once
  MaxItems,      \* no call has more items
  Outcomes,      \* what an item may return
  Unset          \* the place of an item that has not returned

VARIABLES
  pending,       \* the items that have not begun
  running,       \* the items under way
  results,       \* the places of the outcomes
  promise        \* "idle", "pending", "resolved", "rejected"

mapVars == <<pending, running, results, promise>>

MapInit ==
  /\ pending = {} /\ running = {}
  /\ results = [i \in {} |-> Unset]
  /\ promise = "idle"

\* The first items begin, as many as the limit allows, before the call returns.
Call(n) ==
  /\ promise = "idle"
  /\ running' = 1..IF n < Limit THEN n ELSE Limit
  /\ pending' = (1..n) \ running'
  /\ results' = [i \in 1..n |-> Unset]
  /\ promise' = IF n = 0 THEN "resolved" ELSE "pending"

\* An item that has returned makes room for one that has not begun.
Replace(i) ==
  IF pending = {}
  THEN running' = running \ {i} /\ UNCHANGED pending
  ELSE \E next \in pending : /\ running' = (running \ {i}) \cup {next}
                             /\ pending' = pending \ {next}

Return(i, outcome) ==
  /\ i \in running
  /\ results' = [results EXCEPT ![i] = outcome]
  /\ Replace(i)
  /\ promise' = IF promise = "pending" /\ \A j \in DOMAIN results : results'[j] # Unset
                THEN "resolved" ELSE promise

\* An item that rejects makes no room, and the others go on.
Reject(i) ==
  /\ i \in running
  /\ running' = running \ {i}
  /\ promise' = IF promise = "pending" THEN "rejected" ELSE promise
  /\ UNCHANGED <<pending, results>>

MapNext ==
  \/ \E n \in 0..MaxItems : Call(n)
  \/ \E i \in running : Reject(i) \/ \E outcome \in Outcomes : Return(i, outcome)

MapSpec == MapInit /\ [][MapNext]_mapVars
=============================================================================
