--------------------------- MODULE GenerationStore ---------------------------
(***************************************************************************)
(* What the report directory promises a reader of the output path: at any  *)
(* time it shows the complete generation published last or nothing at all  *)
(* (between the two renames of a swap), never an older generation and      *)
(* never parts of two.  Generations are opaque here.                       *)
(***************************************************************************)

CONSTANTS
  Generations,   \* the generations there may be
  Nothing        \* no generation: not an element of Generations

VARIABLES
  visible,     \* what the output path shows
  latest,      \* the generation published last
  published    \* the generations published so far

vars == <<visible, latest, published>>

Init ==
  /\ visible \in Generations \cup {Nothing}
  /\ latest = visible
  /\ published = {}

\* A generation nobody has seen appears where nothing is visible.
Publish(g) ==
  /\ visible = Nothing
  /\ g \notin published
  /\ visible' = g
  /\ latest' = g
  /\ published' = published \cup {g}

\* The output is moved aside; the call may crash or fail before it is back.
Hide ==
  /\ visible # Nothing
  /\ visible' = Nothing
  /\ UNCHANGED <<latest, published>>

\* A failed call puts back what it had moved aside.
Restore ==
  /\ visible = Nothing
  /\ visible' = latest
  /\ UNCHANGED <<latest, published>>

Next == (\E g \in Generations : Publish(g)) \/ Hide \/ Restore

Spec == Init /\ [][Next]_vars
=============================================================================
