------------------------------ MODULE AtomicRead ------------------------------
(***************************************************************************)
(* What reading a bounded source promises while others write to the file:  *)
(* the answer is the file as it is at one moment of the call, whole or     *)
(* refused for its size, unless the file system refuses.  Once somebody    *)
(* shortens the file, all that is left of this is the limit.               *)
(***************************************************************************)
EXTENDS Integers

CONSTANTS MaxBytes, NoAnswer, Text(_), TooLarge, Unreadable, Rejected

VARIABLES size, shortened, answer, returned

Whole(n) == IF n > MaxBytes THEN TooLarge ELSE Text(n)

AtomicInit ==
  size \in Nat /\ shortened = FALSE /\ answer = NoAnswer /\ returned = FALSE

\* The moment at which the file is read.
Take ==
  /\ answer = NoAnswer
  /\ \/ answer' \in {Whole(size), Unreadable}
     \/ shortened /\ answer' \in {TooLarge} \cup {Text(n) : n \in 0..MaxBytes}
  /\ UNCHANGED <<size, shortened, returned>>

\* No handle was opened, so that none is left to close.
Refuse ==
  /\ answer = NoAnswer
  /\ answer' = Unreadable /\ returned' = TRUE
  /\ UNCHANGED <<size, shortened>>

Return ==
  /\ answer # NoAnswer /\ ~returned
  /\ returned' = TRUE
  /\ answer' \in {answer, Rejected}
  /\ UNCHANGED <<size, shortened>>

Change ==
  /\ size' \in Nat /\ shortened' = (shortened \/ size' < size)
  /\ UNCHANGED <<answer, returned>>

AtomicNext == Take \/ Refuse \/ Return \/ Change
AtomicSpec == AtomicInit /\ [][AtomicNext]_<<size, shortened, answer, returned>>
=============================================================================
