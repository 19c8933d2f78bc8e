----------------------------- MODULE BoundedRead -----------------------------
(***************************************************************************)
(* How a manifest is read (parseManifestFile and readBoundedSource in      *)
(* packages/core/src/parser.ts) and how the configuration is (the same     *)
(* loop with one buffer for everything, readBoundedConfigFile in           *)
(* packages/cli/src/index.ts): open, stat, then reads at growing offsets   *)
(* until one returns nothing or the limit is passed, then close.           *)
(*                                                                         *)
(* Every call is an await, between which others write to the file; the     *)
(* file is represented by its size.                                        *)
(***************************************************************************)
EXTENDS Integers

CONSTANTS
  MaxBytes,      \* limits.maxManifestBytes, or MAX_CONFIG_BYTES
  ChunkBytes,    \* the size of a buffer
  MaxSize,       \* bound: no file grows beyond this
  Refused        \* the calls that may fail: "open", "stat", "read", "utf8", "close"

ASSUME MaxBytesAssumption == MaxBytes \in Nat
ASSUME ChunkAssumption == ChunkBytes \in Nat \ {0}
ASSUME MaxSizeAssumption == MaxSize \in Nat

VARIABLES
  size,          \* the size of the file now
  pc,            \* "open", "stat", "read", "close", "done"
  offset,        \* the bytes read so far, all of which are kept
  answer,        \* what the call is going to return
  least, peak,   \* history: the extremes of size since the call began
  shortened      \* history: whether somebody shortened the file

readVars == <<size, pc, offset, answer, least, peak, shortened>>

NoAnswer == [kind |-> "none"]
Text(n) == [kind |-> "text", length |-> n]
TooLarge == [kind |-> "tooLarge"]
Unreadable == [kind |-> "unreadable"]
Rejected == [kind |-> "rejected"]

Smaller(m, n) == IF m < n THEN m ELSE n
Larger(m, n) == IF m < n THEN n ELSE m

ReadInit ==
  /\ size \in 0..MaxSize
  /\ pc = "open" /\ offset = 0 /\ answer = NoAnswer
  /\ least = size /\ peak = size /\ shortened = FALSE

\* The call goes to its next await with the answer it has by now.
Goes(to, with) ==
  pc' = to /\ answer' = with /\ UNCHANGED <<size, least, peak, shortened>>

Open ==
  pc = "open" /\ Goes("stat", NoAnswer) /\ UNCHANGED offset

\* There is no handle, so that none is closed.
OpenFails ==
  pc = "open" /\ "open" \in Refused /\ Goes("done", Unreadable) /\ UNCHANGED offset

Stat ==
  /\ pc = "stat"
  /\ IF size > MaxBytes THEN Goes("close", TooLarge) ELSE Goes("read", NoAnswer)
  /\ UNCHANGED offset

\* Mutant: a call that throws is tried again from the start.
CallFails_Retried ==
  /\ pc \in {"stat", "read"} /\ pc \in Refused
  /\ Goes("stat", NoAnswer)
  /\ offset' = 0

\* stat or a read throws, and the catch block answers.
CallFails ==
  /\ pc \in {"stat", "read"} /\ pc \in Refused
  /\ Goes("close", Unreadable)
  /\ UNCHANGED offset

\* The room in the buffer of the next read.
Wanted == Smaller(ChunkBytes, MaxBytes + 1 - offset)

\* Mutants: a buffer of full size for the last read; a limit that is off by
\* one; a short read that is taken for the end of the file.
ReadSome_FullChunk ==
  /\ pc = "read" /\ offset < size
  /\ \E n \in 1..Smaller(ChunkBytes, size - offset) :
       /\ offset' = offset + n
       /\ IF offset + n <= MaxBytes THEN Goes("read", NoAnswer)
                                    ELSE Goes("close", TooLarge)
ReadSome_OffByOne ==
  /\ pc = "read" /\ offset < size
  /\ \E n \in 1..Smaller(Wanted, size - offset) :
       /\ offset' = offset + n
       /\ IF offset + n < MaxBytes THEN Goes("read", NoAnswer)
                                   ELSE Goes("close", TooLarge)
ReadSome_ShortIsEnd ==
  /\ pc = "read" /\ offset < size
  /\ \E n \in 1..Smaller(Wanted, size - offset) :
       /\ offset' = offset + n
       /\ IF n < Wanted THEN Goes("close", Text(offset + n))
          ELSE IF offset + n <= MaxBytes THEN Goes("read", NoAnswer)
                                         ELSE Goes("close", TooLarge)

\* A read returns some of the bytes there are, perhaps fewer than wanted; the
\* loop ends when one byte more than the limit was read.
ReadSome ==
  /\ pc = "read" /\ offset < size
  /\ \E n \in 1..Smaller(Wanted, size - offset) :
       /\ offset' = offset + n
       /\ IF offset + n <= MaxBytes THEN Goes("read", NoAnswer)
                                    ELSE Goes("close", TooLarge)

\* A read of no bytes ends the file.
ReadEnd ==
  /\ pc = "read" /\ offset >= size
  /\ \/ Goes("close", Text(offset))
     \/ "utf8" \in Refused /\ Goes("close", Unreadable)
  /\ UNCHANGED offset

Close == pc = "close" /\ Goes("done", answer) /\ UNCHANGED offset

\* close throws in the finally block and replaces the answer.
CloseFails ==
  pc = "close" /\ "close" \in Refused /\ Goes("done", Rejected) /\ UNCHANGED offset

\* Somebody appends to the file or shortens it.
Write(n) ==
  /\ pc # "done" /\ n # size
  /\ size' = n
  /\ shortened' = (shortened \/ n < size)
  /\ least' = Smaller(least, n) /\ peak' = Larger(peak, n)
  /\ UNCHANGED <<pc, offset, answer>>

ReadCall ==
  Open \/ OpenFails \/ Stat \/ CallFails \/ ReadSome \/ ReadEnd \/ Close \/ CloseFails

ReadNext ==
  \/ ReadCall
  \/ \E n \in 0..MaxSize : Write(n)
  \/ pc = "done" /\ UNCHANGED readVars

ReadSpec == ReadInit /\ [][ReadNext]_readVars
\* Every call on the handle returns.
FairReadSpec == ReadSpec /\ WF_readVars(ReadCall)

-----------------------------------------------------------------------------
(* Properties *)

ReadTypeOK ==
  /\ {size, offset, least, peak} \subseteq Nat /\ shortened \in BOOLEAN
  /\ pc \in {"open", "stat", "read", "close", "done"}
  /\ answer \in {NoAnswer, TooLarge, Unreadable, Rejected, Text(offset)}

\* However the file grows while it is read, no more than one byte beyond the
\* limit is held, and no more than the limit is returned.
HeldBounded ==
  /\ offset <= MaxBytes + 1
  /\ answer.kind = "text" => answer.length <= MaxBytes

\* A file is refused for its size only if it was larger than the limit at
\* some moment of the call.  A text is never cut short of what was there all
\* the time, nor longer than the file ever was, whatever short reads there are.
AnswerExplained ==
  /\ answer = TooLarge => peak > MaxBytes
  /\ answer.kind = "text" => least <= answer.length /\ answer.length <= peak

\* As long as others only append, the answer is the file at one moment of the
\* call, as CatalogCompile has it.
Atomic == INSTANCE AtomicRead WITH returned <- (pc = "done")
ReadIsAtomic == Atomic!AtomicSpec

\* Reading ends although others keep on writing.
ReadEnds == <>(pc = "done")
=============================================================================
