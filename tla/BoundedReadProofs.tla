-------------------------- MODULE BoundedReadProofs --------------------------
(***************************************************************************)
(* What TLAPS proves about BoundedRead for every limit, buffer size and    *)
(* pattern of writes: its memory bound, the justification of its refusals, *)
(* that it reads atomically as long as others only append, and that it     *)
(* cannot be kept from its end.                                            *)
(***************************************************************************)
EXTENDS BoundedRead, TLAPS

\* The history brackets the size; what is read lies between the extremes.
HistoryBrackets == least <= size /\ size <= peak
ReadSoFar ==
  /\ offset <= peak
  /\ pc \in {"open", "stat"} => offset = 0
  /\ pc = "read" => offset <= MaxBytes /\ answer = NoAnswer
  /\ pc \in {"open", "stat"} => answer = NoAnswer
  /\ pc \in {"close", "done"} => answer # NoAnswer

\* The inductive invariant.
ReadInv ==
  ReadTypeOK /\ HeldBounded /\ AnswerExplained
  /\ HistoryBrackets /\ ReadSoFar

LEMMA ReadInitHolds == ReadInit => ReadInv
<1> SUFFICES ASSUME ReadInit PROVE ReadInv
  OBVIOUS
<1>1. ReadTypeOK
  <2>1. size \in Nat /\ offset \in Nat /\ least \in Nat /\ peak \in Nat
    BY MaxSizeAssumption DEF ReadInit
  <2>2. shortened \in BOOLEAN
    BY DEF ReadInit
  <2>3. pc = "open" /\ answer = NoAnswer
    BY DEF ReadInit
  <2> QED BY <2>1, <2>2, <2>3 DEF ReadTypeOK
<1>2. HeldBounded /\ AnswerExplained /\ HistoryBrackets /\ ReadSoFar
  BY MaxBytesAssumption, MaxSizeAssumption
     DEF ReadInit, HeldBounded, AnswerExplained, HistoryBrackets,
         ReadSoFar, NoAnswer, TooLarge
<1> QED BY <1>1, <1>2 DEF ReadInv

LEMMA ReadStep == ReadInv /\ [ReadNext]_readVars => ReadInv'
<1> SUFFICES ASSUME ReadInv, [ReadNext]_readVars PROVE ReadInv'
  OBVIOUS
<1> USE MaxBytesAssumption, ChunkAssumption
        DEF ReadInv, ReadTypeOK, HeldBounded, AnswerExplained,
            HistoryBrackets, ReadSoFar, NoAnswer, TooLarge, Text, Unreadable, Rejected
<1>1. CASE Open
  BY <1>1 DEF Open, Goes
<1>2. CASE OpenFails
  BY <1>2 DEF OpenFails, Goes
<1>3. CASE Stat
  BY <1>3 DEF Stat, Goes
<1>4. CASE CallFails
  BY <1>4 DEF CallFails, Goes
<1>5. CASE ReadSome
  <2>1. PICK n \in 1..Smaller(Wanted, size - offset) :
          /\ offset' = offset + n
          /\ IF offset + n <= MaxBytes THEN Goes("read", NoAnswer)
                                       ELSE Goes("close", TooLarge)
    BY <1>5 DEF ReadSome
  <2>2. n \in Nat /\ n >= 1 /\ offset + n <= MaxBytes + 1 /\ offset + n <= size
    BY <1>5 DEF ReadSome, Smaller, Wanted
  <2> QED BY <1>5, <2>1, <2>2 DEF ReadSome, Goes
<1>6. CASE ReadEnd
  BY <1>6 DEF ReadEnd, Goes
<1>7. CASE Close
  BY <1>7 DEF Close, Goes
<1>8. CASE CloseFails
  BY <1>8 DEF CloseFails, Goes
<1>9. ASSUME NEW n \in 0..MaxSize, Write(n) PROVE ReadInv'
  BY <1>9, MaxSizeAssumption DEF Write, Smaller, Larger
<1>10. CASE UNCHANGED readVars
  BY <1>10 DEF readVars
<1> QED
  BY <1>1, <1>2, <1>3, <1>4, <1>5, <1>6, <1>7, <1>8, <1>9, <1>10
     DEF ReadNext, ReadCall

LEMMA ReadInvariant == ReadSpec => []ReadInv
BY ReadInitHolds, ReadStep, PTL DEF ReadSpec

\* A read holds at most one byte more than its limit, refuses a file only if
\* it was too large, and cuts nothing off, whatever is written meanwhile.
THEOREM ReadCorrect ==
  ReadSpec => [](ReadTypeOK /\ HeldBounded /\ AnswerExplained)
<1>1. ReadInv => ReadTypeOK /\ HeldBounded /\ AnswerExplained
  BY DEF ReadInv
<1> QED BY <1>1, ReadInvariant, PTL

\* The memory bound on its own: one byte beyond the limit is the most that is
\* ever held, and no text that is returned is longer than the limit.
THEOREM MemoryBounded == ReadSpec => []HeldBounded
<1>1. ReadInv => HeldBounded
  BY DEF ReadInv
<1> QED BY <1>1, ReadInvariant, PTL

-----------------------------------------------------------------------------
(* Atomicity *)

\* As long as nobody shortens the file, a reader is never ahead of it.
NeverAhead == pc = "read" => shortened \/ offset <= size

LEMMA AheadStep ==
  ASSUME ReadInv, NeverAhead, [ReadNext]_readVars
  PROVE  NeverAhead'
<1> USE MaxBytesAssumption, ChunkAssumption DEF NeverAhead, ReadInv, ReadTypeOK
<1>1. CASE Open \/ OpenFails \/ CallFails \/ ReadEnd \/ Close \/ CloseFails
  BY <1>1 DEF Open, OpenFails, CallFails, ReadEnd, Close, CloseFails, Goes
<1>2. CASE Stat
  BY <1>2 DEF Stat, Goes, ReadSoFar
<1>3. CASE ReadSome
  <2>1. PICK n \in 1..Smaller(Wanted, size - offset) :
          offset' = offset + n /\ size' = size /\ shortened' = shortened
    BY <1>3 DEF ReadSome, Goes
  <2>2. n \in Nat /\ offset + n <= size
    BY <1>3 DEF ReadSome, Smaller, Wanted, HeldBounded
  <2> QED BY <2>1, <2>2
<1>4. ASSUME NEW n \in 0..MaxSize, Write(n) PROVE NeverAhead'
  <2>1. shortened' = (shortened \/ n < size) /\ UNCHANGED <<pc, offset>> /\ size' = n
    BY <1>4 DEF Write
  <2>2. n \in Nat /\ size \in Nat /\ offset \in Nat
    BY MaxSizeAssumption
  <2>3. CASE shortened
    BY <2>1, <2>3
  <2>4. CASE n < size
    BY <2>1, <2>4
  <2>5. CASE ~shortened /\ ~(n < size)
    <3>1. pc = "read" => offset <= size
      BY <2>5
    <3>2. offset <= size => offset <= n
      BY <2>2, <2>5
    <3> QED BY <2>1, <3>1, <3>2
  <2> QED BY <2>3, <2>4, <2>5
<1>5. CASE UNCHANGED readVars
  BY <1>5 DEF readVars
<1> QED BY <1>1, <1>2, <1>3, <1>4, <1>5 DEF ReadNext, ReadCall

\* Each step is one of AtomicRead or changes nothing it sees.
LEMMA AtomicStep ==
  ASSUME ReadInv, NeverAhead, [ReadNext]_readVars
  PROVE  [Atomic!AtomicNext]_<<size, shortened, answer, pc = "done">>
<1> USE MaxBytesAssumption, ChunkAssumption
        DEF ReadInv, ReadTypeOK, ReadSoFar, NeverAhead, Goes
<1>1. CASE Open
  BY <1>1 DEF Open
<1>2. CASE OpenFails
  BY <1>2 DEF OpenFails, Atomic!AtomicNext, Atomic!Refuse
<1>3. CASE Stat
  BY <1>3 DEF Stat, Atomic!AtomicNext, Atomic!Take, Atomic!Whole
<1>4. CASE CallFails
  BY <1>4 DEF CallFails, Atomic!AtomicNext, Atomic!Take
<1>5. CASE ReadSome
  <2>1. PICK n \in 1..Smaller(Wanted, size - offset) :
          IF offset + n <= MaxBytes THEN Goes("read", NoAnswer)
                                    ELSE Goes("close", TooLarge)
    BY <1>5 DEF ReadSome
  <2>2. n \in Nat /\ offset + n <= size
    BY <1>5 DEF ReadSome, Smaller, Wanted, HeldBounded
  <2>3. CASE offset + n <= MaxBytes
    BY <1>5, <2>1, <2>3 DEF ReadSome
  <2>4. CASE offset + n > MaxBytes
    <3>1. size > MaxBytes
      BY <2>2, <2>4
    <3>2. ~(offset + n <= MaxBytes)
      BY <2>2, <2>4
    <3> QED BY <1>5, <2>1, <3>1, <3>2
            DEF ReadSome, Atomic!AtomicNext, Atomic!Take, Atomic!Whole
  <2> QED BY <2>2, <2>3, <2>4
<1>6. CASE ReadEnd
  <2>1. offset \in 0..MaxBytes /\ (shortened \/ offset = size)
    BY <1>6 DEF ReadEnd
  <2>2. Text(offset) \in {Text(n) : n \in 0..MaxBytes}
    BY <2>1
  <2>3. shortened \/ Text(offset) = Atomic!Whole(size)
    BY <2>1 DEF Atomic!Whole
  <2> QED BY <1>6, <2>2, <2>3 DEF ReadEnd, Atomic!AtomicNext, Atomic!Take
<1>7. CASE Close
  BY <1>7 DEF Close, Atomic!AtomicNext, Atomic!Return
<1>8. CASE CloseFails
  BY <1>8 DEF CloseFails, Atomic!AtomicNext, Atomic!Return
<1>9. ASSUME NEW n \in 0..MaxSize, Write(n)
      PROVE  [Atomic!AtomicNext]_<<size, shortened, answer, pc = "done">>
  BY <1>9, MaxSizeAssumption DEF Write, Atomic!AtomicNext, Atomic!Change
<1>10. CASE UNCHANGED readVars
  BY <1>10 DEF readVars
<1> QED
  BY <1>1, <1>2, <1>3, <1>4, <1>5, <1>6, <1>7, <1>8, <1>9, <1>10
     DEF ReadNext, ReadCall

\* As long as others only append, a chunked read is a read of one moment.
THEOREM AppendedReadIsAtomic == ReadSpec => ReadIsAtomic
<1>1. ReadInit => NeverAhead /\ Atomic!AtomicInit
  BY MaxSizeAssumption DEF ReadInit, NeverAhead, Atomic!AtomicInit
<1>2. ReadInv /\ NeverAhead /\ [ReadNext]_readVars => NeverAhead'
  BY AheadStep
<1>3. ReadInv /\ NeverAhead /\ [ReadNext]_readVars
        => [Atomic!AtomicNext]_<<size, shortened, answer, pc = "done">>
  BY AtomicStep
<1> QED
  BY <1>1, <1>2, <1>3, ReadInvariant, PTL DEF ReadSpec, ReadIsAtomic, Atomic!AtomicSpec

-----------------------------------------------------------------------------
(* Termination *)

\* How many calls are still to be made at most: each read brings a byte, and
\* there is room for one byte more than the limit.
CallsLeft ==
  CASE pc = "open"  -> MaxBytes + 5
    [] pc = "stat"  -> MaxBytes + 4
    [] pc = "read"  -> MaxBytes + 3 - offset
    [] pc = "close" -> 1
    [] pc = "done"  -> 0

LEMMA CallsLeftBounded == ReadInv => CallsLeft \in 0..(MaxBytes + 5)
<1> SUFFICES ASSUME ReadInv PROVE CallsLeft \in 0..(MaxBytes + 5)
  OBVIOUS
<1>1. offset \in Nat /\ pc \in {"open", "stat", "read", "close", "done"}
  BY DEF ReadInv, ReadTypeOK
<1>2. pc = "read" => offset <= MaxBytes
  BY DEF ReadInv, ReadSoFar
<1> QED BY <1>1, <1>2, MaxBytesAssumption DEF CallsLeft

LEMMA CallsShrink == ReadInv /\ ReadCall => CallsLeft' < CallsLeft
<1> SUFFICES ASSUME ReadInv, ReadCall PROVE CallsLeft' < CallsLeft
  OBVIOUS
<1> USE MaxBytesAssumption, ChunkAssumption DEF CallsLeft, Goes
<1>1. offset \in Nat /\ size \in Nat /\ (pc = "read" => offset <= MaxBytes)
  BY DEF ReadInv, ReadTypeOK, ReadSoFar
<1>2. CASE Open \/ OpenFails
  BY <1>2 DEF Open, OpenFails
<1>3. CASE Stat
  <2>1. offset = 0
    BY <1>3 DEF Stat, ReadInv, ReadSoFar
  <2> QED BY <1>3, <2>1 DEF Stat
<1>4. CASE CallFails
  BY <1>1, <1>4 DEF CallFails
<1>5. CASE ReadSome
  <2>1. PICK n \in 1..Smaller(Wanted, size - offset) :
          /\ offset' = offset + n
          /\ IF offset + n <= MaxBytes THEN Goes("read", NoAnswer)
                                       ELSE Goes("close", TooLarge)
    BY <1>5 DEF ReadSome
  <2>2. n \in Nat /\ n >= 1 /\ pc = "read"
    BY <1>1, <1>5 DEF ReadSome, Smaller, Wanted
  <2> QED BY <1>1, <2>1, <2>2
<1>6. CASE ReadEnd \/ Close \/ CloseFails
  BY <1>1, <1>6 DEF ReadEnd, Close, CloseFails
<1> QED BY <1>2, <1>3, <1>4, <1>5, <1>6 DEF ReadCall

\* Each call on the handle brings the end of the read nearer, and what others
\* write does not put it off: a read makes at most MaxBytes + 5 calls, however
\* fast the file grows.
THEOREM ReadMakesProgress ==
  ReadSpec => /\ [](CallsLeft \in 0..(MaxBytes + 5))
              /\ [][IF ReadCall THEN CallsLeft' < CallsLeft
                                ELSE CallsLeft' = CallsLeft]_readVars
<1>1. ReadInv /\ [ReadNext]_readVars
        => [IF ReadCall THEN CallsLeft' < CallsLeft
                        ELSE CallsLeft' = CallsLeft]_readVars
  <2> SUFFICES ASSUME ReadInv, ReadNext, ~ReadCall, ~UNCHANGED readVars
               PROVE  CallsLeft' = CallsLeft
    BY CallsShrink
  <2>1. PICK n \in 0..MaxSize : Write(n)
    BY DEF ReadNext
  <2> QED BY <2>1 DEF Write, CallsLeft
<1>2. ReadInv => CallsLeft \in 0..(MaxBytes + 5)
  BY CallsLeftBounded
<1> QED BY <1>1, <1>2, ReadInvariant, PTL DEF ReadSpec
=============================================================================
