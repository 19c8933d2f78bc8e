------------------------- MODULE DiscoveryWalkProofs -------------------------
(***************************************************************************)
(* What TLAPS proves about DiscoveryWalk for every tree and every change   *)
(* by others: what is found lies inside and is found once, the limit       *)
(* holds, the recursion never enters a directory it is in, the matcher is  *)
(* what patterns mean, what they cover stays out, nothing else that nobody *)
(* touches is missed, and each call brings the end nearer. Only that       *)
(* nothing is missed depends on what realpath answers, and only where      *)
(* there are no links.                                                     *)
(***************************************************************************)
EXTENDS DiscoveryWalk, DataLemmas

IsList(s) == \E S : s \in Seq(S)
Frames == [directory : Places, entries : SUBSET Nat]

LEMMA AppendedList ==
  ASSUME NEW S, NEW s \in Seq(S), NEW e
  PROVE  /\ Append(s, e) \in Seq(S \cup {e})
         /\ DOMAIN s = 1..Len(s) /\ DOMAIN Append(s, e) = 1..Len(s) + 1
         /\ Len(s) \in Nat /\ Len(Append(s, e)) = Len(s) + 1
         /\ Append(s, e)[Len(s) + 1] = e
         /\ \A i \in 1..Len(s) : Append(s, e)[i] = s[i]
<1>1. s \in Seq(S \cup {e})
  BY SeqMonotonic
<1>2. Append(s, e) \in Seq(S \cup {e}) /\ Len(Append(s, e)) = Len(s) + 1
  BY <1>1, AppendProperties
<1> QED BY <1>1, <1>2, AppendProperties, LenProperties

LEMMA FrontList ==
  ASSUME NEW S, NEW s \in Seq(S)
  PROVE  /\ Front(s) \in Seq(S)
         /\ DOMAIN Front(s) \subseteq DOMAIN s
         /\ \A i \in DOMAIN Front(s) : Front(s)[i] = s[i]
<1> DEFINE n == Len(s) - 1
<1>1. Len(s) \in Nat /\ DOMAIN s = 1..Len(s) /\ n \in Int
  BY LenProperties
<1>2. \A i \in 1..n : s[i] \in S
  BY <1>1, ElementOfSeq
<1>3. /\ SubSeq(s, 1, n) \in Seq(S)
      /\ Len(SubSeq(s, 1, n)) = IF 1 <= n THEN n - 1 + 1 ELSE 0
      /\ \A i \in 1..n - 1 + 1 : SubSeq(s, 1, n)[i] = s[1 + i - 1]
  BY <1>1, <1>2, SubSeqProperties
<1>4. Front(s) = SubSeq(s, 1, n)
  BY DEF Front
<1>5. DOMAIN SubSeq(s, 1, n) = 1..Len(SubSeq(s, 1, n))
  BY <1>3, LenProperties
<1> HIDE DEF n
<1> QED BY <1>1, <1>3, <1>4, <1>5 DEF n

\* A stack that loses its top keeps the others.
LEMMA FrontKeeps ==
  ASSUME NEW S, NEW s \in Seq(S), NEW i \in DOMAIN s, i # Len(s)
  PROVE  i \in DOMAIN Front(s) /\ Front(s)[i] = s[i]
<1> DEFINE n == Len(s) - 1
<1>1. Len(s) \in Nat /\ DOMAIN s = 1..Len(s) /\ n \in Int /\ i \in 1..n
  BY LenProperties
<1>2. \A j \in 1..n : s[j] \in S
  BY <1>1, ElementOfSeq
<1>3. /\ SubSeq(s, 1, n) \in Seq(S)
      /\ Len(SubSeq(s, 1, n)) = IF 1 <= n THEN n - 1 + 1 ELSE 0
  BY <1>1, <1>2, SubSeqProperties
<1>4. Front(s) = SubSeq(s, 1, n)
  BY DEF Front
<1>5. DOMAIN SubSeq(s, 1, n) = 1..Len(SubSeq(s, 1, n))
  BY <1>3, LenProperties
<1>6. i \in DOMAIN Front(s)
  BY <1>1, <1>3, <1>4, <1>5
<1> QED BY <1>6, FrontList

-----------------------------------------------------------------------------
(* What is found *)

\* A root that is being walked lies in the workspace.
RootInside ==
  pc \in {"enter", "list", "lstat", "stat", "real", "loop"} => IsPathInside(Cwd, rootRealPath)

FoundInv ==
  /\ scan \in Scans
  /\ IsList(manifests)
  /\ RootInside
  /\ FoundInside
  /\ WithinLimit

LEMMA LimitIsNatural == ASSUME FoundInv PROVE scan.maxManifests \in Nat
BY ScansAssumption DEF FoundInv

LEMMA FoundInit == WalkInit => FoundInv
<1> SUFFICES ASSUME WalkInit PROVE FoundInv
  OBVIOUS
<1>1. scan \in Scans /\ manifests = <<>> /\ limited = FALSE /\ pc = "root"
  BY DEF WalkInit
<1>2. manifests \in Seq({}) /\ Len(manifests) = 0 /\ DOMAIN manifests = {}
  BY <1>1, EmptySeq
<1>3. scan.maxManifests \in Nat
  BY <1>1, ScansAssumption
<1>4. IsList(manifests)
  BY <1>2 DEF IsList
<1> QED BY <1>1, <1>2, <1>3, <1>4 DEF FoundInv, RootInside, FoundInside, WithinLimit

\* What is added was contained when it was looked at.
LEMMA AddKeeps == ASSUME FoundInv, AddManifest PROVE FoundInv'
<1> DEFINE found == [absolutePath |-> path, realPath |-> Real(path), root |-> rootRealPath]
<1>1. pc = "real" /\ pc' = "loop" /\ scan' = scan /\ rootRealPath' = rootRealPath
  BY DEF AddManifest, Loops, Awaits, fileVars
<1>2. IsPathInside(Cwd, rootRealPath) /\ RootInside'
  BY <1>1 DEF FoundInv, RootInside
<1>3. scan.maxManifests \in Nat
  BY LimitIsNatural
<1>4. PICK S : manifests \in Seq(S)
  BY DEF FoundInv, IsList
<1>5. Len(manifests) \in Nat /\ DOMAIN manifests = 1..Len(manifests)
  BY <1>4, LenProperties
<1>6. CASE UNCHANGED <<manifests, limited>>
  BY <1>1, <1>2, <1>6 DEF FoundInv, FoundInside, WithinLimit
<1>7. CASE Full /\ limited' = TRUE /\ UNCHANGED manifests
  <2>1. Len(manifests) = scan.maxManifests
    BY <1>3, <1>5, <1>7 DEF Full, FoundInv, WithinLimit
  <2>2. WithinLimit'
    BY <1>1, <1>3, <1>7, <2>1 DEF WithinLimit
  <2> QED BY <1>1, <1>2, <1>7, <2>2 DEF FoundInv, FoundInside
<1>8. CASE Contained(Real(path)) /\ ~Full /\ UNCHANGED limited /\ manifests' = Append(manifests, found)
  <2>1. /\ manifests' \in Seq(S \cup {found})
        /\ DOMAIN manifests' = 1..Len(manifests) + 1
        /\ Len(manifests') = Len(manifests) + 1
        /\ manifests'[Len(manifests) + 1] = found
        /\ \A i \in 1..Len(manifests) : manifests'[i] = manifests[i]
    BY <1>4, <1>8, AppendedList
  <2>2. IsList(manifests)'
    BY <2>1 DEF IsList
  <2>3. FoundInside'
    <3> SUFFICES ASSUME NEW i \in DOMAIN manifests'
                 PROVE  /\ IsPathInside(Cwd, manifests'[i].root)
                        /\ IsPathInside(manifests'[i].root, manifests'[i].realPath)
      BY DEF FoundInside
    <3>1. CASE i = Len(manifests) + 1
      <4>1. manifests'[i].root = rootRealPath /\ manifests'[i].realPath = Real(path)
        BY <2>1, <3>1
      <4> QED BY <1>2, <1>8, <4>1 DEF Contained
    <3>2. CASE i # Len(manifests) + 1
      <4>1. i \in DOMAIN manifests /\ manifests'[i] = manifests[i]
        BY <1>5, <2>1, <3>2
      <4> QED BY <4>1 DEF FoundInv, FoundInside
    <3> QED BY <3>1, <3>2
  <2>4. Len(manifests) < scan.maxManifests
    BY <1>3, <1>5, <1>8 DEF Full
  <2>5. ~limited
    BY <1>3, <1>5, <2>4 DEF FoundInv, WithinLimit
  <2>6. WithinLimit'
    <3>1. Len(manifests') <= scan'.maxManifests
      BY <1>1, <1>3, <1>5, <2>1, <2>4
    <3>2. ~limited'
      BY <1>8, <2>5
    <3> QED BY <3>1, <3>2 DEF WithinLimit
  <2> QED BY <1>1, <1>2, <2>2, <2>3, <2>6 DEF FoundInv
<1> QED BY <1>6, <1>7, <1>8 DEF AddManifest, Skips, Reports

\* The sort neither adds nor loses anything.
LEMMA SortKeeps == ASSUME FoundInv, SortAndReturn PROVE FoundInv'
<1> DEFINE paths == [i \in DOMAIN manifests |-> manifests[i].realPath]
<1>1. PICK p \in Sortings(paths) : manifests' = Arranged(manifests, p)
  BY DEF SortAndReturn
<1>2. PICK S : manifests \in Seq(S)
  BY DEF FoundInv, IsList
<1>3. /\ Len(manifests) \in Nat /\ DOMAIN manifests = 1..Len(manifests)
      /\ manifests \in [1..Len(manifests) -> S]
  BY <1>2, LenProperties
<1>4. p \in [DOMAIN manifests -> DOMAIN manifests]
  BY <1>1 DEF Sortings
<1>5. /\ manifests' \in [1..Len(manifests) -> S]
      /\ \A i \in DOMAIN manifests' : \E j \in DOMAIN manifests : manifests'[i] = manifests[j]
  BY <1>1, <1>3, <1>4 DEF Arranged
<1>6. manifests' \in Seq(S) /\ Len(manifests') = Len(manifests)
  BY <1>3, <1>5, ListOf
<1>7. pc' = "done" /\ limited' = limited /\ scan' = scan
  BY DEF SortAndReturn, Awaits, fileVars
<1>8. IsList(manifests)'
  BY <1>6 DEF IsList
<1>9. FoundInside'
  BY <1>5 DEF FoundInv, FoundInside
<1>10. WithinLimit'
  BY <1>6, <1>7 DEF FoundInv, WithinLimit
<1> QED BY <1>7, <1>8, <1>9, <1>10 DEF FoundInv, RootInside

\* Every other step leaves what is found as it is.
LEMMA OthersKeep ==
  ASSUME FoundInv, UNCHANGED <<scan, manifests, limited>>, RootInside'
  PROVE  FoundInv'
BY DEF FoundInv, IsList, FoundInside, WithinLimit

LEMMA FoundStep == FoundInv /\ [WalkNext]_walkVars => FoundInv'
<1> SUFFICES ASSUME FoundInv, [WalkNext]_walkVars PROVE FoundInv'
  OBVIOUS
<1> USE DEF fileVars, foundVars, frameVars, Loops, Awaits
<1>1. CASE BeginRoot
  <2>1. CASE EnterRoot /\ IsPathInside(Cwd, RootPath)
    <3>1. rootRealPath' = RootPath
      BY <2>1 DEF EnterRoot
    <3>2. RootInside'
      <4>1. IsPathInside(Cwd, rootRealPath')
        BY <2>1, <3>1
      <4> QED BY <4>1 DEF RootInside
    <3> QED BY <1>1, <2>1, <3>2, OthersKeep DEF BeginRoot, EnterRoot
  <2>2. CASE LeaveOutRoot
    <3>1. RootInside'
      BY <1>1, <2>2 DEF BeginRoot, LeaveOutRoot, RootInside
    <3> QED BY <1>1, <2>2, <3>1, OthersKeep DEF BeginRoot, LeaveOutRoot, Reports
  <2> QED BY <1>1, <2>1, <2>2 DEF BeginRoot
<1>2. CASE SortAndReturn
  BY <1>2, SortKeeps
<1>3. CASE EnterDirectory
  <2>1. UNCHANGED <<scan, manifests, limited, rootRealPath>> /\ pc = "enter"
    BY <1>3 DEF EnterDirectory, StaysOut, Reports
  <2>2. RootInside'
    BY <2>1 DEF FoundInv, RootInside
  <2> QED BY <2>1, <2>2, OthersKeep
<1>4. CASE ListDirectory
  <2>1. UNCHANGED <<scan, manifests, limited, rootRealPath>> /\ pc = "list"
    BY <1>4 DEF ListDirectory
  <2>2. RootInside'
    BY <2>1 DEF FoundInv, RootInside
  <2> QED BY <2>1, <2>2, OthersKeep
<1>5. CASE NextEntry
  <2>1. UNCHANGED <<scan, manifests, limited, rootRealPath>> /\ pc = "loop"
    BY <1>5 DEF NextEntry
  <2>2. RootInside'
    BY <2>1 DEF FoundInv, RootInside
  <2> QED BY <2>1, <2>2, OthersKeep
<1>6. CASE EndRoot
  <2>1. RootInside'
    BY <1>6 DEF EndRoot, RootInside
  <2> QED BY <1>6, <2>1, OthersKeep DEF EndRoot
<1>7. CASE LstatEntry
  <2>1. UNCHANGED <<scan, manifests, limited, rootRealPath>> /\ pc = "lstat"
    BY <1>7 DEF LstatEntry
  <2>2. RootInside'
    BY <2>1 DEF FoundInv, RootInside
  <2> QED BY <2>1, <2>2, OthersKeep
<1>8. CASE StatEntry
  <2>1. UNCHANGED <<scan, manifests, limited, rootRealPath>> /\ pc = "stat"
    BY <1>8 DEF StatEntry
  <2>2. RootInside'
    BY <2>1 DEF FoundInv, RootInside
  <2> QED BY <2>1, <2>2, OthersKeep
<1>9. CASE AddManifest
  BY <1>9, AddKeeps
<1>10. ASSUME NEW p \in Paths, NEW thing \in scan.things, Change(p, thing)
       PROVE  FoundInv'
  <2>1. UNCHANGED <<scan, manifests, limited, rootRealPath, pc>>
    BY <1>10 DEF Change
  <2>2. RootInside'
    BY <2>1 DEF FoundInv, RootInside
  <2> QED BY <2>1, <2>2, OthersKeep
<1>11. CASE UNCHANGED walkVars
  <2>1. UNCHANGED <<scan, manifests, limited, rootRealPath, pc>>
    BY <1>11 DEF walkVars
  <2>2. RootInside'
    BY <2>1 DEF FoundInv, RootInside
  <2> QED BY <2>1, <2>2, OthersKeep
<1> QED
  BY <1>1, <1>2, <1>3, <1>4, <1>5, <1>6, <1>7, <1>8, <1>9, <1>10, <1>11 DEF WalkNext, Walk

LEMMA FoundInvariant == WalkSpec => []FoundInv
BY FoundInit, FoundStep, PTL DEF WalkSpec

\* Whatever is replaced or linked elsewhere during the walk, what it finds was
\* in its root, and the root in the workspace.
THEOREM WalkStaysInside == WalkSpec => []FoundInside
<1>1. FoundInv => FoundInside
  BY DEF FoundInv
<1> QED BY <1>1, FoundInvariant, PTL

\* No more manifests than the limit are found, and it is reported only when
\* that many are.
THEOREM WalkLimitHolds == WalkSpec => []WithinLimit
<1>1. FoundInv => WithinLimit
  BY DEF FoundInv
<1> QED BY <1>1, FoundInvariant, PTL

-----------------------------------------------------------------------------
(* The recursion *)

\* What is on the stack was visited, and what is about to be listed was not
\* on it: visitedDirectories only grows by a directory that is not in it.
StackInv ==
  /\ stack \in Seq(Frames) /\ visitedDirectories \subseteq Places
  /\ \A i \in DOMAIN stack : stack[i].directory \in visitedDirectories
  /\ pc = "list" => \A i \in DOMAIN stack : stack[i].directory # path
  /\ pc = "list" => path \in visitedDirectories
  /\ NoCycle

LEMMA StackInit == WalkInit => StackInv
<1> SUFFICES ASSUME WalkInit PROVE StackInv
  OBVIOUS
<1>1. stack = <<>> /\ pc = "root" /\ visitedDirectories = {}
  BY DEF WalkInit
<1>2. stack \in Seq(Frames) /\ DOMAIN stack = {}
  BY <1>1, EmptySeq
<1> QED BY <1>1, <1>2 DEF StackInv, NoCycle

\* Nothing is new on a stack that lost its top or some entries of a frame.
LEMMA NoNewFrame ==
  ASSUME StackInv, stack' \in Seq(Frames), DOMAIN stack' \subseteq DOMAIN stack,
         \A i \in DOMAIN stack' : stack'[i].directory = stack[i].directory,
         UNCHANGED visitedDirectories, pc' # "list"
  PROVE  StackInv'
<1>1. \A i \in DOMAIN stack' : stack'[i].directory \in visitedDirectories'
  BY DEF StackInv
<1>2. NoCycle'
  BY DEF StackInv, NoCycle
<1> QED BY <1>1, <1>2 DEF StackInv

LEMMA SameStack ==
  ASSUME StackInv, UNCHANGED <<stack, visitedDirectories>>, pc' # "list"
  PROVE  StackInv'
BY DEF StackInv, NoCycle

\* A directory that is entered is new, and becomes the one that is listed.
LEMMA EnterKeeps == ASSUME StackInv, EnterDirectory PROVE StackInv'
<1> DEFINE real == Real(path)
<1>1. stack' = stack
  BY DEF EnterDirectory, frameVars
<1>2. CASE pc' = "loop" /\ UNCHANGED visitedDirectories
  <2>1. pc' # "list"
    BY <1>2
  <2> QED BY <1>1, <1>2, <2>1, SameStack
<1>3. CASE /\ real \notin visitedDirectories /\ real \in Places
           /\ path' = real /\ visitedDirectories' = visitedDirectories \cup {real}
  <2> HIDE DEF real
  <2>1. \A i \in DOMAIN stack : stack[i].directory # path'
    BY <1>3 DEF StackInv
  <2>2. \A i \in DOMAIN stack : stack[i].directory \in visitedDirectories'
    BY <1>3 DEF StackInv
  <2>3. path' \in visitedDirectories'
    BY <1>3
  <2>4. stack' \in Seq(Frames) /\ NoCycle' /\ visitedDirectories' \subseteq Places
    BY <1>1, <1>3 DEF StackInv, NoCycle
  <2> QED BY <1>1, <2>1, <2>2, <2>3, <2>4 DEF StackInv
<1> QED
  BY <1>2, <1>3 DEF EnterDirectory, Loops, Awaits, StaysOut, Reports, Visits, foundVars, Contained

LEMMA NamesAreNatural == \A d : Names(d) \subseteq Nat
<1>1. ASSUME NEW q \in Paths PROVE Last(q) \in Nat
  <2>1. q \in Seq(Nat) /\ q # <<>>
    BY PathsAssumption
  <2>2. Len(q) \in Nat /\ Len(q) # 0
    BY <2>1, LenProperties, EmptySeq
  <2>3. Len(q) \in 1..Len(q)
    BY <2>2
  <2> QED BY <2>1, <2>3, ElementOfSeq DEF Last
<1> QED BY <1>1 DEF Names

\* The directory that is listed goes on top.
LEMMA ListKeeps == ASSUME StackInv, ListDirectory PROVE StackInv'
<1> DEFINE entries == Names(Real(path))
           frame == [directory |-> path, entries |-> entries]
<1>1. pc = "list" /\ pc' # "list" /\ UNCHANGED visitedDirectories
  BY DEF ListDirectory, Loops, Throws, Awaits, foundVars
<1>2. CASE stack' = stack
  BY <1>1, <1>2, SameStack
<1>3. CASE stack' = Append(stack, frame)
  <2>1. entries \subseteq Nat
    BY NamesAreNatural
  <2> HIDE DEF entries
  <2>2. path \in Places
    BY <1>1 DEF StackInv
  <2>3. frame \in Frames /\ frame.directory = path
    BY <2>1, <2>2 DEF Frames
  <2> HIDE DEF frame
  <2>4. stack \in Seq(Frames)
    BY DEF StackInv
  <2>5. stack' \in Seq(Frames)
    BY <1>3, <2>3, <2>4, AppendProperties
  <2>7. /\ DOMAIN stack = 1..Len(stack) /\ DOMAIN stack' = 1..Len(stack) + 1
        /\ Len(stack) \in Nat
        /\ stack'[Len(stack) + 1] = frame
        /\ \A i \in 1..Len(stack) : stack'[i] = stack[i]
    BY <1>3, <2>4, AppendedList
  <2>8. \A i \in DOMAIN stack' : i = Len(stack) + 1 \/ i \in DOMAIN stack
    BY <2>7
  <2>10. stack'[Len(stack) + 1].directory = path
    BY <2>3, <2>7
  <2>11. \A i \in DOMAIN stack : /\ stack'[i].directory = stack[i].directory
                                 /\ stack[i].directory # path
    BY <1>1, <2>7 DEF StackInv
  <2>12. \A i \in DOMAIN stack' : stack'[i].directory \in visitedDirectories'
    BY <1>1, <2>8, <2>10, <2>11 DEF StackInv
  <2>13. NoCycle'
    BY <2>8, <2>10, <2>11 DEF StackInv, NoCycle
  <2> QED BY <1>1, <2>5, <2>12, <2>13 DEF StackInv
<1> QED BY <1>2, <1>3 DEF ListDirectory, Throws

\* What NextEntry leaves on top.
Shrunk(s, name) == [s EXCEPT ![Len(s)].entries = @ \ {name}]

LEMMA FrameShrinks ==
  ASSUME NEW s \in Seq(Frames), s # <<>>, NEW name, NEW t, t = Shrunk(s, name)
  PROVE  /\ Len(s) \in DOMAIN s
         /\ t \in Seq(Frames) /\ DOMAIN t = DOMAIN s
         /\ \A i \in DOMAIN s : t[i].directory = s[i].directory
         /\ t[Len(s)].entries = s[Len(s)].entries \ {name}
         /\ \A i \in DOMAIN s : i # Len(s) => t[i] = s[i]
<1>1. /\ Len(s) \in Nat /\ s \in [1..Len(s) -> Frames]
      /\ DOMAIN s = 1..Len(s) /\ Len(s) # 0
  BY LenProperties, EmptySeq
<1> DEFINE n == Len(s)
           rest == s[n].entries \ {name}
<1>2. n \in DOMAIN s
  BY <1>1
<1>3. s[n] \in Frames
  BY <1>1, <1>2
<1>4. rest \subseteq Nat
  BY <1>3 DEF Frames
<1>5. t = [s EXCEPT ![n] = [s[n] EXCEPT !.entries = rest]]
  BY DEF Shrunk
<1> HIDE DEF rest
<1>6. [s[n] EXCEPT !.entries = rest] = [directory |-> s[n].directory, entries |-> rest]
  <2> HIDE DEF n
  <2> QED BY <1>3 DEF Frames
<1>7. [s[n] EXCEPT !.entries = rest] \in Frames
  BY <1>3, <1>4, <1>6 DEF Frames
<1> HIDE DEF n
<1>8. DOMAIN t = DOMAIN s /\ t[n] = [s[n] EXCEPT !.entries = rest]
      /\ \A i \in DOMAIN s : i # n => t[i] = s[i]
  BY <1>2, <1>5
<1>9. t \in [1..Len(s) -> Frames]
  BY <1>1, <1>5, <1>7
<1>10. t \in Seq(Frames)
  BY <1>1, <1>9, ListOf
<1>11. t[n].directory = s[n].directory /\ t[n].entries = rest
  BY <1>6, <1>8
<1> QED BY <1>2, <1>8, <1>10, <1>11 DEF n, rest

\* The frame on top loses an entry, or the stack its top.
LEMMA NextKeeps == ASSUME StackInv, NextEntry PROVE StackInv'
<1>1. pc' # "list" /\ UNCHANGED visitedDirectories /\ stack # <<>>
  BY DEF NextEntry, Awaits, foundVars
<1>2. stack \in Seq(Frames)
  BY DEF StackInv
<1>3. CASE stack' = Front(stack)
  <2>1. /\ stack' \in Seq(Frames) /\ DOMAIN stack' \subseteq DOMAIN stack
        /\ \A i \in DOMAIN stack' : stack'[i].directory = stack[i].directory
    BY <1>2, <1>3, FrontList
  <2> QED BY <1>1, <2>1, NoNewFrame
<1>4. ASSUME NEW name, stack' = Shrunk(stack, name)
      PROVE  StackInv'
  <2>1. /\ stack' \in Seq(Frames) /\ DOMAIN stack' = DOMAIN stack
        /\ \A i \in DOMAIN stack : stack'[i].directory = stack[i].directory
    BY <1>1, <1>2, <1>4, FrameShrinks
  <2> QED BY <1>1, <2>1, NoNewFrame
<1> QED BY <1>3, <1>4 DEF NextEntry, Shrunk

LEMMA StackStep == StackInv /\ [WalkNext]_walkVars => StackInv'
<1> SUFFICES ASSUME StackInv, [WalkNext]_walkVars PROVE StackInv'
  OBVIOUS
<1> USE DEF fileVars, foundVars, frameVars, Loops, Awaits
<1>1. CASE BeginRoot
  <2>1. UNCHANGED <<stack, visitedDirectories>> /\ pc' # "list"
    BY <1>1 DEF BeginRoot, EnterRoot, LeaveOutRoot, Reports
  <2> QED BY <2>1, SameStack
<1>2. CASE SortAndReturn
  <2>1. UNCHANGED <<stack, visitedDirectories>> /\ pc' # "list"
    BY <1>2 DEF SortAndReturn
  <2> QED BY <2>1, SameStack
<1>3. CASE EnterDirectory
  BY <1>3, EnterKeeps
<1>4. CASE ListDirectory
  BY <1>4, ListKeeps
<1>5. CASE NextEntry
  BY <1>5, NextKeeps
<1>6. CASE EndRoot
  <2>1. UNCHANGED <<stack, visitedDirectories>> /\ pc' # "list"
    BY <1>6 DEF EndRoot
  <2> QED BY <2>1, SameStack
<1>7. CASE LstatEntry
  <2>1. UNCHANGED <<stack, visitedDirectories>> /\ pc' # "list"
    BY <1>7 DEF LstatEntry, Examine, Throws
  <2> QED BY <2>1, SameStack
<1>8. CASE StatEntry
  <2>1. UNCHANGED <<stack, visitedDirectories>> /\ pc' # "list"
    BY <1>8 DEF StatEntry, Examine, Throws
  <2> QED BY <2>1, SameStack
<1>9. CASE AddManifest
  <2>1. UNCHANGED visitedDirectories /\ pc' # "list"
    BY <1>9 DEF AddManifest, Skips, Reports
  <2>2. stack' = stack \/ stack' = Front(stack)
    BY <1>9 DEF AddManifest, Skips
  <2>3. CASE stack' = stack
    BY <2>1, <2>3, SameStack
  <2>4. CASE stack' = Front(stack)
    <3>1. /\ stack' \in Seq(Frames) /\ DOMAIN stack' \subseteq DOMAIN stack
          /\ \A i \in DOMAIN stack' : stack'[i].directory = stack[i].directory
      BY <2>4, FrontList DEF StackInv
    <3> QED BY <2>1, <3>1, NoNewFrame
  <2> QED BY <2>2, <2>3, <2>4
<1>10. ASSUME NEW p \in Paths, NEW thing \in scan.things, Change(p, thing)
       PROVE  StackInv'
  BY <1>10 DEF Change, StackInv, NoCycle
<1>11. CASE UNCHANGED walkVars
  BY <1>11 DEF walkVars, StackInv, NoCycle
<1> QED
  BY <1>1, <1>2, <1>3, <1>4, <1>5, <1>6, <1>7, <1>8, <1>9, <1>10, <1>11 DEF WalkNext, Walk

\* No directory is on the stack twice, wherever links lead: walkDirectory is
\* never called for a directory that a call further out is in.
THEOREM WalkNeverCycles == WalkSpec => []NoCycle
<1>1. StackInv => NoCycle
  BY DEF StackInv
<1> QED BY <1>1, StackInit, StackStep, PTL DEF WalkSpec
-----------------------------------------------------------------------------
(* Each path is taken once *)

\* The paths under which manifests were found, and those that the frames of
\* the stack have yet to take.
Found == {manifests[i].absolutePath : i \in DOMAIN manifests}
Taken(d) == {Append(d, n) : n \in Nat}
Ahead == UNION {{Append(stack[i].directory, n) : n \in stack[i].entries} : i \in DOMAIN stack}
InHand == pc \in {"lstat", "stat", "real"}

\* A path is ahead, in hand or found, and never two of them: a directory that
\* was not visited has no child that was found, and a frame loses the name
\* that is taken.
PathsInv ==
  /\ IsList(manifests)
  /\ \A i, j \in DOMAIN manifests :
       manifests[i].absolutePath = manifests[j].absolutePath => i = j
  /\ \A p \in Found : \E d \in visitedDirectories : p \in Taken(d)
  /\ Ahead \cap Found = {}
  /\ InHand => path \notin Ahead \cup Found /\ \E d \in visitedDirectories : path \in Taken(d)
  /\ pc = "list" => Taken(path) \cap Found = {}
  /\ pc \in {"root", "done"} => stack = <<>>

LEMMA PlacesAreLists == Places \subseteq Seq(Nat)
<1>1. <<>> \in Seq(Nat)
  BY EmptySeq
<1> QED BY <1>1, PathsAssumption DEF Places

\* No path has two parents or two names.
LEMMA OneParent ==
  ASSUME NEW d \in Places, NEW e \in Places, NEW n \in Nat, NEW k \in Nat,
         Append(d, n) = Append(e, k)
  PROVE  d = e /\ n = k
BY PlacesAreLists, AppendInjective

LEMMA PathsInit == WalkInit => PathsInv
<1> SUFFICES ASSUME WalkInit PROVE PathsInv
  OBVIOUS
<1>1. manifests = <<>> /\ stack = <<>> /\ pc = "root"
  BY DEF WalkInit
<1>2. manifests \in Seq({}) /\ DOMAIN manifests = {} /\ DOMAIN stack = {}
  BY <1>1, EmptySeq
<1>3. IsList(manifests)
  BY <1>2 DEF IsList
<1>4. Found = {} /\ Ahead = {}
  BY <1>2 DEF Found, Ahead
<1> QED BY <1>1, <1>2, <1>3, <1>4 DEF PathsInv, InHand

\* Steps that find nothing and take no path.
LEMMA NothingTaken ==
  ASSUME PathsInv, UNCHANGED manifests, visitedDirectories \subseteq visitedDirectories',
         Ahead' \subseteq Ahead, InHand' => InHand /\ path' = path, pc' # "list",
         pc' \in {"root", "done"} => stack' = <<>>
  PROVE  PathsInv'
<1>1. Found' = Found /\ IsList(manifests')
  BY DEF Found, PathsInv
<1> QED BY <1>1 DEF PathsInv

LEMMA SameAhead == ASSUME UNCHANGED stack PROVE Ahead' = Ahead
BY DEF Ahead

\* A stack that lost its top has nothing more ahead.
LEMMA LessAhead ==
  ASSUME StackInv, stack' = Front(stack)
  PROVE  Ahead' \subseteq Ahead
<1>1. /\ DOMAIN stack' \subseteq DOMAIN stack
      /\ \A i \in DOMAIN stack' : stack'[i] = stack[i]
  BY FrontList DEF StackInv
<1> QED BY <1>1 DEF Ahead

\* What is in a directory that is entered for the first time was not found.
LEMMA EnterTakes == ASSUME StackInv, PathsInv, EnterDirectory PROVE PathsInv'
<1> DEFINE real == Real(path)
<1>1. UNCHANGED <<stack, manifests>> /\ Ahead' = Ahead
  BY SameAhead DEF EnterDirectory, StaysOut, Reports, foundVars, frameVars
<1>2. CASE pc' = "loop" /\ UNCHANGED visitedDirectories
  <2>1. ~InHand' /\ pc' \notin {"list", "root", "done"}
    BY <1>2 DEF InHand
  <2> QED BY <1>1, <1>2, <2>1, NothingTaken
<1>3. CASE /\ real \notin visitedDirectories /\ real \in Places /\ pc' = "list"
           /\ path' = real /\ visitedDirectories' = visitedDirectories \cup {real}
  <2> HIDE DEF real
  <2>1. Found' = Found
    BY <1>1 DEF Found
  <2>2. ASSUME NEW n \in Nat, Append(real, n) \in Found PROVE FALSE
    <3>1. PICK d \in visitedDirectories : Append(real, n) \in Taken(d)
      BY <2>2 DEF PathsInv
    <3>2. PICK k \in Nat : Append(real, n) = Append(d, k)
      BY <3>1 DEF Taken
    <3>3. d \in Places
      BY DEF StackInv
    <3>4. real = d
      BY <1>3, <3>2, <3>3, OneParent
    <3> QED BY <1>3, <3>4
  <2>3. Taken(path') \cap Found' = {}
    BY <1>3, <2>1, <2>2 DEF Taken
  <2>4. ~InHand' /\ pc' \notin {"root", "done"}
    BY <1>3 DEF InHand
  <2>5. \A p \in Found' : \E d \in visitedDirectories' : p \in Taken(d)
    BY <1>3, <2>1 DEF PathsInv
  <2>6. Ahead' \cap Found' = {} /\ IsList(manifests')
    BY <1>1, <2>1 DEF PathsInv
  <2> QED BY <1>1, <2>3, <2>4, <2>5, <2>6 DEF PathsInv
<1> QED
  BY <1>2, <1>3 DEF EnterDirectory, Loops, Awaits, StaysOut, Reports, Visits, foundVars, Contained

\* What the directory that is listed holds comes ahead.
LEMMA ListTakes == ASSUME StackInv, PathsInv, ListDirectory PROVE PathsInv'
<1> DEFINE entries == Names(Real(path))
           frame == [directory |-> path, entries |-> entries]
<1>1. /\ pc = "list" /\ pc' \in {"loop", "failed"}
      /\ UNCHANGED <<visitedDirectories, manifests>>
  BY DEF ListDirectory, Loops, Throws, Awaits, foundVars
<1>2. ~InHand' /\ pc' \notin {"list", "root", "done"}
  BY <1>1 DEF InHand
<1>3. CASE stack' = stack
  BY <1>1, <1>2, <1>3, SameAhead, NothingTaken
<1>4. CASE stack' = Append(stack, frame)
  <2>1. entries \subseteq Nat
    BY NamesAreNatural
  <2>2. frame.directory = path /\ frame.entries = entries
    OBVIOUS
  <2> HIDE DEF entries, frame
  <2>3. /\ DOMAIN stack = 1..Len(stack) /\ DOMAIN stack' = 1..Len(stack) + 1
        /\ Len(stack) \in Nat
        /\ stack'[Len(stack) + 1] = frame
        /\ \A i \in 1..Len(stack) : stack'[i] = stack[i]
    BY <1>4, AppendedList DEF StackInv
  <2>4. \A i \in DOMAIN stack' : i = Len(stack) + 1 \/ i \in DOMAIN stack
    BY <2>3
  <2> DEFINE top == stack'[Len(stack) + 1]
  <2>8. top.directory = path /\ top.entries = entries
    BY <2>2, <2>3
  <2>5. Ahead' \subseteq Ahead \cup Taken(path)
    <3> SUFFICES ASSUME NEW p \in Ahead' PROVE p \in Ahead \cup Taken(path)
      OBVIOUS
    <3>3. PICK i \in DOMAIN stack' : \E n \in stack'[i].entries :
                                       p = Append(stack'[i].directory, n)
      BY DEF Ahead
    <3>1. CASE i = Len(stack) + 1
      <4>1. stack'[i].directory = path /\ stack'[i].entries = entries
        BY <2>8, <3>1, Zenon
      <4> QED BY <2>1, <3>3, <4>1 DEF Taken
    <3>2. CASE i \in DOMAIN stack
      BY <2>3, <3>2, <3>3 DEF Ahead
    <3> QED BY <2>4, <3>1, <3>2
  <2>6. Found' = Found /\ IsList(manifests')
    BY <1>1 DEF Found, PathsInv
  <2>7. Ahead' \cap Found' = {}
    BY <1>1, <2>5, <2>6 DEF PathsInv
  <2> QED BY <1>1, <1>2, <2>6, <2>7 DEF PathsInv
<1> QED BY <1>3, <1>4 DEF ListDirectory, Throws

\* The name that is taken is no longer ahead.
LEMMA NextTakes == ASSUME StackInv, PathsInv, NextEntry PROVE PathsInv'
<1> DEFINE n == Len(stack)
           top == stack[n]
<1>1. /\ pc = "loop" /\ stack # <<>> /\ UNCHANGED <<visitedDirectories, manifests>>
      /\ pc' \in {"loop", "lstat"}
  BY DEF NextEntry, Awaits, foundVars
<1>2. stack \in Seq(Frames)
  BY DEF StackInv
<1>3. CASE stack' = Front(stack) /\ UNCHANGED pc
  <2>1. Ahead' \subseteq Ahead /\ ~InHand' /\ pc' \notin {"list", "root", "done"}
    BY <1>1, <1>3, LessAhead DEF InHand
  <2> QED BY <1>1, <2>1, NothingTaken
<1>4. ASSUME NEW name \in top.entries, stack' = Shrunk(stack, name),
             \/ UNCHANGED <<pc, path>>
             \/ pc' = "lstat" /\ path' = Append(top.directory, name)
      PROVE  PathsInv'
  <2> DEFINE entry == Append(top.directory, name)
  <2>1. /\ n \in DOMAIN stack /\ DOMAIN stack' = DOMAIN stack
        /\ stack' \in Seq(Frames)
        /\ \A i \in DOMAIN stack : stack'[i].directory = stack[i].directory
        /\ stack'[n].entries = top.entries \ {name}
        /\ \A i \in DOMAIN stack : i # n => stack'[i] = stack[i]
    BY <1>1, <1>2, <1>4, FrameShrinks
  <2>2. \A i \in DOMAIN stack : stack[i] \in Frames /\ stack'[i] \in Frames
    <3>1. /\ DOMAIN stack = 1..Len(stack) /\ DOMAIN stack' = 1..Len(stack')
      BY <1>2, <2>1, LenProperties
    <3> QED BY <1>2, <2>1, <3>1, ElementOfSeq
  <2>3. name \in Nat /\ top.directory \in Places
    BY <2>1, <2>2 DEF Frames
  <2>4. \A i \in DOMAIN stack : stack'[i].entries \subseteq stack[i].entries
    BY <2>1
  <2>5. Ahead' \subseteq Ahead
    <3> SUFFICES ASSUME NEW p \in Ahead' PROVE p \in Ahead
      OBVIOUS
    <3>1. PICK i \in DOMAIN stack' : \E k \in stack'[i].entries :
                                       p = Append(stack'[i].directory, k)
      BY DEF Ahead
    <3>2. i \in DOMAIN stack /\ stack'[i].directory = stack[i].directory
      BY <2>1
    <3> QED BY <2>4, <3>1, <3>2 DEF Ahead
  <2>6. entry \in Ahead
    <3> HIDE DEF n
    <3> QED BY <1>4, <2>1 DEF Ahead
  <2>7. entry \notin Ahead'
    <3> SUFFICES ASSUME entry \in Ahead' PROVE FALSE
      OBVIOUS
    <3>1. PICK i \in DOMAIN stack' : \E k \in stack'[i].entries :
                                       entry = Append(stack'[i].directory, k)
      BY DEF Ahead
    <3>2. PICK k \in stack'[i].entries : entry = Append(stack'[i].directory, k)
      BY <3>1
    <3>3. i \in DOMAIN stack /\ stack'[i].directory = stack[i].directory
      BY <2>1
    <3>4. k \in Nat /\ stack[i].directory \in Places
      BY <2>2, <3>2, <3>3 DEF Frames
    <3>5. stack[i].directory = top.directory /\ k = name
      <4>1. PICK d \in Places : d = top.directory
        BY <2>3
      <4>2. PICK e \in Places : e = stack[i].directory
        BY <3>4
      <4>3. Append(e, k) = Append(d, name)
        BY <3>2, <3>3, <4>1, <4>2
      <4>4. e = d /\ k = name
        BY <2>3, <3>4, <4>3, OneParent
      <4> QED BY <4>1, <4>2, <4>4
    <3>6. i = n
      BY <2>1, <3>3, <3>5 DEF StackInv, NoCycle
    <3> QED BY <2>1, <3>2, <3>5, <3>6
  <2>8. entry \in Taken(top.directory) /\ top.directory \in visitedDirectories
    BY <2>1, <2>3 DEF Taken, StackInv
  <2>9. Found' = Found /\ IsList(manifests') /\ entry \notin Found
    BY <1>1, <2>6 DEF Found, PathsInv
  <2>10. CASE UNCHANGED <<pc, path>>
    <3>1. ~InHand' /\ pc' \notin {"list", "root", "done"}
      BY <1>1, <2>10 DEF InHand
    <3> QED BY <1>1, <2>5, <3>1, NothingTaken
  <2>11. CASE pc' = "lstat" /\ path' = entry
    <3> HIDE DEF entry, top, n
    <3>1. path' \notin Ahead' \cup Found' /\ \E d \in visitedDirectories' : path' \in Taken(d)
      BY <1>1, <2>7, <2>8, <2>9, <2>11
    <3>2. Ahead' \cap Found' = {}
      BY <2>5, <2>9 DEF PathsInv
    <3> QED BY <1>1, <2>9, <2>11, <3>1, <3>2 DEF PathsInv
  <2> QED BY <1>4, <2>10, <2>11
<1>5. \/ stack' = Front(stack) /\ UNCHANGED pc
      \/ \E name \in top.entries :
           /\ stack' = Shrunk(stack, name)
           /\ \/ UNCHANGED <<pc, path>>
              \/ pc' = "lstat" /\ path' = Append(top.directory, name)
  BY DEF NextEntry, Shrunk, Last, Awaits
<1> QED BY <1>3, <1>4, <1>5

\* The path in hand is found.
LEMMA AddTakes == ASSUME StackInv, PathsInv, AddManifest PROVE PathsInv'
<1> DEFINE found == [absolutePath |-> path, realPath |-> Real(path), root |-> rootRealPath]
<1>1. /\ pc = "real" /\ pc' = "loop" /\ UNCHANGED visitedDirectories
      /\ ~InHand' /\ pc' \notin {"list", "root", "done"}
  BY DEF AddManifest, Loops, Awaits, Skips, Reports, InHand
<1>2. stack' = stack \/ stack' = Front(stack)
  BY DEF AddManifest, Skips
<1>3. Ahead' \subseteq Ahead
  BY <1>2, SameAhead, LessAhead
<1>4. CASE UNCHANGED manifests
  BY <1>1, <1>3, <1>4, NothingTaken
<1>5. CASE manifests' = Append(manifests, found)
  <2>0. found.absolutePath = path
    OBVIOUS
  <2> HIDE DEF found
  <2>1. PICK S : manifests \in Seq(S)
    BY DEF PathsInv, IsList
  <2>2. /\ manifests' \in Seq(S \cup {found})
        /\ DOMAIN manifests = 1..Len(manifests) /\ DOMAIN manifests' = 1..Len(manifests) + 1
        /\ Len(manifests) \in Nat
        /\ manifests'[Len(manifests) + 1] = found
        /\ \A i \in 1..Len(manifests) : manifests'[i] = manifests[i]
    BY <1>5, <2>1, AppendedList
  <2> DEFINE m == Len(manifests) + 1
  <2>3. /\ \A i \in DOMAIN manifests' : i = m \/ i \in DOMAIN manifests
        /\ manifests'[m].absolutePath = path
        /\ \A i \in DOMAIN manifests : /\ manifests'[i] = manifests[i]
                                       /\ manifests[i].absolutePath \in Found
    BY <2>0, <2>2 DEF Found
  <2> HIDE DEF m
  <2>4. path \notin Ahead \cup Found /\ \E d \in visitedDirectories : path \in Taken(d)
    BY <1>1 DEF PathsInv, InHand
  <2>5. Found' \subseteq Found \cup {path}
    BY <2>3 DEF Found
  <2>6. \A i, j \in DOMAIN manifests' :
          manifests'[i].absolutePath = manifests'[j].absolutePath => i = j
    BY <2>3, <2>4 DEF PathsInv
  <2>7. Ahead' \cap Found' = {}
    BY <1>3, <2>4, <2>5 DEF PathsInv
  <2>8. \A p \in Found' : \E d \in visitedDirectories' : p \in Taken(d)
    BY <1>1, <2>4, <2>5 DEF PathsInv
  <2>9. IsList(manifests')
    BY <2>2 DEF IsList
  <2> QED BY <1>1, <2>6, <2>7, <2>8, <2>9 DEF PathsInv
<1> QED BY <1>4, <1>5 DEF AddManifest, Skips, Reports

LEMMA SortTakes == ASSUME PathsInv, SortAndReturn PROVE PathsInv'
<1> DEFINE paths == [i \in DOMAIN manifests |-> manifests[i].realPath]
<1>1. PICK p \in Sortings(paths) : manifests' = Arranged(manifests, p)
  BY DEF SortAndReturn
<1>2. PICK S : manifests \in Seq(S)
  BY DEF PathsInv, IsList
<1>3. /\ Len(manifests) \in Nat /\ DOMAIN manifests = 1..Len(manifests)
      /\ manifests \in [1..Len(manifests) -> S]
  BY <1>2, LenProperties
<1>4. /\ p \in [DOMAIN manifests -> DOMAIN manifests]
      /\ \A i, j \in DOMAIN manifests : i < j => p[i] # p[j]
  BY <1>1 DEF Sortings
<1>5. \A i, j \in DOMAIN manifests : i # j => p[i] # p[j]
  <2> SUFFICES ASSUME NEW i \in DOMAIN manifests, NEW j \in DOMAIN manifests, i # j
               PROVE  p[i] # p[j]
    OBVIOUS
  <2>1. i < j \/ j < i
    BY <1>3
  <2> QED BY <1>4, <2>1
<1>6. /\ DOMAIN manifests' = DOMAIN manifests
      /\ \A i \in DOMAIN manifests : p[i] \in DOMAIN manifests /\ manifests'[i] = manifests[p[i]]
  BY <1>1, <1>4 DEF Arranged
<1>12. manifests' \in [1..Len(manifests) -> S]
  BY <1>1, <1>3, <1>4 DEF Arranged
<1>7. manifests' \in Seq(S)
  BY <1>3, <1>12, ListOf
<1>8. IsList(manifests')
  BY <1>7 DEF IsList
<1>9. Found' \subseteq Found
  BY <1>6 DEF Found
<1>10. \A i, j \in DOMAIN manifests' :
         manifests'[i].absolutePath = manifests'[j].absolutePath => i = j
  BY <1>5, <1>6 DEF PathsInv
<1>11. /\ pc = "root" /\ pc' = "done" /\ ~InHand'
       /\ UNCHANGED <<stack, visitedDirectories>> /\ Ahead' = Ahead
  BY SameAhead DEF SortAndReturn, Awaits, InHand, frameVars
<1> QED BY <1>8, <1>9, <1>10, <1>11 DEF PathsInv

LEMMA PathsStep == StackInv /\ PathsInv /\ [WalkNext]_walkVars => PathsInv'
<1> SUFFICES ASSUME StackInv, PathsInv, [WalkNext]_walkVars PROVE PathsInv'
  OBVIOUS
<1> USE DEF fileVars, foundVars, frameVars, Loops, Awaits
<1>1. CASE BeginRoot
  <2>1. /\ UNCHANGED <<stack, visitedDirectories, manifests>>
        /\ pc = "root" /\ pc' \in {"root", "enter"}
    BY <1>1 DEF BeginRoot, EnterRoot, LeaveOutRoot, Reports
  <2>2. ~InHand' /\ pc' # "list" /\ Ahead' = Ahead /\ stack = <<>>
    BY <2>1, SameAhead DEF InHand, PathsInv
  <2> QED BY <2>1, <2>2, NothingTaken
<1>2. CASE SortAndReturn
  BY <1>2, SortTakes
<1>3. CASE EnterDirectory
  BY <1>3, EnterTakes
<1>4. CASE ListDirectory
  BY <1>4, ListTakes
<1>5. CASE NextEntry
  BY <1>5, NextTakes
<1>6. CASE EndRoot
  <2>1. UNCHANGED <<stack, visitedDirectories, manifests>> /\ pc' = "root" /\ stack = <<>>
    BY <1>6 DEF EndRoot
  <2>2. ~InHand' /\ Ahead' = Ahead
    BY <2>1, SameAhead DEF InHand
  <2> QED BY <2>1, <2>2, NothingTaken
<1>7. CASE LstatEntry
  <2>1. /\ UNCHANGED <<stack, visitedDirectories, manifests>> /\ pc = "lstat"
        /\ \/ pc' \in {"stat", "real", "enter"} /\ path' = path
           \/ pc' \in {"loop", "failed"}
    BY <1>7 DEF LstatEntry, Examine, Throws
  <2>2. Ahead' = Ahead /\ (InHand' => InHand /\ path' = path)
    BY <2>1, SameAhead DEF InHand
  <2> QED BY <2>1, <2>2, NothingTaken
<1>8. CASE StatEntry
  <2>1. /\ UNCHANGED <<stack, visitedDirectories, manifests>> /\ pc = "stat"
        /\ \/ pc' \in {"real", "enter"} /\ path' = path
           \/ pc' \in {"loop", "failed"}
    BY <1>8 DEF StatEntry, Examine, Throws
  <2>2. Ahead' = Ahead /\ (InHand' => InHand /\ path' = path)
    BY <2>1, SameAhead DEF InHand
  <2> QED BY <2>1, <2>2, NothingTaken
<1>9. CASE AddManifest
  BY <1>9, AddTakes
<1>10. CASE UNCHANGED <<stack, visitedDirectories, manifests, pc, path>>
  BY <1>10 DEF PathsInv, IsList, Found, Ahead, InHand
<1>11. ASSUME NEW p \in Paths, NEW thing \in scan.things, Change(p, thing)
       PROVE  UNCHANGED <<stack, visitedDirectories, manifests, pc, path>>
  BY <1>11 DEF Change
<1>12. UNCHANGED walkVars => UNCHANGED <<stack, visitedDirectories, manifests, pc, path>>
  BY DEF walkVars
<1> QED
  BY <1>1, <1>2, <1>3, <1>4, <1>5, <1>6, <1>7, <1>8, <1>9, <1>10, <1>11, <1>12 DEF WalkNext, Walk

LEMMA PathsInvariant == WalkSpec => [](StackInv /\ PathsInv)
BY StackInit, StackStep, PathsInit, PathsStep, PTL DEF WalkSpec

\* No file is found twice where it lies, whatever roots overlap, wherever
\* links lead and whatever is replaced during the walk.
THEOREM FoundOnce == WalkSpec => []OncePerFile
<1>1. PathsInv => OncePerFile
  BY DEF PathsInv, OncePerFile
<1> QED BY <1>1, PathsInvariant, PTL

-----------------------------------------------------------------------------
(* The matcher of patterns *)

AllPatterns == Seq(SUBSET Int)
AllSegments == Seq(Nat)
Rest(s, n) == SubSeq(s, n + 1, Len(s))

IsCut(cut, pattern, segments) ==
  /\ cut \in [0..Len(pattern) -> 0..Len(segments)]
  /\ cut[0] = 0 /\ cut[Len(pattern)] = Len(segments)
  /\ \A i \in 1..Len(pattern) :
       IF pattern[i] = AnyDepth THEN cut[i - 1] <= cut[i]
       ELSE cut[i] = cut[i - 1] + 1 /\ segments[cut[i]] \in pattern[i]

LEMMA CoversByCut ==
  ASSUME NEW p \in AllPatterns, NEW s \in AllSegments
  PROVE  Covers(p, s) <=> \E cut : IsCut(cut, p, s)
<1>1. DOMAIN p = 1..Len(p)
  BY LenProperties DEF AllPatterns
<1> QED BY <1>1 DEF Covers, IsCut

LEMMA RestOf ==
  ASSUME NEW S, NEW s \in Seq(S), NEW n \in 0..Len(s)
  PROVE  /\ Rest(s, n) \in Seq(S) /\ Len(Rest(s, n)) = Len(s) - n
         /\ \A i \in 1..Len(s) - n : Rest(s, n)[i] = s[n + i]
<1>1. Len(s) \in Nat
  BY LenProperties
<1> DEFINE k == n + 1
           l == Len(s)
<1>2. k \in Int /\ l \in Int /\ l - k + 1 = l - n /\ k >= 1 /\ l - n >= 0
  BY <1>1
<1>3. \A i \in k..l : s[i] \in S
  BY <1>1, ElementOfSeq
<1> HIDE DEF k, l
<1>4. /\ SubSeq(s, k, l) \in Seq(S)
      /\ Len(SubSeq(s, k, l)) = IF k <= l THEN l - k + 1 ELSE 0
      /\ \A i \in 1..l - k + 1 : SubSeq(s, k, l)[i] = s[k + i - 1]
  BY <1>2, <1>3, SubSeqProperties
<1>5. Len(SubSeq(s, k, l)) = l - n
  BY <1>2, <1>4
<1>6. n \in Int /\ k = n + 1
  BY DEF k
<1>7. \A i \in 1..l - n : SubSeq(s, k, l)[i] = s[n + i]
  <2> SUFFICES ASSUME NEW i \in 1..l - n PROVE SubSeq(s, k, l)[i] = s[n + i]
    OBVIOUS
  <2>1. i \in 1..l - k + 1 /\ k + i - 1 = n + i
    BY <1>2, <1>6
  <2> QED BY <1>4, <2>1
<1>8. Rest(s, n) = SubSeq(s, k, l)
  BY DEF Rest, k, l
<1> QED BY <1>4, <1>5, <1>7, <1>8 DEF l

\* No piece of a cut ends before the first.
LEMMA CutGrows ==
  ASSUME NEW p \in AllPatterns, NEW s \in AllSegments, NEW cut, IsCut(cut, p, s)
  PROVE  \A i \in 1..Len(p) : cut[1] <= cut[i]
<1> DEFINE B == {i \in 1..Len(p) : ~(cut[1] <= cut[i])}
<1>1. SUFFICES ASSUME B # {} PROVE FALSE
  OBVIOUS
<1>2. B \in SUBSET Nat
  OBVIOUS
<1>3. Len(p) \in Nat /\ Len(s) \in Nat
  BY LenProperties DEF AllPatterns, AllSegments
<1>4. \A i \in 0..Len(p) : cut[i] \in Int
  BY <1>3 DEF IsCut
<1>5. PICK i \in B : \A j \in B : i <= j
  <2> HIDE DEF B
  <2> QED BY <1>1, <1>2, First
<1>6. i \in 1..Len(p) /\ ~(cut[1] <= cut[i])
  OBVIOUS
<1>7. i # 1
  BY <1>3, <1>4, <1>6
<1>8. i - 1 \in 1..Len(p) /\ i - 1 \notin B
  BY <1>3, <1>5, <1>6, <1>7
<1>9. cut[1] <= cut[i - 1]
  BY <1>8
<1>10. cut[i - 1] <= cut[i]
  BY <1>3, <1>4, <1>6, <1>8 DEF IsCut
<1> QED BY <1>3, <1>4, <1>6, <1>8, <1>9, <1>10

\* What the first segment of a pattern may stand for.
Piece(p, s, n) == Head(p) = AnyDepth \/ (n = 1 /\ s[1] \in Head(p))

LEMMA CutRest ==
  ASSUME NEW p \in AllPatterns, p # <<>>, NEW s \in AllSegments, NEW cut, IsCut(cut, p, s)
  PROVE  \E n \in 0..Len(s) : Piece(p, s, n) /\ Covers(Tail(p), Rest(s, n))
<1> DEFINE n == cut[1]
           c == [i \in 0..Len(p) - 1 |-> cut[i + 1] - n]
           q == Tail(p)
           t == Rest(s, n)
<1>1. /\ Len(p) \in Nat /\ Len(p) # 0 /\ Len(s) \in Nat
      /\ q \in AllPatterns /\ Len(q) = Len(p) - 1 /\ \A i \in 1..Len(p) - 1 : q[i] = p[i + 1]
      /\ Head(p) = p[1]
  BY LenProperties, EmptySeq, HeadTailProperties DEF AllPatterns, AllSegments
<1>2. \A i \in 0..Len(p) : cut[i] \in 0..Len(s)
  BY DEF IsCut
<1>3. n \in 0..Len(s)
  BY <1>1, <1>2
<1>4. \A i \in 1..Len(p) : n <= cut[i]
  BY CutGrows
<1>5. /\ t \in AllSegments /\ Len(t) = Len(s) - n
      /\ \A i \in 1..Len(s) - n : t[i] = s[n + i]
  BY <1>3, RestOf DEF AllSegments
<1>6. /\ cut[0] = 0 /\ cut[Len(p)] = Len(s)
      /\ \A i \in 1..Len(p) : IF p[i] = AnyDepth THEN cut[i - 1] <= cut[i]
                              ELSE cut[i] = cut[i - 1] + 1 /\ s[cut[i]] \in p[i]
  BY DEF IsCut
<1>7. Piece(p, s, n)
  <2>1. 1 \in 1..Len(p) /\ 1 - 1 = 0
    BY <1>1
  <2> QED BY <1>1, <1>6, <2>1 DEF Piece
<1>8. IsCut(c, q, t)
  <2>1. \A i \in 0..Len(q) : c[i] = cut[i + 1] - n
    BY <1>1
  <2>2. \A i \in 0..Len(q) : c[i] \in 0..Len(t)
    <3> SUFFICES ASSUME NEW i \in 0..Len(q) PROVE c[i] \in 0..Len(t)
      OBVIOUS
    <3>1. i + 1 \in 1..Len(p)
      BY <1>1
    <3>2. cut[i + 1] \in 0..Len(s) /\ n <= cut[i + 1]
      BY <1>1, <1>2, <1>4, <3>1
    <3> HIDE DEF n, c, t
    <3> QED BY <1>1, <1>3, <1>5, <2>1, <3>2
  <2>3. c \in [0..Len(q) -> 0..Len(t)]
    BY <1>1, <2>2
  <2>4. c[0] = 0 /\ c[Len(q)] = Len(t)
    <3>1. 0 \in 0..Len(q) /\ Len(q) \in 0..Len(q) /\ Len(q) + 1 = Len(p)
      BY <1>1
    <3> HIDE DEF c, q, t
    <3>2. c[0] = n - n /\ c[Len(q)] = Len(s) - n
      BY <1>6, <2>1, <3>1
    <3> QED BY <1>1, <1>3, <1>5, <3>2
  <2>5. ASSUME NEW i \in 1..Len(q)
        PROVE  IF q[i] = AnyDepth THEN c[i - 1] <= c[i]
               ELSE c[i] = c[i - 1] + 1 /\ t[c[i]] \in q[i]
    <3>1. /\ i + 1 \in 1..Len(p) /\ i \in 1..Len(p) - 1 /\ (i + 1) - 1 = i
          /\ i \in 0..Len(q) /\ i - 1 \in 0..Len(q) /\ (i - 1) + 1 = i
          /\ i \in 0..Len(p) /\ i + 1 \in 0..Len(p)
      BY <1>1
    <3>2. c[i] = cut[i + 1] - n /\ c[i - 1] = cut[i] - n /\ q[i] = p[i + 1]
      BY <1>1, <2>1, <3>1
    <3>3. cut[i] \in Int /\ cut[i + 1] \in Int /\ n \in Int /\ c[i] \in 0..Len(t)
          /\ n <= cut[i]
      BY <1>1, <1>2, <1>3, <1>4, <2>2, <3>1
    <3>4. IF p[i + 1] = AnyDepth THEN cut[i] <= cut[i + 1]
          ELSE cut[i + 1] = cut[i] + 1 /\ s[cut[i + 1]] \in p[i + 1]
      BY <1>6, <3>1
    <3> HIDE DEF c, q, n, t
    <3>5. CASE p[i + 1] = AnyDepth
      BY <3>2, <3>3, <3>4, <3>5
    <3>6. CASE p[i + 1] # AnyDepth
      <4>1. c[i] = c[i - 1] + 1 /\ n + c[i] = cut[i + 1]
        <5>1. cut[i + 1] = cut[i] + 1
          BY <3>4, <3>6
        <5> DEFINE x == cut[i]
                   y == cut[i + 1]
        <5>2. /\ x \in Int /\ y \in Int /\ n \in Int /\ y = x + 1
              /\ c[i] = y - n /\ c[i - 1] = x - n
          BY <3>2, <3>3, <5>1
        <5> HIDE DEF x, y
        <5>3. c[i] = c[i - 1] + 1 /\ n + c[i] = y
          BY <5>2
        <5> QED BY <5>3 DEF y
      <4>2. c[i] \in 1..Len(s) - n
        <5>1. c[i - 1] \in Int /\ c[i - 1] >= 0 /\ Len(s) \in Int
          BY SMTT(30), <1>1, <3>2, <3>3
        <5>2. Len(t) = Len(s) - n
          BY <1>5
        <5>3. c[i] \in Int /\ 0 <= c[i] /\ c[i] <= Len(s) - n
          BY <3>3, <5>2
        <5> QED BY <3>3, <4>1, <5>1, <5>3
      <4>3. t[c[i]] = s[cut[i + 1]]
        BY <1>5, <4>1, <4>2
      <4> QED BY <3>2, <3>4, <3>6, <4>1, <4>3
    <3> QED BY <3>5, <3>6
  <2> HIDE DEF c, q, t
  <2> QED BY <2>3, <2>4, <2>5 DEF IsCut
<1>9. Covers(q, t)
  <2> HIDE DEF c, q, t
  <2> QED BY <1>1, <1>5, <1>8, CoversByCut
<1> QED BY <1>3, <1>7, <1>9

LEMMA CutWhole ==
  ASSUME NEW p \in AllPatterns, p # <<>>, NEW s \in AllSegments, NEW n \in 0..Len(s),
         Piece(p, s, n), Covers(Tail(p), Rest(s, n))
  PROVE  Covers(p, s)
<1> DEFINE q == Tail(p)
           t == Rest(s, n)
<1>1. /\ Len(p) \in Nat /\ Len(p) # 0 /\ Len(s) \in Nat
      /\ q \in AllPatterns /\ Len(q) = Len(p) - 1 /\ \A i \in 1..Len(p) - 1 : q[i] = p[i + 1]
      /\ Head(p) = p[1]
  BY LenProperties, EmptySeq, HeadTailProperties DEF AllPatterns, AllSegments
<1>2. /\ t \in AllSegments /\ Len(t) = Len(s) - n
      /\ \A i \in 1..Len(s) - n : t[i] = s[n + i]
  BY RestOf DEF AllSegments
<1> HIDE DEF q, t
<1>3. PICK c : IsCut(c, q, t)
  BY <1>1, <1>2, CoversByCut DEF q, t
<1>4. /\ c \in [0..Len(q) -> 0..Len(t)] /\ c[0] = 0 /\ c[Len(q)] = Len(t)
      /\ \A i \in 1..Len(q) : IF q[i] = AnyDepth THEN c[i - 1] <= c[i]
                              ELSE c[i] = c[i - 1] + 1 /\ t[c[i]] \in q[i]
  BY <1>3 DEF IsCut
<1> DEFINE cut == [i \in 0..Len(p) |-> IF i = 0 THEN 0 ELSE c[i - 1] + n]
<1>5. cut[0] = 0 /\ \A i \in 1..Len(p) : cut[i] = c[i - 1] + n
  <2>1. 0 \in 0..Len(p) /\ \A i \in 1..Len(p) : i \in 0..Len(p) /\ i # 0
    BY <1>1
  <2> QED BY <2>1
<1>6. \A i \in 1..Len(p) : i - 1 \in 0..Len(q) /\ c[i - 1] \in 0..Len(t)
  <2>1. \A i \in 1..Len(p) : i - 1 \in 0..Len(q)
    BY <1>1
  <2>2. \A j \in 0..Len(q) : c[j] \in 0..Len(t)
    BY <1>4
  <2> QED BY <2>1, <2>2
<1>7. cut \in [0..Len(p) -> 0..Len(s)]
  BY <1>1, <1>2, <1>6
<1> HIDE DEF cut
<1>8. cut[Len(p)] = Len(s)
  <2>1. cut[Len(p)] = c[Len(q)] + n
    BY <1>1, <1>5
  <2> QED BY <1>1, <1>2, <1>4, <2>1
<1>9. ASSUME NEW i \in 1..Len(p)
      PROVE  IF p[i] = AnyDepth THEN cut[i - 1] <= cut[i]
             ELSE cut[i] = cut[i - 1] + 1 /\ s[cut[i]] \in p[i]
  <2>1. CASE i = 1
    <3>1. cut[i] = n /\ cut[i - 1] = 0 /\ p[i] = Head(p)
      BY <1>1, <1>4, <1>5, <2>1
    <3> QED BY <3>1 DEF Piece
  <2>2. CASE i # 1
    <3> DEFINE j == i - 1
    <3>1. /\ j \in 1..Len(q) /\ j \in 1..Len(p) - 1 /\ j + 1 = i /\ j \in 1..Len(p)
          /\ j \in 0..Len(q) /\ j - 1 \in 0..Len(q)
      BY <1>1, <2>2
    <3>2. cut[i] = c[j] + n /\ cut[j] = c[j - 1] + n
      BY <1>5, <3>1
    <3>3. p[i] = q[j] /\ c[j] \in 0..Len(t) /\ c[j - 1] \in 0..Len(t)
      BY <1>1, <1>4, <3>1
    <3>4. IF q[j] = AnyDepth THEN c[j - 1] <= c[j] ELSE c[j] = c[j - 1] + 1 /\ t[c[j]] \in q[j]
      BY <1>4, <3>1
    <3> HIDE DEF j
    <3>5. CASE q[j] = AnyDepth
      <4>1. cut[j] <= cut[i]
        BY <1>1, <1>2, <3>2, <3>3, <3>4, <3>5
      <4> QED BY <3>3, <3>5, <4>1 DEF j
    <3>6. CASE q[j] # AnyDepth
      <4>0. /\ c[j] = c[j - 1] + 1 /\ c[j] \in Int /\ c[j - 1] \in Int
            /\ 0 <= c[j - 1] /\ c[j] <= Len(s) - n /\ n \in Int /\ Len(s) \in Int
        BY <1>1, <1>2, <3>3, <3>4, <3>6
      <4> DEFINE x == c[j - 1]
                 y == c[j]
                 l == Len(s)
      <4>1. cut[i] = cut[j] + 1 /\ c[j] \in 1..Len(s) - n /\ n + c[j] = cut[i]
        <5>1. /\ y = x + 1 /\ y \in Int /\ x \in Int /\ 0 <= x /\ y <= l - n
              /\ n \in Int /\ l \in Int /\ cut[i] = y + n /\ cut[j] = x + n
          BY <3>2, <4>0
        <5> HIDE DEF x, y, l
        <5>2. cut[i] = cut[j] + 1 /\ y \in 1..l - n /\ n + y = cut[i]
          BY <5>1
        <5> QED BY <5>2 DEF y, l
      <4>2. t[c[j]] = s[n + c[j]] /\ n + c[j] = cut[i]
        BY <1>2, <4>1
      <4> QED BY <3>3, <3>4, <3>6, <4>1, <4>2 DEF j
    <3> QED BY <3>5, <3>6
  <2> QED BY <2>1, <2>2
<1>10. IsCut(cut, p, s)
  BY <1>5, <1>7, <1>8, <1>9 DEF IsCut
<1> QED BY <1>10, CoversByCut

\* A pattern covers a path if its first segment stands for some of it, and the
\* others cover the rest.
LEMMA CoversFirst ==
  ASSUME NEW p \in AllPatterns, p # <<>>, NEW s \in AllSegments
  PROVE  Covers(p, s) <=> \E n \in 0..Len(s) : Piece(p, s, n) /\ Covers(Tail(p), Rest(s, n))
<1>1. ASSUME Covers(p, s)
      PROVE  \E n \in 0..Len(s) : Piece(p, s, n) /\ Covers(Tail(p), Rest(s, n))
  BY <1>1, CoversByCut, CutRest
<1> QED BY <1>1, CutWhole

LEMMA CoversNothing ==
  ASSUME NEW s \in AllSegments
  PROVE  Covers(<<>>, s) <=> s = <<>>
<1>1. <<>> \in AllPatterns /\ Len(<<>>) = 0 /\ Len(s) \in Nat
  BY EmptySeq, LenProperties DEF AllPatterns, AllSegments
<1>2. s = <<>> <=> Len(s) = 0
  BY EmptySeq DEF AllSegments
<1>3. ASSUME Covers(<<>>, s) PROVE Len(s) = 0
  <2>1. PICK cut : IsCut(cut, <<>>, s)
    BY <1>1, <1>3, CoversByCut
  <2> QED BY <1>1, <2>1 DEF IsCut
<1>4. ASSUME Len(s) = 0 PROVE Covers(<<>>, s)
  <2> DEFINE cut == [i \in 0..0 |-> 0]
  <2>1. IsCut(cut, <<>>, s)
    BY <1>1, <1>4 DEF IsCut
  <2> QED BY <1>1, <2>1, CoversByCut
<1> QED BY <1>2, <1>3, <1>4

\* What one call of matchGlobSegmentAt answers, given what others do.
Answer(f, p, s) ==
  IF p = <<>> THEN s = <<>>
  ELSE IF Head(p) = AnyDepth
  THEN \/ Len(p) = 1
       \/ \E n \in Starts(s) : f[Tail(p)][Rest(s, n)]
  ELSE s # <<>> /\ Head(s) \in Head(p) /\ f[Tail(p)][Tail(s)]

LEMMA CoversAnswers ==
  ASSUME NEW p \in AllPatterns, NEW s \in AllSegments, NEW f,
         \A t \in AllSegments : p # <<>> => (f[Tail(p)][t] <=> Covers(Tail(p), t))
  PROVE  Covers(p, s) <=> Answer(f, p, s)
<1>1. CASE p = <<>>
  BY <1>1, CoversNothing DEF Answer
<1>2. CASE p # <<>>
  <2>1. Covers(p, s) <=> \E n \in 0..Len(s) : Piece(p, s, n) /\ Covers(Tail(p), Rest(s, n))
    BY <1>2, CoversFirst
  <2>2. \A n \in 0..Len(s) : /\ Rest(s, n) \in AllSegments /\ Len(Rest(s, n)) = Len(s) - n
                             /\ (f[Tail(p)][Rest(s, n)] <=> Covers(Tail(p), Rest(s, n)))
    BY <1>2, RestOf DEF AllSegments
  <2>3. Len(s) \in Nat /\ Tail(p) \in AllPatterns /\ Len(Tail(p)) = Len(p) - 1 /\ Len(p) \in Nat
    BY <1>2, LenProperties, HeadTailProperties DEF AllPatterns, AllSegments
  <2>4. CASE Head(p) = AnyDepth
    <3>1. Covers(p, s) <=> \E n \in 0..Len(s) : f[Tail(p)][Rest(s, n)]
      BY <2>1, <2>2, <2>4 DEF Piece
    <3>2. ASSUME Len(p) = 1 PROVE Covers(p, s)
      <4>1. Tail(p) = <<>> /\ Len(s) \in 0..Len(s)
        <5>1. Len(Tail(p)) = 0 /\ Len(s) \in 0..Len(s)
          BY <2>3, <3>2
        <5> QED BY <2>3, <5>1, EmptySeq DEF AllPatterns
      <4>2. Rest(s, Len(s)) = <<>>
        BY <2>2, <2>3, <4>1, EmptySeq DEF AllSegments
      <4>3. Covers(Tail(p), Rest(s, Len(s)))
        BY <2>2, <4>1, <4>2, CoversNothing
      <4> QED BY <2>1, <2>4, <4>1, <4>3 DEF Piece
    <3> QED BY <1>2, <2>4, <3>1, <3>2 DEF Answer, Starts
  <2>5. CASE Head(p) # AnyDepth
    <3>1. Covers(p, s) <=>
            1 \in 0..Len(s) /\ s[1] \in Head(p) /\ Covers(Tail(p), Rest(s, 1))
      BY <2>1, <2>5 DEF Piece
    <3>2. s # <<>> <=> 1 \in 0..Len(s)
      BY <2>3, EmptySeq DEF AllSegments
    <3>3. ASSUME s # <<>> PROVE Head(s) = s[1] /\ Tail(s) = Rest(s, 1)
      BY <3>3, HeadTailProperties, TailIsSubSeq DEF AllSegments, Rest
    <3> QED BY <1>2, <2>2, <2>5, <3>1, <3>2, <3>3 DEF Answer
  <2> QED BY <2>4, <2>5
<1> QED BY <1>1, <1>2

\* The recursion has a solution, what Covers says, so that the matcher is one.
LEMMA MatcherAnswers ==
  \A p \in AllPatterns, s \in AllSegments :
    MatchGlobSegments[p][s] = Answer(MatchGlobSegments, p, s)
<1> DEFINE g == [p \in AllPatterns |-> [s \in AllSegments |-> Covers(p, s)]]
<1>1. \A p \in AllPatterns, s \in AllSegments : g[p][s] = Covers(p, s)
  OBVIOUS
<1>2. ASSUME NEW p \in AllPatterns, NEW s \in AllSegments PROVE Covers(p, s) <=> Answer(g, p, s)
  <2>1. p # <<>> => Tail(p) \in AllPatterns
    BY HeadTailProperties DEF AllPatterns
  <2>2. \A t \in AllSegments : p # <<>> => (g[Tail(p)][t] <=> Covers(Tail(p), t))
    BY <1>1, <2>1
  <2> HIDE DEF g
  <2> QED BY <2>2, CoversAnswers
<1>3. g = [p \in AllPatterns |-> [s \in AllSegments |-> Answer(g, p, s)]]
  <2>1. ASSUME NEW p \in AllPatterns
        PROVE  [s \in AllSegments |-> Covers(p, s)] = [s \in AllSegments |-> Answer(g, p, s)]
    <3>1. \A s \in AllSegments : Covers(p, s) = Answer(g, p, s)
      <4> HIDE DEF g
      <4> SUFFICES ASSUME NEW s \in AllSegments PROVE Covers(p, s) = Answer(g, p, s)
        OBVIOUS
      <4>1. Covers(p, s) \in BOOLEAN
        BY DEF Covers
      <4>2. Answer(g, p, s) \in BOOLEAN
        BY DEF Answer
      <4>3. Covers(p, s) <=> Answer(g, p, s)
        BY <1>2
      <4> QED BY <4>1, <4>2, <4>3
    <3> HIDE DEF g
    <3> QED BY <3>1
  <2> QED BY <2>1
<1>4. MatchGlobSegments =
        CHOOSE f : f = [p \in AllPatterns |-> [s \in AllSegments |-> Answer(f, p, s)]]
  BY DEF MatchGlobSegments, Answer, Rest, AllPatterns, AllSegments
<1> HIDE DEF g
<1>5. MatchGlobSegments = [p \in AllPatterns |-> [s \in AllSegments |-> Answer(MatchGlobSegments, p, s)]]
  BY <1>3, <1>4
<1> QED BY <1>5

\* The matcher of exclusion patterns, a recursion that tries how much "**" may
\* stand for, finds exactly the paths that can be cut into pieces for the
\* segments of the pattern.
THEOREM MatcherCorrect ==
  \A p \in Seq(SUBSET Int), s \in Seq(Nat) : MatchGlobSegments[p][s] <=> Covers(p, s)
<1> DEFINE Bad == {p \in AllPatterns : \E s \in AllSegments : ~(MatchGlobSegments[p][s] <=> Covers(p, s))}
           B == {Len(p) : p \in Bad}
<1>1. SUFFICES ASSUME Bad # {} PROVE FALSE
  BY DEF AllPatterns, AllSegments
<1>2. B \in SUBSET Nat /\ B # {}
  <2>1. \A p \in AllPatterns : Len(p) \in Nat
    BY LenProperties DEF AllPatterns
  <2> QED BY <1>1, <2>1
<1>3. PICK n \in B : \A k \in B : n <= k
  <2> HIDE DEF B
  <2> QED BY <1>2, First
<1>4. PICK p \in Bad : n = Len(p)
  OBVIOUS
<1>5. PICK s \in AllSegments : ~(MatchGlobSegments[p][s] <=> Covers(p, s))
  OBVIOUS
<1>6. ASSUME p # <<>> PROVE Tail(p) \in AllPatterns /\ Tail(p) \notin Bad
  <2>1. /\ Tail(p) \in AllPatterns /\ Len(Tail(p)) = Len(p) - 1 /\ Len(p) \in Nat
    BY <1>6, LenProperties, HeadTailProperties DEF AllPatterns
  <2>2. Len(Tail(p)) \notin B
    <3> HIDE DEF B
    <3> QED BY <1>3, <1>4, <2>1
  <2> QED BY <2>1, <2>2
<1>7. \A t \in AllSegments : p # <<>> => (MatchGlobSegments[Tail(p)][t] <=> Covers(Tail(p), t))
  BY <1>6
<1>8. Covers(p, s) <=> Answer(MatchGlobSegments, p, s)
  BY <1>7, CoversAnswers
<1>9. MatchGlobSegments[p][s] = Answer(MatchGlobSegments, p, s)
  BY MatcherAnswers
<1> QED BY <1>5, <1>8, <1>9

-----------------------------------------------------------------------------
(* Exclusion *)

\* The rule that keeps the output out.
OutputNames(root) ==
  LET output == Relative(root, OutputDirectory) IN [i \in DOMAIN output |-> {output[i]}]
OutputPattern(root) == Append(OutputNames(root), AnyDepth)

LEMMA OutputRule ==
  ASSUME NEW root \in Seq(Nat), IsPrefix(root, OutputDirectory),
         NEW l \in Nat, Len(OutputDirectory) = Len(root) + l
  PROVE  /\ OutputDirectory \in Seq(Nat) /\ Len(OutputDirectory) \in Nat /\ Len(root) \in Nat
         /\ OutputPattern(root) \in Seq(SUBSET Int) /\ Len(OutputPattern(root)) = l + 1
         /\ \A i \in 1..l : /\ OutputDirectory[Len(root) + i] \in Nat
                            /\ OutputPattern(root)[i] = {OutputDirectory[Len(root) + i]}
         /\ OutputPattern(root)[l + 1] = AnyDepth
<1> DEFINE output == Relative(root, OutputDirectory)
           names == OutputNames(root)
           rule == OutputPattern(root)
<1>1. OutputDirectory \in Seq(Nat) /\ Len(OutputDirectory) \in Nat /\ Len(root) \in Nat
  BY PathsAssumption, LenProperties
<1>2. Len(root) \in 0..Len(OutputDirectory)
  BY <1>1 DEF IsPrefix
<1>3. /\ output \in Seq(Nat) /\ Len(output) = l
      /\ \A i \in 1..l : output[i] = OutputDirectory[Len(root) + i]
  <2>1. Len(OutputDirectory) - Len(root) = l
    BY <1>1
  <2> QED BY <1>1, <1>2, <2>1, RestOf DEF Relative, Rest
<1>4. names = [i \in DOMAIN output |-> {output[i]}]
  BY DEF OutputNames
<1> HIDE DEF output, names, rule
<1>5. DOMAIN output = 1..l /\ \A i \in 1..l : output[i] \in Nat
  BY <1>3, LenProperties, ElementOfSeq
<1>6. names \in [1..l -> SUBSET Int]
  BY <1>4, <1>5
<1>7. names \in Seq(SUBSET Int) /\ Len(names) = l
  BY <1>2, <1>6, ListOf
<1>8. AnyDepth \in SUBSET Int
  BY DEF AnyDepth
<1>9. /\ rule \in Seq(SUBSET Int) /\ Len(rule) = l + 1
      /\ \A i \in 1..l : rule[i] = names[i]
      /\ rule[l + 1] = AnyDepth
  <2>1. rule = Append(names, AnyDepth)
    BY DEF names, rule, OutputPattern
  <2> QED BY <1>7, <1>8, <2>1, AppendProperties
<1>10. \A i \in 1..l : names[i] = {OutputDirectory[Len(root) + i]}
                       /\ OutputDirectory[Len(root) + i] \in Nat
  BY <1>3, <1>4, <1>5
<1> QED BY <1>1, <1>2, <1>9, <1>10 DEF rule

\* The rules say what is to be kept out.
LEMMA RulesKeepOut ==
  ASSUME scan \in Scans, NEW root \in Seq(Nat), NEW p \in Seq(Nat), KeptOut(root, p)
  PROVE  ShouldExclude(root, p)
<1> DEFINE segments == Relative(root, p)
<1>1. Len(root) \in Nat /\ Len(p) \in Nat
  BY LenProperties
<1>2. segments \in Seq(Nat)
  <2>1. \A i \in Len(root) + 1 .. Len(p) : p[i] \in Nat
    BY <1>1, ElementOfSeq
  <2>2. Len(root) + 1 \in Int /\ Len(p) \in Int
    BY <1>1
  <2> DEFINE a == Len(root) + 1
             b == Len(p)
  <2> HIDE DEF a, b
  <2>3. SubSeq(p, a, b) \in Seq(Nat)
    BY <2>1, <2>2, SubSeqProperties DEF a, b
  <2> QED BY <2>3 DEF Relative, a, b
<1>3. CASE \E pattern \in scan.excluded : Covers(pattern, segments)
  <2>1. PICK pattern \in scan.excluded : Covers(pattern, segments)
    BY <1>3
  <2>2. pattern \in Seq(SUBSET Int)
    BY ScansAssumption
  <2>3. MatchGlobSegments[pattern][segments]
    BY <1>2, <2>1, <2>2, MatcherCorrect
  <2> QED BY <2>1, <2>3 DEF ShouldExclude, ExcludeRules
<1>4. CASE root # OutputDirectory /\ IsPathInside(root, OutputDirectory) /\ IsPrefix(OutputDirectory, p)
  <2> DEFINE rule == OutputPattern(root)
  <2>1. PICK n \in Nat : n = Len(root)
    BY <1>1
  <2>2. IsPrefix(root, OutputDirectory)
    BY <1>4 DEF IsPathInside
  <2>3. OutputDirectory \in Seq(Nat) /\ Len(OutputDirectory) \in Nat /\ n <= Len(OutputDirectory)
    BY <2>1, <2>2, PathsAssumption, LenProperties DEF IsPrefix
  <2>4. PICK l \in Nat : Len(OutputDirectory) = n + l
    <3>1. Len(OutputDirectory) - n \in Nat /\ Len(OutputDirectory) = n + (Len(OutputDirectory) - n)
      BY <2>1, <2>3
    <3> QED BY <3>1
  <2>5. /\ rule \in Seq(SUBSET Int) /\ Len(rule) = l + 1
        /\ \A i \in 1..l : /\ OutputDirectory[n + i] \in Nat
                           /\ rule[i] = {OutputDirectory[n + i]}
        /\ rule[l + 1] = AnyDepth
    BY <2>1, <2>2, <2>4, OutputRule
  <2> HIDE DEF rule
  <2>6. /\ Len(OutputDirectory) <= Len(p)
        /\ \A i \in 1..Len(OutputDirectory) : OutputDirectory[i] = p[i]
    BY <1>4, <2>3, PrefixPointwise
  <2>7. /\ Len(segments) = Len(p) - n
        /\ \A i \in 1..Len(p) - n : segments[i] = p[n + i]
    <3>1. n \in 0..Len(p)
      BY <1>1, <2>1, <2>3, <2>6
    <3> QED BY <2>1, <3>1, RestOf DEF Relative, Rest
  <2> HIDE DEF segments
  <2>8. l <= Len(segments) /\ Len(segments) \in Nat
    BY <1>1, <2>1, <2>3, <2>4, <2>6, <2>7
  <2>9. \A i \in 1..l : segments[i] = OutputDirectory[n + i]
    <3> SUFFICES ASSUME NEW i \in 1..l PROVE segments[i] = OutputDirectory[n + i]
      OBVIOUS
    <3>1. n + i \in 1..Len(OutputDirectory) /\ i \in 1..Len(p) - n
      BY <1>1, <2>1, <2>3, <2>4, <2>6
    <3> QED BY <2>6, <2>7, <3>1
  <2> DEFINE cut == [i \in 0..Len(rule) |-> IF i = l + 1 THEN Len(segments) ELSE i]
  <2>10. IsCut(cut, rule, segments)
    <3>1. \A i \in 0..l : cut[i] = i
      BY <2>5, <2>8
    <3>2. cut[l + 1] = Len(segments)
      BY <2>5, <2>8
    <3>3. cut \in [0..Len(rule) -> 0..Len(segments)]
      BY <2>5, <2>8
    <3> HIDE DEF cut
    <3>4. cut[0] = 0 /\ cut[Len(rule)] = Len(segments)
      BY <2>5, <2>8, <3>1, <3>2
    <3>5. ASSUME NEW i \in 1..Len(rule)
          PROVE  IF rule[i] = AnyDepth THEN cut[i - 1] <= cut[i]
                 ELSE cut[i] = cut[i - 1] + 1 /\ segments[cut[i]] \in rule[i]
      <4>1. CASE i = l + 1
        <5>0. i - 1 = l /\ l \in 0..l
          BY <2>8, <4>1
        <5>1. cut[i - 1] = l /\ cut[i] = Len(segments) /\ rule[i] = AnyDepth
          BY <2>5, <3>1, <3>2, <4>1, <5>0
        <5> QED BY <2>8, <5>1
      <4>2. CASE i # l + 1
        <5>1. i \in 1..l /\ i \in 0..l /\ i - 1 \in 0..l
          BY <2>5, <4>2
        <5>2. cut[i] = i /\ cut[i - 1] = i - 1 /\ rule[i] = {OutputDirectory[n + i]}
          BY <2>5, <3>1, <5>1
        <5>3. OutputDirectory[n + i] \in Nat /\ segments[i] = OutputDirectory[n + i]
          BY <2>5, <2>9, <5>1
        <5>4. rule[i] # AnyDepth
          <6>1. OutputDirectory[n + i] \in rule[i] /\ OutputDirectory[n + i] # -1
            BY <5>2, <5>3
          <6> QED BY <6>1 DEF AnyDepth
        <5>5. cut[i] = cut[i - 1] + 1
          BY <2>8, <5>1, <5>2
        <5>6. segments[cut[i]] \in rule[i]
          BY <5>2, <5>3
        <5> QED BY <5>4, <5>5, <5>6
      <4> QED BY <4>1, <4>2
    <3> QED BY <3>3, <3>4, <3>5 DEF IsCut
  <2>11. Covers(rule, segments)
    BY <1>2, <2>5, <2>10, CoversByCut DEF AllPatterns, AllSegments
  <2>12. MatchGlobSegments[rule][segments]
    BY <1>2, <2>5, <2>11, MatcherCorrect
  <2>13. rule \in ExcludeRules(root)
    BY <1>4 DEF ExcludeRules, rule, OutputPattern, OutputNames
  <2> QED BY <2>12, <2>13 DEF ShouldExclude, segments
<1> QED BY <1>3, <1>4 DEF KeptOut

\* A cut of names followed by "**" takes a segment for each name.
LEMMA CutOfNames ==
  ASSUME NEW p \in AllPatterns, NEW s \in AllSegments, NEW cut, IsCut(cut, p, s),
         p # <<>>, \A i \in 1..Len(p) - 1 : p[i] # AnyDepth
  PROVE  Len(p) - 1 <= Len(s) /\ \A i \in 1..Len(p) - 1 : cut[i] = i
<1>0. PICK l \in Nat : Len(p) = l + 1
  <2>1. Len(p) \in Nat /\ Len(p) # 0 /\ Len(p) = (Len(p) - 1) + 1
    BY LenProperties, EmptySeq DEF AllPatterns
  <2>2. Len(p) - 1 \in Nat
    BY <2>1
  <2> QED BY <2>1, <2>2
<1>9. Len(p) - 1 = l
  BY <1>0
<1> DEFINE B == {i \in 0..l : cut[i] # i}
<1>1. Len(s) \in Nat
  BY LenProperties DEF AllSegments
<1>2. \A i \in 0..l : cut[i] \in 0..Len(s)
  <2>1. \A i \in 0..l : i \in 0..Len(p)
    BY <1>0
  <2> QED BY <2>1 DEF IsCut
<1>3. B = {}
  <2>1. SUFFICES ASSUME B # {} PROVE FALSE
    OBVIOUS
  <2>2. PICK i \in B : \A j \in B : i <= j
    <3>1. B \in SUBSET Nat
      OBVIOUS
    <3> HIDE DEF B
    <3> QED BY <2>1, <3>1, First
  <2>3. i \in 0..l /\ cut[i] # i
    OBVIOUS
  <2>4. i # 0
    BY <2>3 DEF IsCut
  <2>5. i - 1 \in 0..l /\ i \in 1..l /\ i \in 1..Len(p) /\ ~(i <= i - 1)
    BY <1>0, <2>3, <2>4
  <2>6. i - 1 \notin B
    BY <2>2, <2>5
  <2>7. cut[i - 1] = i - 1
    BY <2>5, <2>6
  <2>8. cut[i] = cut[i - 1] + 1
    BY <1>9, <2>5 DEF IsCut
  <2>9. cut[i] = i
    BY <2>5, <2>7, <2>8
  <2> QED BY <2>3, <2>9
<1>4. \A i \in 0..l : cut[i] = i
  BY <1>3
<1>5. l \in 0..l
  OBVIOUS
<1>6. cut[l] = l
  BY <1>4, <1>5
<1>7. l \in 0..Len(s)
  BY <1>2, <1>5, <1>6
<1>8. \A i \in 1..l : i \in 0..l
  OBVIOUS
<1> QED BY <1>1, <1>4, <1>7, <1>8, <1>9

\* What the rules exclude is to be kept out.
LEMMA RulesSpare ==
  ASSUME scan \in Scans, NEW root \in Seq(Nat), NEW p \in Seq(Nat), IsPrefix(root, p),
         ShouldExclude(root, p)
  PROVE  KeptOut(root, p)
<1> DEFINE segments == Relative(root, p)
           n == Len(root)
<1>1. Len(root) \in Nat /\ Len(p) \in Nat
  BY LenProperties
<1>2. n \in 0..Len(p) /\ n \in Nat /\ n = Len(root)
  BY <1>1 DEF IsPrefix
<1>3. /\ segments \in Seq(Nat) /\ Len(segments) = Len(p) - n
      /\ \A i \in 1..Len(p) - n : segments[i] = p[n + i]
  BY <1>2, RestOf DEF Relative, Rest
<1> HIDE DEF segments, n
<1>4. PICK rule \in ExcludeRules(root) : MatchGlobSegments[rule][segments]
  BY DEF ShouldExclude, segments
<1>5. CASE rule \in scan.excluded
  <2>1. rule \in Seq(SUBSET Int)
    BY <1>5, ScansAssumption
  <2>2. Covers(rule, segments)
    BY <1>3, <1>4, <2>1, MatcherCorrect
  <2> QED BY <1>5, <2>2 DEF KeptOut, segments
<1>6. CASE /\ root # OutputDirectory /\ IsPathInside(root, OutputDirectory)
           /\ rule = OutputPattern(root)
  <2>1. IsPrefix(root, OutputDirectory)
    BY <1>6 DEF IsPathInside
  <2>0. OutputDirectory \in Seq(Nat) /\ Len(OutputDirectory) \in Nat /\ n <= Len(OutputDirectory)
    BY <1>2, <2>1, PathsAssumption, LenProperties DEF IsPrefix
  <2>2. PICK l \in Nat : Len(OutputDirectory) = n + l
    <3>1. Len(OutputDirectory) - n \in Nat /\ Len(OutputDirectory) = n + (Len(OutputDirectory) - n)
      BY <1>2, <2>0
    <3> QED BY <3>1
  <2>3. /\ rule \in Seq(SUBSET Int) /\ Len(rule) = l + 1
        /\ \A i \in 1..l : /\ OutputDirectory[n + i] \in Nat
                           /\ rule[i] = {OutputDirectory[n + i]}
        /\ rule[l + 1] = AnyDepth
    BY <1>2, <1>6, <2>1, <2>2, OutputRule
  <2>4. Covers(rule, segments)
    BY <1>3, <1>4, <2>3, MatcherCorrect
  <2>5. PICK cut : IsCut(cut, rule, segments)
    BY <1>3, <2>3, <2>4, CoversByCut DEF AllPatterns, AllSegments
  <2>6. ASSUME NEW i \in 1..l PROVE rule[i] # AnyDepth
    <3>1. OutputDirectory[n + i] \in rule[i] /\ OutputDirectory[n + i] # -1
      BY <2>3, <2>6
    <3> QED BY <3>1 DEF AnyDepth
  <2>7. l <= Len(segments) /\ \A i \in 1..l : cut[i] = i
    <3>1. \A i \in 1..l : rule[i] # AnyDepth
      BY <2>6
    <3>2. rule \in AllPatterns /\ segments \in AllSegments
      BY <1>3, <2>3 DEF AllPatterns, AllSegments
    <3>3. Len(rule) - 1 = l /\ rule # <<>>
      BY <2>3, EmptySeq
    <3> QED BY <2>5, <3>1, <3>2, <3>3, CutOfNames
  <2>8. \A i \in 1..l : segments[i] = OutputDirectory[n + i]
    <3> SUFFICES ASSUME NEW i \in 1..l PROVE segments[i] = OutputDirectory[n + i]
      OBVIOUS
    <3>1. i \in 1..Len(rule) /\ l \in Nat
      BY <2>3
    <3>2. segments[cut[i]] \in rule[i]
      BY <2>5, <2>6, <3>1 DEF IsCut
    <3>3. cut[i] = i /\ rule[i] = {OutputDirectory[n + i]}
      BY <2>3, <2>7
    <3> QED BY <3>2, <3>3
  <2>9. /\ Len(OutputDirectory) <= Len(p)
        /\ \A i \in 1..Len(OutputDirectory) : OutputDirectory[i] = p[i]
    <3>1. Len(OutputDirectory) <= Len(p)
      BY <1>1, <1>2, <1>3, <2>0, <2>2, <2>7
    <3>2. ASSUME NEW i \in 1..Len(OutputDirectory) PROVE OutputDirectory[i] = p[i]
      <4>1. CASE i <= n
        <5>1. i \in 1..n
          BY <1>1, <1>2, <2>0, <4>1
        <5>2. root[i] = OutputDirectory[i] /\ root[i] = p[i]
          BY <1>2, <2>0, <2>1, <5>1, PrefixPointwise
        <5> QED BY <5>2
      <4>2. CASE ~(i <= n)
        <5>1. i - n \in 1..l /\ i - n \in 1..Len(p) - n /\ n + (i - n) = i
          BY <1>1, <1>2, <2>0, <2>2, <3>1, <4>2
        <5>2. segments[i - n] = OutputDirectory[n + (i - n)] /\ segments[i - n] = p[n + (i - n)]
          BY <1>3, <2>8, <5>1
        <5> QED BY <5>1, <5>2
      <4> QED BY <4>1, <4>2
    <3> QED BY <3>1, <3>2
  <2>10. IsPrefix(OutputDirectory, p)
    BY <2>0, <2>9, PrefixPointwise
  <2> QED BY <1>6, <2>10 DEF KeptOut
<1> QED BY <1>4, <1>5, <1>6 DEF ExcludeRules, OutputNames, OutputPattern

\* ShouldExclude, with the scan as a parameter.
Hit(s, root, p) ==
  LET output == Relative(root, OutputDirectory)
      rules == s.excluded \cup
                 {rule \in {Append([i \in DOMAIN output |-> {output[i]}], AnyDepth)} :
                    root # OutputDirectory /\ IsPathInside(root, OutputDirectory)}
  IN \E rule \in rules : MatchGlobSegments[rule][Relative(root, p)]

LEMMA HitIsExcluded == \A root, p : ShouldExclude(root, p) <=> Hit(scan, root, p)
BY DEF ShouldExclude, ExcludeRules, Hit

\* Nothing between the root and p is excluded, nor is p.
Cleared(s, root, p) ==
  \A n \in Len(root) + 1 .. Len(p) : ~Hit(s, root, SubSeq(p, 1, n))

HasPath == pc \in {"enter", "list", "lstat", "stat", "real"}

Kept(s, astray, m) ==
  /\ m.root \in Seq(Nat) /\ m.absolutePath \in Seq(Nat)
  /\ ~Hit(s, m.root, m.absolutePath)
  /\ ~astray => Cleared(s, m.root, m.absolutePath)

\* The directories on the stack, the path in hand and what was found passed
\* the rules of the root, one entry after the other.
ExcludedInv ==
  /\ scan \in Scans
  /\ HasPath \/ pc = "loop" => rootRealPath \in Places
  /\ HasPath => path \in Seq(Nat)
  /\ ~strayed => /\ \A i \in DOMAIN stack : Cleared(scan, rootRealPath, stack[i].directory)
                 /\ HasPath => Cleared(scan, rootRealPath, path)
  /\ InHand => ~Hit(scan, rootRealPath, path)
  /\ \A i \in DOMAIN manifests : Kept(scan, strayed, manifests[i])

LEMMA ExcludedInit == WalkInit => ExcludedInv
<1> SUFFICES ASSUME WalkInit PROVE ExcludedInv
  OBVIOUS
<1>1. manifests = <<>> /\ stack = <<>> /\ pc = "root" /\ scan \in Scans
  BY DEF WalkInit
<1>2. DOMAIN manifests = {} /\ DOMAIN stack = {}
  BY <1>1, EmptySeq
<1> QED BY <1>1, <1>2 DEF ExcludedInv, HasPath, InHand

LEMMA ClearedChild ==
  ASSUME NEW s, NEW root \in Seq(Nat), NEW d \in Seq(Nat), NEW name \in Nat,
         Cleared(s, root, d), ~Hit(s, root, Append(d, name))
  PROVE  Cleared(s, root, Append(d, name))
<1> DEFINE p == Append(d, name)
<1>1. /\ p \in Seq(Nat) /\ Len(p) = Len(d) + 1 /\ Len(d) \in Nat /\ Len(root) \in Nat
      /\ \A i \in 1..Len(d) : p[i] = d[i]
  BY AppendProperties, LenProperties
<1> SUFFICES ASSUME NEW n \in Len(root) + 1 .. Len(p) PROVE ~Hit(s, root, SubSeq(p, 1, n))
  BY DEF Cleared
<1>2. n \in Nat /\ n <= Len(p)
  BY <1>1
<1>3. CASE n = Len(p)
  BY <1>1, <1>3, SubSeqFull
<1>4. CASE n # Len(p)
  <2>1. n \in Len(root) + 1 .. Len(d) /\ n <= Len(d)
    BY <1>1, <1>2, <1>4
  <2>2. SubSeq(p, 1, n) = SubSeq(d, 1, n)
    <3>1. \A i \in 1..n : p[i] = d[i] /\ d[i] \in Nat
      BY <1>1, <1>2, <2>1, ElementOfSeq
    <3> HIDE DEF p
    <3>2. /\ SubSeq(p, 1, n) \in Seq(Nat) /\ SubSeq(d, 1, n) \in Seq(Nat)
          /\ Len(SubSeq(p, 1, n)) = n /\ Len(SubSeq(d, 1, n)) = n
          /\ \A i \in 1..n : SubSeq(p, 1, n)[i] = p[i] /\ SubSeq(d, 1, n)[i] = d[i]
      <4>1. 1 \in Int /\ n \in Int /\ n - 1 + 1 = n /\ (~(1 <= n) => n = 0)
        BY <1>2
      <4>2. \A i \in 1..n : p[i] \in Nat /\ d[i] \in Nat
        BY <3>1
      <4>3. /\ SubSeq(p, 1, n) \in Seq(Nat)
            /\ Len(SubSeq(p, 1, n)) = IF 1 <= n THEN n - 1 + 1 ELSE 0
            /\ \A i \in 1..n - 1 + 1 : SubSeq(p, 1, n)[i] = p[1 + i - 1]
        BY <4>1, <4>2, SubSeqProperties
      <4>4. /\ SubSeq(d, 1, n) \in Seq(Nat)
            /\ Len(SubSeq(d, 1, n)) = IF 1 <= n THEN n - 1 + 1 ELSE 0
            /\ \A i \in 1..n - 1 + 1 : SubSeq(d, 1, n)[i] = d[1 + i - 1]
        BY <4>1, <4>2, SubSeqProperties
      <4>5. \A i \in 1..n : 1 + i - 1 = i
        BY <4>1
      <4> QED BY <4>1, <4>3, <4>4, <4>5
    <3> QED BY <3>1, <3>2, SeqEqual
  <2> QED BY <2>1, <2>2 DEF Cleared
<1> QED BY <1>3, <1>4

\* A step between two calls that looks at the same path, or at none.
LEMMA SamePath ==
  ASSUME ExcludedInv, UNCHANGED <<scan, rootRealPath, stack, manifests>>, strayed => strayed',
         \/ HasPath /\ pc' # "list" /\ path' = path /\ (InHand' => InHand)
         \/ pc' \in {"root", "done", "failed"}
         \/ HasPath /\ pc' = "loop"
  PROVE  ExcludedInv'
<1>1. \A m : Kept(scan, strayed, m) => Kept(scan', strayed', m)
  BY DEF Kept
<1>2. InHand' => HasPath'
  BY DEF InHand, HasPath
<1>3. pc' \in {"root", "done", "failed", "loop"} => ~HasPath'
  BY DEF HasPath
<1> QED BY <1>1, <1>2, <1>3 DEF ExcludedInv

LEMMA EnterClears == ASSUME StackInv, ExcludedInv, EnterDirectory PROVE ExcludedInv'
<1>1. UNCHANGED <<scan, rootRealPath, stack, manifests>> /\ pc = "enter" /\ HasPath
  BY DEF EnterDirectory, StaysOut, Reports, foundVars, frameVars, HasPath
<1>2. CASE pc' = "loop"
  <2>1. strayed => strayed'
    BY <1>2 DEF EnterDirectory
  <2> QED BY <1>1, <1>2, <2>1, SamePath
<1>3. CASE pc' = "list" /\ path' \in Places
  <2>1. strayed' = (strayed \/ path' # path)
    BY <1>3 DEF EnterDirectory
  <2>2. HasPath' /\ ~InHand'
    BY <1>3 DEF HasPath, InHand
  <2>3. path' \in Seq(Nat)
    BY <1>3, PlacesAreLists
  <2>4. ~strayed' => ~strayed /\ path' = path
    BY <2>1
  <2>5. \A m : Kept(scan, strayed, m) => Kept(scan', strayed', m)
    BY <1>1, <2>1 DEF Kept
  <2> QED BY <1>1, <2>2, <2>3, <2>4, <2>5 DEF ExcludedInv
<1> QED BY <1>2, <1>3 DEF EnterDirectory, Loops, Awaits, Contained

LEMMA ListClears == ASSUME StackInv, ExcludedInv, ListDirectory PROVE ExcludedInv'
<1> DEFINE frame == [directory |-> path, entries |-> Names(Real(path))]
<1>1. /\ pc = "list" /\ HasPath /\ UNCHANGED <<scan, rootRealPath, manifests, strayed>>
      /\ pc' \in {"loop", "failed"}
  BY DEF ListDirectory, Loops, Throws, Awaits, foundVars, fileVars, HasPath
<1>2. CASE stack' = stack
  BY <1>1, <1>2, SamePath
<1>3. CASE stack' = Append(stack, frame)
  <2>1. frame.directory = path
    OBVIOUS
  <2> HIDE DEF frame
  <2>2. /\ DOMAIN stack = 1..Len(stack) /\ DOMAIN stack' = 1..Len(stack) + 1
        /\ Len(stack) \in Nat
        /\ stack'[Len(stack) + 1] = frame
        /\ \A i \in 1..Len(stack) : stack'[i] = stack[i]
    BY <1>3, AppendedList DEF StackInv
  <2> DEFINE n == Len(stack) + 1
  <2>3. /\ \A i \in DOMAIN stack' : i = n \/ i \in DOMAIN stack
        /\ stack'[n].directory = path
        /\ \A i \in DOMAIN stack : stack'[i] = stack[i]
    BY <2>1, <2>2
  <2> HIDE DEF n
  <2>4. ~strayed => \A i \in DOMAIN stack' : Cleared(scan, rootRealPath, stack'[i].directory)
    BY <1>1, <2>3 DEF ExcludedInv
  <2>5. ~HasPath' /\ ~InHand'
    BY <1>1 DEF HasPath, InHand
  <2> QED BY <1>1, <2>4, <2>5 DEF ExcludedInv
<1> QED BY <1>2, <1>3 DEF ListDirectory, Throws

LEMMA NextClears == ASSUME StackInv, ExcludedInv, NextEntry PROVE ExcludedInv'
<1> DEFINE top == stack[Len(stack)]
<1>1. /\ pc = "loop" /\ stack # <<>> /\ UNCHANGED <<scan, rootRealPath, manifests, strayed>>
      /\ stack \in Seq(Frames)
  BY DEF NextEntry, foundVars, fileVars, StackInv
<1>2. rootRealPath \in Seq(Nat)
  BY <1>1, PlacesAreLists DEF ExcludedInv
<1>3. ASSUME DOMAIN stack' \subseteq DOMAIN stack,
             \A i \in DOMAIN stack' : stack'[i].directory = stack[i].directory,
             HasPath' => /\ pc' = "lstat" /\ path' \in Seq(Nat) /\ ~Hit(scan, rootRealPath, path')
                         /\ ~strayed => Cleared(scan, rootRealPath, path')
      PROVE  ExcludedInv'
  <2>1. ~strayed => \A i \in DOMAIN stack' : Cleared(scan, rootRealPath, stack'[i].directory)
    BY <1>3 DEF ExcludedInv
  <2>2. InHand' => HasPath'
    BY DEF InHand, HasPath
  <2>3. rootRealPath \in Places
    BY <1>1 DEF ExcludedInv
  <2> QED BY <1>1, <1>3, <2>1, <2>2, <2>3 DEF ExcludedInv
<1>4. CASE stack' = Front(stack) /\ UNCHANGED pc
  <2>1. /\ DOMAIN stack' \subseteq DOMAIN stack
        /\ \A i \in DOMAIN stack' : stack'[i].directory = stack[i].directory
    BY <1>1, <1>4, FrontList
  <2>2. ~HasPath'
    BY <1>1, <1>4 DEF HasPath
  <2> QED BY <1>3, <2>1, <2>2
<1>5. ASSUME NEW name \in top.entries, stack' = Shrunk(stack, name),
             \/ UNCHANGED pc
             \/ /\ pc' = "lstat" /\ path' = Append(top.directory, name)
                /\ ~Excluded(Append(top.directory, name))
      PROVE  ExcludedInv'
  <2>1. /\ Len(stack) \in DOMAIN stack /\ DOMAIN stack' = DOMAIN stack
        /\ \A i \in DOMAIN stack : stack'[i].directory = stack[i].directory
    BY <1>1, <1>5, FrameShrinks
  <2>2. CASE UNCHANGED pc
    <3>1. ~HasPath'
      BY <1>1, <2>2 DEF HasPath
    <3> QED BY <1>3, <2>1, <3>1
  <2>3. CASE /\ pc' = "lstat" /\ path' = Append(top.directory, name)
             /\ ~Excluded(Append(top.directory, name))
    <3>1. DOMAIN stack = 1..Len(stack)
      BY <1>1, LenProperties
    <3>2. top \in Frames
      BY <1>1, <2>1, <3>1, ElementOfSeq
    <3>3. top.directory \in Seq(Nat) /\ name \in Nat
      BY <1>5, <3>2, PlacesAreLists DEF Frames
    <3>4. ~strayed => Cleared(scan, rootRealPath, top.directory)
      BY <2>1 DEF ExcludedInv
    <3>5. PICK d \in Seq(Nat) : d = top.directory
      BY <3>3
    <3>6. ~Hit(scan, rootRealPath, Append(d, name))
      BY <2>3, <3>5, HitIsExcluded DEF Excluded
    <3>7. ~strayed => Cleared(scan, rootRealPath, Append(d, name))
      BY <1>2, <3>3, <3>4, <3>5, <3>6, ClearedChild
    <3>8. Append(d, name) \in Seq(Nat) /\ path' = Append(d, name)
      BY <2>3, <3>3, <3>5, AppendProperties
    <3> QED BY <1>3, <2>1, <2>3, <3>6, <3>7, <3>8
  <2> QED BY <1>5, <2>2, <2>3
<1>6. \/ stack' = Front(stack) /\ UNCHANGED pc
      \/ \E name \in top.entries :
           /\ stack' = Shrunk(stack, name)
           /\ \/ UNCHANGED pc
              \/ /\ pc' = "lstat" /\ path' = Append(top.directory, name)
                 /\ ~Excluded(Append(top.directory, name))
  BY DEF NextEntry, Shrunk, Last, Awaits
<1> QED BY <1>4, <1>5, <1>6

\* What is found is what passed the rules.
LEMMA AddClears == ASSUME StackInv, PathsInv, ExcludedInv, AddManifest PROVE ExcludedInv'
<1> DEFINE found == [absolutePath |-> path, realPath |-> Real(path), root |-> rootRealPath]
<1>1. /\ pc = "real" /\ HasPath /\ InHand /\ pc' = "loop" /\ ~HasPath' /\ ~InHand'
      /\ UNCHANGED <<scan, rootRealPath, strayed>>
  BY DEF AddManifest, Loops, Awaits, HasPath, InHand, fileVars
<1>2. /\ DOMAIN stack' \subseteq DOMAIN stack
      /\ \A i \in DOMAIN stack' : stack'[i] = stack[i]
  <2>1. stack' = stack \/ stack' = Front(stack)
    BY DEF AddManifest, Skips
  <2> QED BY <2>1, FrontList DEF StackInv
<1>3. ~strayed => \A i \in DOMAIN stack' : Cleared(scan, rootRealPath, stack'[i].directory)
  BY <1>2 DEF ExcludedInv
<1>4. \A i \in DOMAIN manifests' : Kept(scan, strayed, manifests'[i])
  <2>1. CASE UNCHANGED manifests
    BY <2>1 DEF ExcludedInv
  <2>2. CASE manifests' = Append(manifests, found)
    <3>1. found.absolutePath = path /\ found.root = rootRealPath
      OBVIOUS
    <3> HIDE DEF found
    <3>2. PICK S : manifests \in Seq(S)
      BY DEF PathsInv, IsList
    <3> DEFINE n == Len(manifests) + 1
    <3>3. /\ \A i \in DOMAIN manifests' : i = n \/ i \in DOMAIN manifests
          /\ manifests'[n] = found
          /\ \A i \in DOMAIN manifests : manifests'[i] = manifests[i]
      BY <2>2, <3>2, AppendedList
    <3> HIDE DEF n
    <3>4. Kept(scan, strayed, found)
      <4>1. rootRealPath \in Seq(Nat) /\ path \in Seq(Nat)
        BY <1>1, PlacesAreLists DEF ExcludedInv
      <4> QED BY <1>1, <3>1, <4>1 DEF Kept, ExcludedInv
    <3> QED BY <3>3, <3>4 DEF ExcludedInv
  <2> QED BY <2>1, <2>2 DEF AddManifest, Skips, Reports
<1> QED BY <1>1, <1>3, <1>4 DEF ExcludedInv

LEMMA SortClears == ASSUME ExcludedInv, SortAndReturn PROVE ExcludedInv'
<1> DEFINE paths == [i \in DOMAIN manifests |-> manifests[i].realPath]
<1>1. PICK p \in Sortings(paths) : manifests' = Arranged(manifests, p)
  BY DEF SortAndReturn
<1>2. p \in [DOMAIN manifests -> DOMAIN manifests]
  BY <1>1 DEF Sortings
<1>3. \A i \in DOMAIN manifests' : \E j \in DOMAIN manifests : manifests'[i] = manifests[j]
  BY <1>1, <1>2 DEF Arranged
<1>4. /\ UNCHANGED <<scan, rootRealPath, stack, strayed>> /\ pc' = "done"
      /\ ~HasPath' /\ ~InHand'
  BY DEF SortAndReturn, Awaits, HasPath, InHand, fileVars, frameVars
<1> QED BY <1>3, <1>4 DEF ExcludedInv

LEMMA ExcludedStep == StackInv /\ PathsInv /\ ExcludedInv /\ [WalkNext]_walkVars => ExcludedInv'
<1> SUFFICES ASSUME StackInv, PathsInv, ExcludedInv, [WalkNext]_walkVars PROVE ExcludedInv'
  OBVIOUS
<1> USE DEF fileVars, foundVars, frameVars, Loops, Awaits
<1>1. CASE BeginRoot
  <2>1. UNCHANGED <<scan, stack, manifests, strayed>> /\ stack = <<>>
    BY <1>1 DEF BeginRoot, EnterRoot, LeaveOutRoot, Reports, PathsInv
  <2>2. DOMAIN stack' = {}
    BY <2>1, EmptySeq
  <2>3. CASE EnterRoot /\ RootPath \in Places
    <3>1. /\ rootRealPath' \in Places /\ path' = rootRealPath' /\ path' \in Seq(Nat)
          /\ HasPath' /\ ~InHand'
      BY <2>3, PlacesAreLists DEF EnterRoot, HasPath, InHand
    <3>2. Len(rootRealPath') \in Nat
      BY <3>1, LenProperties
    <3>3. Cleared(scan', rootRealPath', path')
      BY <3>1, <3>2 DEF Cleared
    <3> QED BY <2>1, <2>2, <3>1, <3>3 DEF ExcludedInv
  <2>4. CASE LeaveOutRoot
    <3>1. UNCHANGED <<rootRealPath, pc>> /\ pc = "root"
      BY <1>1, <2>4 DEF BeginRoot, LeaveOutRoot
    <3> QED BY <2>1, <3>1, SamePath
  <2> QED BY <1>1, <2>3, <2>4 DEF BeginRoot
<1>2. CASE SortAndReturn
  BY <1>2, SortClears
<1>3. CASE EnterDirectory
  BY <1>3, EnterClears
<1>4. CASE ListDirectory
  BY <1>4, ListClears
<1>5. CASE NextEntry
  BY <1>5, NextClears
<1>6. CASE EndRoot
  <2>1. UNCHANGED <<scan, rootRealPath, stack, manifests, strayed>> /\ pc' = "root"
    BY <1>6 DEF EndRoot
  <2> QED BY <2>1, SamePath
<1>7. CASE LstatEntry
  <2>1. /\ UNCHANGED <<scan, rootRealPath, stack, manifests, strayed>> /\ pc = "lstat"
        /\ \/ pc' \in {"stat", "real", "enter"} /\ path' = path
           \/ pc' = "loop" \/ pc' = "failed"
    BY <1>7 DEF LstatEntry, Examine, Throws
  <2>2. HasPath /\ InHand
    BY <2>1 DEF HasPath, InHand
  <2> QED BY <2>1, <2>2, SamePath
<1>8. CASE StatEntry
  <2>1. /\ UNCHANGED <<scan, rootRealPath, stack, manifests, strayed>> /\ pc = "stat"
        /\ \/ pc' \in {"real", "enter"} /\ path' = path
           \/ pc' = "loop" \/ pc' = "failed"
    BY <1>8 DEF StatEntry, Examine, Throws
  <2>2. HasPath /\ InHand
    BY <2>1 DEF HasPath, InHand
  <2> QED BY <2>1, <2>2, SamePath
<1>9. CASE AddManifest
  BY <1>9, AddClears
<1>10. CASE UNCHANGED <<scan, rootRealPath, stack, manifests, strayed, pc, path>>
  BY <1>10 DEF ExcludedInv, HasPath, InHand
<1>11. ASSUME NEW p \in Paths, NEW thing \in scan.things, Change(p, thing)
       PROVE  UNCHANGED <<scan, rootRealPath, stack, manifests, strayed, pc, path>>
  BY <1>11 DEF Change
<1>12. UNCHANGED walkVars => UNCHANGED <<scan, rootRealPath, stack, manifests, strayed, pc, path>>
  BY DEF walkVars
<1> QED
  BY <1>1, <1>2, <1>3, <1>4, <1>5, <1>6, <1>7, <1>8, <1>9, <1>10, <1>11, <1>12 DEF WalkNext, Walk

LEMMA ExcludedInvariant == WalkSpec => []ExcludedInv
BY StackInit, StackStep, PathsInit, PathsStep, ExcludedInit, ExcludedStep, PTL DEF WalkSpec

\* A scan finds no manifest that a pattern covers from the root it was found
\* in, nor output; nor one below what they cover, unless links lead around.
THEOREM ExcludedStaysOut == WalkSpec => []ExclusionKept
<1>1. ASSUME ExcludedInv PROVE ExclusionKept
  <2> SUFFICES ASSUME NEW i \in DOMAIN manifests,
                      NEW n \in Len(manifests[i].root) + 1 .. Len(manifests[i].absolutePath),
                      n = Len(manifests[i].absolutePath) \/ ~strayed,
                      KeptOut(manifests[i].root, SubSeq(manifests[i].absolutePath, 1, n))
               PROVE  FALSE
    BY DEF ExclusionKept
  <2>1. Kept(scan, strayed, manifests[i]) /\ scan \in Scans
    BY <1>1 DEF ExcludedInv
  <2>2. PICK root \in Seq(Nat) : root = manifests[i].root
    BY <2>1 DEF Kept
  <2>3. PICK p \in Seq(Nat) : p = manifests[i].absolutePath
    BY <2>1 DEF Kept
  <2>4. Len(root) \in Nat /\ Len(p) \in Nat /\ n \in 1..Len(p)
    BY <2>2, <2>3, LenProperties
  <2> DEFINE q == SubSeq(p, 1, n)
  <2>5. q \in Seq(Nat)
    <3>1. 1 \in Int /\ n \in Int /\ \A j \in 1..n : p[j] \in Nat
      BY <2>4, ElementOfSeq
    <3> QED BY <3>1, SubSeqProperties
  <2>6. KeptOut(root, q)
    BY <2>2, <2>3
  <2>7. ~Hit(scan, root, q)
    <3>1. CASE n = Len(p)
      <4>1. q = p
        BY <3>1, SubSeqFull
      <4> QED BY <2>1, <2>2, <2>3, <4>1 DEF Kept
    <3>2. CASE ~strayed
      <4>1. Cleared(scan, root, p) /\ n \in Len(root) + 1 .. Len(p)
        BY <2>1, <2>2, <2>3, <3>2 DEF Kept
      <4> QED BY <4>1 DEF Cleared
    <3> QED BY <2>3, <3>1, <3>2
  <2> HIDE DEF q
  <2> QED BY <2>1, <2>5, <2>6, <2>7, RulesKeepOut, HitIsExcluded
<1> QED BY <1>1, ExcludedInvariant, PTL

-----------------------------------------------------------------------------
(* realpath where there are no links *)

\* The first n segments of p.
Upto(p, n) == SubSeq(p, 1, n)

LEMMA UptoIs ==
  ASSUME NEW p \in Seq(Nat), NEW n \in 0..Len(p)
  PROVE  /\ Upto(p, n) \in Seq(Nat) /\ Len(Upto(p, n)) = n
         /\ \A i \in 1..n : Upto(p, n)[i] = p[i]
         /\ Upto(p, 0) = <<>> /\ Upto(p, Len(p)) = p
<1>1. Len(p) \in Nat /\ \A i \in 1..Len(p) : p[i] \in Nat
  BY LenProperties, ElementOfSeq
<1>2. \A i \in 1..n : p[i] \in Nat
  BY <1>1
<1>3. /\ SubSeq(p, 1, n) \in Seq(Nat)
      /\ Len(SubSeq(p, 1, n)) = IF 1 <= n THEN n - 1 + 1 ELSE 0
      /\ \A i \in 1..n - 1 + 1 : SubSeq(p, 1, n)[i] = p[1 + i - 1]
  BY <1>1, <1>2, SubSeqProperties
<1>4. Len(SubSeq(p, 1, n)) = n /\ \A i \in 1..n : i \in 1..n - 1 + 1 /\ 1 + i - 1 = i
  BY <1>1, <1>3
<1>5. \A i \in 1..n : SubSeq(p, 1, n)[i] = p[i]
  BY <1>3, <1>4
<1>6. SubSeq(p, 1, 0) = <<>> /\ SubSeq(p, 1, Len(p)) = p
  BY SubSeqEmpty, SubSeqFull
<1> QED BY <1>3, <1>4, <1>5, <1>6 DEF Upto

LEMMA FrontLastOfAppend ==
  ASSUME NEW s \in Seq(Nat), NEW e \in Nat
  PROVE  Front(Append(s, e)) = s /\ Last(Append(s, e)) = e
<1>1. /\ Len(s) \in Nat /\ Append(s, e) \in Seq(Nat) /\ Len(Append(s, e)) = Len(s) + 1
      /\ \A i \in 1..Len(s) : Append(s, e)[i] = s[i]
      /\ Append(s, e)[Len(s) + 1] = e
  BY AppendProperties, LenProperties
<1> DEFINE t == Append(s, e)
<1> HIDE DEF t
<1>2. Len(t) - 1 = Len(s) /\ Len(s) \in 0..Len(t)
  BY <1>1 DEF t
<1>3. Front(t) = Upto(t, Len(s))
  BY <1>2 DEF Front, Upto
<1>4. Upto(t, Len(s)) \in Seq(Nat) /\ Len(Upto(t, Len(s))) = Len(s)
      /\ \A i \in 1..Len(s) : Upto(t, Len(s))[i] = t[i]
  BY <1>1, <1>2, UptoIs DEF t
<1>5. \A i \in 1..Len(s) : Upto(t, Len(s))[i] = s[i]
  BY <1>1, <1>4 DEF t
<1>6. Upto(t, Len(s)) = s
  BY <1>4, <1>5, SeqEqual
<1>7. Last(t) = e
  BY <1>1 DEF Last, t
<1> QED BY <1>3, <1>6, <1>7 DEF t

LEMMA UptoNext ==
  ASSUME NEW p \in Seq(Nat), NEW n \in 0..Len(p) - 1
  PROVE  /\ n + 1 \in 1..Len(p) /\ p[n + 1] \in Nat
         /\ Append(Upto(p, n), p[n + 1]) = Upto(p, n + 1)
<1>1. Len(p) \in Nat
  BY LenProperties
<1>2. n \in Nat /\ n \in 0..Len(p) /\ n + 1 \in 1..Len(p) /\ n + 1 \in 0..Len(p)
  BY <1>1
<1>3. p[n + 1] \in Nat
  BY <1>2, ElementOfSeq
<1> DEFINE s == Append(Upto(p, n), p[n + 1])
           t == Upto(p, n + 1)
<1>4. /\ s \in Seq(Nat) /\ Len(s) = n + 1 /\ s[n + 1] = p[n + 1]
      /\ \A i \in 1..n : s[i] = p[i]
  <2>1. Upto(p, n) \in Seq(Nat) /\ Len(Upto(p, n)) = n /\ \A i \in 1..n : Upto(p, n)[i] = p[i]
    BY <1>2, UptoIs
  <2> QED BY <1>3, <2>1, AppendProperties
<1>5. t \in Seq(Nat) /\ Len(t) = n + 1 /\ \A i \in 1..n + 1 : t[i] = p[i]
  BY <1>2, UptoIs
<1> HIDE DEF s, t
<1>6. \A i \in 1..n + 1 : i \in 1..n \/ i = n + 1
  BY <1>2
<1>7. \A i \in 1..Len(s) : s[i] = t[i]
  BY <1>4, <1>5, <1>6
<1>8. s = t
  BY <1>4, <1>5, <1>7, SeqEqual
<1> QED BY <1>2, <1>3, <1>8 DEF s, t

\* What leads to a path is one of these.
LEMMA PrefixIsUpto ==
  ASSUME NEW p \in Seq(Nat), NEW q \in Seq(Nat)
  PROVE  /\ IsPrefix(q, p) <=> Len(q) \in 0..Len(p) /\ q = Upto(p, Len(q))
         /\ IsStrictPrefix(q, p) <=> Len(q) \in 0..Len(p) - 1 /\ q = Upto(p, Len(q))
<1>1. Len(p) \in Nat /\ Len(q) \in Nat
  BY LenProperties
<1>2. SubSeq(q, 1, Len(q)) = q
  BY SubSeqFull
<1>3. IsPrefix(q, p) <=> Len(q) \in 0..Len(p) /\ q = Upto(p, Len(q))
  BY <1>1, <1>2 DEF IsPrefix, Upto
<1>4. Upto(p, Len(p)) = p
  BY <1>1, UptoIs
<1>5. q = Upto(p, Len(q)) /\ Len(q) \in 0..Len(p) => (q # p <=> Len(q) # Len(p))
  BY <1>4
<1>6. Len(q) \in 0..Len(p) - 1 <=> Len(q) \in 0..Len(p) /\ Len(q) # Len(p)
  BY <1>1
<1> QED BY <1>3, <1>5, <1>6 DEF IsStrictPrefix

LEMMA UptoIsPlace ==
  ASSUME NEW p \in Paths, NEW n \in 0..Len(p)
  PROVE  /\ p \in Seq(Nat) /\ p # <<>> /\ Len(p) \in Nat \ {0}
         /\ Upto(p, n) \in Places
         /\ n > 0 => Upto(p, n) \in Paths
<1>1. p \in Seq(Nat) /\ p # <<>>
  BY PathsAssumption
<1>2. Len(p) \in Nat \ {0}
  BY <1>1, EmptySeq
<1>3. n > 0 => n \in 1..Len(p)
  BY <1>2
<1>4. n > 0 => Upto(p, n) \in Paths
  BY <1>3, PathsAssumption DEF Upto
<1>5. n = 0 => Upto(p, n) = <<>>
  BY <1>1, UptoIs
<1>6. n > 0 \/ n = 0
  BY <1>2
<1> QED BY <1>1, <1>2, <1>4, <1>5, <1>6 DEF Places

\* One step of realpath, which looks up the rest of the way in f.
Onward(f, way) ==
  LET here == Append(way.at, Head(way.rest))
      below == Tail(way.rest) IN
  IF way.rest = <<>> THEN way.at
  ELSE IF ~IsDirectory(way.at) \/ here \notin Paths \/ fs[here] = Absent THEN Nowhere
  ELSE IF fs[here].kind # "link" THEN f[[links |-> way.links, at |-> here, rest |-> below]]
  ELSE IF way.links = 0 THEN Nowhere
  ELSE f[[links |-> way.links - 1, at |-> <<>>, rest |-> fs[here].to \o below]]

\* A way is nearer its end with a link less, or as many and a segment less.
Nearer ==
  {w \in Ways \X Ways : \/ w[1].links < w[2].links
                        \/ w[1].links = w[2].links /\ Len(w[1].rest) < Len(w[2].rest)}

LEMMA WaysEnd == IsWellFoundedOn(Nearer, Ways) /\ IsTransitivelyClosedOn(Nearer, Ways)
<1>1. \A w \in Ways : w.links \in Nat /\ Len(w.rest) \in Nat
  BY LenProperties DEF Ways, MaxLinks
<1>2. ASSUME NEW T \in SUBSET Ways, T # {}
      PROVE  \E x \in T : \A y \in T : <<y, x>> \notin Nearer
  <2> DEFINE L == {w.links : w \in T}
  <2>1. L \in SUBSET Nat /\ L # {}
    BY <1>1, <1>2
  <2>2. PICK l \in L : \A k \in L : l <= k
    <3> HIDE DEF L
    <3> QED BY <2>1, First
  <2> DEFINE U == {w \in T : w.links = l}
             M == {Len(w.rest) : w \in U}
  <2>3. M \in SUBSET Nat /\ M # {}
    BY <1>1, <1>2
  <2>4. PICK m \in M : \A k \in M : m <= k
    <3> HIDE DEF M
    <3> QED BY <2>3, First
  <2>5. PICK x \in U : Len(x.rest) = m
    OBVIOUS
  <2>6. ASSUME NEW y \in T PROVE <<y, x>> \notin Nearer
    <3>1. y \in Ways /\ x \in Ways /\ x.links = l /\ y.links \in L
      OBVIOUS
    <3>2. l <= y.links
      BY <2>2, <3>1
    <3>3. y.links = l => m <= Len(y.rest)
      <4>1. y.links = l => Len(y.rest) \in M
        OBVIOUS
      <4> HIDE DEF M
      <4> QED BY <2>4, <4>1
    <3>4. x.links \in Nat /\ y.links \in Nat /\ Len(x.rest) \in Nat /\ Len(y.rest) \in Nat
      BY <1>1, <3>1
    <3>5. ~(y.links < x.links) /\ ~(y.links = x.links /\ Len(y.rest) < Len(x.rest))
      BY <2>5, <3>1, <3>2, <3>3, <3>4
    <3> QED BY <3>5 DEF Nearer
  <2>7. x \in T
    OBVIOUS
  <2> QED BY <2>6, <2>7
<1>3. IsWellFoundedOn(Nearer, Ways)
  BY <1>2, MinWF
<1>4. ASSUME NEW i \in Ways, NEW j \in Ways, NEW k \in Ways,
             <<i, j>> \in Nearer, <<j, k>> \in Nearer
      PROVE  <<i, k>> \in Nearer
  BY <1>1, <1>4 DEF Nearer
<1> QED BY <1>3, <1>4 DEF IsTransitivelyClosedOn

\* The file system has things in its places.
FilesTyped == \A p \in Paths : IsThing(fs[p])

LEMMA OnwardTypes ==
  ASSUME FilesTyped, NEW f \in [Ways -> Places \cup {Nowhere}],
         NEW g \in [Ways -> Places \cup {Nowhere}], NEW way \in Ways,
         \A w \in Ways : <<w, way>> \in Nearer => f[w] = g[w]
  PROVE  Onward(f, way) \in Places \cup {Nowhere} /\ Onward(f, way) = Onward(g, way)
<1> DEFINE here == Append(way.at, Head(way.rest))
           below == Tail(way.rest)
<1>1. way.links \in 0..MaxLinks /\ way.at \in Places /\ way.rest \in Seq(Nat)
  BY DEF Ways
<1>2. CASE way.rest = <<>>
  BY <1>1, <1>2 DEF Onward
<1>3. CASE way.rest # <<>> /\ (~IsDirectory(way.at) \/ here \notin Paths \/ fs[here] = Absent)
  BY <1>3 DEF Onward
<1>4. CASE way.rest # <<>> /\ ~(~IsDirectory(way.at) \/ here \notin Paths \/ fs[here] = Absent)
  <2>1. below \in Seq(Nat) /\ Len(below) = Len(way.rest) - 1 /\ Len(way.rest) \in Nat
    BY <1>1, <1>4, HeadTailProperties, LenProperties
  <2>2. here \in Paths /\ here \in Places /\ <<>> \in Places
    BY <1>4 DEF Places
  <2> HIDE DEF here, below
  <2>3. CASE fs[here].kind # "link"
    <3> DEFINE w == [links |-> way.links, at |-> here, rest |-> below]
    <3>1. w \in Ways /\ w.links = way.links /\ w.rest = below
      BY <1>1, <2>1, <2>2 DEF Ways
    <3>2. Onward(f, way) = f[w] /\ Onward(g, way) = g[w]
      BY <1>4, <2>3 DEF Onward, here, below
    <3> HIDE DEF w
    <3>3. Len(below) < Len(way.rest)
      BY <2>1
    <3>4. <<w, way>> \in Nearer
      BY <3>1, <3>3 DEF Nearer
    <3> QED BY <3>1, <3>2, <3>4
  <2>4. CASE fs[here].kind = "link" /\ way.links = 0
    BY <1>4, <2>4 DEF Onward, here, below
  <2>5. CASE fs[here].kind = "link" /\ way.links # 0
    <3> DEFINE w == [links |-> way.links - 1, at |-> <<>>, rest |-> fs[here].to \o below]
    <3>1. fs[here].to \in Seq(Nat)
      BY <2>2, <2>5 DEF FilesTyped, IsThing
    <3>2. fs[here].to \o below \in Seq(Nat)
      BY <2>1, <3>1, ConcatProperties
    <3>3. way.links - 1 \in 0..MaxLinks /\ way.links - 1 < way.links
      BY <1>1, <2>5 DEF MaxLinks
    <3>4. w \in Ways /\ w.links < way.links
      BY <2>2, <3>2, <3>3 DEF Ways
    <3>5. Onward(f, way) = f[w] /\ Onward(g, way) = g[w]
      BY <1>4, <2>5 DEF Onward, here, below
    <3> HIDE DEF w
    <3>6. <<w, way>> \in Nearer
      BY <3>4 DEF Nearer
    <3> QED BY <3>4, <3>5, <3>6
  <2> QED BY <2>3, <2>4, <2>5
<1> QED BY <1>2, <1>3, <1>4

\* realpath, which terminates, takes these steps.
LEMMA RealSteps ==
  ASSUME FilesTyped
  PROVE  \A way \in Ways : RealThrough[way] = Onward(RealThrough, way)
<1> DEFINE T == Places \cup {Nowhere}
           D == [p \in [Ways -> T] \X Ways |-> Onward(p[1], p[2])]
<1>1. T # {}
  OBVIOUS
<1> HIDE DEF T
<1>2. D \in Steps(Ways, T)
  <2>1. \A p \in [Ways -> T] \X Ways : Onward(p[1], p[2]) \in T
    BY OnwardTypes DEF T
  <2> QED BY <2>1 DEF Steps
<1>3. ASSUME NEW f \in [Ways -> T], NEW way \in Ways PROVE D[<<f, way>>] = Onward(f, way)
  OBVIOUS
<1> HIDE DEF D
<1>4. LooksBelow(D, Nearer, Ways, T)
  <2>1. ASSUME NEW f \in [Ways -> T], NEW g \in [Ways -> T], NEW way \in Ways,
               \A w \in Ways : <<w, way>> \in Nearer => f[w] = g[w]
        PROVE  D[<<f, way>>] = D[<<g, way>>]
    <3>1. Onward(f, way) = Onward(g, way)
      BY <2>1, OnwardTypes DEF T
    <3> QED BY <1>3, <3>1
  <2> QED BY <2>1 DEF LooksBelow
<1>5. PICK f \in [Ways -> T] : \A way \in Ways : f[way] = D[<<f, way>>]
  BY <1>1, <1>2, <1>4, WaysEnd, Recursion
<1>6. f = [way \in Ways |-> Onward(f, way)]
  BY <1>3, <1>5
<1>7. RealThrough = CHOOSE g : g = [way \in Ways |-> Onward(g, way)]
  BY DEF RealThrough, Onward
<1>8. RealThrough = [way \in Ways |-> Onward(RealThrough, way)]
  BY <1>6, <1>7
<1> QED BY <1>8

\* Directories lead to the nth place on the way to p, which is no link.
Straight(p, n) ==
  /\ n \in 0..Len(p)
  /\ \A k \in 1..n : fs[Upto(p, k)] = Directory \/ (k = n /\ fs[Upto(p, k)] = File)

LEMMA RealIsStraight ==
  ASSUME FilesTyped, NEW p \in Paths, NEW n, Straight(p, n)
  PROVE  Real(Upto(p, n)) = Upto(p, n)
<1> DEFINE q == Upto(p, n)
           way(k) == [links |-> MaxLinks, at |-> Upto(p, k), rest |-> Rest(q, k)]
           B == {j \in 0..n : RealThrough[way(n - j)] # q}
<1>1. n \in 0..Len(p) /\ n \in Nat /\ p \in Seq(Nat) /\ Len(p) \in Nat
  BY UptoIsPlace DEF Straight
<1>2. q \in Seq(Nat) /\ Len(q) = n /\ \A i \in 1..n : q[i] = p[i]
  BY <1>1, UptoIs
<1> HIDE DEF q
<1>3. ASSUME NEW k \in 0..n
      PROVE  /\ way(k) \in Ways
             /\ k \in 0..Len(p) /\ (IsDirectory(Upto(p, k)) \/ k = n)
             /\ Rest(q, k) \in Seq(Nat) /\ Len(Rest(q, k)) = n - k
  <2>1. k \in 0..Len(p) /\ k \in Nat
    BY <1>1
  <2>2. Upto(p, k) \in Places /\ (k > 0 => Upto(p, k) \in Paths)
    BY <2>1, UptoIsPlace
  <2>3. Rest(q, k) \in Seq(Nat) /\ Len(Rest(q, k)) = n - k
    BY <1>2, RestOf
  <2>4. MaxLinks \in 0..MaxLinks
    BY DEF MaxLinks
  <2>5. way(k) \in Ways
    BY <2>2, <2>3, <2>4 DEF Ways
  <2>6. ASSUME k = 0 PROVE IsDirectory(Upto(p, k))
    <3>1. Upto(p, k) = <<>>
      BY <1>1, <2>6, UptoIs
    <3> QED BY <3>1 DEF IsDirectory
  <2>7. ASSUME k > 0 /\ k < n PROVE IsDirectory(Upto(p, k))
    <3>1. k \in 1..n
      BY <2>7
    <3>2. fs[Upto(p, k)] = Directory
      BY <2>7, <3>1 DEF Straight
    <3> QED BY <2>2, <2>7, <3>2 DEF IsDirectory
  <2>8. k = 0 \/ (k > 0 /\ k < n) \/ k = n
    BY <1>1
  <2> QED BY <2>1, <2>3, <2>5, <2>6, <2>7, <2>8
<1>4. B = {}
  <2>1. SUFFICES ASSUME B # {} PROVE FALSE
    OBVIOUS
  <2>2. PICK j \in B : \A i \in B : j <= i
    <3>1. B \in SUBSET Nat
      BY <1>1
    <3> HIDE DEF B
    <3> QED BY <2>1, <3>1, First
  <2> DEFINE k == n - j
  <2>3. j \in 0..n /\ k \in 0..n /\ RealThrough[way(k)] # q
    BY <1>1
  <2>4. way(k) \in Ways /\ Rest(q, k) \in Seq(Nat) /\ Len(Rest(q, k)) = n - k
    BY <1>3, <2>3
  <2>5. RealThrough[way(k)] = Onward(RealThrough, way(k))
    BY <2>4, RealSteps
  <2>6. way(k).at = Upto(p, k) /\ way(k).rest = Rest(q, k) /\ way(k).links = MaxLinks
    OBVIOUS
  <2>7. CASE j = 0
    <3>1. k = n
      BY <1>1, <2>7
    <3>2. Rest(q, k) = <<>>
      BY <1>1, <2>4, <3>1, EmptySeq
    <3> HIDE DEF k
    <3>3. Onward(RealThrough, way(k)) = Upto(p, k)
      BY <2>6, <3>2 DEF Onward
    <3> QED BY <2>3, <2>5, <3>1, <3>3 DEF q
  <2>8. CASE j # 0
    <3>1. k \in 0..n - 1 /\ k # n /\ k + 1 \in 0..n /\ j - 1 \in 0..n
          /\ n - (j - 1) = k + 1 /\ ~(j <= j - 1)
      <4>1. n \in Nat /\ j \in 0..n /\ j # 0
        BY <1>1, <2>3, <2>8
      <4> HIDE DEF B, way
      <4> QED BY <4>1
    <3>2. j - 1 \notin B
      <4> HIDE DEF B
      <4> QED BY <2>2, <3>1
    <3>3. RealThrough[way(k + 1)] = q
      BY <3>1, <3>2
    <3> HIDE DEF k, B
    <3>4. IsDirectory(Upto(p, k)) /\ k \in 0..Len(p) - 1
      <4>1. k \in 0..n /\ k # n /\ k \in 0..Len(p) - 1
        BY <1>1, <3>1
      <4> QED BY <1>3, <4>1
    <3>5. /\ k + 1 \in 1..Len(p) /\ Append(Upto(p, k), p[k + 1]) = Upto(p, k + 1)
          /\ Upto(p, k + 1) \in Paths
      BY <1>1, <3>4, UptoNext, UptoIsPlace
    <3>6. Rest(q, k) # <<>> /\ Head(Rest(q, k)) = p[k + 1] /\ Tail(Rest(q, k)) = Rest(q, k + 1)
      <4>1. k + 1 \in 1..n /\ n \in k + 1..n
        BY <1>1, <3>1
      <4>2. Rest(q, k) = SubSeq(q, k + 1, n)
        BY <1>2 DEF Rest
      <4>3. Head(SubSeq(q, k + 1, n)) = q[k + 1]
            /\ Tail(SubSeq(q, k + 1, n)) = SubSeq(q, (k + 1) + 1, n)
        BY <1>2, <4>1, HeadTailOfSubSeq
      <4>4. Rest(q, k + 1) = SubSeq(q, (k + 1) + 1, n)
        BY <1>2 DEF Rest
      <4>5. Rest(q, k) # <<>>
        BY <1>1, <2>4, <3>1, EmptySeq
      <4> QED BY <1>2, <4>1, <4>2, <4>3, <4>4, <4>5
    <3>7. fs[Upto(p, k + 1)] # Absent /\ fs[Upto(p, k + 1)].kind # "link"
      <4>1. k + 1 \in 1..n
        BY <1>1, <3>1
      <4>2. fs[Upto(p, k + 1)] \in {Directory, File}
        BY <4>1 DEF Straight
      <4> QED BY <4>2 DEF Directory, File, Absent
    <3>8. Onward(RealThrough, way(k)) = RealThrough[way(k + 1)]
      BY <2>6, <3>4, <3>5, <3>6, <3>7 DEF Onward
    <3> QED BY <2>3, <2>5, <3>3, <3>8
  <2> QED BY <2>7, <2>8
<1>5. RealThrough[way(0)] = q
  <2>1. n \in 0..n /\ n - n = 0
    BY <1>1
  <2> QED BY <1>4, <2>1
<1>6. way(0) = [links |-> MaxLinks, at |-> <<>>, rest |-> q]
  <2>1. Upto(p, 0) = <<>>
    BY <1>1, UptoIs
  <2>2. Rest(q, 0) = q
    BY <1>2, SubSeqFull DEF Rest
  <2> QED BY <2>1, <2>2
<1> HIDE DEF way
<1> QED BY <1>5, <1>6 DEF Real, q

-----------------------------------------------------------------------------
(* Nothing is missed *)

\* p is to be found, and nobody touches it or what leads to it.
Wanted(p) == Expected(p) /\ Untouched(p)
FoundAt(p) == \E i \in DOMAIN manifests : manifests[i].realPath = p

\* The kth place on the way to p is an entry of a directory that is walked, or
\* the walk is about to come to it.
OnStack(k, p) ==
  \E i \in DOMAIN stack : stack[i].directory = Upto(p, k - 1) /\ p[k] \in stack[i].entries
Near(k, p) ==
  \/ OnStack(k, p)
  \/ pc = "list" /\ path = Upto(p, k - 1)
  \/ pc = "enter" /\ k < Len(p) /\ path = Upto(p, k)
  \/ pc = "lstat" /\ path = Upto(p, k)
  \/ pc = "real" /\ k = Len(p) /\ path = p

\* Once a directory that leads to p was visited, p is found or there is a place
\* below that the walk has still to come to.
Met(p) ==
  \A n \in 0..Len(p) - 1 : Upto(p, n) \in visitedDirectories =>
    FoundAt(p) \/ \E k \in n + 1..Len(p) : Near(k, p)

\* The roots that lead to p are visited as soon as their walk has begun.
LeadsTo(i, p) ==
  i \in DOMAIN scan.roots /\ IsPathInside(Cwd, scan.roots[i]) /\ IsStrictPrefix(scan.roots[i], p)
Begun(p) ==
  \A i : LeadsTo(i, p) /\ (i < next \/ (i = next /\ pc \notin {"root", "done"})) =>
    \/ scan.roots[i] \in visitedDirectories
    \/ i = next /\ pc = "enter" /\ path = scan.roots[i]

MissedInv ==
  ~limited /\ pc # "failed" => \A p \in Paths : Wanted(p) => Met(p) /\ Begun(p)

\* What is walked lies where the root leads; a walk that is done has been
\* through all of the roots.
RootedInv ==
  /\ scan \in Scans /\ DOMAIN fs = Paths /\ FilesTyped /\ IsList(manifests)
  /\ next \in Nat \ {0}
  /\ pc = "done" => next > Len(scan.roots)
  /\ HasPath \/ pc = "loop" =>
       /\ rootRealPath \in walked
       /\ \A i \in DOMAIN stack : IsPrefix(rootRealPath, stack[i].directory)
  /\ HasPath => IsPrefix(rootRealPath, path)

\* Directories lead to what is to be found, and realpath leaves them alone.
LEMMA WayThere ==
  ASSUME FilesTyped, NEW p \in Paths, Expected(p)
  PROVE  /\ \A k \in 0..Len(p) : Real(Upto(p, k)) = Upto(p, k)
         /\ \A k \in 0..Len(p) - 1 : IsDirectory(Upto(p, k))
         /\ \A k \in 1..Len(p) - 1 : fs[Upto(p, k)] = Directory
         /\ fs[p] = File /\ Last(p) \in ManifestNames
         /\ p \in Seq(Nat) /\ Len(p) \in Nat \ {0}
         /\ Upto(p, 0) = <<>> /\ Upto(p, Len(p)) = p
<1>1. /\ p \in Seq(Nat) /\ Len(p) \in Nat \ {0}
      /\ \A k \in 0..Len(p) : Upto(p, k) \in Places /\ (k > 0 => Upto(p, k) \in Paths)
  <2>1. Len(p) \in Nat
    BY UptoIsPlace, PathsAssumption, LenProperties
  <2>2. 0 \in 0..Len(p)
    BY <2>1
  <2> QED BY <2>2, UptoIsPlace
<1>2. fs[p] = File /\ Last(p) \in ManifestNames
  BY DEF Expected
<1>3. \A k \in 1..Len(p) - 1 : fs[Upto(p, k)] = Directory
  <2> SUFFICES ASSUME NEW k \in 1..Len(p) - 1 PROVE fs[Upto(p, k)] = Directory
    OBVIOUS
  <2>1. k \in 0..Len(p) /\ k > 0 /\ k \in 0..Len(p) - 1
    BY <1>1
  <2>2. Upto(p, k) \in Paths /\ Upto(p, k) \in Seq(Nat) /\ Len(Upto(p, k)) = k
    BY <1>1, <2>1, UptoIs
  <2>3. IsStrictPrefix(Upto(p, k), p)
    BY <1>1, <2>1, <2>2, PrefixIsUpto
  <2> QED BY <2>2, <2>3 DEF Expected
<1>4. Upto(p, 0) = <<>> /\ Upto(p, Len(p)) = p
  <2>1. 0 \in 0..Len(p)
    BY <1>1
  <2> QED BY <1>1, <2>1, UptoIs
<1>5. \A k \in 0..Len(p) : Straight(p, k)
  <2> SUFFICES ASSUME NEW k \in 0..Len(p), NEW j \in 1..k
               PROVE  fs[Upto(p, j)] = Directory \/ (j = k /\ fs[Upto(p, j)] = File)
    BY DEF Straight
  <2>1. j \in 1..Len(p) - 1 \/ (j = Len(p) /\ j = k)
    BY <1>1
  <2> QED BY <1>2, <1>3, <1>4, <2>1
<1>6. \A k \in 0..Len(p) : Real(Upto(p, k)) = Upto(p, k)
  BY <1>5, RealIsStraight
<1>7. ASSUME NEW k \in 0..Len(p) - 1 PROVE IsDirectory(Upto(p, k))
  <2>1. k = 0 \/ (k \in 1..Len(p) - 1 /\ k \in 0..Len(p) /\ k > 0)
    BY <1>1
  <2> QED BY <1>1, <1>3, <1>4, <2>1 DEF IsDirectory
<1> QED BY <1>1, <1>2, <1>3, <1>4, <1>6, <1>7

\* No two places on the way are the same.
LEMMA UptoInjective ==
  ASSUME NEW p \in Seq(Nat), NEW j \in 0..Len(p), NEW k \in 0..Len(p), Upto(p, j) = Upto(p, k)
  PROVE  j = k
BY UptoIs

\* What is wanted after a step was wanted before.
LEMMA WantedBefore ==
  ASSUME NEW p \in Paths, scan' = scan, walked \subseteq walked', touched \subseteq touched',
         \A q \in Paths : IsPrefix(q, p) => fs'[q] = fs[q], Wanted(p)'
  PROVE  Wanted(p)
<1>1. p \in Seq(Nat) /\ IsPrefix(p, p)
  <2>1. p \in Seq(Nat)
    BY PathsAssumption
  <2> QED BY <2>1, LenProperties, SubSeqFull DEF IsPrefix
<1>2. \A q : IsStrictPrefix(q, p) => IsPrefix(q, p)
  BY DEF IsStrictPrefix
<1>3. \A root, q : KeptOut(root, q)' <=> KeptOut(root, q)
  BY DEF KeptOut
<1>4. Untouched(p)
  BY DEF Wanted, Untouched
<1>5. Expected(p)'
  BY DEF Wanted
<1>6. fs[p] = File /\ Last(p) \in ManifestNames
  BY <1>1, <1>5 DEF Expected
<1>7. \A q \in Paths : IsStrictPrefix(q, p) => fs[q] = Directory
  BY <1>2, <1>5 DEF Expected
<1>8. \E i \in DOMAIN scan.roots : IsPathInside(Cwd, scan.roots[i]) /\ IsStrictPrefix(scan.roots[i], p)
  BY <1>5 DEF Expected
<1>9. \A root \in walked : IsStrictPrefix(root, p) =>
        \A q \in Paths : IsStrictPrefix(root, q) /\ IsPrefix(q, p) => ~KeptOut(root, q)
  BY <1>3, <1>5 DEF Expected
<1> QED BY <1>4, <1>6, <1>7, <1>8, <1>9 DEF Wanted, Expected

LEMMA WantedStep ==
  ASSUME RootedInv, [WalkNext]_walkVars, NEW p \in Paths, Wanted(p)'
  PROVE  Wanted(p)
<1> USE DEF fileVars, frameVars
<1>1. CASE UNCHANGED <<fs, scan, touched>> /\ walked \subseteq walked'
  BY <1>1, WantedBefore
<1>2. ASSUME NEW q \in Paths, NEW thing \in scan.things, Change(q, thing) PROVE Wanted(p)
  <2>1. /\ fs' = [fs EXCEPT ![q] = thing] /\ touched' = touched \cup {q}
        /\ UNCHANGED <<scan, walked>>
    BY <1>2 DEF Change
  <2>2. ~IsPrefix(q, p)
    BY <2>1 DEF Wanted, Untouched
  <2>3. \A r \in Paths : IsPrefix(r, p) => fs'[r] = fs[r]
    BY <2>1, <2>2 DEF RootedInv
  <2> QED BY <2>1, <2>3, WantedBefore
<1>3. Walk => UNCHANGED <<fs, scan, touched>> /\ walked \subseteq walked'
  BY DEF Walk, BeginRoot, EnterRoot, LeaveOutRoot, SortAndReturn, EnterDirectory, ListDirectory,
         NextEntry, EndRoot, LstatEntry, StatEntry, AddManifest
<1>4. UNCHANGED walkVars => UNCHANGED <<fs, scan, touched, walked>>
  BY DEF walkVars
<1> QED BY <1>1, <1>2, <1>3, <1>4 DEF WalkNext

\* The root that is walked is not "/".
LEMMA RootIsLow ==
  ASSUME FoundInv, NEW p \in Paths, Expected(p), HasPath \/ pc = "loop"
  PROVE  rootRealPath # <<>>
<1> SUFFICES ASSUME rootRealPath = <<>> PROVE FALSE
  OBVIOUS
<1>1. IsPathInside(Cwd, <<>>)
  BY DEF FoundInv, RootInside, HasPath
<1>2. Cwd \in Seq(Nat) /\ Len(Cwd) \in Nat
  BY PathsAssumption, LenProperties
<1>3. Cwd = <<>>
  <2>1. CASE IsPrefix(Cwd, <<>>)
    <3>1. Len(Cwd) = 0
      BY <1>2, <2>1, EmptySeq DEF IsPrefix
    <3> QED BY <1>2, <3>1, EmptySeq
  <2> QED BY <1>1, <2>1 DEF IsPathInside
<1>4. PICK i \in DOMAIN scan.roots : IsPathInside(Cwd, scan.roots[i])
  BY DEF Expected
<1>5. scan.roots[i] = <<>>
  BY <1>3, <1>4 DEF IsPathInside
<1>6. scan.roots \in Seq(Paths)
  BY ScansAssumption DEF FoundInv
<1>7. DOMAIN scan.roots = 1..Len(scan.roots)
  BY <1>6, LenProperties
<1>8. scan.roots[i] \in Paths
  BY <1>6, <1>7, ElementOfSeq
<1> QED BY <1>5, <1>8, PathsAssumption

\* Steps that visit nothing new.
LEMMA MetGoes ==
  ASSUME NEW p \in Paths, Met(p), UNCHANGED visitedDirectories, FoundAt(p) => FoundAt(p)',
         \A k \in 1..Len(p) : Near(k, p) => FoundAt(p)' \/ \E m \in k..Len(p) : Near(m, p)'
  PROVE  Met(p)'
<1> SUFFICES ASSUME NEW n \in 0..Len(p) - 1, Upto(p, n) \in visitedDirectories, ~FoundAt(p)'
             PROVE  \E k \in n + 1..Len(p) : Near(k, p)'
  BY DEF Met
<1>1. PICK k \in n + 1..Len(p) : Near(k, p)
  BY DEF Met
<1>2. Len(p) \in Nat
  BY PathsAssumption, LenProperties
<1>3. k \in 1..Len(p)
  BY <1>2
<1>4. PICK m \in k..Len(p) : Near(m, p)'
  BY <1>1, <1>3
<1>5. m \in n + 1..Len(p)
  BY <1>2
<1> QED BY <1>4, <1>5

\* Steps within the walk of a root.
LEMMA BegunGoes ==
  ASSUME NEW p \in Paths, Begun(p), UNCHANGED <<scan, next>>,
         visitedDirectories \subseteq visitedDirectories', pc \notin {"root", "enter", "done"}
  PROVE  Begun(p)'
BY DEF Begun, LeadsTo

LEMMA RootsArePaths ==
  ASSUME scan \in Scans
  PROVE  /\ Len(scan.roots) \in Nat /\ DOMAIN scan.roots = 1..Len(scan.roots)
         /\ \A i \in DOMAIN scan.roots : scan.roots[i] \in Paths
<1>1. scan.roots \in Seq(Paths)
  BY ScansAssumption
<1> QED BY <1>1, LenProperties, ElementOfSeq

\* A root that leads to p is where it leads itself.
LEMMA RootIsReal ==
  ASSUME RootedInv, NEW p \in Paths, Expected(p), NEW i, LeadsTo(i, p)
  PROVE  /\ scan.roots[i] \in Paths /\ Real(scan.roots[i]) = scan.roots[i]
         /\ \E n \in 0..Len(p) - 1 : scan.roots[i] = Upto(p, n)
<1>1. i \in DOMAIN scan.roots /\ IsStrictPrefix(scan.roots[i], p)
  BY DEF LeadsTo
<1>2. scan.roots[i] \in Paths
  BY <1>1, RootsArePaths DEF RootedInv
<1>3. PICK q \in Paths : q = scan.roots[i]
  BY <1>2
<1>4. p \in Seq(Nat) /\ q \in Seq(Nat) /\ Len(p) \in Nat
  BY PathsAssumption, LenProperties
<1>5. Len(q) \in 0..Len(p) - 1 /\ q = Upto(p, Len(q))
  BY <1>1, <1>3, <1>4, PrefixIsUpto
<1>6. Len(q) \in 0..Len(p)
  BY <1>4, <1>5
<1>7. Real(Upto(p, Len(q))) = Upto(p, Len(q))
  BY <1>6, WayThere DEF RootedInv
<1> QED BY <1>2, <1>3, <1>5, <1>7

LEMMA SameOnStack ==
  ASSUME UNCHANGED stack
  PROVE  \A k, p : OnStack(k, p)' <=> OnStack(k, p)
BY DEF OnStack

\* What is found remains so.
LEMMA SameFound ==
  ASSUME UNCHANGED manifests
  PROVE  \A p : FoundAt(p)' <=> FoundAt(p)
BY DEF FoundAt

\* The walk of a root begins.
LEMMA BeginMisses ==
  ASSUME StackInv, PathsInv, RootedInv, MissedInv, BeginRoot
  PROVE  \A p \in Paths : ~limited' /\ pc' # "failed" /\ Wanted(p) => Met(p)' /\ Begun(p)'
<1> USE DEF Awaits
<1> SUFFICES ASSUME NEW p \in Paths, ~limited', pc' # "failed", Wanted(p)
             PROVE  Met(p)' /\ Begun(p)'
  OBVIOUS
<1>1. /\ pc = "root" /\ stack = <<>> /\ next \in Nat \ {0} /\ next <= Len(scan.roots)
      /\ UNCHANGED <<scan, fs, stack, visitedDirectories, manifests, limited>>
  BY DEF BeginRoot, EnterRoot, LeaveOutRoot, Reports, PathsInv, RootedInv, fileVars, foundVars
<1>2. Met(p) /\ Begun(p) /\ Expected(p)
  BY <1>1 DEF MissedInv, Wanted
<1>3. \A k : ~Near(k, p)
  <2>1. DOMAIN stack = {}
    BY <1>1, EmptySeq
  <2> QED BY <1>1, <2>1 DEF Near, OnStack
<1>4. Met(p)'
  BY <1>1, <1>2, <1>3, SameFound, MetGoes
<1>5. ASSUME NEW i, LeadsTo(i, p)', i < next' \/ (i = next' /\ pc' \notin {"root", "done"})
      PROVE  \/ scan.roots[i] \in visitedDirectories
             \/ i = next' /\ pc' = "enter" /\ path' = scan.roots[i]
  <2>1. LeadsTo(i, p) /\ i \in Nat
    <3>1. LeadsTo(i, p)
      BY <1>1, <1>5 DEF LeadsTo
    <3> QED BY <3>1, RootsArePaths DEF LeadsTo, RootedInv
  <2>2. CASE i < next
    BY <1>2, <2>1, <2>2 DEF Begun
  <2>3. CASE i = next
    <3>1. RootPath = scan.roots[next] /\ RootPath \in Places /\ IsPathInside(Cwd, scan.roots[next])
      BY <1>2, <2>1, <2>3, RootIsReal DEF RootPath, LeadsTo, Places
    <3>2. EnterRoot
      BY <3>1 DEF BeginRoot
    <3> QED BY <2>3, <3>1, <3>2 DEF EnterRoot
  <2>4. i <= next
    <3>1. next' = next \/ (next' = next + 1 /\ pc' = "root")
      BY <1>1 DEF BeginRoot, EnterRoot, LeaveOutRoot
    <3> QED BY <1>1, <1>5, <2>1, <3>1
  <2> QED BY <1>1, <2>1, <2>2, <2>3, <2>4
<1>6. Begun(p)'
  BY <1>1, <1>5 DEF Begun
<1> QED BY <1>4, <1>6

\* A sort loses nothing.
LEMMA SortMisses ==
  ASSUME StackInv, PathsInv, RootedInv, MissedInv, SortAndReturn
  PROVE  \A p \in Paths : ~limited' /\ pc' # "failed" /\ Wanted(p) => Met(p)' /\ Begun(p)'
<1> USE DEF Awaits
<1> SUFFICES ASSUME NEW p \in Paths, ~limited', pc' # "failed", Wanted(p)
             PROVE  Met(p)' /\ Begun(p)'
  OBVIOUS
<1>1. /\ pc = "root" /\ stack = <<>> /\ pc' = "done"
      /\ UNCHANGED <<scan, next, visitedDirectories, limited>>
  BY DEF SortAndReturn, PathsInv, fileVars, frameVars
<1>2. Met(p) /\ Begun(p)
  BY <1>1 DEF MissedInv
<1>3. \A k : ~Near(k, p)
  <2>1. DOMAIN stack = {}
    BY <1>1, EmptySeq
  <2> QED BY <1>1, <2>1 DEF Near, OnStack
<1>4. ASSUME FoundAt(p) PROVE FoundAt(p)'
  <2> DEFINE paths == [i \in DOMAIN manifests |-> manifests[i].realPath]
             D == DOMAIN manifests
  <2>1. PICK f \in Sortings(paths) : manifests' = Arranged(manifests, f)
    BY DEF SortAndReturn
  <2>2. /\ f \in [D -> D]
        /\ \A i, j \in D : i < j => f[i] # f[j]
    BY <2>1 DEF Sortings
  <2>3. PICK S : manifests \in Seq(S)
    BY DEF RootedInv, IsList
  <2>4. Len(manifests) \in Nat /\ D = 1..Len(manifests)
    BY <2>3, LenProperties
  <2>5. IsFiniteSet(D)
    BY <2>4, FS_Interval
  <2> HIDE DEF D
  <2>6. f \in Injection(D, D)
    <3>1. \A i, j \in D : f[i] = f[j] => i = j
      <4> SUFFICES ASSUME NEW i \in D, NEW j \in D, f[i] = f[j] PROVE i = j
        OBVIOUS
      <4>1. i \in Nat /\ j \in Nat /\ ~(i < j) /\ ~(j < i)
        BY <2>2, <2>4
      <4> QED BY <4>1
    <3> QED BY <2>2, <3>1 DEF Injection, IsInjective
  <2>7. f \in Surjection(D, D)
    BY <2>5, <2>6, FS_Injection
  <2>8. PICK i \in D : manifests[i].realPath = p
    BY <1>4 DEF FoundAt, D
  <2>9. PICK j \in D : f[j] = i
    BY <2>7, <2>8 DEF Surjection
  <2>10. j \in DOMAIN manifests' /\ manifests'[j] = manifests[i]
    BY <2>1, <2>2, <2>9 DEF Arranged
  <2> QED BY <2>8, <2>10 DEF FoundAt
<1>5. Met(p)'
  BY <1>1, <1>2, <1>3, <1>4, MetGoes
<1>6. Begun(p)'
  BY <1>1, <1>2 DEF Begun, LeadsTo
<1> QED BY <1>5, <1>6

\* The way goes on in a directory that is entered, or went on when it was.
LEMMA EnterMisses ==
  ASSUME StackInv, FoundInv, ExcludedInv, RootedInv, MissedInv, EnterDirectory
  PROVE  \A p \in Paths : ~limited' /\ pc' # "failed" /\ Wanted(p) => Met(p)' /\ Begun(p)'
<1> USE DEF Awaits
<1> SUFFICES ASSUME NEW p \in Paths, ~limited', pc' # "failed", Wanted(p)
             PROVE  Met(p)' /\ Begun(p)'
  OBVIOUS
<1>1. /\ pc = "enter" /\ HasPath
      /\ UNCHANGED <<scan, fs, next, stack, manifests, limited>>
  BY DEF EnterDirectory, Reports, StaysOut, foundVars, frameVars, HasPath
<1>2. Met(p) /\ Begun(p) /\ Expected(p)
  BY <1>1 DEF MissedInv, Wanted
<1>3. FoundAt(p)' <=> FoundAt(p)
  BY <1>1, SameFound
<1>4. /\ p \in Seq(Nat) /\ Len(p) \in Nat
      /\ \A k \in 0..Len(p) : Real(Upto(p, k)) = Upto(p, k)
  BY <1>2, WayThere DEF RootedInv
\* What happens when the walk enters a place on the way.
<1>5. ASSUME NEW k \in 0..Len(p) - 1, path = Upto(p, k)
      PROVE  \/ path \in visitedDirectories /\ UNCHANGED visitedDirectories
             \/ pc' = "list" /\ path' = path /\ visitedDirectories' = visitedDirectories \cup {path}
  <2>1. k \in 0..Len(p)
    BY <1>4
  <2>2. Real(path) = path
    BY <1>4, <1>5, <2>1
  <2>3. path \in Places
    BY <1>5, <2>1, UptoIsPlace
  <2>4. path # Nowhere
    <3>1. Upto(p, k) \in Seq(Nat)
      BY <1>4, <2>1, UptoIs
    <3>2. CASE path = Nowhere
      <4>1. Nowhere \in Seq(Nat) /\ Len(Nowhere) = 1 /\ Nowhere[1] = -1
        BY <1>5, <3>1, <3>2 DEF Nowhere
      <4>2. Nowhere[1] \in Nat
        <5>1. 1 \in 1..Len(Nowhere)
          BY <4>1
        <5> QED BY <4>1, <5>1, ElementOfSeq
      <4> QED BY <4>1, <4>2
    <3> QED BY <3>2
  <2>5. IsPathInside(rootRealPath, path)
    <3>1. IsPrefix(rootRealPath, path)
      BY <1>1 DEF RootedInv
    <3>2. rootRealPath # <<>>
      BY <1>1, <1>2, RootIsLow
    <3> QED BY <3>1, <3>2 DEF IsPathInside
  <2>6. Contained(path)
    BY <2>3, <2>5 DEF Contained
  <2> QED BY <2>2, <2>4, <2>6 DEF EnterDirectory, foundVars, Visits
<1>6. /\ visitedDirectories \subseteq visitedDirectories'
      /\ visitedDirectories' # visitedDirectories =>
           pc' = "list" /\ visitedDirectories' = visitedDirectories \cup {path'}
  BY DEF EnterDirectory, Reports, StaysOut, foundVars, Visits
<1>7. Met(p)'
  <2> SUFFICES ASSUME NEW n \in 0..Len(p) - 1, Upto(p, n) \in visitedDirectories', ~FoundAt(p)
               PROVE  \E k \in n + 1..Len(p) : Near(k, p)'
    BY <1>3 DEF Met
  <2>1. n \in 0..Len(p) /\ n + 1 \in 1..Len(p)
    BY <1>4
  <2>2. CASE Upto(p, n) \notin visitedDirectories
    <3>1. pc' = "list" /\ path' = Upto(p, n)
      BY <1>6, <2>2
    <3>2. (n + 1) - 1 = n
      BY <2>1
    <3>3. Near(n + 1, p)'
      BY <3>1, <3>2 DEF Near
    <3>4. n + 1 \in n + 1..Len(p)
      BY <2>1
    <3> QED BY <3>3, <3>4
  <2>3. CASE Upto(p, n) \in visitedDirectories
    <3>1. PICK k \in n + 1..Len(p) : Near(k, p)
      BY <1>2, <2>3 DEF Met
    <3>2. CASE OnStack(k, p)
      <4>1. Near(k, p)'
        BY <1>1, <3>2, SameOnStack DEF Near
      <4> QED BY <4>1
    <3>3. CASE k < Len(p) /\ path = Upto(p, k)
      <4>1. k \in 0..Len(p) - 1 /\ k \in 0..Len(p) /\ k + 1 \in n + 1..Len(p)
        BY <1>4, <3>3
      <4>2. CASE path \in visitedDirectories
        <5>1. PICK m \in k + 1..Len(p) : Near(m, p)
          BY <1>2, <3>3, <4>1, <4>2 DEF Met
        <5>2. m \in 0..Len(p) /\ m # k /\ m \in n + 1..Len(p)
          BY <1>4, <4>1
        <5>3. path # Upto(p, m)
          BY <1>4, <3>3, <4>1, <5>2, UptoInjective
        <5>4. OnStack(m, p)
          BY <1>1, <5>1, <5>3 DEF Near
        <5>5. Near(m, p)'
          BY <1>1, <5>4, SameOnStack DEF Near
        <5> QED BY <5>2, <5>5
      <4>3. CASE pc' = "list" /\ path' = path
        <5>1. (k + 1) - 1 = k
          BY <4>1
        <5>2. Near(k + 1, p)'
          BY <3>3, <4>3, <5>1 DEF Near
        <5> QED BY <4>1, <5>2
      <4> QED BY <1>5, <3>3, <4>1, <4>2, <4>3
    <3> QED BY <1>1, <3>1, <3>2, <3>3 DEF Near
  <2> QED BY <2>2, <2>3
<1>8. ASSUME NEW i, LeadsTo(i, p)', i < next' \/ (i = next' /\ pc' \notin {"root", "done"})
      PROVE  scan.roots[i] \in visitedDirectories'
  <2>1. LeadsTo(i, p) /\ (i < next \/ (i = next /\ pc \notin {"root", "done"}))
    BY <1>1, <1>8 DEF LeadsTo
  <2>2. CASE scan.roots[i] \in visitedDirectories
    BY <1>6, <2>2
  <2>3. CASE path = scan.roots[i]
    <3>1. PICK n \in 0..Len(p) - 1 : scan.roots[i] = Upto(p, n)
      BY <1>2, <2>1, RootIsReal
    <3> QED BY <1>5, <2>3, <3>1
  <2> QED BY <1>2, <2>1, <2>2, <2>3 DEF Begun
<1>9. Begun(p)'
  BY <1>1, <1>8 DEF Begun
<1> QED BY <1>7, <1>9

\* The next place is among the names of the directory that is listed.
LEMMA ListMisses ==
  ASSUME StackInv, RootedInv, MissedInv, ListDirectory
  PROVE  \A p \in Paths : ~limited' /\ pc' # "failed" /\ Wanted(p) => Met(p)' /\ Begun(p)'
<1> USE DEF Awaits
<1> DEFINE frame == [directory |-> path, entries |-> Names(Real(path))]
<1> SUFFICES ASSUME NEW p \in Paths, ~limited', pc' # "failed", Wanted(p)
             PROVE  Met(p)' /\ Begun(p)'
  OBVIOUS
<1>1. /\ pc = "list" /\ UNCHANGED <<scan, next, visitedDirectories, manifests, limited>>
      /\ stack' = Append(stack, frame)
  BY DEF ListDirectory, Throws, foundVars, fileVars
<1>2. Met(p) /\ Begun(p) /\ Expected(p)
  BY <1>1 DEF MissedInv, Wanted
<1>3. /\ p \in Seq(Nat) /\ Len(p) \in Nat
      /\ \A k \in 0..Len(p) : Real(Upto(p, k)) = Upto(p, k)
      /\ \A k \in 1..Len(p) - 1 : fs[Upto(p, k)] = Directory
      /\ fs[p] = File /\ Upto(p, Len(p)) = p
  BY <1>2, WayThere DEF RootedInv
<1>4. frame.directory = path /\ frame.entries = Names(Real(path))
  OBVIOUS
<1> HIDE DEF frame
<1> DEFINE l == Len(stack) + 1
<1>5. /\ \A i \in DOMAIN stack : i \in DOMAIN stack' /\ stack'[i] = stack[i]
      /\ l \in DOMAIN stack' /\ stack'[l] = frame
  <2>1. stack \in Seq(Frames)
    BY DEF StackInv
  <2>2. /\ DOMAIN stack = 1..Len(stack) /\ DOMAIN stack' = 1..Len(stack) + 1
        /\ Len(stack) \in Nat
        /\ stack'[Len(stack) + 1] = frame
        /\ \A i \in 1..Len(stack) : stack'[i] = stack[i]
    BY <1>1, <2>1, AppendedList
  <2> QED BY <2>2
<1> HIDE DEF l
<1>6. ASSUME NEW k \in 1..Len(p), Near(k, p)
      PROVE  Near(k, p)'
  <2>1. CASE OnStack(k, p)
    <3>1. OnStack(k, p)'
      BY <1>5, <2>1 DEF OnStack
    <3> QED BY <3>1 DEF Near
  <2>2. CASE path = Upto(p, k - 1)
    <3>1. k - 1 \in 0..Len(p) /\ k - 1 \in 0..Len(p) - 1 /\ k \in 0..Len(p) /\ k > 0
          /\ (k - 1) + 1 = k
      BY <1>3
    <3>2. Real(path) = Upto(p, k - 1)
      BY <1>3, <2>2, <3>1
    <3> DEFINE q == Upto(p, k)
    <3>3. q \in Paths /\ q = Append(Upto(p, k - 1), p[k]) /\ Upto(p, k - 1) \in Seq(Nat) /\ p[k] \in Nat
      <4>1. q \in Paths
        BY <3>1, UptoIsPlace
      <4>2. Append(Upto(p, k - 1), p[(k - 1) + 1]) = Upto(p, (k - 1) + 1) /\ p[(k - 1) + 1] \in Nat
        BY <1>3, <3>1, UptoNext
      <4>3. Upto(p, k - 1) \in Seq(Nat)
        BY <1>3, <3>1, UptoIs
      <4> QED BY <3>1, <4>1, <4>2, <4>3
    <3>4. fs[q] # Absent
      <4>1. k = Len(p) \/ k \in 1..Len(p) - 1
        BY <1>3
      <4> QED BY <1>3, <4>1 DEF Directory, File, Absent
    <3> HIDE DEF q
    <3>5. Front(q) = Upto(p, k - 1) /\ Last(q) = p[k]
      BY <3>3, FrontLastOfAppend
    <3>6. p[k] \in Names(Real(path))
      BY <3>2, <3>3, <3>4, <3>5 DEF Names
    <3>7. OnStack(k, p)'
      BY <1>4, <1>5, <2>2, <3>6 DEF OnStack
    <3> QED BY <3>7 DEF Near
  <2> QED BY <1>1, <1>6, <2>1, <2>2 DEF Near
<1>7. Met(p)'
  <2>1. \A k \in 1..Len(p) : Near(k, p) => \E m \in k..Len(p) : Near(m, p)'
    <3> SUFFICES ASSUME NEW k \in 1..Len(p), Near(k, p) PROVE \E m \in k..Len(p) : Near(m, p)'
      OBVIOUS
    <3>1. k \in k..Len(p)
      BY <1>3
    <3> QED BY <1>6, <3>1
  <2> QED BY <1>1, <1>2, <2>1, SameFound, MetGoes
<1>8. Begun(p)'
  BY <1>1, <1>2, BegunGoes
<1> QED BY <1>7, <1>8

\* An entry that is taken and leads to p is not excluded.
LEMMA WayIsClear ==
  ASSUME ExcludedInv, RootedInv, NEW p \in Paths, Expected(p),
         HasPath \/ pc = "loop", NEW k \in 1..Len(p), IsPrefix(rootRealPath, Upto(p, k - 1))
  PROVE  ~Excluded(Upto(p, k))
<1> SUFFICES ASSUME Excluded(Upto(p, k)) PROVE FALSE
  OBVIOUS
<1>1. p \in Seq(Nat) /\ Len(p) \in Nat
  BY PathsAssumption, LenProperties
<1>2. k \in 0..Len(p) /\ k > 0 /\ k - 1 \in 0..Len(p)
  BY <1>1
<1>3. PICK root \in Seq(Nat) : root = rootRealPath
  BY PlacesAreLists DEF ExcludedInv
<1>4. PICK q \in Paths : q = Upto(p, k)
  BY <1>2, UptoIsPlace
<1>5. q \in Seq(Nat) /\ Len(q) = k /\ \A i \in 1..k : q[i] = p[i]
  BY <1>1, <1>2, <1>4, UptoIs
<1> DEFINE d == Upto(p, k - 1)
<1>6. d \in Seq(Nat) /\ Len(d) = k - 1 /\ \A i \in 1..k - 1 : d[i] = p[i]
  BY <1>1, <1>2, UptoIs
<1>7. IsPrefix(root, d)
  BY <1>3
<1> HIDE DEF d
<1>8. Len(root) \in Nat /\ Len(root) <= k - 1 /\ \A i \in 1..Len(root) : root[i] = d[i]
  BY <1>3, <1>6, <1>7, PrefixPointwise, LenProperties
<1>9. \A i \in 1..Len(root) : i \in 1..k - 1 /\ i \in 1..k
  BY <1>2, <1>8
<1>10. \A i \in 1..Len(root) : root[i] = q[i] /\ root[i] = p[i]
  BY <1>5, <1>6, <1>8, <1>9
<1>11. Len(root) < Len(q) /\ Len(root) < Len(p) /\ Len(root) <= Len(q) /\ Len(root) <= Len(p)
  BY <1>1, <1>2, <1>5, <1>8
<1>12. IsPrefix(root, q) /\ IsPrefix(root, p)
  BY <1>1, <1>5, <1>10, <1>11, PrefixPointwise
<1>13. IsStrictPrefix(root, q) /\ IsStrictPrefix(root, p)
  BY <1>11, <1>12 DEF IsStrictPrefix
<1>14. IsPrefix(q, p)
  BY <1>1, <1>2, <1>4, <1>5, PrefixIsUpto
<1>15. root \in walked
  BY <1>3 DEF RootedInv
<1>16. ~KeptOut(root, q)
  BY <1>13, <1>14, <1>15 DEF Expected
<1>17. ShouldExclude(root, q)
  BY <1>3, <1>4 DEF Excluded
<1> QED BY <1>5, <1>12, <1>16, <1>17, RulesSpare DEF RootedInv

\* The next place is taken when its turn comes.
LEMMA NextMisses ==
  ASSUME StackInv, ExcludedInv, RootedInv, MissedInv, NextEntry
  PROVE  \A p \in Paths : ~limited' /\ pc' # "failed" /\ Wanted(p) => Met(p)' /\ Begun(p)'
<1> SUFFICES ASSUME NEW p \in Paths, ~limited', pc' # "failed", Wanted(p)
             PROVE  Met(p)' /\ Begun(p)'
  OBVIOUS
<1>1. /\ pc = "loop" /\ UNCHANGED <<scan, next, visitedDirectories, manifests, limited>>
      /\ stack \in Seq(Frames) /\ stack # <<>>
  BY DEF NextEntry, foundVars, fileVars, StackInv
<1>2. Met(p) /\ Begun(p) /\ Expected(p)
  BY <1>1 DEF MissedInv, Wanted
<1>3. p \in Seq(Nat) /\ Len(p) \in Nat
  BY PathsAssumption, LenProperties
<1> DEFINE n == Len(stack)
           top == stack[n]
<1>4. n \in Nat /\ DOMAIN stack = 1..n
  BY <1>1, LenProperties
<1>5. \/ top.entries = {} /\ stack' = Front(stack)
      \/ \E name \in top.entries :
           /\ stack' = Shrunk(stack, name)
           /\ \/ Excluded(Append(top.directory, name))
              \/ pc' = "lstat" /\ path' = Append(top.directory, name)
  BY DEF NextEntry, Shrunk, Last, Awaits
<1> HIDE DEF n
<1>6. ASSUME NEW k \in 1..Len(p), Near(k, p)
      PROVE  Near(k, p)'
  <2>1. OnStack(k, p)
    BY <1>1, <1>6 DEF Near
  <2>2. PICK i \in DOMAIN stack : stack[i].directory = Upto(p, k - 1) /\ p[k] \in stack[i].entries
    BY <2>1 DEF OnStack
  <2>3. CASE top.entries = {} /\ stack' = Front(stack)
    <3>1. i # n
      BY <2>2, <2>3
    <3>2. i \in DOMAIN stack' /\ stack'[i] = stack[i]
      BY <1>1, <1>4, <2>2, <2>3, <3>1, FrontKeeps DEF n
    <3>3. OnStack(k, p)'
      BY <2>2, <3>2 DEF OnStack
    <3> QED BY <3>3 DEF Near
  <2>4. ASSUME NEW name \in top.entries, stack' = Shrunk(stack, name),
               \/ Excluded(Append(top.directory, name))
               \/ pc' = "lstat" /\ path' = Append(top.directory, name)
        PROVE  Near(k, p)'
    <3>1. /\ DOMAIN stack' = DOMAIN stack
          /\ stack'[i].directory = stack[i].directory
          /\ i # n => stack'[i] = stack[i]
          /\ stack'[n].entries = top.entries \ {name}
      BY <1>1, <2>2, <2>4, FrameShrinks DEF n
    <3>2. CASE i # n \/ name # p[k]
      <4>1. p[k] \in stack'[i].entries
        BY <2>2, <3>1, <3>2
      <4>2. OnStack(k, p)'
        BY <2>2, <3>1, <4>1 DEF OnStack
      <4> QED BY <4>2 DEF Near
    <3>3. CASE i = n /\ name = p[k]
      <4>1. k - 1 \in 0..Len(p) - 1 /\ (k - 1) + 1 = k
        BY <1>3
      <4>2. Append(Upto(p, k - 1), p[(k - 1) + 1]) = Upto(p, (k - 1) + 1)
        BY <1>3, <4>1, UptoNext
      <4>3. Append(top.directory, name) = Upto(p, k)
        BY <2>2, <3>3, <4>1, <4>2
      <4>4. IsPrefix(rootRealPath, Upto(p, k - 1))
        BY <1>1, <2>2 DEF RootedInv
      <4>5. ~Excluded(Append(top.directory, name))
        BY <1>1, <1>2, <4>3, <4>4, WayIsClear
      <4>6. pc' = "lstat" /\ path' = Upto(p, k)
        BY <2>4, <4>3, <4>5
      <4> QED BY <4>6 DEF Near
    <3> QED BY <3>2, <3>3
  <2> QED BY <1>5, <2>3, <2>4
<1>7. Met(p)'
  <2>1. \A k \in 1..Len(p) : Near(k, p) => \E m \in k..Len(p) : Near(m, p)'
    <3> SUFFICES ASSUME NEW k \in 1..Len(p), Near(k, p) PROVE \E m \in k..Len(p) : Near(m, p)'
      OBVIOUS
    <3>1. k \in k..Len(p)
      BY <1>3
    <3> QED BY <1>6, <3>1
  <2> QED BY <1>1, <1>2, <2>1, SameFound, MetGoes
<1>8. Begun(p)'
  BY <1>1, <1>2, BegunGoes
<1> QED BY <1>7, <1>8

\* A directory on the way is entered, and p itself taken.
LEMMA LstatMisses ==
  ASSUME StackInv, RootedInv, MissedInv, LstatEntry
  PROVE  \A p \in Paths : ~limited' /\ pc' # "failed" /\ Wanted(p) => Met(p)' /\ Begun(p)'
<1> USE DEF Awaits
<1> SUFFICES ASSUME NEW p \in Paths, ~limited', pc' # "failed", Wanted(p)
             PROVE  Met(p)' /\ Begun(p)'
  OBVIOUS
<1>1. /\ pc = "lstat"
      /\ UNCHANGED <<scan, next, visitedDirectories, manifests, limited, stack>>
  BY DEF LstatEntry, Throws, foundVars, fileVars
<1>2. Met(p) /\ Begun(p) /\ Expected(p)
  BY <1>1 DEF MissedInv, Wanted
<1>3. /\ p \in Seq(Nat) /\ Len(p) \in Nat
      /\ \A k \in 0..Len(p) : Real(Upto(p, k)) = Upto(p, k)
      /\ \A k \in 0..Len(p) - 1 : IsDirectory(Upto(p, k))
      /\ \A k \in 1..Len(p) - 1 : fs[Upto(p, k)] = Directory
      /\ fs[p] = File /\ Last(p) \in ManifestNames
      /\ Upto(p, 0) = <<>> /\ Upto(p, Len(p)) = p
  BY <1>2, WayThere DEF RootedInv
<1>4. ASSUME NEW k \in 1..Len(p), path = Upto(p, k)
      PROVE  Lstat(path) = fs[path]
  <2>1. k - 1 \in 0..Len(p) /\ k - 1 \in 0..Len(p) - 1 /\ k \in 0..Len(p) /\ k > 0 /\ (k - 1) + 1 = k
    BY <1>3
  <2>2. path \in Paths /\ Len(path) = k
    BY <1>3, <1>4, <2>1, UptoIs, UptoIsPlace
  <2>3. /\ path = Append(Upto(p, k - 1), p[k])
        /\ Upto(p, k - 1) \in Seq(Nat) /\ p[k] \in Nat
    <3>1. Append(Upto(p, k - 1), p[(k - 1) + 1]) = Upto(p, (k - 1) + 1) /\ p[(k - 1) + 1] \in Nat
      BY <1>3, <2>1, UptoNext
    <3>2. Upto(p, k - 1) \in Seq(Nat)
      BY <1>3, <2>1, UptoIs
    <3> QED BY <1>4, <2>1, <3>1, <3>2
  <2>4. Front(path) = Upto(p, k - 1) /\ Last(path) = p[k]
    BY <2>3, FrontLastOfAppend
  <2> DEFINE parent == IF Len(path) = 1 THEN <<>> ELSE Real(Front(path))
  <2>5. parent = Upto(p, k - 1)
    <3>1. CASE Len(path) = 1
      <4>1. k - 1 = 0
        BY <2>1, <2>2, <3>1
      <4> QED BY <1>3, <3>1, <4>1
    <3>2. CASE Len(path) # 1
      BY <1>3, <2>1, <2>4, <3>2
    <3> QED BY <3>1, <3>2
  <2>6. IsDirectory(parent)
    BY <1>3, <2>1, <2>5
  <2>7. Append(parent, Last(path)) = path
    BY <2>3, <2>4, <2>5
  <2> HIDE DEF parent
  <2>8. Lstat(path) = IF IsDirectory(parent) /\ Append(parent, Last(path)) \in Paths
                      THEN fs[Append(parent, Last(path))] ELSE Absent
    BY DEF Lstat, parent
  <2> QED BY <2>2, <2>6, <2>7, <2>8
<1>5. ASSUME NEW k \in 1..Len(p), Near(k, p)
      PROVE  Near(k, p)'
  <2>1. CASE OnStack(k, p)
    <3>1. OnStack(k, p)'
      BY <1>1, <2>1, SameOnStack
    <3> QED BY <3>1 DEF Near
  <2>2. CASE path = Upto(p, k) /\ k < Len(p)
    <3>1. k \in 1..Len(p) - 1
      BY <1>3, <2>2
    <3>2. Lstat(path) = Directory
      BY <1>3, <1>4, <2>2, <3>1
    <3>3. Directory # Absent /\ Directory.kind # "link" /\ Directory # File
      BY DEF Directory, File, Absent
    <3>4. pc' = "enter" /\ path' = path
      BY <3>2, <3>3 DEF LstatEntry, Examine
    <3> QED BY <2>2, <3>4 DEF Near
  <2>3. CASE path = Upto(p, k) /\ k = Len(p)
    <3>1. path = p /\ Lstat(path) = File
      BY <1>3, <1>4, <2>3
    <3>2. File # Absent /\ File.kind # "link" /\ File # Directory
      BY DEF File, Directory, Absent
    <3>3. pc' = "real" /\ path' = path
      BY <1>3, <3>1, <3>2 DEF LstatEntry, Examine
    <3> QED BY <2>3, <3>1, <3>3 DEF Near
  <2>4. k < Len(p) \/ k = Len(p)
    BY <1>3
  <2> QED BY <1>1, <1>5, <2>1, <2>2, <2>3, <2>4 DEF Near
<1>6. Met(p)'
  <2>1. \A k \in 1..Len(p) : Near(k, p) => \E m \in k..Len(p) : Near(m, p)'
    <3> SUFFICES ASSUME NEW k \in 1..Len(p), Near(k, p) PROVE \E m \in k..Len(p) : Near(m, p)'
      OBVIOUS
    <3>1. k \in k..Len(p)
      BY <1>3
    <3> QED BY <1>5, <3>1
  <2> QED BY <1>1, <1>2, <2>1, SameFound, MetGoes
<1>7. Begun(p)'
  BY <1>1, <1>2, BegunGoes
<1> QED BY <1>6, <1>7

\* What is looked at behind a link, or at the end of a root, is not on the way.
LEMMA OthersMiss ==
  ASSUME StackInv, RootedInv, MissedInv, EndRoot \/ StatEntry
  PROVE  \A p \in Paths : ~limited' /\ pc' # "failed" /\ Wanted(p) => Met(p)' /\ Begun(p)'
<1> SUFFICES ASSUME NEW p \in Paths, ~limited', pc' # "failed", Wanted(p)
             PROVE  Met(p)' /\ Begun(p)'
  OBVIOUS
<1>1. /\ pc \in {"loop", "stat"}
      /\ UNCHANGED <<scan, visitedDirectories, manifests, limited, stack>>
  BY DEF EndRoot, StatEntry, Throws, foundVars, fileVars
<1>2. Met(p) /\ Begun(p)
  BY <1>1 DEF MissedInv
<1>3. Len(p) \in Nat
  BY PathsAssumption, LenProperties
<1>4. ASSUME NEW k \in 1..Len(p), Near(k, p)
      PROVE  \E m \in k..Len(p) : Near(m, p)'
  <2>1. OnStack(k, p)
    BY <1>1, <1>4 DEF Near
  <2>2. Near(k, p)'
    BY <1>1, <2>1, SameOnStack DEF Near
  <2>3. k \in k..Len(p)
    BY <1>3
  <2> QED BY <2>2, <2>3
<1>5. Met(p)'
  BY <1>1, <1>2, <1>4, SameFound, MetGoes
<1>6. CASE StatEntry
  <2>1. next' = next /\ pc = "stat"
    BY <1>6 DEF StatEntry
  <2> QED BY <1>1, <1>2, <1>5, <2>1, BegunGoes
<1>7. CASE EndRoot
  <2>1. next' = next + 1 /\ pc = "loop" /\ pc' = "root"
    BY <1>7 DEF EndRoot, Awaits
  <2>2. ASSUME NEW i, LeadsTo(i, p)', i < next'
        PROVE  scan.roots[i] \in visitedDirectories
    <3>1. LeadsTo(i, p)
      BY <1>1, <2>2 DEF LeadsTo
    <3>2. i \in Nat /\ next \in Nat
      BY <3>1, RootsArePaths DEF LeadsTo, RootedInv
    <3>3. i < next \/ i = next
      BY <2>1, <2>2, <3>2
    <3> QED BY <1>2, <2>1, <3>1, <3>3 DEF Begun
  <2>3. Begun(p)'
    BY <1>1, <2>1, <2>2 DEF Begun
  <2> QED BY <1>5, <2>3
<1> QED BY <1>6, <1>7

\* p is found when its real path is known.
LEMMA AddMisses ==
  ASSUME StackInv, FoundInv, RootedInv, MissedInv, AddManifest
  PROVE  \A p \in Paths : ~limited' /\ pc' # "failed" /\ Wanted(p) => Met(p)' /\ Begun(p)'
<1> USE DEF Awaits, Loops
<1> SUFFICES ASSUME NEW p \in Paths, ~limited', pc' # "failed", Wanted(p)
             PROVE  Met(p)' /\ Begun(p)'
  OBVIOUS
<1> DEFINE found == [absolutePath |-> path, realPath |-> Real(path), root |-> rootRealPath]
<1>1. /\ pc = "real" /\ HasPath /\ ~limited
      /\ UNCHANGED <<scan, next, visitedDirectories, stack>>
  BY DEF AddManifest, Skips, Reports, fileVars, HasPath
<1>2. Met(p) /\ Begun(p) /\ Expected(p)
  BY <1>1 DEF MissedInv, Wanted
<1>3. /\ p \in Seq(Nat) /\ Len(p) \in Nat /\ Real(p) = p
  <2>1. /\ p \in Seq(Nat) /\ Len(p) \in Nat /\ Upto(p, Len(p)) = p
        /\ \A k \in 0..Len(p) : Real(Upto(p, k)) = Upto(p, k)
    BY <1>2, WayThere DEF RootedInv
  <2>2. Len(p) \in 0..Len(p)
    BY <2>1
  <2> QED BY <2>1, <2>2
<1>4. PICK S : manifests \in Seq(S)
  BY DEF RootedInv, IsList
<1>5. ASSUME manifests' = Append(manifests, found)
      PROVE  /\ \A i \in DOMAIN manifests : i \in DOMAIN manifests' /\ manifests'[i] = manifests[i]
             /\ \E i \in DOMAIN manifests' : manifests'[i].realPath = Real(path)
  <2>1. found.realPath = Real(path)
    OBVIOUS
  <2> HIDE DEF found
  <2>2. /\ DOMAIN manifests = 1..Len(manifests) /\ DOMAIN manifests' = 1..Len(manifests) + 1
        /\ Len(manifests) \in Nat
        /\ manifests'[Len(manifests) + 1] = found
        /\ \A i \in 1..Len(manifests) : manifests'[i] = manifests[i]
    BY <1>4, <1>5, AppendedList
  <2>3. Len(manifests) + 1 \in DOMAIN manifests'
    BY <2>2
  <2> QED BY <2>1, <2>2, <2>3
<1>6. UNCHANGED manifests \/ manifests' = Append(manifests, found)
  BY DEF AddManifest, Skips, Reports
<1>7. FoundAt(p) => FoundAt(p)'
  BY <1>5, <1>6 DEF FoundAt
<1>8. path = p => FoundAt(p)'
  <2> SUFFICES ASSUME path = p PROVE FoundAt(p)'
    OBVIOUS
  <2>1. IsPathInside(rootRealPath, p)
    <3>1. IsPrefix(rootRealPath, p)
      BY <1>1 DEF RootedInv
    <3>2. rootRealPath # <<>>
      BY <1>1, <1>2, RootIsLow
    <3> QED BY <3>1, <3>2 DEF IsPathInside
  <2>2. Contained(Real(path))
    BY <1>3, <2>1 DEF Contained, Places
  <2>3. manifests' = Append(manifests, found)
    BY <2>2 DEF AddManifest
  <2> QED BY <1>3, <1>5, <2>3 DEF FoundAt
<1>9. ASSUME NEW k \in 1..Len(p), Near(k, p)
      PROVE  FoundAt(p)' \/ \E m \in k..Len(p) : Near(m, p)'
  <2>1. CASE OnStack(k, p)
    <3>1. Near(k, p)'
      BY <1>1, <2>1, SameOnStack DEF Near
    <3>2. k \in k..Len(p)
      BY <1>3
    <3> QED BY <3>1, <3>2
  <2>2. OnStack(k, p) \/ path = p
    BY <1>1, <1>9 DEF Near
  <2> QED BY <1>8, <2>1, <2>2
<1>10. Met(p)'
  BY <1>1, <1>2, <1>7, <1>9, MetGoes
<1>11. Begun(p)'
  BY <1>1, <1>2, BegunGoes
<1> QED BY <1>10, <1>11

LEMMA RootedInit == WalkInit => RootedInv
<1> SUFFICES ASSUME WalkInit PROVE RootedInv
  OBVIOUS
<1>1. /\ scan \in Scans /\ fs = scan.tree /\ next = 1 /\ pc = "root" /\ manifests = <<>>
  BY DEF WalkInit
<1>2. DOMAIN fs = Paths /\ FilesTyped
  BY <1>1, ScansAssumption DEF FilesTyped
<1>3. IsList(manifests)
  <2>1. manifests \in Seq({})
    BY <1>1, EmptySeq
  <2> QED BY <2>1 DEF IsList
<1> QED BY <1>1, <1>2, <1>3 DEF RootedInv, HasPath

LEMMA MissedInit == WalkInit => MissedInv
<1> SUFFICES ASSUME WalkInit, NEW p \in Paths PROVE Met(p) /\ Begun(p)
  BY DEF MissedInv
<1>1. visitedDirectories = {} /\ next = 1 /\ pc = "root" /\ scan \in Scans
  BY DEF WalkInit
<1>2. Met(p)
  BY <1>1 DEF Met
<1>3. ASSUME NEW i, LeadsTo(i, p), i < next \/ (i = next /\ pc \notin {"root", "done"})
      PROVE  FALSE
  <2>1. i \in 1..Len(scan.roots) /\ Len(scan.roots) \in Nat
    BY <1>1, <1>3, RootsArePaths DEF LeadsTo
  <2> QED BY <1>1, <1>3, <2>1
<1>4. Begun(p)
  BY <1>3 DEF Begun
<1> QED BY <1>2, <1>4

\* No step makes the file system or what is found anything else than it was.
LEMMA TypesStay ==
  ASSUME RootedInv, PathsInv', [WalkNext]_walkVars
  PROVE  /\ scan' \in Scans /\ DOMAIN fs' = Paths /\ FilesTyped' /\ IsList(manifests)'
         /\ next' \in Nat \ {0}
         /\ scan' = scan /\ walked \subseteq walked'
<1> USE DEF fileVars, frameVars
<1>1. IsList(manifests)'
  BY DEF PathsInv
<1>2. CASE Walk \/ UNCHANGED walkVars
  <2>1. UNCHANGED <<fs, scan>> /\ walked \subseteq walked' /\ next' \in {next, next + 1}
    BY <1>2 DEF Walk, walkVars, BeginRoot, EnterRoot, LeaveOutRoot, SortAndReturn, EnterDirectory,
            ListDirectory, NextEntry, EndRoot, LstatEntry, StatEntry, AddManifest
  <2>2. next' \in Nat \ {0}
    BY <2>1 DEF RootedInv
  <2> QED BY <1>1, <2>1, <2>2 DEF RootedInv, FilesTyped
<1>3. ASSUME NEW q \in Paths, NEW thing \in scan.things, Change(q, thing)
      PROVE  /\ scan' \in Scans /\ DOMAIN fs' = Paths /\ FilesTyped' /\ next' \in Nat \ {0}
             /\ scan' = scan /\ walked \subseteq walked'
  <2>1. fs' = [fs EXCEPT ![q] = thing] /\ UNCHANGED <<scan, next, walked>>
    BY <1>3 DEF Change
  <2>2. IsThing(thing)
    BY ScansAssumption DEF RootedInv
  <2>3. FilesTyped'
    BY <2>1, <2>2 DEF FilesTyped, RootedInv
  <2> QED BY <2>1, <2>3 DEF RootedInv
<1> QED BY <1>1, <1>2, <1>3 DEF WalkNext

\* Where the walk is, after a step.
Rooted ==
  /\ pc = "done" => next > Len(scan.roots)
  /\ HasPath \/ pc = "loop" =>
       /\ rootRealPath \in walked
       /\ \A i \in DOMAIN stack : IsPrefix(rootRealPath, stack[i].directory)
  /\ HasPath => IsPrefix(rootRealPath, path)

LEMMA PrefixOfSelf == \A p \in Places : IsPrefix(p, p)
<1> SUFFICES ASSUME NEW p \in Places PROVE IsPrefix(p, p)
  OBVIOUS
<1>1. p \in Seq(Nat)
  BY PlacesAreLists
<1> QED BY <1>1, LenProperties, SubSeqFull DEF IsPrefix

LEMMA PrefixOfChild ==
  ASSUME NEW r \in Seq(Nat), NEW d \in Seq(Nat), NEW n \in Nat, IsPrefix(r, d)
  PROVE  IsPrefix(r, Append(d, n))
<1>1. /\ Append(d, n) \in Seq(Nat) /\ Len(Append(d, n)) = Len(d) + 1
      /\ \A i \in 1..Len(d) : Append(d, n)[i] = d[i]
      /\ Len(d) \in Nat /\ Len(r) \in Nat
  BY AppendProperties, LenProperties
<1>2. Len(r) <= Len(d) /\ \A i \in 1..Len(r) : r[i] = d[i]
  BY PrefixPointwise
<1>3. Len(r) <= Len(Append(d, n)) /\ \A i \in 1..Len(r) : i \in 1..Len(d)
  BY <1>1, <1>2
<1> QED BY <1>1, <1>2, <1>3, PrefixPointwise

\* Steps on the stack as it was, or on less of it, with a path that was there.
LEMMA StaysRooted ==
  ASSUME RootedInv, HasPath \/ pc = "loop",
         rootRealPath' = rootRealPath, walked' = walked,
         DOMAIN stack' \subseteq DOMAIN stack,
         \A i \in DOMAIN stack' : stack'[i].directory = stack[i].directory,
         pc' # "done", HasPath' => IsPrefix(rootRealPath, path')
  PROVE  Rooted'
BY DEF Rooted, RootedInv

LEMMA RootedStep ==
  ASSUME StackInv, PathsInv, PathsInv', ExcludedInv, RootedInv, [WalkNext]_walkVars
  PROVE  RootedInv'
<1> USE DEF fileVars, frameVars, foundVars, Loops, Awaits
<1> SUFFICES Rooted'
  BY TypesStay DEF Rooted, RootedInv
<1>1. CASE BeginRoot
  <2>1. pc = "root" /\ stack = <<>> /\ stack' = stack
    BY <1>1 DEF BeginRoot, EnterRoot, LeaveOutRoot, PathsInv
  <2>2. CASE EnterRoot /\ RootPath \in Places
    <3>1. /\ rootRealPath' = path' /\ path' \in Places /\ rootRealPath' \in walked' /\ pc' = "enter"
      BY <2>2 DEF EnterRoot
    <3>2. IsPrefix(rootRealPath', path')
      BY <3>1, PrefixOfSelf
    <3>3. DOMAIN stack' = {}
      BY <2>1, EmptySeq
    <3> QED BY <3>1, <3>2, <3>3 DEF Rooted
  <2>3. CASE LeaveOutRoot
    BY <2>1, <2>3 DEF LeaveOutRoot, Rooted, HasPath
  <2> QED BY <1>1, <2>2, <2>3 DEF BeginRoot
<1>2. CASE SortAndReturn
  <2>1. next > Len(scan.roots) /\ pc' = "done" /\ UNCHANGED <<next, scan>>
    BY <1>2 DEF SortAndReturn
  <2> QED BY <2>1 DEF Rooted, HasPath
<1>3. CASE EnterDirectory
  <2>1. pc = "enter" /\ UNCHANGED <<rootRealPath, walked, stack>>
    BY <1>3 DEF EnterDirectory
  <2>2. pc' = "loop" \/ (pc' = "list" /\ path' \in Places /\ IsPathInside(rootRealPath, path'))
    BY <1>3 DEF EnterDirectory, Contained
  <2>3. HasPath' => IsPrefix(rootRealPath, path')
    BY <2>2, PrefixOfSelf DEF HasPath, IsPathInside
  <2> QED BY <2>1, <2>2, <2>3, StaysRooted DEF HasPath
<1>4. CASE ListDirectory
  <2>1. pc = "list" /\ HasPath /\ UNCHANGED <<rootRealPath, walked, next>> /\ pc' \in {"loop", "failed"}
    BY <1>4 DEF ListDirectory, Throws, HasPath
  <2>2. CASE stack' = stack
    BY <2>1, <2>2, StaysRooted DEF HasPath
  <2>3. CASE stack' = Append(stack, [directory |-> path, entries |-> Names(Real(path))])
    <3> DEFINE frame == [directory |-> path, entries |-> Names(Real(path))]
    <3>1. frame.directory = path
      OBVIOUS
    <3>2. stack' = Append(stack, frame)
      BY <2>3
    <3> HIDE DEF frame
    <3>3. /\ DOMAIN stack = 1..Len(stack) /\ DOMAIN stack' = 1..Len(stack) + 1
          /\ Len(stack) \in Nat
          /\ stack'[Len(stack) + 1] = frame
          /\ \A i \in 1..Len(stack) : stack'[i] = stack[i]
      BY <3>2, AppendedList DEF StackInv
    <3>4. \A i \in DOMAIN stack' : \/ stack'[i].directory = path
                                   \/ i \in DOMAIN stack /\ stack'[i] = stack[i]
      BY <3>1, <3>3
    <3>5. \A i \in DOMAIN stack' : IsPrefix(rootRealPath, stack'[i].directory)
      BY <2>1, <3>4 DEF RootedInv
    <3> QED BY <2>1, <3>5 DEF Rooted, RootedInv, HasPath
  <2> QED BY <1>4, <2>2, <2>3 DEF ListDirectory, Throws
<1>5. CASE NextEntry
  <2> DEFINE top == stack[Len(stack)]
  <2>1. /\ pc = "loop" /\ UNCHANGED <<rootRealPath, walked>>
        /\ stack \in Seq(Frames) /\ stack # <<>> /\ rootRealPath \in Seq(Nat)
    BY <1>5, PlacesAreLists DEF NextEntry, StackInv, ExcludedInv
  <2>2. \/ stack' = Front(stack) /\ UNCHANGED pc
        \/ \E name \in top.entries :
             /\ stack' = Shrunk(stack, name)
             /\ \/ UNCHANGED pc
                \/ pc' = "lstat" /\ path' = Append(top.directory, name)
    BY <1>5 DEF NextEntry, Shrunk, Last
  <2>3. CASE stack' = Front(stack) /\ UNCHANGED pc
    <3>1. /\ DOMAIN stack' \subseteq DOMAIN stack
          /\ \A i \in DOMAIN stack' : stack'[i].directory = stack[i].directory
      BY <2>1, <2>3, FrontList
    <3> QED BY <2>1, <2>3, <3>1, StaysRooted DEF HasPath
  <2>4. ASSUME NEW name \in top.entries, stack' = Shrunk(stack, name),
               UNCHANGED pc \/ (pc' = "lstat" /\ path' = Append(top.directory, name))
        PROVE  Rooted'
    <3>1. /\ Len(stack) \in DOMAIN stack /\ DOMAIN stack' = DOMAIN stack
          /\ \A i \in DOMAIN stack : stack'[i].directory = stack[i].directory
      BY <2>1, <2>4, FrameShrinks
    <3>2. top \in Frames
      BY <2>1, <3>1, LenProperties, ElementOfSeq
    <3>3. PICK d \in Seq(Nat) : d = top.directory
      BY <3>2, PlacesAreLists DEF Frames
    <3>4. name \in Nat
      BY <2>4, <3>2 DEF Frames
    <3>5. IsPrefix(rootRealPath, d)
      BY <2>1, <3>1, <3>3 DEF RootedInv
    <3>6. IsPrefix(rootRealPath, Append(d, name))
      BY <2>1, <3>4, <3>5, PrefixOfChild
    <3>7. HasPath' => IsPrefix(rootRealPath, path')
      BY <2>1, <2>4, <3>3, <3>6 DEF HasPath
    <3>8. pc' # "done"
      BY <2>1, <2>4
    <3> QED BY <2>1, <3>1, <3>7, <3>8, StaysRooted
  <2> QED BY <2>2, <2>3, <2>4
<1>6. CASE EndRoot
  BY <1>6 DEF EndRoot, Rooted, HasPath
<1>7. CASE LstatEntry
  <2>1. /\ pc = "lstat" /\ HasPath /\ UNCHANGED <<rootRealPath, walked, stack>>
        /\ \/ pc' \in {"stat", "real", "enter"} /\ path' = path
           \/ pc' = "loop" \/ pc' = "failed"
    BY <1>7 DEF LstatEntry, Examine, Throws, HasPath
  <2>2. HasPath' => IsPrefix(rootRealPath, path')
    BY <2>1 DEF HasPath, RootedInv
  <2> QED BY <2>1, <2>2, StaysRooted
<1>8. CASE StatEntry
  <2>1. /\ pc = "stat" /\ HasPath /\ UNCHANGED <<rootRealPath, walked, stack>>
        /\ \/ pc' \in {"real", "enter"} /\ path' = path
           \/ pc' = "loop" \/ pc' = "failed"
    BY <1>8 DEF StatEntry, Examine, Throws, HasPath
  <2>2. HasPath' => IsPrefix(rootRealPath, path')
    BY <2>1 DEF HasPath, RootedInv
  <2> QED BY <2>1, <2>2, StaysRooted
<1>9. CASE AddManifest
  <2>1. /\ pc = "real" /\ HasPath /\ pc' = "loop" /\ UNCHANGED <<rootRealPath, walked>>
        /\ stack' = stack \/ stack' = Front(stack)
    BY <1>9 DEF AddManifest, Skips, HasPath
  <2>2. /\ DOMAIN stack' \subseteq DOMAIN stack
        /\ \A i \in DOMAIN stack' : stack'[i].directory = stack[i].directory
    BY <2>1, FrontList DEF StackInv
  <2>3. ~HasPath'
    BY <2>1 DEF HasPath
  <2> QED BY <2>1, <2>2, <2>3, StaysRooted
<1>10. CASE UNCHANGED <<scan, next, rootRealPath, walked, stack, pc, path>>
  BY <1>10 DEF Rooted, RootedInv, HasPath
<1>11. ASSUME NEW q \in Paths, NEW thing \in scan.things, Change(q, thing)
       PROVE  UNCHANGED <<scan, next, rootRealPath, walked, stack, pc, path>>
  BY <1>11 DEF Change
<1>12. UNCHANGED walkVars => UNCHANGED <<scan, next, rootRealPath, walked, stack, pc, path>>
  BY DEF walkVars
<1> QED
  BY <1>1, <1>2, <1>3, <1>4, <1>5, <1>6, <1>7, <1>8, <1>9, <1>10, <1>11, <1>12 DEF WalkNext, Walk

\* What others do elsewhere changes nothing on the way.
LEMMA ChangeMisses ==
  ASSUME MissedInv, UNCHANGED <<scan, next, stack, visitedDirectories, manifests, limited, pc, path>>,
         NEW p \in Paths, ~limited', pc' # "failed", Wanted(p)
  PROVE  Met(p)' /\ Begun(p)'
<1>1. Met(p) /\ Begun(p)
  BY DEF MissedInv
<1>2. Met(p)'
  BY <1>1 DEF Met, FoundAt, Near, OnStack
<1>3. Begun(p)'
  BY <1>1 DEF Begun, LeadsTo
<1> QED BY <1>2, <1>3

LEMMA MissedStep ==
  ASSUME StackInv, PathsInv, FoundInv, ExcludedInv, RootedInv, MissedInv, [WalkNext]_walkVars
  PROVE  MissedInv'
<1> SUFFICES ASSUME NEW p \in Paths, ~limited', pc' # "failed", Wanted(p)' PROVE Met(p)' /\ Begun(p)'
  BY DEF MissedInv
<1>1. Wanted(p)
  BY WantedStep
<1>2. CASE UNCHANGED <<scan, next, stack, visitedDirectories, manifests, limited, pc, path>>
  BY <1>1, <1>2, ChangeMisses
<1>3. ASSUME NEW q \in Paths, NEW thing \in scan.things, Change(q, thing)
      PROVE  UNCHANGED <<scan, next, stack, visitedDirectories, manifests, limited, pc, path>>
  BY <1>3 DEF Change, frameVars, foundVars
<1>4. UNCHANGED walkVars =>
        UNCHANGED <<scan, next, stack, visitedDirectories, manifests, limited, pc, path>>
  BY DEF walkVars, fileVars, frameVars, foundVars
<1>5. CASE Walk
  <2>1. BeginRoot => Met(p)' /\ Begun(p)'
    BY <1>1, BeginMisses
  <2>2. SortAndReturn => Met(p)' /\ Begun(p)'
    BY <1>1, SortMisses
  <2>3. EnterDirectory => Met(p)' /\ Begun(p)'
    BY <1>1, EnterMisses
  <2>4. ListDirectory => Met(p)' /\ Begun(p)'
    BY <1>1, ListMisses
  <2>5. NextEntry => Met(p)' /\ Begun(p)'
    BY <1>1, NextMisses
  <2>6. LstatEntry => Met(p)' /\ Begun(p)'
    BY <1>1, LstatMisses
  <2>7. EndRoot \/ StatEntry => Met(p)' /\ Begun(p)'
    BY <1>1, OthersMiss
  <2>8. AddManifest => Met(p)' /\ Begun(p)'
    BY <1>1, AddMisses
  <2> QED BY <1>5, <2>1, <2>2, <2>3, <2>4, <2>5, <2>6, <2>7, <2>8 DEF Walk
<1> QED BY <1>2, <1>3, <1>4, <1>5 DEF WalkNext

LEMMA MissedInvariant == WalkSpec => [](PathsInv /\ RootedInv /\ MissedInv)
<1> DEFINE Inv == StackInv /\ PathsInv /\ FoundInv /\ ExcludedInv /\ RootedInv /\ MissedInv
<1>1. WalkInit => Inv
  BY StackInit, PathsInit, FoundInit, ExcludedInit, RootedInit, MissedInit
<1>2. Inv /\ [WalkNext]_walkVars => Inv'
  <2> SUFFICES ASSUME Inv, [WalkNext]_walkVars PROVE Inv'
    OBVIOUS
  <2>1. StackInv' /\ PathsInv' /\ FoundInv' /\ ExcludedInv'
    BY StackStep, PathsStep, FoundStep, ExcludedStep
  <2>2. RootedInv'
    BY <2>1, RootedStep
  <2>3. MissedInv'
    BY MissedStep
  <2> QED BY <2>1, <2>2, <2>3
<1> QED BY <1>1, <1>2, PTL DEF WalkSpec

\* Whatever happens elsewhere, a manifest that nobody touches is found by a
\* scan that ends, or the scan is reported to be cut short.
THEOREM NoneMissed == WalkSpec => []NothingMissed
<1>1. ASSUME PathsInv, RootedInv, MissedInv PROVE NothingMissed
  <2> SUFFICES ASSUME pc = "done", NEW p \in Paths, Wanted(p), ~limited PROVE FoundAt(p)
    BY DEF NothingMissed, Wanted, FoundAt
  <2>1. Met(p) /\ Begun(p) /\ Expected(p)
    BY <1>1 DEF MissedInv, Wanted
  <2>2. PICK i : LeadsTo(i, p)
    BY <2>1 DEF Expected, LeadsTo
  <2>3. i < next
    <3>1. i \in 1..Len(scan.roots) /\ Len(scan.roots) \in Nat /\ next \in Nat /\ next > Len(scan.roots)
      BY <1>1, <2>2, RootsArePaths DEF LeadsTo, RootedInv
    <3> QED BY <3>1
  <2>4. scan.roots[i] \in visitedDirectories
    BY <2>1, <2>2, <2>3 DEF Begun
  <2>5. PICK n \in 0..Len(p) - 1 : scan.roots[i] = Upto(p, n)
    BY <1>1, <2>1, <2>2, RootIsReal
  <2>6. \A k : ~Near(k, p)
    <3>1. DOMAIN stack = {}
      BY <1>1, EmptySeq DEF PathsInv
    <3> QED BY <3>1 DEF Near, OnStack
  <2> QED BY <2>1, <2>4, <2>5, <2>6 DEF Met
<1> QED BY <1>1, MissedInvariant, PTL

-----------------------------------------------------------------------------
(* Termination *)

NamesThere == {Last(p) : p \in Paths}

\* What is left to be done: directories that were not visited; the entries of
\* those on the stack, each as the number of its frame and its name; roots.
Unvisited == Places \ visitedDirectories
EntriesOf(s) == {e \in (DOMAIN s) \X NamesThere : e[2] \in s[e[1]].entries}
SizeOf(s) == Cardinality(EntriesOf(s)) + Len(s)
RootsLeft == Len(scan.roots) + 1 - next

\* The calls that are made for one entry, or for one root, before the walk
\* turns to the next.
Stage ==
  CASE pc = "root"              -> 4
    [] pc = "lstat"             -> 3
    [] pc = "stat"              -> 2
    [] pc \in {"enter", "real"} -> 1
    [] OTHER                    -> 0

\* What listing a directory may cost.
Listing == 5 * (Cardinality(NamesThere) + 1) + 1

StepsLeft ==
  Listing * Cardinality(Unvisited) + (IF pc = "list" THEN Listing ELSE 0)
    + 5 * SizeOf(stack) + 5 * RootsLeft + Stage

\* Names come from listings; the number of the root is in range.
EndInv ==
  /\ \A i \in DOMAIN stack : stack[i].entries \subseteq NamesThere
  /\ scan \in Scans
  /\ next \in 1..Len(scan.roots) + 1
  /\ pc \notin {"root", "done"} => next <= Len(scan.roots)

LEMMA NamesFinite ==
  ASSUME IsFiniteSet(Paths)
  PROVE  /\ IsFiniteSet(NamesThere) /\ Cardinality(NamesThere) \in Nat
         /\ Listing \in Nat /\ Listing = 5 * Cardinality(NamesThere) + 6
<1> DEFINE f == [p \in Paths |-> Last(p)]
<1>1. f \in Surjection(Paths, NamesThere)
  BY DEF Surjection, NamesThere
<1>2. IsFiniteSet(NamesThere)
  BY <1>1, FS_Surjection
<1>3. Cardinality(NamesThere) \in Nat
  BY <1>2, FS_CardinalityType
<1> QED BY <1>2, <1>3 DEF Listing

LEMMA SameEnd ==
  ASSUME NEW m \in Nat, NEW n \in Nat, 1..m = 1..n
  PROVE  m = n
<1>1. (m = 0 <=> 1 \notin 1..m) /\ (n = 0 <=> 1 \notin 1..n)
  OBVIOUS
<1>2. CASE m = 0 \/ n = 0
  BY <1>1, <1>2
<1>3. CASE m # 0 /\ n # 0
  <2>1. m \in 1..m /\ n \in 1..n
    BY <1>3
  <2>2. m \in 1..n /\ n \in 1..m
    BY <2>1
  <2> QED BY <2>2
<1> QED BY <1>2, <1>3

LEMMA NamesAreThere == \A d : Names(d) \subseteq NamesThere
BY DEF Names, NamesThere

LEMMA RootsNumbered ==
  ASSUME scan \in Scans
  PROVE  Len(scan.roots) \in Nat
<1>1. scan.roots \in Seq(Paths)
  BY ScansAssumption
<1> QED BY <1>1, LenProperties

LEMMA EntryIs ==
  ASSUME NEW s, NEW i, NEW n
  PROVE  <<i, n>> \in EntriesOf(s) <=> i \in DOMAIN s /\ n \in NamesThere /\ n \in s[i].entries
BY DEF EntriesOf

LEMMA EntryForm ==
  ASSUME NEW s, NEW e \in EntriesOf(s)
  PROVE  \E i \in DOMAIN s, n \in NamesThere : e = <<i, n>>
BY DEF EntriesOf

\* Whatever is left can be counted.
LEMMA EntriesFinite ==
  ASSUME IsFiniteSet(Paths), NEW S, NEW s \in Seq(S)
  PROVE  /\ IsFiniteSet(EntriesOf(s)) /\ Cardinality(EntriesOf(s)) \in Nat
         /\ Len(s) \in Nat /\ DOMAIN s = 1..Len(s) /\ SizeOf(s) \in Nat
<1>1. Len(s) \in Nat /\ DOMAIN s = 1..Len(s)
  BY LenProperties
<1>2. IsFiniteSet(DOMAIN s)
  BY <1>1, FS_Interval
<1>3. IsFiniteSet(NamesThere)
  BY NamesFinite
<1>4. IsFiniteSet((DOMAIN s) \X NamesThere)
  BY <1>2, <1>3, FS_Product
<1>5. EntriesOf(s) \in SUBSET ((DOMAIN s) \X NamesThere)
  BY DEF EntriesOf
<1>6. IsFiniteSet(EntriesOf(s)) /\ Cardinality(EntriesOf(s)) \in Nat
  BY <1>4, <1>5, FS_Subset, FS_CardinalityType
<1> QED BY <1>1, <1>6 DEF SizeOf

LEMMA UnvisitedFinite ==
  ASSUME IsFiniteSet(Paths), NEW V
  PROVE  IsFiniteSet(Places \ V) /\ Cardinality(Places \ V) \in Nat
<1>1. IsFiniteSet(Places)
  BY FS_AddElement DEF Places
<1> QED BY <1>1, FS_Subset, FS_CardinalityType

LEMMA StepsCount ==
  ASSUME IsFiniteSet(Paths), StackInv, EndInv
  PROVE  /\ StepsLeft \in Nat /\ SizeOf(stack) \in Nat /\ RootsLeft \in Nat
         /\ Listing \in Nat /\ Cardinality(Unvisited) \in Nat
         /\ Listing * Cardinality(Unvisited) \in Nat
<1>1. SizeOf(stack) \in Nat /\ Listing \in Nat /\ Cardinality(Unvisited) \in Nat
  BY EntriesFinite, NamesFinite, UnvisitedFinite DEF Unvisited, StackInv
<1>2. RootsLeft \in Nat
  <2>1. Len(scan.roots) \in Nat
    BY RootsNumbered DEF EndInv
  <2> QED BY <2>1 DEF EndInv, RootsLeft
<1>3. Stage \in Nat
  BY DEF Stage
<1>4. Listing * Cardinality(Unvisited) \in Nat
  <2>1. \A a, b \in Nat : a * b \in Nat
    OBVIOUS
  <2> QED BY <1>1, <2>1
<1> HIDE DEF Listing, Unvisited, RootsLeft, Stage
<1>5. (IF pc = "list" THEN Listing ELSE 0) \in Nat
  BY <1>1
<1> QED BY <1>1, <1>2, <1>3, <1>4, <1>5 DEF StepsLeft

\* A stack with fewer frames, or with fewer entries in them, is smaller.
LEMMA FewerEntries ==
  ASSUME IsFiniteSet(Paths), NEW S, NEW s \in Seq(S), NEW t \in Seq(S),
         DOMAIN t \subseteq DOMAIN s,
         \A i \in DOMAIN t : t[i].entries \subseteq s[i].entries
  PROVE  /\ EntriesOf(t) \subseteq EntriesOf(s)
         /\ Cardinality(EntriesOf(t)) <= Cardinality(EntriesOf(s))
         /\ EntriesOf(t) # EntriesOf(s) => Cardinality(EntriesOf(t)) < Cardinality(EntriesOf(s))
<1>1. EntriesOf(t) \subseteq EntriesOf(s)
  <2> SUFFICES ASSUME NEW e \in EntriesOf(t) PROVE e \in EntriesOf(s)
    OBVIOUS
  <2>1. PICK i \in DOMAIN t, n \in NamesThere : e = <<i, n>>
    BY EntryForm
  <2>2. n \in t[i].entries
    BY <2>1, EntryIs
  <2>3. i \in DOMAIN s /\ n \in s[i].entries
    BY <2>2
  <2> QED BY <2>1, <2>3, EntryIs
<1>2. /\ IsFiniteSet(EntriesOf(s))
      /\ Cardinality(EntriesOf(s)) \in Nat /\ Cardinality(EntriesOf(t)) \in Nat
  BY EntriesFinite
<1>3. /\ Cardinality(EntriesOf(t)) <= Cardinality(EntriesOf(s))
      /\ Cardinality(EntriesOf(s)) = Cardinality(EntriesOf(t)) => EntriesOf(s) = EntriesOf(t)
  <2>1. EntriesOf(t) \in SUBSET EntriesOf(s)
    BY <1>1
  <2> QED BY <1>2, <2>1, FS_Subset
<1> QED BY <1>1, <1>2, <1>3

\* A return takes the frame on top away.
LEMMA SmallerOnReturn ==
  ASSUME IsFiniteSet(Paths), NEW S, NEW s \in Seq(S), NEW t \in Seq(S), t = Front(s)
  PROVE  SizeOf(t) <= SizeOf(s) /\ (s # <<>> => SizeOf(t) < SizeOf(s))
<1>1. /\ DOMAIN t \subseteq DOMAIN s
      /\ \A i \in DOMAIN t : t[i] = s[i]
  BY FrontList
<1>2. Cardinality(EntriesOf(t)) <= Cardinality(EntriesOf(s))
  BY <1>1, FewerEntries
<1>3. /\ Cardinality(EntriesOf(s)) \in Nat /\ Len(s) \in Nat
      /\ Cardinality(EntriesOf(t)) \in Nat /\ Len(t) \in Nat /\ DOMAIN s = 1..Len(s)
  BY EntriesFinite
<1>4. Len(t) <= Len(s) /\ (s # <<>> => Len(t) < Len(s))
  <2> DEFINE n == Len(s) - 1
  <2>1. \A i \in 1..n : s[i] \in S
    BY <1>3, ElementOfSeq
  <2>2. Len(SubSeq(s, 1, n)) = IF 1 <= n THEN n - 1 + 1 ELSE 0
    BY <1>3, <2>1, SubSeqProperties
  <2>3. s # <<>> => Len(s) # 0
    BY EmptySeq
  <2>4. t = SubSeq(s, 1, n)
    BY DEF Front
  <2>5. Len(t) = IF 1 <= n THEN n - 1 + 1 ELSE 0
    BY <2>2, <2>4
  <2> DEFINE l == Len(s)
             m == Len(t)
             filled == s # <<>>
  <2>6. l \in Nat /\ (filled => l # 0) /\ m = IF 1 <= l - 1 THEN l - 1 - 1 + 1 ELSE 0
    BY <1>3, <2>3, <2>5
  <2> HIDE DEF l, m, filled
  <2>7. m <= l /\ (filled => m < l)
    BY <2>6
  <2> QED BY <2>7 DEF l, m, filled
<1> QED BY <1>2, <1>3, <1>4 DEF SizeOf

\* An entry that is taken leaves the frame on top.
LEMMA SmallerOnTake ==
  ASSUME IsFiniteSet(Paths), NEW s \in Seq(Frames), s # <<>>,
         NEW name \in NamesThere, name \in s[Len(s)].entries,
         NEW t, t = Shrunk(s, name)
  PROVE  SizeOf(t) < SizeOf(s)
<1>1. /\ Len(s) \in DOMAIN s
      /\ t \in Seq(Frames) /\ DOMAIN t = DOMAIN s
      /\ t[Len(s)].entries = s[Len(s)].entries \ {name}
      /\ \A i \in DOMAIN s : i # Len(s) => t[i] = s[i]
  BY FrameShrinks
<1>2. \A i \in DOMAIN t : t[i].entries \subseteq s[i].entries
  BY <1>1
<1>3. <<Len(s), name>> \in EntriesOf(s) /\ <<Len(s), name>> \notin EntriesOf(t)
  BY <1>1, EntryIs
<1>4. Cardinality(EntriesOf(t)) < Cardinality(EntriesOf(s))
  BY <1>1, <1>2, <1>3, FewerEntries
<1>5. Len(t) = Len(s)
  <2>1. Len(s) \in Nat /\ Len(t) \in Nat /\ 1..Len(t) = 1..Len(s)
    BY <1>1, LenProperties
  <2> QED BY <2>1, SameEnd
<1>6. /\ Cardinality(EntriesOf(s)) \in Nat /\ Len(s) \in Nat
      /\ Cardinality(EntriesOf(t)) \in Nat
  BY <1>1, EntriesFinite
<1> QED BY <1>4, <1>5, <1>6 DEF SizeOf

\* A listing brings no more than a frame and an entry for each name.
LEMMA LargerOnListing ==
  ASSUME IsFiniteSet(Paths), NEW s \in Seq(Frames),
         NEW frame \in Frames, frame.entries \subseteq NamesThere,
         NEW t, t = Append(s, frame)
  PROVE  SizeOf(t) <= SizeOf(s) + Cardinality(NamesThere) + 1
<1> DEFINE top == {Len(s) + 1} \X NamesThere
<1>1. /\ t \in Seq(Frames) /\ DOMAIN s = 1..Len(s) /\ DOMAIN t = 1..Len(s) + 1
      /\ Len(s) \in Nat /\ Len(t) = Len(s) + 1
      /\ \A i \in 1..Len(s) : t[i] = s[i]
  BY AppendedList, AppendProperties
<1>2. /\ IsFiniteSet(NamesThere) /\ Cardinality(NamesThere) \in Nat
      /\ IsFiniteSet(EntriesOf(s)) /\ Cardinality(EntriesOf(s)) \in Nat
      /\ Cardinality(EntriesOf(t)) \in Nat
  BY <1>1, NamesFinite, EntriesFinite
<1>3. IsFiniteSet(top) /\ Cardinality(top) = Cardinality(NamesThere)
  <2>1. IsFiniteSet({Len(s) + 1}) /\ Cardinality({Len(s) + 1}) = 1
    BY FS_Singleton
  <2>2. IsFiniteSet(top) /\ Cardinality(top) = Cardinality({Len(s) + 1}) * Cardinality(NamesThere)
    BY <1>2, <2>1, FS_Product
  <2>3. Cardinality(top) = 1 * Cardinality(NamesThere)
    BY <2>1, <2>2
  <2> QED BY <1>2, <2>2, <2>3
<1>4. EntriesOf(t) \subseteq EntriesOf(s) \cup top
  <2> SUFFICES ASSUME NEW e \in EntriesOf(t), e \notin top PROVE e \in EntriesOf(s)
    OBVIOUS
  <2>1. PICK i \in DOMAIN t, n \in NamesThere : e = <<i, n>>
    BY EntryForm
  <2>2. n \in t[i].entries
    BY <2>1, EntryIs
  <2>3. i # Len(s) + 1
    BY <2>1
  <2>4. i \in DOMAIN s /\ t[i] = s[i]
    BY <1>1, <2>3
  <2> QED BY <2>1, <2>2, <2>4, EntryIs
<1> HIDE DEF top
<1>5. /\ IsFiniteSet(EntriesOf(s) \cup top)
      /\ Cardinality(EntriesOf(s) \cup top)
           = Cardinality(EntriesOf(s)) + Cardinality(top) - Cardinality(EntriesOf(s) \cap top)
  BY <1>2, <1>3, FS_Union
<1>6. Cardinality(EntriesOf(s) \cap top) \in Nat /\ Cardinality(EntriesOf(s) \cup top) \in Nat
  <2>1. IsFiniteSet(EntriesOf(s) \cap top)
    <3>1. EntriesOf(s) \cap top \in SUBSET top
      OBVIOUS
    <3> QED BY <1>3, <3>1, FS_Subset
  <2> QED BY <1>5, <2>1, FS_CardinalityType
<1>7. Cardinality(EntriesOf(t)) <= Cardinality(EntriesOf(s) \cup top)
  <2>1. EntriesOf(t) \in SUBSET (EntriesOf(s) \cup top)
    BY <1>4
  <2> QED BY <1>5, <2>1, FS_Subset
<1> QED BY <1>1, <1>2, <1>3, <1>5, <1>6, <1>7 DEF SizeOf
-----------------------------------------------------------------------------
(* The steps *)

LEMMA EndInit == WalkInit => EndInv
<1> SUFFICES ASSUME WalkInit PROVE EndInv
  OBVIOUS
<1>1. scan \in Scans /\ stack = <<>> /\ next = 1 /\ pc = "root"
  BY DEF WalkInit
<1>2. Len(scan.roots) \in Nat
  BY <1>1, RootsNumbered
<1>3. DOMAIN stack = {}
  BY <1>1, EmptySeq
<1> QED BY <1>1, <1>2, <1>3 DEF EndInv

\* No step but a listing brings entries, and the roots are taken in turn.
LEMMA EndStep == StackInv /\ EndInv /\ [WalkNext]_walkVars => EndInv'
<1> SUFFICES ASSUME StackInv, EndInv, [WalkNext]_walkVars PROVE EndInv'
  OBVIOUS
<1> DEFINE There(s) == \A i \in DOMAIN s : s[i].entries \subseteq NamesThere
<1>1. stack \in Seq(Frames) /\ There(stack) /\ Len(scan.roots) \in Nat
  BY RootsNumbered DEF StackInv, EndInv
<1>2. ASSUME stack' = Front(stack) PROVE There(stack')
  BY <1>1, <1>2, FrontList
<1>3. ASSUME NEW name, stack # <<>>, stack' = Shrunk(stack, name) PROVE There(stack')
  <2>1. /\ DOMAIN stack' = DOMAIN stack
        /\ stack'[Len(stack)].entries = stack[Len(stack)].entries \ {name}
        /\ \A i \in DOMAIN stack : i # Len(stack) => stack'[i] = stack[i]
    BY <1>1, <1>3, FrameShrinks
  <2> QED BY <1>1, <2>1
<1>4. ASSUME NEW frame \in Frames, frame.entries \subseteq NamesThere,
             stack' = Append(stack, frame)
      PROVE  There(stack')
  <2>1. /\ DOMAIN stack = 1..Len(stack) /\ DOMAIN stack' = 1..Len(stack) + 1
        /\ Len(stack) \in Nat /\ stack'[Len(stack) + 1] = frame
        /\ \A i \in 1..Len(stack) : stack'[i] = stack[i]
    BY <1>1, <1>4, AppendedList
  <2>2. \A i \in DOMAIN stack' : i = Len(stack) + 1 \/ i \in DOMAIN stack
    BY <2>1
  <2> QED BY <1>1, <1>4, <2>1, <2>2
<1> USE DEF fileVars, foundVars, frameVars, Loops, Awaits
<1>5. There(stack')
  <2> SUFFICES ASSUME stack' # stack PROVE There(stack')
    BY <1>1
  <2>1. ListDirectory \/ NextEntry \/ AddManifest
    BY DEF WalkNext, Walk, walkVars, BeginRoot, EnterRoot, LeaveOutRoot, SortAndReturn,
           EnterDirectory, EndRoot, LstatEntry, StatEntry, Throws, Change
  <2>2. CASE ListDirectory
    <3> DEFINE frame == [directory |-> path, entries |-> Names(Real(path))]
    <3>1. stack' = Append(stack, frame) /\ pc = "list"
      BY <2>2 DEF ListDirectory, Throws
    <3>2. frame \in Frames /\ frame.entries \subseteq NamesThere
      BY <3>1, NamesAreNatural, NamesAreThere DEF Frames, StackInv
    <3> QED BY <1>4, <3>1, <3>2
  <2>3. CASE NextEntry
    <3>1. stack # <<>> /\ (stack' = Front(stack) \/ \E name : stack' = Shrunk(stack, name))
      BY <2>3 DEF NextEntry, Shrunk
    <3> QED BY <1>2, <1>3, <3>1
  <2>4. CASE AddManifest
    BY <1>2, <2>4 DEF AddManifest, Skips
  <2> QED BY <2>1, <2>2, <2>3, <2>4
<1>6. /\ scan' = scan /\ next' \in 1..Len(scan.roots) + 1
      /\ pc' \notin {"root", "done"} => next' <= Len(scan.roots)
  <2> HIDE DEF There
  <2>1. CASE BeginRoot
    BY <1>1, <2>1 DEF EndInv, BeginRoot, EnterRoot, LeaveOutRoot, Reports
  <2>2. CASE EndRoot
    BY <1>1, <2>2 DEF EndInv, EndRoot
  <2>3. CASE SortAndReturn
    BY <2>3 DEF EndInv, SortAndReturn
  <2>4. CASE EnterDirectory \/ ListDirectory \/ NextEntry \/ LstatEntry \/ StatEntry \/ AddManifest
    <3>1. UNCHANGED <<scan, next>> /\ pc \notin {"root", "done"}
      BY <2>4 DEF EnterDirectory, ListDirectory, NextEntry, LstatEntry, StatEntry, AddManifest
    <3> QED BY <3>1 DEF EndInv
  <2>5. ASSUME UNCHANGED <<scan, next, pc>>
        PROVE  /\ scan' = scan /\ next' \in 1..Len(scan.roots) + 1
               /\ pc' \notin {"root", "done"} => next' <= Len(scan.roots)
    BY <2>5 DEF EndInv
  <2>6. \A q \in Paths, thing \in scan.things : Change(q, thing) => UNCHANGED <<scan, next, pc>>
    BY DEF Change
  <2>7. UNCHANGED walkVars => UNCHANGED <<scan, next, pc>>
    BY DEF walkVars
  <2> QED BY <2>1, <2>2, <2>3, <2>4, <2>5, <2>6, <2>7 DEF WalkNext, Walk
<1> QED BY <1>5, <1>6 DEF EndInv

\* Directories that are visited stay so, and one that is entered is new.
LEMMA Paid ==
  ASSUME IsFiniteSet(Paths), NEW V, NEW d \in Places, d \notin V
  PROVE  Listing * Cardinality(Places \ (V \cup {d})) = Listing * Cardinality(Places \ V) - Listing
<1>1. IsFiniteSet(Places \ V) /\ Cardinality(Places \ V) \in Nat /\ d \in Places \ V
  BY UnvisitedFinite
<1>2. Places \ (V \cup {d}) = (Places \ V) \ {d}
  OBVIOUS
<1>3. Cardinality(Places \ (V \cup {d})) = Cardinality(Places \ V) - 1
  BY <1>1, <1>2, FS_RemoveElement
<1>4. \A a, b \in Nat : a * (b - 1) = a * b - a
  OBVIOUS
<1>5. Listing \in Nat
  BY NamesFinite
<1> HIDE DEF Listing
<1>6. Listing * (Cardinality(Places \ V) - 1) = Listing * Cardinality(Places \ V) - Listing
  BY <1>1, <1>4, <1>5
<1> QED BY <1>3, <1>6

LEMMA StepsShrink ==
  ASSUME IsFiniteSet(Paths), StackInv, StackInv', EndInv, EndInv', Walk
  PROVE  StepsLeft' < StepsLeft
<1> DEFINE u == Listing * Cardinality(Unvisited)
           t == IF pc = "list" THEN Listing ELSE 0
           c == SizeOf(stack)
           r == RootsLeft
           g == Stage
<1>1. /\ u \in Nat /\ t \in Nat /\ c \in Nat /\ r \in Nat /\ g \in Nat
      /\ Listing \in Nat /\ Listing = 5 * Cardinality(NamesThere) + 6
      /\ Cardinality(NamesThere) \in Nat
  BY StepsCount, NamesFinite DEF Stage
<1>2. /\ u' \in Nat /\ t' \in Nat /\ c' \in Nat /\ r' \in Nat /\ g' \in Nat
  <2>1. Cardinality(Places \ visitedDirectories') \in Nat /\ SizeOf(stack') \in Nat
    BY UnvisitedFinite, EntriesFinite DEF StackInv
  <2>2. RootsLeft' \in Nat
    <3>1. Len(scan'.roots) \in Nat
      BY ScansAssumption, LenProperties DEF EndInv
    <3> QED BY <3>1 DEF EndInv, RootsLeft
  <2>3. Listing * Cardinality(Places \ visitedDirectories') \in Nat
    <3>1. \A a, b \in Nat : a * b \in Nat
      OBVIOUS
    <3> QED BY <1>1, <2>1, <3>1
  <2>4. (IF pc' = "list" THEN Listing ELSE 0) \in Nat
    BY <1>1
  <2> QED BY <2>1, <2>2, <2>3, <2>4 DEF Stage, Unvisited
<1>3. StepsLeft = u + t + 5 * c + 5 * r + g /\ StepsLeft' = u' + t' + 5 * c' + 5 * r' + g'
  BY DEF StepsLeft
<1>4. PICK u0 \in Nat, t0 \in Nat, c0 \in Nat, r0 \in Nat, g0 \in Nat,
           u1 \in Nat, t1 \in Nat, c1 \in Nat, r1 \in Nat, g1 \in Nat, l \in Nat, n \in Nat :
             /\ u = u0 /\ t = t0 /\ c = c0 /\ r = r0 /\ g = g0
             /\ u' = u1 /\ t' = t1 /\ c' = c1 /\ r' = r1 /\ g' = g1
             /\ Listing = l /\ Cardinality(NamesThere) = n
  <2> HIDE DEF u, t, c, r, g, Listing
  <2> QED BY <1>1, <1>2
<1>5. UNCHANGED visitedDirectories => u1 = u0
  BY <1>4 DEF Unvisited
<1>6. UNCHANGED stack => c1 = c0
  BY <1>4
<1>7. UNCHANGED <<scan, next>> => r1 = r0
  BY <1>4 DEF RootsLeft
<1>8. UNCHANGED scan /\ next' = next + 1 => r1 = r0 - 1
  <2> DEFINE m == Len(scan.roots)
  <2> SUFFICES ASSUME UNCHANGED scan, next' = next + 1 PROVE r1 = r0 - 1
    OBVIOUS
  <2>1. m \in Nat /\ next \in Nat
    BY RootsNumbered DEF EndInv
  <2>2. r0 = m + 1 - next /\ r1 = m + 1 - next'
    BY <1>4 DEF RootsLeft
  <2> HIDE DEF m
  <2> QED BY <2>1, <2>2
<1>9. /\ pc = "root" => g0 = 4 /\ t0 = 0
      /\ pc = "lstat" => g0 = 3 /\ t0 = 0
      /\ pc = "stat" => g0 = 2 /\ t0 = 0
      /\ pc \in {"enter", "real"} => g0 = 1 /\ t0 = 0
      /\ pc = "loop" => g0 = 0 /\ t0 = 0
      /\ pc = "list" => g0 = 0 /\ t0 = l
  BY <1>4 DEF Stage
<1>10. /\ pc' = "root" => g1 = 4 /\ t1 = 0
       /\ pc' = "lstat" => g1 = 3 /\ t1 = 0
       /\ pc' = "stat" => g1 = 2 /\ t1 = 0
       /\ pc' \in {"enter", "real"} => g1 = 1 /\ t1 = 0
       /\ pc' \in {"loop", "done", "failed"} => g1 = 0 /\ t1 = 0
       /\ pc' = "list" => g1 = 0 /\ t1 = l
  BY <1>4 DEF Stage
<1>11. stack \in Seq(Frames) /\ stack' \in Seq(Frames) /\ l = 5 * n + 6
  BY <1>1, <1>4 DEF StackInv
<1> SUFFICES u1 + t1 + 5 * c1 + 5 * r1 + g1 < u0 + t0 + 5 * c0 + 5 * r0 + g0
  BY <1>3, <1>4
<1> HIDE DEF u, t, c, r, g, Listing
<1> USE DEF fileVars, foundVars, frameVars, Loops, Awaits
<1>12. CASE BeginRoot
  <2>1. pc = "root" /\ UNCHANGED <<scan, stack, visitedDirectories>>
    BY <1>12 DEF BeginRoot, EnterRoot, LeaveOutRoot, Reports
  <2>2. \/ pc' = "enter" /\ UNCHANGED next
        \/ pc' = "root" /\ next' = next + 1
    BY <1>12 DEF BeginRoot, EnterRoot, LeaveOutRoot, Reports
  <2>3. u1 = u0 /\ t0 = 0 /\ t1 = 0 /\ c1 = c0 /\ g0 = 4
    BY <1>5, <1>6, <1>9, <1>10, <2>1, <2>2
  <2>4. (r1 = r0 /\ g1 = 1) \/ (r1 = r0 - 1 /\ g1 = 4)
    BY <1>7, <1>8, <1>10, <2>1, <2>2
  <2> QED BY <2>3, <2>4
<1>13. CASE SortAndReturn
  <2>1. pc = "root" /\ pc' = "done" /\ UNCHANGED <<scan, next, stack, visitedDirectories>>
    BY <1>13 DEF SortAndReturn
  <2>2. u1 = u0 /\ t0 = 0 /\ t1 = 0 /\ c1 = c0 /\ r1 = r0 /\ g0 = 4 /\ g1 = 0
    BY <1>5, <1>6, <1>7, <1>9, <1>10, <2>1
  <2> QED BY <2>2
<1>14. CASE EnterDirectory
  <2>1. pc = "enter" /\ UNCHANGED <<scan, next, stack>>
    BY <1>14 DEF EnterDirectory
  <2>2. \/ pc' = "loop" /\ UNCHANGED visitedDirectories
        \/ /\ pc' = "list"
           /\ \E d \in Places : d \notin visitedDirectories
                                /\ visitedDirectories' = visitedDirectories \cup {d}
    BY <1>14 DEF EnterDirectory, StaysOut, Reports, Visits, Contained
  <2>3. CASE pc' = "loop" /\ UNCHANGED visitedDirectories
    <3>1. u1 = u0 /\ t0 = 0 /\ t1 = 0 /\ c1 = c0 /\ r1 = r0 /\ g0 = 1 /\ g1 = 0
      BY <1>5, <1>6, <1>7, <1>9, <1>10, <2>1, <2>3
    <3> QED BY <3>1
  <2>4. ASSUME pc' = "list", NEW d \in Places, d \notin visitedDirectories,
               visitedDirectories' = visitedDirectories \cup {d}
        PROVE  u1 + t1 + 5 * c1 + 5 * r1 + g1 < u0 + t0 + 5 * c0 + 5 * r0 + g0
    <3>1. u1 = u0 - l
      <4>1. u' = u - Listing
        BY <2>4, Paid DEF u, Unvisited
      <4> QED BY <1>4, <4>1
    <3>2. t0 = 0 /\ t1 = l /\ c1 = c0 /\ r1 = r0 /\ g0 = 1 /\ g1 = 0
      BY <1>6, <1>7, <1>9, <1>10, <2>1, <2>4
    <3> QED BY <3>1, <3>2
  <2> QED BY <2>2, <2>3, <2>4
<1>15. CASE ListDirectory
  <2>1. pc = "list" /\ pc' \in {"loop", "failed"} /\ UNCHANGED <<scan, next, visitedDirectories>>
    BY <1>15 DEF ListDirectory, Throws
  <2>2. c1 <= c0 + n + 1
    <3> DEFINE frame == [directory |-> path, entries |-> Names(Real(path))]
    <3>1. stack' = stack \/ stack' = Append(stack, frame)
      BY <1>15 DEF ListDirectory, Throws
    <3>2. frame \in Frames /\ frame.entries \subseteq NamesThere
      BY <2>1, NamesAreNatural, NamesAreThere DEF Frames, StackInv
    <3> HIDE DEF frame
    <3>3. stack' = Append(stack, frame) => SizeOf(stack') <= SizeOf(stack) + Cardinality(NamesThere) + 1
      BY <1>11, <3>2, LargerOnListing
    <3>4. stack' = Append(stack, frame) => c1 <= c0 + n + 1
      BY <1>4, <3>3 DEF c
    <3> QED BY <1>6, <3>1, <3>4
  <2>3. u1 = u0 /\ t0 = l /\ t1 = 0 /\ r1 = r0 /\ g0 = 0 /\ g1 = 0 /\ l = 5 * n + 6
    BY <1>5, <1>7, <1>9, <1>10, <1>11, <2>1
  <2> QED BY <2>2, <2>3
<1>16. CASE NextEntry
  <2>1. /\ pc = "loop" /\ stack # <<>> /\ pc' \in {"loop", "lstat"}
        /\ UNCHANGED <<scan, next, visitedDirectories>>
    BY <1>16 DEF NextEntry
  <2>2. c1 < c0
    <3>1. \/ stack' = Front(stack)
          \/ \E name \in Last(stack).entries : stack' = Shrunk(stack, name)
      BY <1>16 DEF NextEntry, Shrunk
    <3>2. CASE stack' = Front(stack)
      BY <1>4, <1>11, <2>1, <3>2, SmallerOnReturn DEF c
    <3>3. ASSUME NEW name \in Last(stack).entries, stack' = Shrunk(stack, name) PROVE c1 < c0
      <4>1. Last(stack) = stack[Len(stack)] /\ Len(stack) \in DOMAIN stack
        BY <1>11, <2>1, EmptySeq, LenProperties DEF Last
      <4>2. name \in NamesThere
        BY <3>3, <4>1 DEF EndInv
      <4> QED BY <1>4, <1>11, <2>1, <3>3, <4>1, <4>2, SmallerOnTake DEF c
    <3> QED BY <3>1, <3>2, <3>3
  <2>3. u1 = u0 /\ t0 = 0 /\ t1 = 0 /\ r1 = r0 /\ g0 = 0 /\ g1 \in {0, 3}
    BY <1>5, <1>7, <1>9, <1>10, <2>1
  <2> QED BY <2>2, <2>3
<1>17. CASE EndRoot
  <2>1. pc = "loop" /\ pc' = "root" /\ next' = next + 1 /\ UNCHANGED <<scan, stack, visitedDirectories>>
    BY <1>17 DEF EndRoot
  <2>2. u1 = u0 /\ t0 = 0 /\ t1 = 0 /\ c1 = c0 /\ r1 = r0 - 1 /\ g0 = 0 /\ g1 = 4
    BY <1>5, <1>6, <1>8, <1>9, <1>10, <2>1
  <2> QED BY <2>2
<1>18. CASE LstatEntry
  <2>1. /\ pc = "lstat" /\ pc' \in {"failed", "stat", "loop", "enter", "real"}
        /\ UNCHANGED <<scan, next, stack, visitedDirectories>>
    BY <1>18 DEF LstatEntry, Throws, Examine
  <2>2. u1 = u0 /\ t0 = 0 /\ t1 = 0 /\ c1 = c0 /\ r1 = r0 /\ g0 = 3 /\ g1 \in {0, 1, 2}
    BY <1>5, <1>6, <1>7, <1>9, <1>10, <2>1
  <2> QED BY <2>2
<1>19. CASE StatEntry
  <2>1. /\ pc = "stat" /\ pc' \in {"failed", "loop", "enter", "real"}
        /\ UNCHANGED <<scan, next, stack, visitedDirectories>>
    BY <1>19 DEF StatEntry, Throws, Examine
  <2>2. u1 = u0 /\ t0 = 0 /\ t1 = 0 /\ c1 = c0 /\ r1 = r0 /\ g0 = 2 /\ g1 \in {0, 1}
    BY <1>5, <1>6, <1>7, <1>9, <1>10, <2>1
  <2> QED BY <2>2
<1>20. CASE AddManifest
  <2>1. pc = "real" /\ pc' = "loop" /\ UNCHANGED <<scan, next, visitedDirectories>>
    BY <1>20 DEF AddManifest, Skips, Reports
  <2>2. c1 <= c0
    <3>1. stack' = stack \/ stack' = Front(stack)
      BY <1>20 DEF AddManifest, Skips
    <3>2. stack' = Front(stack) => c1 <= c0
      BY <1>4, <1>11, SmallerOnReturn DEF c
    <3> QED BY <1>6, <3>1, <3>2
  <2>3. u1 = u0 /\ t0 = 0 /\ t1 = 0 /\ r1 = r0 /\ g0 = 1 /\ g1 = 0
    BY <1>5, <1>7, <1>9, <1>10, <2>1
  <2> QED BY <2>2, <2>3
<1> QED
  BY <1>12, <1>13, <1>14, <1>15, <1>16, <1>17, <1>18, <1>19, <1>20 DEF Walk

\* Each call of the walk brings its end nearer, and nothing that others do puts
\* it off: what they relink, replace or add at a finite number of places lets
\* no walk go on for longer than what there was to be done at first, which is
\* at most a listing of each place and what each root costs.
THEOREM WalkMakesProgress ==
  ASSUME IsFiniteSet(Paths)
  PROVE  WalkSpec =>
    /\ StepsLeft = Listing * Cardinality(Places) + 5 * Len(scan.roots) + 4
    /\ [](StepsLeft \in Nat)
    /\ [][IF Walk THEN StepsLeft' < StepsLeft ELSE StepsLeft' = StepsLeft]_walkVars
<1> DEFINE Inv == StackInv /\ EndInv
<1>1. WalkInit => Inv
  BY StackInit, EndInit
<1>2. Inv /\ [WalkNext]_walkVars => Inv'
  BY StackStep, EndStep
<1>3. WalkInit => StepsLeft = Listing * Cardinality(Places) + 5 * Len(scan.roots) + 4
  <2> SUFFICES ASSUME WalkInit
               PROVE  StepsLeft = Listing * Cardinality(Places) + 5 * Len(scan.roots) + 4
    OBVIOUS
  <2>1. /\ visitedDirectories = {} /\ stack = <<>> /\ pc = "root" /\ next = 1
        /\ Len(scan.roots) \in Nat
    BY RootsNumbered DEF WalkInit
  <2>2. Unvisited = Places
    BY <2>1 DEF Unvisited
  <2>3. SizeOf(stack) = 0
    <3>1. Len(stack) = 0 /\ DOMAIN stack = {}
      BY <2>1, EmptySeq
    <3>2. EntriesOf(stack) = {}
      BY <3>1 DEF EntriesOf
    <3>3. Cardinality(EntriesOf(stack)) = 0
      BY <3>2, FS_EmptySet
    <3> QED BY <3>1, <3>3 DEF SizeOf
  <2>4. RootsLeft = Len(scan.roots) /\ Stage = 4
    BY <2>1 DEF RootsLeft, Stage
  <2>5. Listing * Cardinality(Unvisited) \in Nat
    BY <1>1, StepsCount
  <2>6. StepsLeft = Listing * Cardinality(Unvisited) + 0 + 5 * 0 + 5 * Len(scan.roots) + 4
    BY <2>1, <2>3, <2>4 DEF StepsLeft
  <2> HIDE DEF Listing
  <2>7. \A a, b \in Nat : a + 0 + 5 * 0 + 5 * b + 4 = a + 5 * b + 4
    OBVIOUS
  <2> QED BY <2>1, <2>2, <2>5, <2>6, <2>7
<1>4. Inv => StepsLeft \in Nat
  BY StepsCount
<1>5. Inv /\ [WalkNext]_walkVars
        => [IF Walk THEN StepsLeft' < StepsLeft ELSE StepsLeft' = StepsLeft]_walkVars
  <2> SUFFICES ASSUME Inv, Inv', WalkNext, ~UNCHANGED walkVars
               PROVE  IF Walk THEN StepsLeft' < StepsLeft ELSE StepsLeft' = StepsLeft
    BY <1>2
  <2>1. CASE Walk
    BY <2>1, StepsShrink
  <2>2. CASE ~Walk
    <3>1. UNCHANGED <<scan, next, stack, visitedDirectories, pc>>
      BY <2>2 DEF WalkNext, Change, frameVars, foundVars
    <3> QED BY <2>2, <3>1 DEF StepsLeft, Unvisited, RootsLeft, Stage
  <2> QED BY <2>1, <2>2
<1> QED BY <1>1, <1>2, <1>3, <1>4, <1>5, PTL DEF WalkSpec
=============================================================================
