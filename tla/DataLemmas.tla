----------------------------- MODULE DataLemmas -----------------------------
(***************************************************************************)
(* Facts about sequences, recursion and sums that the proofs of several    *)
(* components use.  Induction is a search for a least counterexample in a  *)
(* set (WFMin), so that nothing takes an operator as a parameter.          *)
(***************************************************************************)
EXTENDS Integers, SequencesExt, SequenceTheorems, FiniteSetTheorems, TLAPS

-----------------------------------------------------------------------------
(* Sequences *)

\* A function from 1..n is a sequence of that length.
LEMMA ListOf ==
  ASSUME NEW n \in Nat, NEW S, NEW f \in [1..n -> S]
  PROVE  f \in Seq(S) /\ Len(f) = n
<1>1. f \in Seq(S)
  BY SeqDef
<1>2. DOMAIN f = 1..n /\ DOMAIN f = 1..Len(f) /\ Len(f) \in Nat
  BY <1>1, LenProperties
<1>3. 1..n = 1..Len(f)
  BY <1>2
<1>4. \A m, k \in Nat : 1..m = 1..k => m <= k
  <2> SUFFICES ASSUME NEW m \in Nat, NEW k \in Nat, 1..m = 1..k
               PROVE  m <= k
    OBVIOUS
  <2>1. CASE m = 0
    BY <2>1
  <2>2. CASE m > 0
    <3>1. m \in 1..m
      BY <2>2
    <3>2. m \in 1..k
      BY <3>1
    <3> QED BY <3>2
  <2> QED BY <2>1, <2>2
<1>5. n <= Len(f) /\ Len(f) <= n
  BY <1>2, <1>3, <1>4
<1> QED BY <1>1, <1>2, <1>5

LEMMA SeqWider ==
  ASSUME NEW S, NEW T, S \subseteq T, NEW s \in Seq(S)
  PROVE  s \in Seq(T)
<1>1. Len(s) \in Nat /\ s \in [1..Len(s) -> S]
  BY LenProperties
<1>2. s \in [1..Len(s) -> T]
  BY <1>1
<1> QED BY <1>1, <1>2, ListOf

\* A prefix is one element by element.
LEMMA PrefixPointwise ==
  ASSUME NEW a \in Seq(Nat), NEW b \in Seq(Nat)
  PROVE  IsPrefix(a, b) <=>
           Len(a) <= Len(b) /\ \A i \in 1..Len(a) : a[i] = b[i]
<1>1. Len(a) \in Nat /\ Len(b) \in Nat
  BY LenProperties
<1>2. SubSeq(a, 1, Len(a)) = a
  BY SubSeqFull
<1>3. ASSUME Len(a) <= Len(b)
      PROVE  /\ SubSeq(b, 1, Len(a)) \in Seq(Nat)
             /\ Len(SubSeq(b, 1, Len(a))) = Len(a)
             /\ \A i \in 1..Len(a) : SubSeq(b, 1, Len(a))[i] = b[i]
  <2> DEFINE n == Len(a)
  <2>1. n \in Int /\ 1 \in Int /\ n >= 0
    BY <1>1
  <2>2. \A i \in 1..n : b[i] \in Nat
    BY <1>1, <1>3, ElementOfSeq
  <2> HIDE DEF n
  <2>3. /\ SubSeq(b, 1, n) \in Seq(Nat)
        /\ Len(SubSeq(b, 1, n)) = IF 1 <= n THEN n - 1 + 1 ELSE 0
        /\ \A i \in 1..n - 1 + 1 : SubSeq(b, 1, n)[i] = b[1 + i - 1]
    BY <2>1, <2>2, SubSeqProperties
  <2>4. n - 1 + 1 = n /\ \A i \in 1..n : 1 + i - 1 = i
    BY <2>1
  <2>5. Len(SubSeq(b, 1, n)) = n
    BY <2>1, <2>3, <2>4
  <2> QED BY <2>3, <2>4, <2>5 DEF n
<1>4. ASSUME IsPrefix(a, b)
      PROVE  Len(a) <= Len(b) /\ \A i \in 1..Len(a) : a[i] = b[i]
  BY <1>2, <1>3, <1>4 DEF IsPrefix
<1>5. ASSUME Len(a) <= Len(b), \A i \in 1..Len(a) : a[i] = b[i]
      PROVE  IsPrefix(a, b)
  <2>1. a = SubSeq(b, 1, Len(a))
    BY <1>3, <1>5, SeqEqual
  <2> QED BY <1>2, <1>5, <2>1 DEF IsPrefix
<1> QED BY <1>4, <1>5

-----------------------------------------------------------------------------
(* Recursion *)

\* A step of a recursion is a function from what is defined so far and an
\* argument to the value there.
Steps(S, T) == [[S -> T] \X S -> T]

\* The step looks at values below its argument only.
LooksBelow(D, R, S, T) ==
  \A g, h \in [S -> T], x \in S :
    (\A y \in S : <<y, x>> \in R => g[y] = h[y]) => D[<<g, x>>] = D[<<h, x>>]

\* g is what the recursion defines as far as x.
DefinedTo(g, x, D, R, S) ==
  \A y \in S : (<<y, x>> \in R \/ y = x) => g[y] = D[<<g, y>>]

LEMMA LeastElement ==
  ASSUME NEW R, NEW S, IsWellFoundedOn(R, S), NEW B, B \subseteq S, B # {}
  PROVE  \E x \in B : \A y \in S : <<y, x>> \in R => y \notin B
<1>1. \E x \in B : \A y \in B : ~ (<<y, x>> \in R)
  BY WFMin
<1> QED BY <1>1

LEMMA DefinedOnce ==
  ASSUME NEW R, NEW S, NEW T, NEW D,
         IsWellFoundedOn(R, S), IsTransitivelyClosedOn(R, S), LooksBelow(D, R, S, T),
         NEW x \in S, NEW g \in [S -> T], NEW h \in [S -> T],
         DefinedTo(g, x, D, R, S), DefinedTo(h, x, D, R, S)
  PROVE  g[x] = h[x]
<1> DEFINE Below == {y \in S : <<y, x>> \in R \/ y = x}
           B == {y \in Below : g[y] # h[y]}
<1>1. SUFFICES ASSUME g[x] # h[x] PROVE FALSE
  OBVIOUS
<1>2. B \subseteq S /\ x \in B
  BY <1>1
<1> HIDE DEF B
<1>3. PICK y \in B : \A z \in S : <<z, y>> \in R => z \notin B
  BY <1>2, LeastElement
<1>4. y \in Below /\ g[y] # h[y]
  BY DEF B
<1>5. ASSUME NEW z \in S, <<z, y>> \in R PROVE g[z] = h[z]
  <2>1. <<z, x>> \in R
    BY <1>4, <1>5 DEF IsTransitivelyClosedOn
  <2>2. z \in Below
    BY <2>1
  <2> QED BY <1>3, <1>5, <2>2 DEF B
<1>6. D[<<g, y>>] = D[<<h, y>>]
  BY <1>4, <1>5 DEF LooksBelow
<1>7. g[y] = D[<<g, y>>] /\ h[y] = D[<<h, y>>]
  BY <1>4 DEF DefinedTo
<1> QED BY <1>4, <1>6, <1>7

\* What is defined as far as x is defined as far as what lies below x.
LEMMA DefinedBelow ==
  ASSUME NEW R, NEW S, NEW D, IsTransitivelyClosedOn(R, S),
         NEW x \in S, NEW y \in S, <<y, x>> \in R, NEW g, DefinedTo(g, x, D, R, S)
  PROVE  DefinedTo(g, y, D, R, S)
BY DEF DefinedTo, IsTransitivelyClosedOn

LEMMA DefinedSomehow ==
  ASSUME NEW R, NEW S, NEW T, T # {}, NEW D \in Steps(S, T),
         IsWellFoundedOn(R, S), IsTransitivelyClosedOn(R, S), LooksBelow(D, R, S, T)
  PROVE  \A x \in S : \E g \in [S -> T] : DefinedTo(g, x, D, R, S)
<1> DEFINE B == {x \in S : ~ \E g \in [S -> T] : DefinedTo(g, x, D, R, S)}
<1>1. SUFFICES ASSUME B # {} PROVE FALSE
  OBVIOUS
<1>2. B \subseteq S
  OBVIOUS
<1> HIDE DEF B
<1>3. PICK x \in B : \A y \in S : <<y, x>> \in R => y \notin B
  BY <1>1, <1>2, LeastElement
<1>4. x \in S
  BY <1>2
<1> DEFINE G(y) == CHOOSE g \in [S -> T] : DefinedTo(g, y, D, R, S)
           t == CHOOSE t \in T : TRUE
           low == [y \in S |-> IF <<y, x>> \in R THEN G(y)[y] ELSE t]
           all == [low EXCEPT ![x] = D[<<low, x>>]]
<1>5. ASSUME NEW y \in S, <<y, x>> \in R
      PROVE  G(y) \in [S -> T] /\ DefinedTo(G(y), y, D, R, S)
  BY <1>3, <1>5 DEF B
<1>6. low \in [S -> T]
  <2>1. t \in T
    OBVIOUS
  <2> HIDE DEF G, t
  <2> QED BY <1>5, <2>1
<1>7. D[<<low, x>>] \in T
  <2> HIDE DEF low
  <2> QED BY <1>4, <1>6 DEF Steps
<1>8. all \in [S -> T]
  <2> HIDE DEF low
  <2> QED BY <1>6, <1>7
<1> HIDE DEF G
<1>9. \A y \in S : <<y, x>> \in R => low[y] = G(y)[y]
  OBVIOUS
<1>10. \A y \in S : y # x => all[y] = low[y]
  BY <1>6
<1>11. all[x] = D[<<low, x>>]
  BY <1>4, <1>6
<1> HIDE DEF low, all
<1>12. <<x, x>> \notin R
  BY <1>4, WellFoundedIsIrreflexive
<1>13. ASSUME NEW y \in S, <<y, x>> \in R PROVE low[y] = D[<<low, y>>]
  <2>1. G(y) \in [S -> T] /\ DefinedTo(G(y), y, D, R, S)
    BY <1>5, <1>13
  <2>2. ASSUME NEW z \in S, <<z, y>> \in R PROVE low[z] = G(y)[z]
    <3>1. <<z, x>> \in R
      BY <1>4, <1>13, <2>2 DEF IsTransitivelyClosedOn
    <3>2. G(z) \in [S -> T] /\ DefinedTo(G(z), z, D, R, S)
      BY <1>5, <3>1
    <3>3. DefinedTo(G(y), z, D, R, S)
      BY <2>1, <2>2, DefinedBelow
    <3>4. G(z)[z] = G(y)[z]
      BY <2>1, <3>2, <3>3, DefinedOnce
    <3> QED BY <1>9, <3>1, <3>4
  <2>3. D[<<low, y>>] = D[<<G(y), y>>]
    BY <1>6, <2>1, <2>2 DEF LooksBelow
  <2>4. G(y)[y] = D[<<G(y), y>>]
    BY <2>1 DEF DefinedTo
  <2> QED BY <1>9, <1>13, <2>3, <2>4
<1>14. ASSUME NEW y \in S, <<y, x>> \in R \/ y = x PROVE all[y] = D[<<all, y>>]
  <2>1. ASSUME NEW z \in S, <<z, y>> \in R PROVE all[z] = low[z]
    <3>1. <<z, x>> \in R
      BY <1>4, <1>14, <2>1 DEF IsTransitivelyClosedOn
    <3> QED BY <1>10, <1>12, <3>1
  <2>2. D[<<all, y>>] = D[<<low, y>>]
    BY <1>6, <1>8, <2>1 DEF LooksBelow
  <2>3. CASE y = x
    BY <1>11, <2>2, <2>3
  <2>4. CASE y # x
    BY <1>10, <1>13, <1>14, <2>2, <2>4
  <2> QED BY <2>3, <2>4
<1>15. DefinedTo(all, x, D, R, S)
  BY <1>14 DEF DefinedTo
<1>16. \A y \in B : ~ \E g \in [S -> T] : DefinedTo(g, y, D, R, S)
  BY DEF B
<1> QED BY <1>8, <1>15, <1>16

\* A recursion over a well-founded order that looks at lesser arguments only
\* has a solution, so that the CHOOSE of a recursive definition has one.
LEMMA Recursion ==
  ASSUME NEW R, NEW S, NEW T, T # {}, NEW D \in Steps(S, T),
         IsWellFoundedOn(R, S), IsTransitivelyClosedOn(R, S), LooksBelow(D, R, S, T)
  PROVE  \E f \in [S -> T] : \A x \in S : f[x] = D[<<f, x>>]
<1> DEFINE G(x) == CHOOSE g \in [S -> T] : DefinedTo(g, x, D, R, S)
           f == [x \in S |-> G(x)[x]]
<1>1. ASSUME NEW x \in S
      PROVE  G(x) \in [S -> T] /\ DefinedTo(G(x), x, D, R, S)
  <2>1. \E g \in [S -> T] : DefinedTo(g, x, D, R, S)
    BY DefinedSomehow
  <2> QED BY <2>1
<1> HIDE DEF G
<1>2. f \in [S -> T]
  BY <1>1
<1>3. \A x \in S : f[x] = G(x)[x]
  OBVIOUS
<1> HIDE DEF f
<1>4. ASSUME NEW x \in S PROVE f[x] = D[<<f, x>>]
  <2>1. ASSUME NEW y \in S, <<y, x>> \in R PROVE f[y] = G(x)[y]
    <3>1. DefinedTo(G(x), y, D, R, S)
      BY <1>1, <2>1, DefinedBelow
    <3>2. G(y)[y] = G(x)[y]
      BY <1>1, <3>1, DefinedOnce
    <3> QED BY <1>3, <3>2
  <2>2. D[<<f, x>>] = D[<<G(x), x>>]
    BY <1>1, <1>2, <2>1 DEF LooksBelow
  <2>3. G(x)[x] = D[<<G(x), x>>]
    BY <1>1 DEF DefinedTo
  <2> QED BY <1>3, <2>2, <2>3
<1> QED BY <1>2, <1>4

LEMMA SubsetsWellFounded ==
  ASSUME NEW S, IsFiniteSet(S)
  PROVE  /\ IsWellFoundedOn(StrictSubsetOrdering(S), SUBSET S)
         /\ IsTransitivelyClosedOn(StrictSubsetOrdering(S), SUBSET S)
         /\ \A s \in SUBSET S : \A x \in s : <<s \ {x}, s>> \in StrictSubsetOrdering(S)
<1>1. IsWellFoundedOn(StrictSubsetOrdering(S), SUBSET S)
  BY FS_StrictSubsetOrderingWellFounded, FS_FiniteSubsetsOfFinite
<1>2. IsTransitivelyClosedOn(StrictSubsetOrdering(S), SUBSET S)
  BY DEF IsTransitivelyClosedOn, StrictSubsetOrdering
<1>3. ASSUME NEW s \in SUBSET S, NEW x \in s
      PROVE  <<s \ {x}, s>> \in StrictSubsetOrdering(S)
  BY DEF StrictSubsetOrdering
<1> QED BY <1>1, <1>2, <1>3

\* The order of the natural numbers, for recursions along a sequence.
Earlier == {p \in Nat \X Nat : p[1] < p[2]}

LEMMA EarlierWellFounded ==
  ASSUME NEW S \in SUBSET Nat
  PROVE  IsWellFoundedOn(Earlier, S) /\ IsTransitivelyClosedOn(Earlier, S)
<1>1. Earlier = OpToRel(<, Nat)
  BY DEF Earlier, OpToRel
<1>2. IsWellFoundedOn(Earlier, S)
  BY <1>1, NatLessThanWellFounded, IsWellFoundedOnSubset
<1>3. IsTransitivelyClosedOn(Earlier, S)
  BY DEF IsTransitivelyClosedOn, Earlier
<1> QED BY <1>2, <1>3

\* A set of natural numbers that holds something has a first element.
LEMMA First ==
  ASSUME NEW B \in SUBSET Nat, B # {}
  PROVE  \E i \in B : \A j \in B : i <= j
<1>1. PICK i \in B : \A j \in Nat : <<j, i>> \in Earlier => j \notin B
  BY EarlierWellFounded, LeastElement
<1>2. ASSUME NEW j \in B PROVE i <= j
  <2>1. i \in Nat /\ j \in Nat
    OBVIOUS
  <2>2. <<j, i>> \notin Earlier
    BY <1>1
  <2>3. ~(j < i)
    BY <2>1, <2>2 DEF Earlier
  <2> QED BY <2>1, <2>3
<1> QED BY <1>2

LEMMA LastPosition ==
  ASSUME NEW n \in Nat, NEW s \in SUBSET (1..n), s # {}
  PROVE  Max(s) \in s
<1> DEFINE B == {n - x : x \in s}
<1>1. B \in SUBSET Nat /\ B # {}
  <2>1. \A x \in s : n - x \in Nat
    OBVIOUS
  <2>2. PICK x \in s : TRUE
    OBVIOUS
  <2>3. n - x \in B
    OBVIOUS
  <2> QED BY <2>1, <2>3
<1>2. PICK i \in B : \A j \in B : i <= j
  BY <1>1, First
<1>3. PICK x \in s : i = n - x
  OBVIOUS
<1>4. \A y \in s : n - x <= n - y
  BY <1>2, <1>3
<1>5. s \subseteq Int /\ n \in Int
  OBVIOUS
<1>6. \A y \in s : x >= y
  BY <1>4, <1>5
<1> QED BY <1>6 DEF Max

\* h folds the step over the sets of the first n positions.
FoldsTo(h, n, base, step) ==
  \A s \in SUBSET (1..n) :
    h[s] = IF s = {} THEN base ELSE step[<<h[s \ {Max(s)}], Max(s)>>]

\* A fold from the left exists: the value for a set of positions follows from
\* the value for all of them but the last.
LEMMA FoldExists ==
  ASSUME NEW n \in Nat, NEW T, NEW base \in T, NEW step \in [T \X (1..n) -> T]
  PROVE  \E h \in [SUBSET (1..n) -> T] : FoldsTo(h, n, base, step)
<1> DEFINE I == 1..n
           P == SUBSET I
           R == StrictSubsetOrdering(I)
           value(h, s) == IF s = {} THEN base ELSE step[<<h[s \ {Max(s)}], Max(s)>>]
           D == [p \in [P -> T] \X P |-> value(p[1], p[2])]
<1>1. IsFiniteSet(I)
  BY FS_Interval
<1>2. /\ IsWellFoundedOn(R, P) /\ IsTransitivelyClosedOn(R, P)
      /\ \A s \in P : \A x \in s : <<s \ {x}, s>> \in R
  BY <1>1, SubsetsWellFounded
<1>3. ASSUME NEW s \in P, s # {} PROVE Max(s) \in I /\ s \ {Max(s)} \in P
                                       /\ Max(s) \in s
  BY <1>3, LastPosition
<1> HIDE DEF R, I
<1>4. ASSUME NEW h \in [P -> T], NEW s \in P PROVE value(h, s) \in T
  <2>1. CASE s = {}
    BY <2>1
  <2>2. CASE s # {}
    BY <1>3, <2>2 DEF I
  <2> QED BY <2>1, <2>2
<1>5. D \in Steps(P, T)
  BY <1>4 DEF Steps
<1>6. ASSUME NEW h \in [P -> T], NEW s \in P PROVE D[<<h, s>>] = value(h, s)
  OBVIOUS
<1> HIDE DEF D
<1>7. LooksBelow(D, R, P, T)
  <2>1. ASSUME NEW g \in [P -> T], NEW h \in [P -> T], NEW s \in P,
               \A t \in P : <<t, s>> \in R => g[t] = h[t]
        PROVE  D[<<g, s>>] = D[<<h, s>>]
    <3>1. value(g, s) = value(h, s)
      BY <1>2, <1>3, <2>1
    <3> HIDE DEF value
    <3> QED BY <1>6, <3>1
  <2> HIDE DEF value, P
  <2> QED BY <2>1 DEF LooksBelow
<1>8. \E h \in [P -> T] : \A s \in P : h[s] = D[<<h, s>>]
  <2> HIDE DEF value, P
  <2>1. T # {}
    OBVIOUS
  <2> QED BY <1>2, <1>5, <1>7, <2>1, Recursion
<1> QED BY ZenonT(60), <1>6, <1>8 DEF I, FoldsTo

\* A list of lists is joined from the left.
LEMMA JoinedFromLeft ==
  ASSUME NEW S, NEW lists \in Seq(Seq(S)), Len(lists) > 0
  PROVE  \E f \in [1..Len(lists) -> Seq(S)] :
           /\ \A i \in 1..Len(lists) : f[i] = IF i = 1 THEN lists[i] ELSE f[i - 1] \o lists[i]
           /\ FlattenSeq(lists) = f[Len(lists)]
<1> DEFINE n == Len(lists)
           I == 1..n
           T == Seq(S)
           value(f, i) == IF i = 1 THEN lists[i] ELSE f[i - 1] \o lists[i]
           D == [p \in [I -> T] \X I |-> value(p[1], p[2])]
           k == CHOOSE f : f = [i \in I |-> value(f, i)]
<1>1. n \in Nat /\ n > 0 /\ \A i \in I : lists[i] \in T
  BY LenProperties, ElementOfSeq
<1>2. FlattenSeq(lists) = k[n]
  BY DEF FlattenSeq
<1> HIDE DEF n
<1>3. \A i \in I : i # 1 => i - 1 \in I /\ <<i - 1, i>> \in Earlier
  BY <1>1 DEF Earlier
<1>4. ASSUME NEW f \in [I -> T], NEW i \in I PROVE value(f, i) \in T
  <2>1. CASE i = 1
    BY <1>1, <2>1
  <2>2. CASE i # 1
    <3>1. f[i - 1] \in T /\ lists[i] \in T
      BY <1>1, <1>3, <2>2
    <3> QED BY <2>2, <3>1, ConcatProperties
  <2> QED BY <2>1, <2>2
<1> HIDE DEF I, T
<1>5. D \in Steps(I, T)
  <2> HIDE DEF value
  <2> QED BY <1>4 DEF Steps
<1>6. ASSUME NEW f \in [I -> T], NEW i \in I PROVE D[<<f, i>>] = value(f, i)
  OBVIOUS
<1> HIDE DEF D
<1>7. LooksBelow(D, Earlier, I, T)
  <2>1. ASSUME NEW g \in [I -> T], NEW h \in [I -> T], NEW i \in I,
               \A j \in I : <<j, i>> \in Earlier => g[j] = h[j]
        PROVE  D[<<g, i>>] = D[<<h, i>>]
    <3>1. value(g, i) = value(h, i)
      BY <1>3, <2>1
    <3> HIDE DEF value
    <3> QED BY <1>6, <3>1
  <2> HIDE DEF value
  <2> QED BY <2>1 DEF LooksBelow
<1>8. PICK f \in [I -> T] : \A i \in I : f[i] = value(f, i)
  <2>1. I \in SUBSET Nat /\ T # {}
    BY EmptySeq DEF I, T
  <2>2. IsWellFoundedOn(Earlier, I) /\ IsTransitivelyClosedOn(Earlier, I)
    BY <2>1, EarlierWellFounded
  <2> HIDE DEF value
  <2>3. \E f \in [I -> T] : \A i \in I : f[i] = D[<<f, i>>]
    BY SMTT(30), <1>5, <1>7, <2>1, <2>2, Recursion
  <2> QED BY <1>6, <2>3
<1>9. f = [i \in I |-> value(f, i)]
  <2> HIDE DEF value
  <2> QED BY <1>8
<1>10. k = [i \in I |-> value(k, i)]
  <2> HIDE DEF value
  <2> QED BY <1>9
<1> HIDE DEF k
<1>11. \A i \in I : k[i] = value(k, i)
  <2> HIDE DEF value
  <2> QED BY <1>10
<1>12. \A i \in I : k[i] \in T
  <2> DEFINE B == {i \in I : k[i] \notin T}
  <2>1. SUFFICES ASSUME B # {} PROVE FALSE
    OBVIOUS
  <2>2. PICK i \in B : \A j \in B : i <= j
    <3>1. B \in SUBSET Nat
      BY DEF I
    <3> HIDE DEF B
    <3> QED BY <2>1, <3>1, First
  <2>3. i \in I /\ k[i] \notin T
    OBVIOUS
  <2>4. i # 1
    BY <1>1, <1>11, <2>3
  <2>5. i - 1 \in I /\ ~(i <= i - 1)
    <3>1. i \in Int
      BY <2>3 DEF I
    <3> HIDE DEF B
    <3>2. ~(i <= i - 1)
      BY <3>1
    <3>3. i - 1 \in I
      BY <1>3, <2>3, <2>4
    <3> QED BY <3>2, <3>3
  <2>6. k[i - 1] \in T /\ lists[i] \in T
    BY <1>1, <2>2, <2>3, <2>5
  <2>7. k[i] = k[i - 1] \o lists[i]
    BY <1>11, <2>3, <2>4
  <2> QED BY <2>3, <2>6, <2>7, ConcatProperties DEF T
<1>13. k \in [I -> T]
  <2>1. k = [i \in I |-> k[i]]
    <3> HIDE DEF value
    <3> QED BY <1>10, <1>11
  <2> QED BY <1>12, <2>1
<1> QED BY <1>2, <1>11, <1>13 DEF I, T, n

-----------------------------------------------------------------------------
(* Sums *)

\* The sums of a function over the subsets of its domain.
Sums(f) ==
  CHOOSE g : g = [s \in SUBSET DOMAIN f |->
                    IF s = {} THEN 0
                    ELSE f[CHOOSE x \in s : TRUE] + g[s \ {CHOOSE x \in s : TRUE}]]

\* The sums of natural numbers are defined, one element at a time.
LEMMA SumsDefined ==
  ASSUME NEW S, IsFiniteSet(S), NEW f \in [S -> Nat]
  PROVE  /\ Sums(f) \in [SUBSET S -> Nat]
         /\ Sums(f)[{}] = 0
         /\ \A s \in SUBSET S : s # {} =>
              LET c == CHOOSE x \in s : TRUE IN Sums(f)[s] = f[c] + Sums(f)[s \ {c}]
<1> DEFINE R == StrictSubsetOrdering(S)
           P == SUBSET S
           c(s) == CHOOSE x \in s : TRUE
           value(g, s) == IF s = {} THEN 0 ELSE f[c(s)] + g[s \ {c(s)}]
           D == [p \in [P -> Nat] \X P |-> value(p[1], p[2])]
<1>1. /\ IsWellFoundedOn(R, P) /\ IsTransitivelyClosedOn(R, P)
      /\ \A s \in P : \A x \in s : <<s \ {x}, s>> \in R
  BY SubsetsWellFounded
<1>2. ASSUME NEW s \in P, s # {} PROVE c(s) \in s /\ c(s) \in S /\ s \ {c(s)} \in P
  BY <1>2
<1> HIDE DEF R, c
<1>3. ASSUME NEW g \in [P -> Nat], NEW s \in P PROVE value(g, s) \in Nat
  <2>1. CASE s = {}
    BY <2>1
  <2>2. CASE s # {}
    BY <1>2, <2>2
  <2> QED BY <2>1, <2>2
<1>4. D \in Steps(P, Nat)
  BY <1>3 DEF Steps
<1>5. ASSUME NEW g \in [P -> Nat], NEW s \in P PROVE D[<<g, s>>] = value(g, s)
  OBVIOUS
<1> HIDE DEF D
<1>6. LooksBelow(D, R, P, Nat)
  <2>1. ASSUME NEW g \in [P -> Nat], NEW h \in [P -> Nat], NEW s \in P,
               \A t \in P : <<t, s>> \in R => g[t] = h[t]
        PROVE  D[<<g, s>>] = D[<<h, s>>]
    <3>1. value(g, s) = value(h, s)
      BY <1>1, <1>2, <2>1
    <3> HIDE DEF value
    <3> QED BY <1>5, <3>1
  <2> HIDE DEF value, P
  <2> QED BY <2>1 DEF LooksBelow
<1>7. \E g \in [P -> Nat] : \A s \in P : g[s] = D[<<g, s>>]
  <2> HIDE DEF value, P
  <2>1. Nat # {}
    OBVIOUS
  <2> QED BY <1>1, <1>4, <1>6, <2>1, Recursion
<1>8. PICK g \in [P -> Nat] : \A s \in P : g[s] = value(g, s)
  BY ZenonT(60), <1>5, <1>7
<1>9. g = [s \in P |-> value(g, s)]
  BY <1>8
<1>10. Sums(f) = [s \in P |-> value(Sums(f), s)]
  <2>1. DOMAIN f = S
    OBVIOUS
  <2>2. \E h : h = [s \in P |-> value(h, s)]
    BY <1>9
  <2> QED BY ZenonT(60), <2>1, <2>2 DEF Sums, c
<1> DEFINE h == Sums(f)
           B == {s \in P : h[s] # g[s]}
<1>11. B = {}
  <2>1. SUFFICES ASSUME B # {} PROVE FALSE
    OBVIOUS
  <2>2. B \subseteq P
    OBVIOUS
  <2>3. PICK s \in B : \A t \in P : <<t, s>> \in R => t \notin B
    <3> HIDE DEF B
    <3> QED BY <1>1, <2>1, <2>2, LeastElement
  <2>4. s \in P /\ h[s] # g[s] /\ h[s] = value(h, s) /\ g[s] = value(g, s)
    BY <1>8, <1>10
  <2>5. s # {}
    BY <2>4
  <2>6. s \ {c(s)} \in P /\ <<s \ {c(s)}, s>> \in R
    BY <1>1, <1>2, <2>4, <2>5
  <2>7. h[s \ {c(s)}] = g[s \ {c(s)}]
    BY <2>3, <2>6
  <2> QED BY <2>4, <2>5, <2>7
<1>12. h = g
  <2>1. \A s \in P : h[s] = g[s]
    BY <1>11
  <2> QED BY <1>9, <1>10, <2>1
<1>13. {} \in P
  OBVIOUS
<1> QED BY <1>8, <1>12, <1>13 DEF c

\* Any element may be taken out first.
LEMMA SumsRemove ==
  ASSUME NEW S, IsFiniteSet(S), NEW f \in [S -> Nat], NEW s \in SUBSET S, NEW x \in s
  PROVE  Sums(f)[s] = f[x] + Sums(f)[s \ {x}]
<1> DEFINE R == StrictSubsetOrdering(S)
           P == SUBSET S
           g == Sums(f)
           B == {t \in P : \E y \in t : g[t] # f[y] + g[t \ {y}]}
<1>1. /\ IsWellFoundedOn(R, P)
      /\ \A t \in P : \A y \in t : <<t \ {y}, t>> \in R
  BY SubsetsWellFounded
<1>2. /\ g \in [P -> Nat]
      /\ \A t \in P : t # {} => \E c \in t : g[t] = f[c] + g[t \ {c}]
  <2>1. /\ g \in [P -> Nat]
        /\ \A t \in P : t # {} =>
             g[t] = f[CHOOSE y \in t : TRUE] + g[t \ {CHOOSE y \in t : TRUE}]
    BY ZenonT(60), SumsDefined
  <2>2. ASSUME NEW t \in P, t # {} PROVE (CHOOSE y \in t : TRUE) \in t
    BY <2>2
  <2> HIDE DEF g, P
  <2> QED BY <2>1, <2>2
<1> HIDE DEF g, R
<1>3. SUFFICES ASSUME B # {} PROVE FALSE
  BY DEF g
<1>4. B \subseteq P
  OBVIOUS
<1>5. PICK t \in B : \A u \in P : <<u, t>> \in R => u \notin B
  <2> HIDE DEF B
  <2> QED BY <1>1, <1>3, <1>4, LeastElement
<1>6. t \in P
  OBVIOUS
<1>7. PICK y \in t : g[t] # f[y] + g[t \ {y}]
  OBVIOUS
<1>8. PICK c \in t : g[t] = f[c] + g[t \ {c}]
  BY <1>2, <1>6, <1>7
<1>9. c # y /\ y \in t \ {c} /\ c \in t \ {y}
  BY <1>7, <1>8
<1>10. g[t \ {c}] = f[y] + g[(t \ {c}) \ {y}]
  <2>1. t \ {c} \in P /\ t \ {c} \notin B
    BY <1>1, <1>5, <1>6
  <2> QED BY <1>9, <2>1
<1>11. g[t \ {y}] = f[c] + g[(t \ {y}) \ {c}]
  <2>1. t \ {y} \in P /\ t \ {y} \notin B
    BY <1>1, <1>5, <1>6
  <2> QED BY <1>9, <2>1
<1>12. (t \ {c}) \ {y} = (t \ {y}) \ {c}
  OBVIOUS
<1> HIDE DEF B
<1> DEFINE rest == (t \ {y}) \ {c}
<1>13. g[rest] \in Nat /\ f[c] \in Nat /\ f[y] \in Nat
  BY <1>2, <1>6, <1>7, <1>8
<1> HIDE DEF rest
<1>14. g[t] = f[c] + (f[y] + g[rest]) /\ g[t \ {y}] = f[c] + g[rest]
  BY <1>8, <1>10, <1>11, <1>12 DEF rest
<1> QED BY <1>7, <1>13, <1>14

\* A sum is at most another when each of its terms has a term of its own
\* there that is no less.
LEMMA SumsBounded ==
  ASSUME NEW A, IsFiniteSet(A), NEW f \in [A -> Nat],
         NEW D, IsFiniteSet(D), NEW e \in [D -> Nat],
         NEW own \in [A -> D], \A a, b \in A : own[a] = own[b] => a = b,
         \A a \in A : f[a] <= e[own[a]]
  PROVE  /\ Sums(f)[A] \in Nat /\ Sums(e)[D] \in Nat
         /\ Sums(f)[A] <= Sums(e)[D]
<1> DEFINE F == Sums(f)
           E == Sums(e)
           R == StrictSubsetOrdering(A)
           P == SUBSET A
           into(s, t) == \A a \in s : own[a] \in t
           B == {s \in P : \E t \in SUBSET D : into(s, t) /\ ~(F[s] <= E[t])}
<1>1. /\ F \in [P -> Nat] /\ E \in [SUBSET D -> Nat] /\ F[{}] = 0
  BY SumsDefined
<1> HIDE DEF F, E
<1>2. \A s \in P : \A a \in s : F[s] = f[a] + F[s \ {a}]
  <2> SUFFICES ASSUME NEW s \in SUBSET A, NEW a \in s
               PROVE  F[s] = f[a] + F[s \ {a}]
    OBVIOUS
  <2> QED BY SumsRemove DEF F
<1>3. \A t \in SUBSET D : \A d \in t : E[t] = e[d] + E[t \ {d}]
  <2> SUFFICES ASSUME NEW t \in SUBSET D, NEW d \in t
               PROVE  E[t] = e[d] + E[t \ {d}]
    OBVIOUS
  <2> QED BY SumsRemove DEF E
<1>4. /\ IsWellFoundedOn(R, P)
      /\ \A s \in P : \A x \in s : <<s \ {x}, s>> \in R
  BY SubsetsWellFounded
<1> HIDE DEF R
<1>5. B = {}
  <2>1. SUFFICES ASSUME B # {} PROVE FALSE
    OBVIOUS
  <2>2. B \subseteq P
    OBVIOUS
  <2>3. PICK s \in B : \A t \in P : <<t, s>> \in R => t \notin B
    <3> HIDE DEF B
    <3> QED BY <1>4, <2>1, <2>2, LeastElement
  <2>4. PICK t \in SUBSET D : into(s, t) /\ ~(F[s] <= E[t])
    OBVIOUS
  <2>5. s \in P
    OBVIOUS
  <2>6. E[t] \in Nat
    BY <1>1
  <2>7. PICK a \in s : TRUE
    <3>1. s # {}
      <4>1. s = {} => F[s] = 0
        BY <1>1
      <4>2. 0 <= E[t]
        BY <2>6
      <4>3. ~(F[s] <= E[t])
        BY <2>4
      <4> QED BY <4>1, <4>2, <4>3
    <3> QED BY <3>1
  <2>8. own[a] \in t /\ a \in A
    BY <2>4, <2>5, <2>7
  <2>9. into(s \ {a}, t \ {own[a]})
    BY <2>4, <2>5, <2>8
  <2>10. F[s \ {a}] <= E[t \ {own[a]}]
    <3>1. s \ {a} \notin B /\ s \ {a} \in P
      BY <1>4, <2>3, <2>5, <2>7
    <3>2. t \ {own[a]} \in SUBSET D
      OBVIOUS
    <3> HIDE DEF into
    <3> QED BY <2>9, <3>1, <3>2
  <2>11. /\ F[s \ {a}] \in Nat /\ E[t \ {own[a]}] \in Nat
         /\ f[a] \in Nat /\ e[own[a]] \in Nat
    BY <1>1, <2>5, <2>8
  <2>12. F[s] = f[a] + F[s \ {a}] /\ E[t] = e[own[a]] + E[t \ {own[a]}]
    BY <1>2, <1>3, <2>5, <2>7, <2>8
  <2>13. f[a] <= e[own[a]]
    BY <2>8
  <2> HIDE DEF B, into
  <2> QED BY <2>4, <2>10, <2>11, <2>12, <2>13
<1>6. A \in P /\ D \in SUBSET D /\ into(A, D)
  OBVIOUS
<1>7. F[A] <= E[D]
  BY <1>5, <1>6
<1> QED BY <1>1, <1>6, <1>7 DEF F, E
=============================================================================
