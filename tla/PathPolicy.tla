------------------------------ MODULE PathPolicy ------------------------------
(***************************************************************************)
(* Containment of absolute paths, in packages/core/src/path-policy.ts, and *)
(* their order, in source-config.ts, on POSIX.  A path is the sequence of  *)
(* its segments and the empty one is "/".  A segment is a number; for the  *)
(* comparison of texts, the text of a smaller one may be the beginning of  *)
(* that of a larger one.                                                   *)
(***************************************************************************)
EXTENDS Integers, SequencesExt

\* Mutant: a path is compared as a text, with no separator at its end.
IsPathInside_NoSeparator(parent, child) ==
  \/ parent = <<>>
  \/ /\ Len(parent) <= Len(child)
     /\ Front(parent) = SubSeq(child, 1, Len(parent) - 1)
     /\ Last(parent) <= child[Len(parent)]

\* The text of child is that of parent, or begins with it and a separator:
\* nothing but itself begins with "//", so that "/" has nothing else inside.
IsPathInside(parent, child) ==
  child = parent \/ (parent # <<>> /\ IsPrefix(parent, child))

\* Mutant: the sort puts shallow paths first.
Precedes_ByDepth(left, right) == Len(left) <= Len(right)

\* comparePathHierarchy(left, right) <= 0: the first segment that differs
\* decides, and otherwise the depth.
Precedes(left, right) ==
  \/ IsPrefix(left, right)
  \/ \E i \in DOMAIN left \cap DOMAIN right :
       left[i] < right[i] /\ \A j \in 1..i - 1 : left[j] = right[j]

\* The ways in which a sort by Precedes may arrange some paths.
Sortings(paths) ==
  {p \in [DOMAIN paths -> DOMAIN paths] :
     \A i, j \in DOMAIN paths :
       i < j => p[i] # p[j] /\ Precedes(paths[p[i]], paths[p[j]])}

Arranged(list, p) == [i \in DOMAIN p |-> list[p[i]]]
=============================================================================
