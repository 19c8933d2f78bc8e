--------------------------- MODULE MCDiscoveryWalk ---------------------------
(* Small instances of DiscoveryWalk for TLC. *)
EXTENDS DiscoveryWalk

\* 3 is the name of a manifest; <<1>> is the workspace and <<2>> is elsewhere.
W == <<1>>
Manifest == {3}
AllPaths ==
  {<<1>>, <<1, 1>>, <<1, 1, 1>>, <<1, 1, 1, 3>>, <<1, 1, 3>>, <<1, 2>>, <<1, 2, 3>>,
   <<1, 3>>, <<2>>, <<2, 3>>}
Tree == [p \in AllPaths |-> IF Last(p) = 3 THEN File ELSE Directory]

\* The patterns "1/1/**" and "**/1/3".
Patterns == {<<{1}, {1}, AnyDepth>>, <<AnyDepth, {1}, {3}>>}
Output == <<1, 2>>

\* Files and directories come and go under overlapping, outer and locked roots.
Edits ==
  {[roots |-> roots, resolved |-> FALSE, followSymlinks |-> FALSE, excluded |-> {pattern},
    maxManifests |-> 2, tree |-> Tree, locked |-> {Output}, maxTouched |-> 2,
    things |-> {Absent, Directory, File}] :
     roots \in {<<W>>, <<W, <<1, 1>>>>, <<<<1, 1>>, W>>, <<<<2>>, <<1, 2>>>>}, pattern \in Patterns}

\* Links to the workspace, to directories, to themselves and elsewhere.
Relinks == {Absent, Link(<<2>>), Link(<<1, 2>>), Link(<<2, 3>>)}
Followed ==
  {[roots |-> roots, resolved |-> FALSE, followSymlinks |-> TRUE, excluded |-> {},
    maxManifests |-> 3,
    tree |-> [Tree EXCEPT ![<<1, 1, 1>>] = Link(target), ![<<1, 1, 3>>] = Link(<<2, 3>>)],
    locked |-> {}, maxTouched |-> 1, things |-> Relinks] :
     roots \in {<<W>>, <<<<1, 1, 1>>, W>>},
     target \in {W, <<1, 1>>, <<1, 2>>, <<2>>, <<1, 1, 1>>}}

\* A root that is a link, from where the pattern "3" covers another manifest
\* than from the workspace.
Linked ==
  {[roots |-> <<<<1, 1, 1>>, W>>, resolved |-> FALSE, followSymlinks |-> FALSE,
    excluded |-> {<<{3}>>}, maxManifests |-> 3,
    tree |-> [Tree EXCEPT ![<<1, 1, 1>>] = Link(<<1, 1>>)], locked |-> {}, maxTouched |-> 1,
    things |-> {Absent, Directory}]}

\* Resolved sources that others replace by links to one another and elsewhere.
Sources ==
  {[roots |-> <<<<1, 1>>, <<1, 2>>>>, resolved |-> TRUE, followSymlinks |-> FALSE,
    excluded |-> {}, maxManifests |-> 3, tree |-> Tree, locked |-> {}, maxTouched |-> 2,
    things |-> Relinks]}

AllScans == Edits \cup Followed \cup Linked \cup Sources
=============================================================================
