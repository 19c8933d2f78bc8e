--------------------------- MODULE MCCatalogCompile ---------------------------
(* Small instances of CatalogCompile for TLC. *)
EXTENDS CatalogCompile

\* A sound manifest of some size with one id and its dependencies.
Manifest(id, size, dependencies) ==
  [id |-> id, size |-> size, wellFormed |-> TRUE, valid |-> TRUE, depth |-> 1,
   entries |-> 1, extensionBytes |-> 0, reviewed |-> TRUE,
   dependencies |-> dependencies]

Needs(id) == [type |-> "service", target |-> id]
Uses(id) == [type |-> "database", target |-> id]

\* a needs b, and uses a database that happens to have the id of a service.
A == [Manifest("a", 2, {Needs("b"), Uses("b")}) EXCEPT !.extensionBytes = 2]
B == Manifest("b", 1, {})
Stale == [B EXCEPT !.reviewed = FALSE]
Large == [B EXCEPT !.size = 5]
Broken == [B EXCEPT !.wellFormed = FALSE]
Invalid1 == [B EXCEPT !.valid = FALSE]
Deep == [B EXCEPT !.depth = 3]
Wide == [Manifest("c", 2, {}) EXCEPT !.entries = 3]
Extended == [Manifest("c", 2, {}) EXCEPT !.extensionBytes = 3]

Few == {A, B, Stale, Large, Broken, Invalid1, Wide, Extended, Deep}
Budgets == {A, B, Wide, Extended, Deep}
=============================================================================
