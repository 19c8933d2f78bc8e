-------------------------- MODULE MCReportPublisher --------------------------
(* Small instances of ReportPublisher for TLC. *)
EXTENDS ReportPublisher, TLC

CONSTANTS w1, w2, w3, json, html

\* w1 publishes both formats; the others narrow the set, so that a mixture
\* or a stale format would show.
MCFormats == [g \in Gens |-> IF g \in {w1, Old} THEN {json, html} ELSE {json}]

OldGeneration == [e \in {json, html, Marker} |-> Old]
\* From before the marker existed, and with a report file deleted by hand.
Unmarked == [e \in {json} |-> Old]
Tampered == [e \in {json, Marker} |-> Old]

PreviousGeneration == {OldGeneration}
AllStarts ==
  {Absent, EmptyDir, OldGeneration, Unmarked, Tampered}

Calls == {"start", "own", "undo", "undo_rmdir", "validate", "stage", "write",
          "mark", "promote", "install", "restore", "drop", "sweep",
          "sweep_rmdir", "sweep_backup", "release", "unlock", "unlock_rmdir"}
DropOnly == {"drop"}
\* Every call may be refused but those that give the lock back.
KeepsNoLock == Calls \ {"undo", "undo_rmdir", "release", "unlock",
                        "unlock_rmdir"}
ThreeFaulty == {"own", "undo", "install", "restore", "unlock"}

\* w2 and w3 publish the same formats.
Interchangeable == Permutations({w2, w3})
=============================================================================
