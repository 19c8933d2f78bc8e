----------------------- MODULE ReportPublisherProofs -----------------------
(***************************************************************************)
(* Theorems about ReportPublisher, for any set of writers, formats, start  *)
(* directories, refused calls and crashes: types, the safety properties,   *)
(* the refinement of GenerationStore, and that each call comes nearer to   *)
(* its end.                                                                *)
(***************************************************************************)
EXTENDS ReportPublisher, FiniteSetTheorems, TLAPS

-----------------------------------------------------------------------------
(* Directories *)

LEMMA DirectoriesAreFunctions ==
  ASSUME NEW S \in SUBSET Entries, NEW d \in [S -> Origins]
  PROVE  d \in Directories
  BY DEF Directories

LEMMA DirectoryShape ==
  ASSUME NEW d \in Directories
  PROVE  DOMAIN d \subseteq Entries /\ d \in [DOMAIN d -> Origins]
  BY DEF Directories

LEMMA EmptyDirType == EmptyDir \in Directories
  <1>1. EmptyDir \in [{} -> Origins]
    BY DEF EmptyDir
  <1> QED
    BY <1>1, DirectoriesAreFunctions

LEMMA WithType ==
  ASSUME NEW d \in Directories, NEW e \in Entries, NEW origin \in Origins
  PROVE  With(d, e, origin) \in Directories
  <1> DEFINE S == DOMAIN d \cup {e}
  <1>1. S \in SUBSET Entries
    BY DirectoryShape
  <1>2. With(d, e, origin) \in [S -> Origins]
    BY DirectoryShape DEF With
  <1> QED
    BY <1>1, <1>2, DirectoriesAreFunctions

LEMMA WithoutType ==
  ASSUME NEW d \in Directories, NEW e
  PROVE  Without(d, e) \in Directories
  <1> DEFINE S == DOMAIN d \ {e}
  <1>1. S \in SUBSET Entries
    BY DirectoryShape
  <1>2. Without(d, e) \in [S -> Origins]
    BY DirectoryShape DEF Without
  <1> QED
    BY <1>1, <1>2, DirectoriesAreFunctions

LEMMA BodyType ==
  ASSUME NEW d \in Directories \cup {Absent}
  PROVE  Body(d) \in Directories
  <1>1. CASE d = Absent
    <2>1. Body(d) \in [{} -> Origins]
      BY <1>1 DEF Body, EntriesOf
    <2> QED
      BY <2>1, DirectoriesAreFunctions
  <1>2. CASE d # Absent
    <2> DEFINE S == DOMAIN d \ {Foreign}
    <2>1. S \in SUBSET Entries
      BY <1>2, DirectoryShape
    <2>2. Body(d) \in [S -> Origins]
      BY <1>2, DirectoryShape DEF Body, EntriesOf
    <2> QED
      BY <2>1, <2>2, DirectoriesAreFunctions
  <1> QED
    BY <1>1, <1>2

LEMMA BodyOfNothing == Body(Absent) = EmptyDir /\ Body(EmptyDir) = EmptyDir
  BY ValuesAssumption, EmptyDirType DEF Body, EntriesOf, EmptyDir

LEMMA BodyOfFree ==
  ASSUME NEW d, Free(d)
  PROVE  Body(d) = EmptyDir
  BY DEF Free, Body, EmptyDir

\* A foreign entry does not show in the body.
LEMMA BodyIgnoresForeign ==
  ASSUME NEW d \in Directories
  PROVE  Body(With(d, Foreign, User)) = Body(d)
  <1>1. User \in Origins /\ Foreign \in Entries
    BY DEF Origins, Entries
  <1>2. With(d, Foreign, User) \in Directories
    BY <1>1, WithType
  <1>3. With(d, Foreign, User) # Absent /\ d # Absent
    BY <1>2, ValuesAssumption
  <1>4. DOMAIN With(d, Foreign, User) = DOMAIN d \cup {Foreign}
    BY DEF With
  <1>5. \A e \in DOMAIN d \ {Foreign} : With(d, Foreign, User)[e] = d[e]
    BY DEF With
  <1> QED
    BY <1>3, <1>4, <1>5 DEF Body, EntriesOf

-----------------------------------------------------------------------------
(* Type correctness *)

LEMMA GenerationType ==
  ASSUME NEW w \in Gens
  PROVE  Generation(w) \in Directories
  <1> DEFINE S == Formats[w] \cup {Marker}
  <1>1. S \in SUBSET Entries
    BY InputsAssumption DEF Entries
  <1>2. Generation(w) \in [S -> Origins]
    BY DEF Generation, Origins
  <1> QED
    BY <1>1, <1>2, DirectoriesAreFunctions

\* The directories a call is about to read or rename are there.
Present ==
  \A w \in Writers :
    /\ pc[w] \in {"write", "mark", "promote", "install"} => staging[w] # Absent
    /\ pc[w] \in {"install", "restore", "drop"} => backup[w] # Absent

TypeInv == TypeOK /\ Present

LEMMA TypeInit == Init => TypeInv
  <1> SUFFICES ASSUME Init PROVE TypeInv
    OBVIOUS
  <1>1. output \in Directories \cup {Absent}
    BY InputsAssumption DEF Init
  <1> QED
    BY <1>1, BodyType DEF Init, TypeInv, TypeOK, Present

LEMMA TypeStep == TypeInv /\ [Next]_vars => TypeInv'
  <1> SUFFICES ASSUME TypeInv, [Next]_vars PROVE TypeInv'
    OBVIOUS
  <1> USE DEF TypeInv, TypeOK, Present, disk, locals, history, Goto, Abort
  <1>0. /\ EmptyDir \in Directories /\ EmptyDir # Absent
        /\ \A d \in Directories : d # Absent
    BY EmptyDirType, ValuesAssumption
  <1>1. ASSUME NEW w \in Writers, MkdirLock(w)
        PROVE  TypeInv'
    BY <1>1 DEF MkdirLock
  <1>2. ASSUME NEW w \in Writers, WriteOwner(w)
        PROVE  TypeInv'
    BY <1>2 DEF WriteOwner
  <1>3. ASSUME NEW w \in Writers, WriteOwnerFails(w)
        PROVE  TypeInv'
    BY <1>3 DEF WriteOwnerFails
  <1>4. ASSUME NEW w \in Writers, RmLockEntries(w)
        PROVE  TypeInv'
    BY <1>4 DEF RmLockEntries
  <1>5. ASSUME NEW w \in Writers, RmLockDir(w)
        PROVE  TypeInv'
    BY <1>5 DEF RmLockDir
  <1>6. ASSUME NEW w \in Writers, ReleaseFails(w)
        PROVE  TypeInv'
    BY <1>6 DEF ReleaseFails
  <1>7. ASSUME NEW w \in Writers, GiveUp(w)
        PROVE  TypeInv'
    BY <1>7 DEF GiveUp
  <1>8. ASSUME NEW w \in Writers, ValidateExistingOutput(w)
        PROVE  TypeInv'
    BY <1>8 DEF ValidateExistingOutput
  <1>9. ASSUME NEW w \in Writers, MkdirStaging(w)
        PROVE  TypeInv'
    BY <1>9, <1>0, InputsAssumption DEF MkdirStaging, Gens
  <1>10. ASSUME NEW w \in Writers, WriteMarker(w)
        PROVE  TypeInv'
    <2>1. Marker \in Entries /\ w \in Origins
      BY DEF Entries, Origins, Gens
    <2>2. With(staging[w], Marker, w) \in Directories
      BY <1>10, <2>1, WithType DEF WriteMarker
    <2> QED
      BY <1>0, <1>10, <2>2 DEF WriteMarker
  <1>11. ASSUME NEW w \in Writers, PromoteFirst(w)
        PROVE  TypeInv'
    <2>1. Body(staging[w]) \in Directories
      BY BodyType
    <2> QED
      BY <1>11, <2>1 DEF PromoteFirst, RenameStagingToOutput
  <1>12. ASSUME NEW w \in Writers, MoveToBackup(w)
        PROVE  TypeInv'
    BY <1>12 DEF MoveToBackup
  <1>13. ASSUME NEW w \in Writers, Install(w)
        PROVE  TypeInv'
    <2>1. Body(staging[w]) \in Directories
      BY BodyType
    <2> QED
      BY <1>13, <2>1 DEF Install, RenameStagingToOutput
  <1>14. ASSUME NEW w \in Writers, Restore(w)
        PROVE  TypeInv'
    BY <1>14 DEF Restore
  <1>15. ASSUME NEW w \in Writers, RestoreFails(w)
        PROVE  TypeInv'
    BY <1>15 DEF RestoreFails, KeepBackup
  <1>16. ASSUME NEW w \in Writers, DropBackupDir(w)
        PROVE  TypeInv'
    BY <1>16 DEF DropBackupDir
  <1>17. ASSUME NEW w \in Writers, DropBackupFails(w)
        PROVE  TypeInv'
    BY <1>17 DEF DropBackupFails, KeepBackup
  <1>18. ASSUME NEW w \in Writers, SweepStaging(w)
        PROVE  TypeInv'
    BY <1>18, <1>0 DEF SweepStaging
  <1>19. ASSUME NEW w \in Writers, SweepStagingDir(w)
        PROVE  TypeInv'
    BY <1>19 DEF SweepStagingDir
  <1>20. ASSUME NEW w \in Writers, SweepStagingFails(w)
        PROVE  TypeInv'
    BY <1>20 DEF SweepStagingFails
  <1>21. ASSUME NEW w \in Writers, SweepBackup(w)
        PROVE  TypeInv'
    BY <1>21 DEF SweepBackup
  <1>22. ASSUME NEW w \in Writers, ReadOwner(w)
        PROVE  TypeInv'
    BY <1>22 DEF ReadOwner
  <1>23. ASSUME NEW w \in Writers, Crash(w)
        PROVE  TypeInv'
    BY <1>23 DEF Crash
  <1>24. ASSUME NEW w \in Writers, NEW n \in Names, WriteFile(w, n)
        PROVE  TypeInv'
    <2>1. n \in Entries /\ w \in Origins
      BY DEF Entries, Origins, Gens
    <2>2. With(staging[w], n, w) \in Directories
      BY <1>24, <2>1, WithType DEF WriteFile
    <2> QED
      BY <1>0, <1>24, <2>2 DEF WriteFile
  <1>25. ASSUME NEW w \in Writers, NEW n \in Names, WriteFileFails(w, n)
        PROVE  TypeInv'
    <2>1. n \in Entries /\ TornFile \in Origins
      BY DEF Entries, Origins
    <2>2. staging[w] # Absent => With(staging[w], n, TornFile) \in Directories
      BY <2>1, WithType
    <2> QED
      BY <1>0, <1>25, <2>2 DEF WriteFileFails
  <1>26. ASSUME NEW w \in Writers, NEW e \in Entries, DropBackupEntry(w, e)
        PROVE  TypeInv'
    <2>1. Without(backup[w], e) \in Directories
      BY <1>26, WithoutType DEF DropBackupEntry
    <2> QED
      BY <1>0, <1>26, <2>1 DEF DropBackupEntry
  <1>27. CASE RemoveLock
    BY <1>27 DEF RemoveLock
  <1>28. CASE AddForeign
    <2>1. User \in Origins /\ Foreign \in Entries
      BY DEF Origins, Entries
    <2>2. output' \in Directories
      BY <1>0, <1>28, <2>1, WithType DEF AddForeign
    <2> QED
      BY <1>28, <2>2 DEF AddForeign
  <1>29. CASE AllEnded \/ UNCHANGED vars
    BY <1>29 DEF AllEnded, vars
  <1> QED
    BY <1>1, <1>2, <1>3, <1>4, <1>5, <1>6, <1>7, <1>8, <1>9, <1>10, <1>11, <1>12, <1>13, <1>14, <1>15, <1>16, <1>17, <1>18, <1>19, <1>20, <1>21, <1>22, <1>23, <1>24, <1>25, <1>26, <1>27, <1>28, <1>29
       DEF Next, Advance, Acquire, Stage, Promote, Finally

\* Every variable keeps its type.
THEOREM TypeCorrect == Spec => []TypeOK
  <1>1. TypeInv => TypeOK
    BY DEF TypeInv
  <1> QED
    BY <1>1, TypeInit, TypeStep, PTL DEF Spec

-----------------------------------------------------------------------------
(* Mutual exclusion *)

\* What the lock directory says while a writer holds the lock, and that no two
\* do.  MutualExclusion alone is not inductive: a writer between mkdir and
\* owner.json, or in the middle of a removal, owns a lock nobody is named in.
LockInv ==
  /\ \A w \in Writers : pc[w] \in {"own", "undo_rmdir"} => lock = Unclaimed
  /\ \A w \in Writers : pc[w] = "undo" => lock \in {Unclaimed, TornLock}
  /\ \A w \in Writers : ownsLock[w] /\ ~Ended(w) =>
       lock = IF pc[w] = "unlock_rmdir" THEN Unclaimed ELSE w
  /\ \A v, w \in Writers : Holder(v) /\ Holder(w) => v = w
  /\ \A w \in Writers :
       InSection(w) \/ pc[w] \in {"unlock", "unlock_rmdir"} => ownsLock[w]
  /\ \A w \in Writers :
       pc[w] \in {"start", "own", "undo", "undo_rmdir"} => ~ownsLock[w]

LEMMA LockStep ==
  ASSUME Operator # "careless", TypeOK, LockInv, [Next]_vars
  PROVE  LockInv'
  <1> USE DEF TypeOK, LockInv, Holder, InSection, Ended, Goto, Abort, disk,
              locals, history
  <1>1. ASSUME NEW w \in Writers, MkdirLock(w)
        PROVE  LockInv'
    BY <1>1, ValuesAssumption DEF MkdirLock
  <1>2. ASSUME NEW w \in Writers, WriteOwner(w)
        PROVE  LockInv'
    BY <1>2, ValuesAssumption DEF WriteOwner
  <1>3. ASSUME NEW w \in Writers, WriteOwnerFails(w)
        PROVE  LockInv'
    BY <1>3, ValuesAssumption DEF WriteOwnerFails
  <1>4. ASSUME NEW w \in Writers, RmLockEntries(w)
        PROVE  LockInv'
    BY <1>4, ValuesAssumption DEF RmLockEntries
  <1>5. ASSUME NEW w \in Writers, RmLockDir(w)
        PROVE  LockInv'
    BY <1>5, ValuesAssumption DEF RmLockDir
  <1>6. ASSUME NEW w \in Writers, ReleaseFails(w)
        PROVE  LockInv'
    BY <1>6, ValuesAssumption DEF ReleaseFails
  <1>7. ASSUME NEW w \in Writers, GiveUp(w)
        PROVE  LockInv'
    BY <1>7, ValuesAssumption DEF GiveUp
  <1>8. ASSUME NEW w \in Writers, ValidateExistingOutput(w)
        PROVE  LockInv'
    BY <1>8, ValuesAssumption DEF ValidateExistingOutput
  <1>9. ASSUME NEW w \in Writers, MkdirStaging(w)
        PROVE  LockInv'
    BY <1>9, ValuesAssumption DEF MkdirStaging
  <1>10. ASSUME NEW w \in Writers, WriteMarker(w)
        PROVE  LockInv'
    BY <1>10, ValuesAssumption DEF WriteMarker
  <1>11. ASSUME NEW w \in Writers, PromoteFirst(w)
        PROVE  LockInv'
    BY <1>11, ValuesAssumption DEF PromoteFirst, RenameStagingToOutput
  <1>12. ASSUME NEW w \in Writers, MoveToBackup(w)
        PROVE  LockInv'
    BY <1>12, ValuesAssumption DEF MoveToBackup
  <1>13. ASSUME NEW w \in Writers, Install(w)
        PROVE  LockInv'
    BY <1>13, ValuesAssumption DEF Install, RenameStagingToOutput
  <1>14. ASSUME NEW w \in Writers, Restore(w)
        PROVE  LockInv'
    BY <1>14, ValuesAssumption DEF Restore
  <1>15. ASSUME NEW w \in Writers, RestoreFails(w)
        PROVE  LockInv'
    BY <1>15, ValuesAssumption DEF RestoreFails, KeepBackup
  <1>16. ASSUME NEW w \in Writers, DropBackupDir(w)
        PROVE  LockInv'
    BY <1>16, ValuesAssumption DEF DropBackupDir
  <1>17. ASSUME NEW w \in Writers, DropBackupFails(w)
        PROVE  LockInv'
    BY <1>17, ValuesAssumption DEF DropBackupFails, KeepBackup
  <1>18. ASSUME NEW w \in Writers, SweepStaging(w)
        PROVE  LockInv'
    BY <1>18, ValuesAssumption DEF SweepStaging
  <1>19. ASSUME NEW w \in Writers, SweepStagingDir(w)
        PROVE  LockInv'
    BY <1>19, ValuesAssumption DEF SweepStagingDir
  <1>20. ASSUME NEW w \in Writers, SweepStagingFails(w)
        PROVE  LockInv'
    BY <1>20, ValuesAssumption DEF SweepStagingFails
  <1>21. ASSUME NEW w \in Writers, SweepBackup(w)
        PROVE  LockInv'
    BY <1>21, ValuesAssumption DEF SweepBackup
  <1>22. ASSUME NEW w \in Writers, ReadOwner(w)
        PROVE  LockInv'
    BY <1>22, ValuesAssumption DEF ReadOwner
  <1>23. ASSUME NEW w \in Writers, Crash(w)
        PROVE  LockInv'
    BY <1>23, ValuesAssumption DEF Crash, Live
  <1>24. ASSUME NEW w \in Writers, NEW n \in Names, WriteFile(w, n)
        PROVE  LockInv'
    BY <1>24, ValuesAssumption DEF WriteFile
  <1>25. ASSUME NEW w \in Writers, NEW n \in Names, WriteFileFails(w, n)
        PROVE  LockInv'
    BY <1>25, ValuesAssumption DEF WriteFileFails
  <1>26. ASSUME NEW w \in Writers, NEW e \in Entries, DropBackupEntry(w, e)
        PROVE  LockInv'
    BY <1>26, ValuesAssumption DEF DropBackupEntry
  <1>27. CASE RemoveLock
    BY <1>27 DEF RemoveLock
  <1>28. CASE AddForeign
    BY <1>28 DEF AddForeign
  <1>29. CASE AllEnded \/ UNCHANGED vars
    BY <1>29 DEF AllEnded, vars
  <1> QED
    BY <1>1, <1>2, <1>3, <1>4, <1>5, <1>6, <1>7, <1>8, <1>9, <1>10, <1>11, <1>12, <1>13, <1>14, <1>15, <1>16, <1>17, <1>18, <1>19, <1>20, <1>21, <1>22, <1>23, <1>24, <1>25, <1>26, <1>27, <1>28, <1>29
       DEF Next, Advance, Acquire, Stage, Promote, Finally

\* Under an operator who clears only the locks of dead writers, no two writers
\* are ever between validation and the end of the swap at the same time.
THEOREM Exclusion ==
  ASSUME Operator # "careless"
  PROVE  Spec => []MutualExclusion
  <1>1. Init => LockInv
    BY DEF Init, LockInv, Holder, InSection, Ended
  <1>2. TypeOK /\ LockInv /\ [Next]_vars => LockInv'
    BY LockStep
  <1>3. LockInv => MutualExclusion
    BY DEF LockInv, MutualExclusion, InSection, Holder, Ended
  <1> QED
    BY <1>1, <1>2, <1>3, TypeCorrect, PTL DEF Spec

-----------------------------------------------------------------------------
(* Whole generations *)

LEMMA BodyOfGeneration ==
  ASSUME NEW w \in Writers
  PROVE  Body(Generation(w)) = Generation(w)
  <1>1. Generation(w) # Absent
    BY GenerationType, ValuesAssumption DEF Gens
  <1>2. DOMAIN Generation(w) \ {Foreign} = DOMAIN Generation(w)
    BY InputsAssumption, NamesAssumption DEF Generation, Gens
  <1>3. EntriesOf(Generation(w)) = DOMAIN Generation(w)
    BY <1>1 DEF EntriesOf
  <1> QED
    BY <1>2, <1>3 DEF Body, Generation

\* The bodies the output may ever show.
Known == {Generation(w) : w \in Writers}
         \cup {Body(d) : d \in StartOutputs} \cup {EmptyDir}

Files(w, S) == [e \in S |-> w]

\* What is in staging at each step, and that a directory about to be put back
\* is whole.  None of it mentions the lock: a directory becomes the output by
\* one rename, and nothing writes into it any more when it does.
StagingWhole(w) ==
  /\ pc[w] = "write" =>
       /\ pending[w] \subseteq Formats[w]
       /\ staging[w] = Files(w, Formats[w] \ pending[w])
  /\ pc[w] = "mark" =>
       pending[w] = {} /\ staging[w] = Files(w, Formats[w])
  /\ pc[w] \in {"promote", "install"} =>
       pending[w] = {} /\ staging[w] = Generation(w)
  /\ pc[w] \in {"install", "restore"} => Body(backup[w]) \in Known
WholeInv ==
  Body(output) \in Known /\ \A w \in Writers : StagingWhole(w)

LEMMA WholeStep ==
  ASSUME TypeInv, WholeInv, [Next]_vars
  PROVE  WholeInv'
  <1> USE DEF TypeInv, TypeOK, WholeInv, StagingWhole, Goto, Abort, disk, locals, history
  <1>1. ASSUME NEW w \in Writers, MkdirLock(w)
        PROVE  WholeInv'
    BY <1>1 DEF MkdirLock
  <1>2. ASSUME NEW w \in Writers, WriteOwner(w)
        PROVE  WholeInv'
    BY <1>2 DEF WriteOwner
  <1>3. ASSUME NEW w \in Writers, WriteOwnerFails(w)
        PROVE  WholeInv'
    BY <1>3 DEF WriteOwnerFails
  <1>4. ASSUME NEW w \in Writers, RmLockEntries(w)
        PROVE  WholeInv'
    <2>1. /\ UNCHANGED <<output, backup, staging, pending>>
          /\ pc'[w] \in {"undo_rmdir", "unlock_rmdir"}
          /\ \A v \in Writers : v # w => pc'[v] = pc[v]
      BY <1>4 DEF RmLockEntries
    <2>2. StagingWhole(w)'
      BY <2>1
    <2>3. ASSUME NEW v \in Writers, v # w
          PROVE  StagingWhole(v)'
      BY <2>1, <2>3
    <2> QED
      BY <2>1, <2>2, <2>3
  <1>5. ASSUME NEW w \in Writers, RmLockDir(w)
        PROVE  WholeInv'
    <2>1. /\ UNCHANGED <<output, backup, staging, pending>>
          /\ pc'[w] \in {"sweep", "done"}
          /\ \A v \in Writers : v # w => pc'[v] = pc[v]
      BY <1>5 DEF RmLockDir
    <2>2. StagingWhole(w)'
      BY <2>1
    <2>3. ASSUME NEW v \in Writers, v # w
          PROVE  StagingWhole(v)'
      BY <2>1, <2>3
    <2> QED
      BY <2>1, <2>2, <2>3
  <1>6. ASSUME NEW w \in Writers, ReleaseFails(w)
        PROVE  WholeInv'
    BY <1>6 DEF ReleaseFails
  <1>7. ASSUME NEW w \in Writers, GiveUp(w)
        PROVE  WholeInv'
    <2>1. /\ UNCHANGED <<output, backup, staging, pending>>
          /\ pc'[w] = "sweep" \/ (pc[w] = "install" /\ pc'[w] = "restore")
          /\ \A v \in Writers : v # w => pc'[v] = pc[v]
      BY <1>7 DEF GiveUp
    <2>2. StagingWhole(w)'
      BY <2>1
    <2>3. ASSUME NEW v \in Writers, v # w
          PROVE  StagingWhole(v)'
      BY <2>1, <2>3
    <2> QED
      BY <2>1, <2>2, <2>3
  <1>8. ASSUME NEW w \in Writers, ValidateExistingOutput(w)
        PROVE  WholeInv'
    BY <1>8 DEF ValidateExistingOutput
  <1>9. ASSUME NEW w \in Writers, MkdirStaging(w)
        PROVE  WholeInv'
    <2>1. EmptyDir = Files(w, Formats[w] \ Formats[w])
      BY DEF EmptyDir, Files
    <2>2. /\ UNCHANGED <<output, backup>>
          /\ pc'[w] = "write" /\ pending'[w] = Formats[w] /\ staging'[w] = EmptyDir
      BY <1>9 DEF MkdirStaging
    <2>3. StagingWhole(w)'
      BY <2>1, <2>2
    <2>4. ASSUME NEW v \in Writers, v # w
          PROVE  StagingWhole(v)'
      <3>1. UNCHANGED <<pc[v], staging[v], pending[v], backup>>
        BY <1>9, <2>4 DEF MkdirStaging
      <3> QED BY <3>1
    <2> QED
      BY <2>2, <2>3, <2>4
  <1>10. ASSUME NEW w \in Writers, WriteMarker(w)
        PROVE  WholeInv'
    <2>1. With(Files(w, Formats[w]), Marker, w) = Generation(w)
      BY DEF With, Generation, Files
    <2> QED
      BY <1>10, <2>1 DEF WriteMarker
  <1>11. ASSUME NEW w \in Writers, PromoteFirst(w)
        PROVE  WholeInv'
    <2>1. Body(output') = Generation(w)
      BY <1>11, BodyOfGeneration DEF PromoteFirst, RenameStagingToOutput
    <2>2. Body(output') \in Known
      BY <2>1 DEF Known
    <2> QED
      BY <1>11, <2>2 DEF PromoteFirst, RenameStagingToOutput
  <1>12. ASSUME NEW w \in Writers, MoveToBackup(w)
        PROVE  WholeInv'
    <2>1. Body(output') \in Known
      BY <1>12, BodyOfNothing DEF MoveToBackup, Known
    <2> QED
      BY <1>12, <2>1 DEF MoveToBackup
  <1>13. ASSUME NEW w \in Writers, Install(w)
        PROVE  WholeInv'
    <2>1. Body(output') = Generation(w)
      BY <1>13, BodyOfGeneration DEF Install, RenameStagingToOutput
    <2>2. Body(output') \in Known
      BY <2>1 DEF Known
    <2> QED
      BY <1>13, <2>2 DEF Install, RenameStagingToOutput
  <1>14. ASSUME NEW w \in Writers, Restore(w)
        PROVE  WholeInv'
    BY <1>14 DEF Restore
  <1>15. ASSUME NEW w \in Writers, RestoreFails(w)
        PROVE  WholeInv'
    BY <1>15 DEF RestoreFails, KeepBackup
  <1>16. ASSUME NEW w \in Writers, DropBackupDir(w)
        PROVE  WholeInv'
    BY <1>16 DEF DropBackupDir
  <1>17. ASSUME NEW w \in Writers, DropBackupFails(w)
        PROVE  WholeInv'
    BY <1>17 DEF DropBackupFails, KeepBackup
  <1>18. ASSUME NEW w \in Writers, SweepStaging(w)
        PROVE  WholeInv'
    BY <1>18 DEF SweepStaging
  <1>19. ASSUME NEW w \in Writers, SweepStagingDir(w)
        PROVE  WholeInv'
    BY <1>19 DEF SweepStagingDir
  <1>20. ASSUME NEW w \in Writers, SweepStagingFails(w)
        PROVE  WholeInv'
    BY <1>20 DEF SweepStagingFails
  <1>21. ASSUME NEW w \in Writers, SweepBackup(w)
        PROVE  WholeInv'
    BY <1>21 DEF SweepBackup
  <1>22. ASSUME NEW w \in Writers, ReadOwner(w)
        PROVE  WholeInv'
    BY <1>22 DEF ReadOwner
  <1>23. ASSUME NEW w \in Writers, Crash(w)
        PROVE  WholeInv'
    BY <1>23 DEF Crash, Live
  <1>24. ASSUME NEW w \in Writers, NEW n \in Names, WriteFile(w, n)
        PROVE  WholeInv'
    <2>1. /\ pc[w] \notin {"mark", "promote", "install"}
          /\ n \in pending[w] /\ UNCHANGED <<output, backup>>
          /\ pending'[w] = pending[w] \ {n}
          /\ staging'[w] = With(staging[w], n, w)
          /\ pc'[w] = IF pc[w] = "write" /\ pending[w] = {n}
                      THEN "mark" ELSE pc[w]
      BY <1>24 DEF WriteFile
    <2>2. ASSUME NEW v \in Writers, v # w
          PROVE  UNCHANGED <<pc[v], staging[v], pending[v]>>
      BY <1>24, <2>2 DEF WriteFile
    <2>3. ASSUME pc[w] = "write"
          PROVE  staging'[w] = Files(w, Formats[w] \ pending'[w])
      <3>1. n \in Formats[w]
        BY <2>1, <2>3
      <3>2. With(Files(w, Formats[w] \ pending[w]), n, w)
              = Files(w, Formats[w] \ (pending[w] \ {n}))
        BY <3>1 DEF With, Files
      <3> QED
        BY <2>1, <2>3, <3>2
    <2>4. Formats[w] \ {} = Formats[w]
      OBVIOUS
    <2>5. StagingWhole(w)'
      BY <2>1, <2>3, <2>4
    <2>6. ASSUME NEW v \in Writers, v # w
          PROVE  StagingWhole(v)'
      BY <2>1, <2>2, <2>6
    <2> QED
      BY <2>1, <2>5, <2>6
  <1>25. ASSUME NEW w \in Writers, NEW n \in Names, WriteFileFails(w, n)
        PROVE  WholeInv'
    <2>1. n \in pending[w] /\ UNCHANGED <<output, backup>>
      BY <1>25 DEF WriteFileFails
    <2>2. pc[w] \notin {"mark", "promote", "install"}
      BY <2>1
    <2>3. /\ pc'[w] \notin {"write", "mark", "promote", "install"}
          /\ pc'[w] = "restore" => pc[w] = "restore"
      BY <1>25, <2>2 DEF WriteFileFails
    <2>4. ASSUME NEW v \in Writers, v # w
          PROVE  UNCHANGED <<pc[v], staging[v], pending[v]>>
      BY <1>25, <2>4 DEF WriteFileFails
    <2> QED
      BY <2>1, <2>3, <2>4
  <1>26. ASSUME NEW w \in Writers, NEW e \in Entries, DropBackupEntry(w, e)
        PROVE  WholeInv'
    BY <1>26 DEF DropBackupEntry
  <1>27. CASE RemoveLock
    BY <1>27 DEF RemoveLock
  <1>28. CASE AddForeign
    <2>1. Body(output') = Body(output)
      BY <1>28, BodyIgnoresForeign, BodyOfNothing, EmptyDirType DEF AddForeign
    <2> QED
      BY <1>28, <2>1 DEF AddForeign
  <1>29. CASE AllEnded \/ UNCHANGED vars
    BY <1>29 DEF AllEnded, vars
  <1> QED
    BY <1>1, <1>2, <1>3, <1>4, <1>5, <1>6, <1>7, <1>8, <1>9, <1>10, <1>11, <1>12, <1>13, <1>14, <1>15, <1>16, <1>17, <1>18, <1>19, <1>20, <1>21, <1>22, <1>23, <1>24, <1>25, <1>26, <1>27, <1>28, <1>29
       DEF Next, Advance, Acquire, Stage, Promote, Finally

\* The output never mixes files of different generations, whoever removes
\* locks, whatever is refused and whoever crashes.
THEOREM OutputIsWhole == Spec => []WholeGeneration
  <1>1. Init => WholeInv
    <2> SUFFICES ASSUME Init PROVE WholeInv
      OBVIOUS
    <2>1. Body(output) \in Known
      BY DEF Init, Known
    <2> QED
      BY <2>1 DEF Init, WholeInv, StagingWhole
  <1>2. TypeInv /\ WholeInv /\ [Next]_vars => WholeInv'
    BY WholeStep
  <1>3. WholeInv => WholeGeneration
    BY DEF WholeInv, WholeGeneration, Known
  <1> QED
    BY <1>1, <1>2, <1>3, TypeInit, TypeStep, PTL DEF Spec

-----------------------------------------------------------------------------
(* The latest generation is never lost *)

\* The backups no step empties: that of a writer which may still put it back,
\* which has decided to keep it, or which is dead.
Kept(w) == pc[w] \in {"install", "restore", "crashed"} \/ preserveBackup[w]

RecoverInv ==
  /\ \/ latest = EmptyDir
     \/ Body(output) = latest
     \/ \E w \in Writers : Kept(w) /\ Body(backup[w]) = latest
  /\ \A w \in Writers : preserveBackup[w] =>
       pc[w] \in {"sweep", "sweep_rmdir", "sweep_backup", "release", "unlock",
                  "unlock_rmdir", "done", "crashed"}

LEMMA RecoverStep ==
  ASSUME TypeInv, RecoverInv, [Next]_vars
  PROVE  RecoverInv'
  <1> USE DEF TypeInv, TypeOK, RecoverInv, Kept, Goto, Abort, disk, locals,
              history
  <1>1. ASSUME NEW w \in Writers, MkdirLock(w)
        PROVE  RecoverInv'
    BY <1>1 DEF MkdirLock
  <1>2. ASSUME NEW w \in Writers, WriteOwner(w)
        PROVE  RecoverInv'
    BY <1>2 DEF WriteOwner
  <1>3. ASSUME NEW w \in Writers, WriteOwnerFails(w)
        PROVE  RecoverInv'
    BY <1>3 DEF WriteOwnerFails
  <1>4. ASSUME NEW w \in Writers, RmLockEntries(w)
        PROVE  RecoverInv'
    BY <1>4 DEF RmLockEntries
  <1>5. ASSUME NEW w \in Writers, RmLockDir(w)
        PROVE  RecoverInv'
    BY <1>5 DEF RmLockDir
  <1>6. ASSUME NEW w \in Writers, ReleaseFails(w)
        PROVE  RecoverInv'
    BY <1>6 DEF ReleaseFails
  <1>7. ASSUME NEW w \in Writers, GiveUp(w)
        PROVE  RecoverInv'
    BY <1>7 DEF GiveUp
  <1>8. ASSUME NEW w \in Writers, ValidateExistingOutput(w)
        PROVE  RecoverInv'
    BY <1>8 DEF ValidateExistingOutput
  <1>9. ASSUME NEW w \in Writers, MkdirStaging(w)
        PROVE  RecoverInv'
    BY <1>9 DEF MkdirStaging
  <1>10. ASSUME NEW w \in Writers, WriteMarker(w)
        PROVE  RecoverInv'
    BY <1>10 DEF WriteMarker
  <1>11. ASSUME NEW w \in Writers, PromoteFirst(w)
        PROVE  RecoverInv'
    BY <1>11 DEF PromoteFirst, RenameStagingToOutput
  <1>12. ASSUME NEW w \in Writers, MoveToBackup(w)
        PROVE  RecoverInv'
    <2>1. CASE Body(output) = latest
      <3>1. Kept(w)' /\ Body(backup'[w]) = latest'
        BY <1>12, <2>1 DEF MoveToBackup
      <3> QED
        BY <1>12, <3>1 DEF MoveToBackup
    <2>2. CASE Body(output) # latest
      BY <1>12, <2>2 DEF MoveToBackup
    <2> QED
      BY <2>1, <2>2
  <1>13. ASSUME NEW w \in Writers, Install(w)
        PROVE  RecoverInv'
    BY <1>13 DEF Install, RenameStagingToOutput
  <1>14. ASSUME NEW w \in Writers, Restore(w)
        PROVE  RecoverInv'
    <2>1. Body(output) = EmptyDir
      BY <1>14, BodyOfFree DEF Restore
    <2> QED
      BY <1>14, <2>1 DEF Restore
  <1>15. ASSUME NEW w \in Writers, RestoreFails(w)
        PROVE  RecoverInv'
    BY <1>15 DEF RestoreFails, KeepBackup
  <1>16. ASSUME NEW w \in Writers, DropBackupDir(w)
        PROVE  RecoverInv'
    BY <1>16 DEF DropBackupDir
  <1>17. ASSUME NEW w \in Writers, DropBackupFails(w)
        PROVE  RecoverInv'
    BY <1>17 DEF DropBackupFails, KeepBackup
  <1>18. ASSUME NEW w \in Writers, SweepStaging(w)
        PROVE  RecoverInv'
    BY <1>18 DEF SweepStaging
  <1>19. ASSUME NEW w \in Writers, SweepStagingDir(w)
        PROVE  RecoverInv'
    BY <1>19 DEF SweepStagingDir
  <1>20. ASSUME NEW w \in Writers, SweepStagingFails(w)
        PROVE  RecoverInv'
    BY <1>20 DEF SweepStagingFails
  <1>21. ASSUME NEW w \in Writers, SweepBackup(w)
        PROVE  RecoverInv'
    BY <1>21 DEF SweepBackup
  <1>22. ASSUME NEW w \in Writers, ReadOwner(w)
        PROVE  RecoverInv'
    BY <1>22 DEF ReadOwner
  <1>23. ASSUME NEW w \in Writers, Crash(w)
        PROVE  RecoverInv'
    BY <1>23 DEF Crash, Live
  <1>24. ASSUME NEW w \in Writers, NEW n \in Names, WriteFile(w, n)
        PROVE  RecoverInv'
    BY <1>24 DEF WriteFile
  <1>25. ASSUME NEW w \in Writers, NEW n \in Names, WriteFileFails(w, n)
        PROVE  RecoverInv'
    BY <1>25 DEF WriteFileFails
  <1>26. ASSUME NEW w \in Writers, NEW e \in Entries, DropBackupEntry(w, e)
        PROVE  RecoverInv'
    BY <1>26 DEF DropBackupEntry
  <1>27. CASE RemoveLock
    BY <1>27 DEF RemoveLock
  <1>28. CASE AddForeign
    <2>1. Body(output') = Body(output)
      BY <1>28, BodyIgnoresForeign, BodyOfNothing, EmptyDirType DEF AddForeign
    <2> QED
      BY <1>28, <2>1 DEF AddForeign
  <1>29. CASE AllEnded \/ UNCHANGED vars
    BY <1>29 DEF AllEnded, vars
  <1> QED
    BY <1>1, <1>2, <1>3, <1>4, <1>5, <1>6, <1>7, <1>8, <1>9, <1>10, <1>11, <1>12, <1>13, <1>14, <1>15, <1>16, <1>17, <1>18, <1>19, <1>20, <1>21, <1>22, <1>23, <1>24, <1>25, <1>26, <1>27, <1>28, <1>29
       DEF Next, Advance, Acquire, Stage, Promote, Finally

\* The generation installed last survives in the output or in a backup, with
\* any operator, refused calls and crashes.
THEOREM LatestSurvives == Spec => []LatestRecoverable
  <1>1. Init => RecoverInv
    BY DEF Init, RecoverInv
  <1>2. TypeInv /\ RecoverInv /\ [Next]_vars => RecoverInv'
    BY RecoverStep
  <1>3. RecoverInv => LatestRecoverable
    BY DEF RecoverInv, LatestRecoverable
  <1> QED
    BY <1>1, <1>2, <1>3, TypeInit, TypeStep, PTL DEF Spec

-----------------------------------------------------------------------------
(* Results *)

\* How far a call's result, its installation and its preserved backup agree at
\* each step.  HonestResult alone says nothing before the call is done.
ResultInv ==
  \A w \in Writers :
    /\ pc[w] \in {"start", "own", "validate", "stage", "write", "mark",
                  "promote", "install"}
         => result[w] = "none" /\ w \notin installed
    /\ pc[w] = "drop" => result[w] = "none" /\ w \in installed
    /\ pc[w] \in {"undo", "undo_rmdir", "restore"}
         => result[w] = "error" /\ w \notin installed
    /\ pc[w] \in {"sweep", "sweep_rmdir", "sweep_backup", "release", "unlock",
                  "unlock_rmdir", "done"}
         => \/ result[w] = "ok" /\ w \in installed
            \/ result[w] = "error" /\ (w \in installed => preserveBackup[w])

LEMMA ResultStep ==
  ASSUME TypeOK, ResultInv, [Next]_vars
  PROVE  ResultInv'
  <1> USE DEF TypeOK, ResultInv, Goto, Abort, disk, locals, history
  <1>1. ASSUME NEW w \in Writers, MkdirLock(w)
        PROVE  ResultInv'
    BY <1>1 DEF MkdirLock
  <1>2. ASSUME NEW w \in Writers, WriteOwner(w)
        PROVE  ResultInv'
    BY <1>2 DEF WriteOwner
  <1>3. ASSUME NEW w \in Writers, WriteOwnerFails(w)
        PROVE  ResultInv'
    BY <1>3 DEF WriteOwnerFails
  <1>4. ASSUME NEW w \in Writers, RmLockEntries(w)
        PROVE  ResultInv'
    BY <1>4 DEF RmLockEntries
  <1>5. ASSUME NEW w \in Writers, RmLockDir(w)
        PROVE  ResultInv'
    BY <1>5 DEF RmLockDir
  <1>6. ASSUME NEW w \in Writers, ReleaseFails(w)
        PROVE  ResultInv'
    BY <1>6 DEF ReleaseFails
  <1>7. ASSUME NEW w \in Writers, GiveUp(w)
        PROVE  ResultInv'
    BY <1>7 DEF GiveUp
  <1>8. ASSUME NEW w \in Writers, ValidateExistingOutput(w)
        PROVE  ResultInv'
    BY <1>8 DEF ValidateExistingOutput
  <1>9. ASSUME NEW w \in Writers, MkdirStaging(w)
        PROVE  ResultInv'
    BY <1>9 DEF MkdirStaging
  <1>10. ASSUME NEW w \in Writers, WriteMarker(w)
        PROVE  ResultInv'
    BY <1>10 DEF WriteMarker
  <1>11. ASSUME NEW w \in Writers, PromoteFirst(w)
        PROVE  ResultInv'
    BY <1>11 DEF PromoteFirst, RenameStagingToOutput
  <1>12. ASSUME NEW w \in Writers, MoveToBackup(w)
        PROVE  ResultInv'
    BY <1>12 DEF MoveToBackup
  <1>13. ASSUME NEW w \in Writers, Install(w)
        PROVE  ResultInv'
    BY <1>13 DEF Install, RenameStagingToOutput
  <1>14. ASSUME NEW w \in Writers, Restore(w)
        PROVE  ResultInv'
    BY <1>14 DEF Restore
  <1>15. ASSUME NEW w \in Writers, RestoreFails(w)
        PROVE  ResultInv'
    BY <1>15 DEF RestoreFails, KeepBackup
  <1>16. ASSUME NEW w \in Writers, DropBackupDir(w)
        PROVE  ResultInv'
    BY <1>16 DEF DropBackupDir
  <1>17. ASSUME NEW w \in Writers, DropBackupFails(w)
        PROVE  ResultInv'
    BY <1>17 DEF DropBackupFails, KeepBackup
  <1>18. ASSUME NEW w \in Writers, SweepStaging(w)
        PROVE  ResultInv'
    BY <1>18 DEF SweepStaging
  <1>19. ASSUME NEW w \in Writers, SweepStagingDir(w)
        PROVE  ResultInv'
    BY <1>19 DEF SweepStagingDir
  <1>20. ASSUME NEW w \in Writers, SweepStagingFails(w)
        PROVE  ResultInv'
    BY <1>20 DEF SweepStagingFails
  <1>21. ASSUME NEW w \in Writers, SweepBackup(w)
        PROVE  ResultInv'
    BY <1>21 DEF SweepBackup
  <1>22. ASSUME NEW w \in Writers, ReadOwner(w)
        PROVE  ResultInv'
    BY <1>22 DEF ReadOwner
  <1>23. ASSUME NEW w \in Writers, Crash(w)
        PROVE  ResultInv'
    BY <1>23 DEF Crash, Live
  <1>24. ASSUME NEW w \in Writers, NEW n \in Names, WriteFile(w, n)
        PROVE  ResultInv'
    BY <1>24 DEF WriteFile
  <1>25. ASSUME NEW w \in Writers, NEW n \in Names, WriteFileFails(w, n)
        PROVE  ResultInv'
    BY <1>25 DEF WriteFileFails
  <1>26. ASSUME NEW w \in Writers, NEW e \in Entries, DropBackupEntry(w, e)
        PROVE  ResultInv'
    BY <1>26 DEF DropBackupEntry
  <1>27. CASE RemoveLock
    BY <1>27 DEF RemoveLock
  <1>28. CASE AddForeign
    BY <1>28 DEF AddForeign
  <1>29. CASE AllEnded \/ UNCHANGED vars
    BY <1>29 DEF AllEnded, vars
  <1> QED
    BY <1>1, <1>2, <1>3, <1>4, <1>5, <1>6, <1>7, <1>8, <1>9, <1>10, <1>11, <1>12, <1>13, <1>14, <1>15, <1>16, <1>17, <1>18, <1>19, <1>20, <1>21, <1>22, <1>23, <1>24, <1>25, <1>26, <1>27, <1>28, <1>29
       DEF Next, Advance, Acquire, Stage, Promote, Finally

\* With any operator, refused calls and crashes, a call that reports success
\* has installed its files, and one that reports an error has not, unless it
\* kept the backup.
THEOREM ResultsHonest == Spec => []HonestResult
  <1>1. Init => ResultInv
    BY DEF Init, ResultInv
  <1>2. TypeOK /\ ResultInv /\ [Next]_vars => ResultInv'
    BY ResultStep
  <1>3. ResultInv => HonestResult
    BY DEF ResultInv, HonestResult
  <1> QED
    BY <1>1, <1>2, <1>3, TypeCorrect, PTL DEF Spec

-----------------------------------------------------------------------------
(* No orphan lock *)

\* Who stands behind the lock directory, by what it says: a writer that makes
\* or removes it, one whose owner.json failed, or the one it names.
BehindLock ==
  /\ lock = Unclaimed =>
       \E w \in Writers : pc[w] \in {"own", "undo", "undo_rmdir", "unlock_rmdir"}
  /\ lock = TornLock => \E w \in Writers : pc[w] = "undo"
  /\ \A w \in Writers : lock = w =>
       /\ ownsLock[w]
       /\ pc[w] \notin {"start", "own", "undo", "undo_rmdir", "unlock_rmdir",
                        "done", "crashed"}

OrphanInv ==
  /\ leaked # {} \/ BehindLock
  /\ \A w \in Writers : pc[w] \in {"unlock", "unlock_rmdir"} => ownsLock[w]

LEMMA OrphanStep ==
  ASSUME TypeOK, OrphanInv, [Next]_vars
  PROVE  OrphanInv'
  <1> USE ValuesAssumption
      DEF TypeOK, OrphanInv, BehindLock, Goto, Abort, disk, locals, history
  <1>1. ASSUME NEW w \in Writers, MkdirLock(w)
        PROVE  OrphanInv'
    BY <1>1 DEF MkdirLock
  <1>2. ASSUME NEW w \in Writers, WriteOwner(w)
        PROVE  OrphanInv'
    BY <1>2 DEF WriteOwner
  <1>3. ASSUME NEW w \in Writers, WriteOwnerFails(w)
        PROVE  OrphanInv'
    BY <1>3 DEF WriteOwnerFails
  <1>4. ASSUME NEW w \in Writers, RmLockEntries(w)
        PROVE  OrphanInv'
    BY <1>4 DEF RmLockEntries
  <1>5. ASSUME NEW w \in Writers, RmLockDir(w)
        PROVE  OrphanInv'
    BY <1>5 DEF RmLockDir
  <1>6. ASSUME NEW w \in Writers, ReleaseFails(w)
        PROVE  OrphanInv'
    BY <1>6 DEF ReleaseFails
  <1>7. ASSUME NEW w \in Writers, GiveUp(w)
        PROVE  OrphanInv'
    BY <1>7 DEF GiveUp
  <1>8. ASSUME NEW w \in Writers, ValidateExistingOutput(w)
        PROVE  OrphanInv'
    BY <1>8 DEF ValidateExistingOutput
  <1>9. ASSUME NEW w \in Writers, MkdirStaging(w)
        PROVE  OrphanInv'
    BY <1>9 DEF MkdirStaging
  <1>10. ASSUME NEW w \in Writers, WriteMarker(w)
        PROVE  OrphanInv'
    BY <1>10 DEF WriteMarker
  <1>11. ASSUME NEW w \in Writers, PromoteFirst(w)
        PROVE  OrphanInv'
    BY <1>11 DEF PromoteFirst, RenameStagingToOutput
  <1>12. ASSUME NEW w \in Writers, MoveToBackup(w)
        PROVE  OrphanInv'
    BY <1>12 DEF MoveToBackup
  <1>13. ASSUME NEW w \in Writers, Install(w)
        PROVE  OrphanInv'
    BY <1>13 DEF Install, RenameStagingToOutput
  <1>14. ASSUME NEW w \in Writers, Restore(w)
        PROVE  OrphanInv'
    BY <1>14 DEF Restore
  <1>15. ASSUME NEW w \in Writers, RestoreFails(w)
        PROVE  OrphanInv'
    BY <1>15 DEF RestoreFails, KeepBackup
  <1>16. ASSUME NEW w \in Writers, DropBackupDir(w)
        PROVE  OrphanInv'
    BY <1>16 DEF DropBackupDir
  <1>17. ASSUME NEW w \in Writers, DropBackupFails(w)
        PROVE  OrphanInv'
    BY <1>17 DEF DropBackupFails, KeepBackup
  <1>18. ASSUME NEW w \in Writers, SweepStaging(w)
        PROVE  OrphanInv'
    BY <1>18 DEF SweepStaging
  <1>19. ASSUME NEW w \in Writers, SweepStagingDir(w)
        PROVE  OrphanInv'
    BY <1>19 DEF SweepStagingDir
  <1>20. ASSUME NEW w \in Writers, SweepStagingFails(w)
        PROVE  OrphanInv'
    BY <1>20 DEF SweepStagingFails
  <1>21. ASSUME NEW w \in Writers, SweepBackup(w)
        PROVE  OrphanInv'
    BY <1>21 DEF SweepBackup
  <1>22. ASSUME NEW w \in Writers, ReadOwner(w)
        PROVE  OrphanInv'
    BY <1>22 DEF ReadOwner
  <1>23. ASSUME NEW w \in Writers, Crash(w)
        PROVE  OrphanInv'
    BY <1>23 DEF Crash, Live
  <1>24. ASSUME NEW w \in Writers, NEW n \in Names, WriteFile(w, n)
        PROVE  OrphanInv'
    BY <1>24 DEF WriteFile
  <1>25. ASSUME NEW w \in Writers, NEW n \in Names, WriteFileFails(w, n)
        PROVE  OrphanInv'
    BY <1>25 DEF WriteFileFails
  <1>26. ASSUME NEW w \in Writers, NEW e \in Entries, DropBackupEntry(w, e)
        PROVE  OrphanInv'
    BY <1>26 DEF DropBackupEntry
  <1>27. CASE RemoveLock
    BY <1>27 DEF RemoveLock
  <1>28. CASE AddForeign
    BY <1>28 DEF AddForeign
  <1>29. CASE AllEnded \/ UNCHANGED vars
    BY <1>29 DEF AllEnded, vars
  <1> QED
    BY <1>1, <1>2, <1>3, <1>4, <1>5, <1>6, <1>7, <1>8, <1>9, <1>10, <1>11, <1>12, <1>13, <1>14, <1>15, <1>16, <1>17, <1>18, <1>19, <1>20, <1>21, <1>22, <1>23, <1>24, <1>25, <1>26, <1>27, <1>28, <1>29
       DEF Next, Advance, Acquire, Stage, Promote, Finally

\* A lock directory nobody stands behind was left by a crash or by a removal
\* that was refused, with any operator, even a careless one.
THEOREM LocksReleased == Spec => []NoOrphanLock
  <1>1. Init => OrphanInv
    BY ValuesAssumption DEF Init, OrphanInv, BehindLock
  <1>2. TypeOK /\ OrphanInv /\ [Next]_vars => OrphanInv'
    BY OrphanStep
  <1>3. TypeOK /\ OrphanInv => NoOrphanLock
    BY DEF TypeOK, OrphanInv, BehindLock, NoOrphanLock, Holder, Ended
  <1> QED
    BY <1>1, <1>2, <1>3, TypeCorrect, PTL DEF Spec

-----------------------------------------------------------------------------
(* Foreign entries *)

Validated(w) == pc[w] \in {"stage", "write", "mark", "promote"}

\* Unless a foreign entry came late, it is in the output only, and no writer
\* has validated an output that holds one.
ForeignInv ==
  /\ \A w \in Writers : Foreign \notin EntriesOf(staging[w])
  /\ ~late => \A w \in Writers :
       /\ Foreign \notin EntriesOf(backup[w])
       /\ Foreign \in EntriesOf(output) => ~Validated(w)

ForeignStays ==
  ~late /\ Foreign \in EntriesOf(output) => Foreign \in EntriesOf(output')

LEMMA EntriesWith ==
  ASSUME NEW d \in Directories, NEW e \in Entries, NEW origin \in Origins
  PROVE  EntriesOf(With(d, e, origin)) = EntriesOf(d) \cup {e}
  <1>1. With(d, e, origin) # Absent /\ d # Absent
    BY WithType, ValuesAssumption
  <1> QED
    BY <1>1 DEF EntriesOf, With

LEMMA EntriesWithout ==
  ASSUME NEW d \in Directories, NEW e
  PROVE  EntriesOf(Without(d, e)) = EntriesOf(d) \ {e}
  <1>1. Without(d, e) # Absent /\ d # Absent
    BY WithoutType, ValuesAssumption
  <1> QED
    BY <1>1 DEF EntriesOf, Without

LEMMA EntriesOfNothing == EntriesOf(Absent) = {} /\ EntriesOf(EmptyDir) = {}
  BY DEF EntriesOf, EmptyDir

LEMMA ForeignStep ==
  ASSUME TypeInv, ForeignInv, [Next]_vars
  PROVE  ForeignInv' /\ ForeignStays
  <1> USE DEF TypeInv, TypeOK, Present, ForeignInv, ForeignStays, Validated,
              Goto, Abort, disk, locals, history
  <1>1. ASSUME NEW w \in Writers, MkdirLock(w)
        PROVE  ForeignInv' /\ ForeignStays
    BY <1>1 DEF MkdirLock
  <1>2. ASSUME NEW w \in Writers, WriteOwner(w)
        PROVE  ForeignInv' /\ ForeignStays
    BY <1>2 DEF WriteOwner
  <1>3. ASSUME NEW w \in Writers, WriteOwnerFails(w)
        PROVE  ForeignInv' /\ ForeignStays
    BY <1>3 DEF WriteOwnerFails
  <1>4. ASSUME NEW w \in Writers, RmLockEntries(w)
        PROVE  ForeignInv' /\ ForeignStays
    BY <1>4 DEF RmLockEntries
  <1>5. ASSUME NEW w \in Writers, RmLockDir(w)
        PROVE  ForeignInv' /\ ForeignStays
    BY <1>5 DEF RmLockDir
  <1>6. ASSUME NEW w \in Writers, ReleaseFails(w)
        PROVE  ForeignInv' /\ ForeignStays
    BY <1>6 DEF ReleaseFails
  <1>7. ASSUME NEW w \in Writers, GiveUp(w)
        PROVE  ForeignInv' /\ ForeignStays
    BY <1>7 DEF GiveUp
  <1>8. ASSUME NEW w \in Writers, ValidateExistingOutput(w)
        PROVE  ForeignInv' /\ ForeignStays
    <2>1. Foreign \notin EntriesOf(output)
      BY <1>8 DEF ValidateExistingOutput, ValidOutput, EntriesOf
    <2> QED
      BY <1>8, <2>1 DEF ValidateExistingOutput
  <1>9. ASSUME NEW w \in Writers, MkdirStaging(w)
        PROVE  ForeignInv' /\ ForeignStays
    BY <1>9, EntriesOfNothing DEF MkdirStaging
  <1>10. ASSUME NEW w \in Writers, WriteMarker(w)
        PROVE  ForeignInv' /\ ForeignStays
    <2>1. Marker \in Entries /\ w \in Origins /\ Marker # Foreign
      BY NamesAssumption DEF Entries, Origins, Gens
    <2>2. staging[w] \in Directories
      BY <1>10 DEF WriteMarker
    <2>3. Foreign \notin EntriesOf(With(staging[w], Marker, w))
      BY <2>1, <2>2, EntriesWith
    <2> QED
      BY <1>10, <2>3 DEF WriteMarker
  <1>11. ASSUME NEW w \in Writers, PromoteFirst(w)
        PROVE  ForeignInv' /\ ForeignStays
    <2>1. Foreign \notin EntriesOf(output)
      BY <1>11 DEF PromoteFirst, RenameStagingToOutput, Free
    <2> QED
      BY <1>11, <2>1, EntriesOfNothing DEF PromoteFirst, RenameStagingToOutput
  <1>12. ASSUME NEW w \in Writers, MoveToBackup(w)
        PROVE  ForeignInv' /\ ForeignStays
    <2>1. ~late => Foreign \notin EntriesOf(output)
      BY <1>12 DEF MoveToBackup
    <2> QED
      BY <1>12, <2>1, EntriesOfNothing DEF MoveToBackup
  <1>13. ASSUME NEW w \in Writers, Install(w)
        PROVE  ForeignInv' /\ ForeignStays
    <2>1. Foreign \notin EntriesOf(output)
      BY <1>13 DEF Install, RenameStagingToOutput, Free
    <2> QED
      BY <1>13, <2>1, EntriesOfNothing DEF Install, RenameStagingToOutput
  <1>14. ASSUME NEW w \in Writers, Restore(w)
        PROVE  ForeignInv' /\ ForeignStays
    <2>1. Foreign \notin EntriesOf(output)
      BY <1>14 DEF Restore, Free
    <2> QED
      BY <1>14, <2>1, EntriesOfNothing DEF Restore
  <1>15. ASSUME NEW w \in Writers, RestoreFails(w)
        PROVE  ForeignInv' /\ ForeignStays
    BY <1>15 DEF RestoreFails, KeepBackup
  <1>16. ASSUME NEW w \in Writers, DropBackupDir(w)
        PROVE  ForeignInv' /\ ForeignStays
    BY <1>16, EntriesOfNothing DEF DropBackupDir
  <1>17. ASSUME NEW w \in Writers, DropBackupFails(w)
        PROVE  ForeignInv' /\ ForeignStays
    BY <1>17 DEF DropBackupFails, KeepBackup
  <1>18. ASSUME NEW w \in Writers, SweepStaging(w)
        PROVE  ForeignInv' /\ ForeignStays
    BY <1>18, EntriesOfNothing DEF SweepStaging
  <1>19. ASSUME NEW w \in Writers, SweepStagingDir(w)
        PROVE  ForeignInv' /\ ForeignStays
    BY <1>19, EntriesOfNothing DEF SweepStagingDir
  <1>20. ASSUME NEW w \in Writers, SweepStagingFails(w)
        PROVE  ForeignInv' /\ ForeignStays
    BY <1>20 DEF SweepStagingFails
  <1>21. ASSUME NEW w \in Writers, SweepBackup(w)
        PROVE  ForeignInv' /\ ForeignStays
    BY <1>21, EntriesOfNothing DEF SweepBackup
  <1>22. ASSUME NEW w \in Writers, ReadOwner(w)
        PROVE  ForeignInv' /\ ForeignStays
    BY <1>22 DEF ReadOwner
  <1>23. ASSUME NEW w \in Writers, Crash(w)
        PROVE  ForeignInv' /\ ForeignStays
    BY <1>23 DEF Crash, Live
  <1>24. ASSUME NEW w \in Writers, NEW n \in Names, WriteFile(w, n)
        PROVE  ForeignInv' /\ ForeignStays
    <2>1. n \in Entries /\ w \in Origins /\ n # Foreign
      BY NamesAssumption DEF Entries, Origins, Gens
    <2>2. staging[w] \in Directories
      BY <1>24 DEF WriteFile
    <2>3. Foreign \notin EntriesOf(With(staging[w], n, w))
      BY <2>1, <2>2, EntriesWith
    <2> QED
      BY <1>24, <2>3 DEF WriteFile
  <1>25. ASSUME NEW w \in Writers, NEW n \in Names, WriteFileFails(w, n)
        PROVE  ForeignInv' /\ ForeignStays
    <2>1. n \in Entries /\ TornFile \in Origins /\ n # Foreign
      BY NamesAssumption DEF Entries, Origins
    <2>2. staging[w] # Absent
            => Foreign \notin EntriesOf(With(staging[w], n, TornFile))
      BY <2>1, EntriesWith
    <2> QED
      BY <1>25, <2>2 DEF WriteFileFails
  <1>26. ASSUME NEW w \in Writers, NEW e \in Entries, DropBackupEntry(w, e)
        PROVE  ForeignInv' /\ ForeignStays
    <2>1. backup[w] \in Directories
      BY <1>26 DEF DropBackupEntry
    <2>2. EntriesOf(Without(backup[w], e)) \subseteq EntriesOf(backup[w])
      BY <2>1, EntriesWithout
    <2> QED
      BY <1>26, <2>2 DEF DropBackupEntry
  <1>27. CASE RemoveLock
    BY <1>27 DEF RemoveLock
  <1>28. CASE AddForeign
    BY <1>28 DEF AddForeign
  <1>29. CASE AllEnded \/ UNCHANGED vars
    BY <1>29 DEF AllEnded, vars
  <1> QED
    BY <1>1, <1>2, <1>3, <1>4, <1>5, <1>6, <1>7, <1>8, <1>9, <1>10, <1>11, <1>12, <1>13, <1>14, <1>15, <1>16, <1>17, <1>18, <1>19, <1>20, <1>21, <1>22, <1>23, <1>24, <1>25, <1>26, <1>27, <1>28, <1>29
       DEF Next, Advance, Acquire, Stage, Promote, Finally

\* A foreign entry disappears only if it came after some writer's validation,
\* with any operator, refused calls and crashes.
THEOREM ForeignEntriesKept == Spec => ForeignKept
  <1>1. Init => ForeignInv
    BY DEF Init, ForeignInv, Validated, EntriesOf
  <1>2. TypeInv /\ ForeignInv /\ [Next]_vars => ForeignInv'
    BY ForeignStep
  <1>3. TypeInv /\ ForeignInv /\ [Next]_vars
          => [ForeignSomewhere /\ ~ForeignSomewhere' => late]_vars
    <2> SUFFICES ASSUME TypeInv, ForeignInv, [Next]_vars,
                        ForeignSomewhere, ~ForeignSomewhere', ~late
                 PROVE  FALSE
      OBVIOUS
    <2>1. Foreign \in EntriesOf(output)
      BY DEF ForeignInv, ForeignSomewhere
    <2>2. Foreign \in EntriesOf(output')
      BY <2>1, ForeignStep DEF ForeignStays
    <2> QED
      BY <2>2 DEF ForeignSomewhere, EntriesOf
  <1> QED
    BY <1>1, <1>2, <1>3, TypeInit, TypeStep, PTL DEF Spec, ForeignKept

-----------------------------------------------------------------------------
(* No residue *)

\* What the finally block has removed at each of its steps.  It rests on
\* Promise.all having waited for every write: while writes are in flight a
\* removal of staging may be undone.
ResidueInv ==
  \A w \in Writers :
    /\ pending[w] # {} => pc[w] = "write"
    /\ pc[w] = "sweep_rmdir" => staging[w] \in {Absent, EmptyDir}
    /\ pc[w] \in {"sweep_backup", "release", "unlock", "unlock_rmdir", "done"}
         => staging[w] = Absent
    /\ pc[w] \in {"release", "unlock", "unlock_rmdir", "done"}
         => (backup[w] # Absent => preserveBackup[w])

LEMMA ResidueStep ==
  ASSUME Faulty \cap {"write", "sweep", "sweep_rmdir", "sweep_backup"} = {},
         TypeInv, ResidueInv, [Next]_vars
  PROVE  ResidueInv'
  <1> USE DEF TypeInv, TypeOK, Present, ResidueInv, Goto, Abort, disk, locals,
              history
  <1>1. ASSUME NEW w \in Writers, MkdirLock(w)
        PROVE  ResidueInv'
    BY <1>1 DEF MkdirLock
  <1>2. ASSUME NEW w \in Writers, WriteOwner(w)
        PROVE  ResidueInv'
    BY <1>2 DEF WriteOwner
  <1>3. ASSUME NEW w \in Writers, WriteOwnerFails(w)
        PROVE  ResidueInv'
    BY <1>3 DEF WriteOwnerFails
  <1>4. ASSUME NEW w \in Writers, RmLockEntries(w)
        PROVE  ResidueInv'
    BY <1>4 DEF RmLockEntries
  <1>5. ASSUME NEW w \in Writers, RmLockDir(w)
        PROVE  ResidueInv'
    BY <1>5 DEF RmLockDir
  <1>6. ASSUME NEW w \in Writers, ReleaseFails(w)
        PROVE  ResidueInv'
    BY <1>6 DEF ReleaseFails
  <1>7. ASSUME NEW w \in Writers, GiveUp(w)
        PROVE  ResidueInv'
    BY <1>7 DEF GiveUp
  <1>8. ASSUME NEW w \in Writers, ValidateExistingOutput(w)
        PROVE  ResidueInv'
    BY <1>8 DEF ValidateExistingOutput
  <1>9. ASSUME NEW w \in Writers, MkdirStaging(w)
        PROVE  ResidueInv'
    BY <1>9 DEF MkdirStaging
  <1>10. ASSUME NEW w \in Writers, WriteMarker(w)
        PROVE  ResidueInv'
    BY <1>10 DEF WriteMarker
  <1>11. ASSUME NEW w \in Writers, PromoteFirst(w)
        PROVE  ResidueInv'
    BY <1>11 DEF PromoteFirst, RenameStagingToOutput
  <1>12. ASSUME NEW w \in Writers, MoveToBackup(w)
        PROVE  ResidueInv'
    BY <1>12 DEF MoveToBackup
  <1>13. ASSUME NEW w \in Writers, Install(w)
        PROVE  ResidueInv'
    BY <1>13 DEF Install, RenameStagingToOutput
  <1>14. ASSUME NEW w \in Writers, Restore(w)
        PROVE  ResidueInv'
    BY <1>14 DEF Restore
  <1>15. ASSUME NEW w \in Writers, RestoreFails(w)
        PROVE  ResidueInv'
    BY <1>15 DEF RestoreFails, KeepBackup
  <1>16. ASSUME NEW w \in Writers, DropBackupDir(w)
        PROVE  ResidueInv'
    BY <1>16 DEF DropBackupDir
  <1>17. ASSUME NEW w \in Writers, DropBackupFails(w)
        PROVE  ResidueInv'
    BY <1>17 DEF DropBackupFails, KeepBackup
  <1>18. ASSUME NEW w \in Writers, SweepStaging(w)
        PROVE  ResidueInv'
    BY <1>18 DEF SweepStaging
  <1>19. ASSUME NEW w \in Writers, SweepStagingDir(w)
        PROVE  ResidueInv'
    BY <1>19 DEF SweepStagingDir
  <1>20. ASSUME NEW w \in Writers, SweepStagingFails(w)
        PROVE  ResidueInv'
    BY <1>20 DEF SweepStagingFails
  <1>21. ASSUME NEW w \in Writers, SweepBackup(w)
        PROVE  ResidueInv'
    BY <1>21 DEF SweepBackup
  <1>22. ASSUME NEW w \in Writers, ReadOwner(w)
        PROVE  ResidueInv'
    BY <1>22 DEF ReadOwner
  <1>23. ASSUME NEW w \in Writers, Crash(w)
        PROVE  ResidueInv'
    BY <1>23 DEF Crash, Live
  <1>24. ASSUME NEW w \in Writers, NEW n \in Names, WriteFile(w, n)
        PROVE  ResidueInv'
    BY <1>24 DEF WriteFile
  <1>25. ASSUME NEW w \in Writers, NEW n \in Names, WriteFileFails(w, n)
        PROVE  ResidueInv'
    BY <1>25 DEF WriteFileFails
  <1>26. ASSUME NEW w \in Writers, NEW e \in Entries, DropBackupEntry(w, e)
        PROVE  ResidueInv'
    BY <1>26 DEF DropBackupEntry
  <1>27. CASE RemoveLock
    BY <1>27 DEF RemoveLock
  <1>28. CASE AddForeign
    BY <1>28 DEF AddForeign
  <1>29. CASE AllEnded \/ UNCHANGED vars
    BY <1>29 DEF AllEnded, vars
  <1> QED
    BY <1>1, <1>2, <1>3, <1>4, <1>5, <1>6, <1>7, <1>8, <1>9, <1>10, <1>11, <1>12, <1>13, <1>14, <1>15, <1>16, <1>17, <1>18, <1>19, <1>20, <1>21, <1>22, <1>23, <1>24, <1>25, <1>26, <1>27, <1>28, <1>29
       DEF Next, Advance, Acquire, Stage, Promote, Finally

\* When no write of a report file and no best-effort removal is refused, a
\* call that ends leaves no staging directory, and a backup only if it
\* preserves it, with any operator and whatever else is refused.
THEOREM NothingLeft ==
  ASSUME Faulty \cap {"write", "sweep", "sweep_rmdir", "sweep_backup"} = {}
  PROVE  Spec => []NoResidue
  <1>1. Init => ResidueInv
    BY DEF Init, ResidueInv
  <1>2. TypeInv /\ ResidueInv /\ [Next]_vars => ResidueInv'
    BY ResidueStep
  <1>3. ResidueInv => NoResidue
    BY DEF ResidueInv, NoResidue
  <1> QED
    BY <1>1, <1>2, <1>3, TypeInit, TypeStep, PTL DEF Spec

-----------------------------------------------------------------------------
(* Refinement *)

\* How the output and the backups relate to the latest generation while at
\* most one writer is in its section: an output a writer may move aside is the
\* latest generation, and so is the backup it may put back.
StoreInv ==
  /\ Body(output) \in {EmptyDir, latest}
  /\ output # Absent /\ Foreign \notin DOMAIN output => Body(output) = latest
  /\ \A w \in Writers :
       /\ pc[w] \in {"stage", "write", "mark", "promote"} /\ outputExists[w]
            => Body(output) = latest
       /\ pc[w] \in {"install", "restore"} => Body(backup[w]) = latest
       /\ w \in installed => ~InSection(w) \/ pc[w] = "drop"
       /\ w \in installed => pc[w] \notin {"start", "own", "undo", "undo_rmdir"}

\* StoreInv needs that no other writer is in its section.
Alone(w) == \A v \in Writers : InSection(v) => v = w

LEMMA AloneInSection ==
  ASSUME LockInv, NEW w \in Writers, InSection(w)
  PROVE  Alone(w)
  BY DEF Alone, LockInv, InSection, Holder, Ended

LEMMA StoreStep ==
  ASSUME TypeInv, WholeInv, LockInv, StoreInv, [Next]_vars
  PROVE  StoreInv'
  <1> USE DEF TypeInv, TypeOK, StoreInv, Goto, Abort, disk, locals, history,
              InSection
  <1>1. ASSUME NEW w \in Writers, MkdirLock(w)
        PROVE  StoreInv'
    BY <1>1 DEF MkdirLock
  <1>2. ASSUME NEW w \in Writers, WriteOwner(w)
        PROVE  StoreInv'
    BY <1>2 DEF WriteOwner
  <1>3. ASSUME NEW w \in Writers, WriteOwnerFails(w)
        PROVE  StoreInv'
    BY <1>3 DEF WriteOwnerFails
  <1>4. ASSUME NEW w \in Writers, RmLockEntries(w)
        PROVE  StoreInv'
    BY <1>4 DEF RmLockEntries
  <1>5. ASSUME NEW w \in Writers, RmLockDir(w)
        PROVE  StoreInv'
    BY <1>5 DEF RmLockDir
  <1>6. ASSUME NEW w \in Writers, ReleaseFails(w)
        PROVE  StoreInv'
    BY <1>6 DEF ReleaseFails
  <1>7. ASSUME NEW w \in Writers, GiveUp(w)
        PROVE  StoreInv'
    BY <1>7 DEF GiveUp
  <1>8. ASSUME NEW w \in Writers, ValidateExistingOutput(w)
        PROVE  StoreInv'
    <2>1. output # Absent => Body(output) = latest
      BY <1>8 DEF ValidateExistingOutput, ValidOutput
    <2> QED
      BY <1>8, <2>1 DEF ValidateExistingOutput
  <1>9. ASSUME NEW w \in Writers, MkdirStaging(w)
        PROVE  StoreInv'
    BY <1>9 DEF MkdirStaging
  <1>10. ASSUME NEW w \in Writers, WriteMarker(w)
        PROVE  StoreInv'
    BY <1>10 DEF WriteMarker
  <1>11. ASSUME NEW w \in Writers, PromoteFirst(w)
        PROVE  StoreInv'
    <2>1. Alone(w)
      BY <1>11, AloneInSection DEF PromoteFirst
    <2>2. Body(output') = latest'
      BY <1>11 DEF PromoteFirst, RenameStagingToOutput
    <2> QED
      BY <1>11, <2>1, <2>2 DEF PromoteFirst, RenameStagingToOutput, Alone
  <1>12. ASSUME NEW w \in Writers, MoveToBackup(w)
        PROVE  StoreInv'
    <2>1. Alone(w)
      BY <1>12, AloneInSection DEF MoveToBackup
    <2>2. Body(output') = EmptyDir /\ Body(backup'[w]) = latest
      BY <1>12, BodyOfNothing DEF MoveToBackup
    <2> QED
      BY <1>12, <2>1, <2>2 DEF MoveToBackup, Alone
  <1>13. ASSUME NEW w \in Writers, Install(w)
        PROVE  StoreInv'
    <2>1. Alone(w)
      BY <1>13, AloneInSection DEF Install
    <2>2. Body(output') = latest'
      BY <1>13 DEF Install, RenameStagingToOutput
    <2> QED
      BY <1>13, <2>1, <2>2 DEF Install, RenameStagingToOutput, Alone
  <1>14. ASSUME NEW w \in Writers, Restore(w)
        PROVE  StoreInv'
    <2>1. Alone(w)
      BY <1>14, AloneInSection DEF Restore
    <2>2. Body(output') = latest
      BY <1>14 DEF Restore
    <2> QED
      BY <1>14, <2>1, <2>2 DEF Restore, Alone
  <1>15. ASSUME NEW w \in Writers, RestoreFails(w)
        PROVE  StoreInv'
    BY <1>15 DEF RestoreFails, KeepBackup
  <1>16. ASSUME NEW w \in Writers, DropBackupDir(w)
        PROVE  StoreInv'
    BY <1>16 DEF DropBackupDir
  <1>17. ASSUME NEW w \in Writers, DropBackupFails(w)
        PROVE  StoreInv'
    BY <1>17 DEF DropBackupFails, KeepBackup
  <1>18. ASSUME NEW w \in Writers, SweepStaging(w)
        PROVE  StoreInv'
    BY <1>18 DEF SweepStaging
  <1>19. ASSUME NEW w \in Writers, SweepStagingDir(w)
        PROVE  StoreInv'
    BY <1>19 DEF SweepStagingDir
  <1>20. ASSUME NEW w \in Writers, SweepStagingFails(w)
        PROVE  StoreInv'
    BY <1>20 DEF SweepStagingFails
  <1>21. ASSUME NEW w \in Writers, SweepBackup(w)
        PROVE  StoreInv'
    BY <1>21 DEF SweepBackup
  <1>22. ASSUME NEW w \in Writers, ReadOwner(w)
        PROVE  StoreInv'
    BY <1>22 DEF ReadOwner
  <1>23. ASSUME NEW w \in Writers, Crash(w)
        PROVE  StoreInv'
    BY <1>23 DEF Crash, Live
  <1>24. ASSUME NEW w \in Writers, NEW n \in Names, WriteFile(w, n)
        PROVE  StoreInv'
    BY <1>24 DEF WriteFile
  <1>25. ASSUME NEW w \in Writers, NEW n \in Names, WriteFileFails(w, n)
        PROVE  StoreInv'
    BY <1>25 DEF WriteFileFails
  <1>26. ASSUME NEW w \in Writers, NEW e \in Entries, DropBackupEntry(w, e)
        PROVE  StoreInv'
    BY <1>26 DEF DropBackupEntry
  <1>27. CASE RemoveLock
    BY <1>27 DEF RemoveLock
  <1>28. CASE AddForeign
    <2>1. Body(output') = Body(output)
      BY <1>28, BodyIgnoresForeign, BodyOfNothing, EmptyDirType DEF AddForeign
    <2>2. output' # Absent => Foreign \in DOMAIN output'
      BY <1>28 DEF AddForeign, With
    <2> QED
      BY <1>28, <2>1, <2>2 DEF AddForeign
  <1>29. CASE AllEnded \/ UNCHANGED vars
    BY <1>29 DEF AllEnded, vars
  <1> QED
    BY <1>1, <1>2, <1>3, <1>4, <1>5, <1>6, <1>7, <1>8, <1>9, <1>10, <1>11, <1>12, <1>13, <1>14, <1>15, <1>16, <1>17, <1>18, <1>19, <1>20, <1>21, <1>22, <1>23, <1>24, <1>25, <1>26, <1>27, <1>28, <1>29
       DEF Next, Advance, Acquire, Stage, Promote, Finally

\* Marker tells generations apart.
LEMMA GenerationInjective ==
  ASSUME NEW v \in Writers, NEW w \in Writers, Generation(v) = Generation(w)
  PROVE  v = w
  <1>1. Generation(v)[Marker] = v /\ Generation(w)[Marker] = w
    BY DEF Generation
  <1> QED
    BY <1>1

LEMMA GenerationNotEmpty ==
  ASSUME NEW w \in Writers
  PROVE  Generation(w) # EmptyDir
  <1>1. Marker \in DOMAIN Generation(w) /\ DOMAIN EmptyDir = {}
    BY DEF Generation, EmptyDir
  <1> QED
    BY <1>1

LEMMA StoreInitially == Init => Store!Init /\ StoreInv
  <1> SUFFICES ASSUME Init PROVE Store!Init /\ StoreInv
    OBVIOUS
  <1>1. Store!Init
    BY DEF Init, Store!Init
  <1>2. output # Absent => Body(output) = latest
    BY DEF Init
  <1> QED
    BY <1>1, <1>2 DEF Init, StoreInv, InSection

\* The rename of staging is the one step that publishes.
LEMMA InstallPublishes ==
  ASSUME TypeInv, WholeInv, StoreInv, NEW w \in Writers,
         pc[w] \in {"promote", "install"}, RenameStagingToOutput(w)
  PROVE  Store!Publish(Generation(w))
  <1>1. Body(output) = EmptyDir
    BY BodyOfFree DEF RenameStagingToOutput
  <1>2. Body(output') = Generation(w) /\ latest' = Generation(w)
    BY BodyOfGeneration DEF RenameStagingToOutput, WholeInv, StagingWhole
  <1>3. w \notin installed
    BY DEF StoreInv, InSection
  <1>4. Generation(w) \notin {Generation(v) : v \in installed}
    BY <1>3, GenerationInjective DEF TypeInv, TypeOK
  <1>5. {Generation(v) : v \in installed'}
          = {Generation(v) : v \in installed} \cup {Generation(w)}
    BY DEF RenameStagingToOutput
  <1> QED
    BY <1>1, <1>2, <1>4, <1>5 DEF Store!Publish

LEMMA StoreSimulates ==
  ASSUME TypeInv, WholeInv, LockInv, StoreInv, [Next]_vars
  PROVE  [Store!Next]_(Store!vars)
  <1> DEFINE Shown == {Generation(w) : w \in Writers}
                      \cup {Body(d) : d \in StartOutputs}
  <1> USE DEF Goto, Abort, disk, locals, history
  <1>0. ASSUME UNCHANGED <<output, latest, installed>>
        PROVE  UNCHANGED Store!vars
    BY <1>0 DEF Store!vars
  <1>1. ASSUME NEW w \in Writers, MkdirLock(w)
        PROVE  [Store!Next]_(Store!vars)
    BY <1>0, <1>1 DEF MkdirLock
  <1>2. ASSUME NEW w \in Writers, WriteOwner(w)
        PROVE  [Store!Next]_(Store!vars)
    BY <1>0, <1>2 DEF WriteOwner
  <1>3. ASSUME NEW w \in Writers, WriteOwnerFails(w)
        PROVE  [Store!Next]_(Store!vars)
    BY <1>0, <1>3 DEF WriteOwnerFails
  <1>4. ASSUME NEW w \in Writers, RmLockEntries(w)
        PROVE  [Store!Next]_(Store!vars)
    BY <1>0, <1>4 DEF RmLockEntries
  <1>5. ASSUME NEW w \in Writers, RmLockDir(w)
        PROVE  [Store!Next]_(Store!vars)
    BY <1>0, <1>5 DEF RmLockDir
  <1>6. ASSUME NEW w \in Writers, ReleaseFails(w)
        PROVE  [Store!Next]_(Store!vars)
    BY <1>0, <1>6 DEF ReleaseFails
  <1>7. ASSUME NEW w \in Writers, GiveUp(w)
        PROVE  [Store!Next]_(Store!vars)
    BY <1>0, <1>7 DEF GiveUp
  <1>8. ASSUME NEW w \in Writers, ValidateExistingOutput(w)
        PROVE  [Store!Next]_(Store!vars)
    BY <1>0, <1>8 DEF ValidateExistingOutput
  <1>9. ASSUME NEW w \in Writers, MkdirStaging(w)
        PROVE  [Store!Next]_(Store!vars)
    BY <1>0, <1>9 DEF MkdirStaging
  <1>10. ASSUME NEW w \in Writers, WriteMarker(w)
        PROVE  [Store!Next]_(Store!vars)
    BY <1>0, <1>10 DEF WriteMarker
  <1>11. ASSUME NEW w \in Writers, PromoteFirst(w)
        PROVE  [Store!Next]_(Store!vars)
    <2>1. Store!Publish(Generation(w))
      BY <1>11, InstallPublishes DEF PromoteFirst
    <2>2. Generation(w) \in Shown \ {EmptyDir}
      BY GenerationNotEmpty
    <2> QED
      BY <2>1, <2>2 DEF Store!Next
  <1>12. ASSUME NEW w \in Writers, MoveToBackup(w)
        PROVE  [Store!Next]_(Store!vars)
    <2>1. Body(output') = EmptyDir
      BY <1>12, BodyOfNothing DEF MoveToBackup
    <2> QED
      BY <1>12, <2>1 DEF MoveToBackup, Store!Next, Store!Hide, Store!vars
  <1>13. ASSUME NEW w \in Writers, Install(w)
        PROVE  [Store!Next]_(Store!vars)
    <2>1. Store!Publish(Generation(w))
      BY <1>13, InstallPublishes DEF Install
    <2>2. Generation(w) \in Shown \ {EmptyDir}
      BY GenerationNotEmpty
    <2> QED
      BY <2>1, <2>2 DEF Store!Next
  <1>14. ASSUME NEW w \in Writers, Restore(w)
        PROVE  [Store!Next]_(Store!vars)
    <2>1. Body(output) = EmptyDir
      BY <1>14, BodyOfFree DEF Restore
    <2>2. Body(output') = latest
      BY <1>14 DEF Restore, StoreInv
    <2> QED
      BY <1>14, <2>1, <2>2 DEF Restore, Store!Next, Store!Restore
  <1>15. ASSUME NEW w \in Writers, RestoreFails(w)
        PROVE  [Store!Next]_(Store!vars)
    BY <1>0, <1>15 DEF RestoreFails, KeepBackup
  <1>16. ASSUME NEW w \in Writers, DropBackupDir(w)
        PROVE  [Store!Next]_(Store!vars)
    BY <1>0, <1>16 DEF DropBackupDir
  <1>17. ASSUME NEW w \in Writers, DropBackupFails(w)
        PROVE  [Store!Next]_(Store!vars)
    BY <1>0, <1>17 DEF DropBackupFails, KeepBackup
  <1>18. ASSUME NEW w \in Writers, SweepStaging(w)
        PROVE  [Store!Next]_(Store!vars)
    BY <1>0, <1>18 DEF SweepStaging
  <1>19. ASSUME NEW w \in Writers, SweepStagingDir(w)
        PROVE  [Store!Next]_(Store!vars)
    BY <1>0, <1>19 DEF SweepStagingDir
  <1>20. ASSUME NEW w \in Writers, SweepStagingFails(w)
        PROVE  [Store!Next]_(Store!vars)
    BY <1>0, <1>20 DEF SweepStagingFails
  <1>21. ASSUME NEW w \in Writers, SweepBackup(w)
        PROVE  [Store!Next]_(Store!vars)
    BY <1>0, <1>21 DEF SweepBackup
  <1>22. ASSUME NEW w \in Writers, ReadOwner(w)
        PROVE  [Store!Next]_(Store!vars)
    BY <1>0, <1>22 DEF ReadOwner
  <1>23. ASSUME NEW w \in Writers, Crash(w)
        PROVE  [Store!Next]_(Store!vars)
    BY <1>0, <1>23 DEF Crash, Live
  <1>24. ASSUME NEW w \in Writers, NEW n \in Names, WriteFile(w, n)
        PROVE  [Store!Next]_(Store!vars)
    BY <1>0, <1>24 DEF WriteFile
  <1>25. ASSUME NEW w \in Writers, NEW n \in Names, WriteFileFails(w, n)
        PROVE  [Store!Next]_(Store!vars)
    BY <1>0, <1>25 DEF WriteFileFails
  <1>26. ASSUME NEW w \in Writers, NEW e \in Entries, DropBackupEntry(w, e)
        PROVE  [Store!Next]_(Store!vars)
    BY <1>0, <1>26 DEF DropBackupEntry
  <1>27. CASE RemoveLock
    BY <1>0, <1>27 DEF RemoveLock
  <1>28. CASE AddForeign
    <2>1. Body(output') = Body(output)
      BY <1>28, BodyIgnoresForeign, BodyOfNothing, EmptyDirType
         DEF AddForeign, TypeInv, TypeOK
    <2> QED
      BY <1>28, <2>1 DEF AddForeign, Store!vars
  <1>29. CASE AllEnded \/ UNCHANGED vars
    BY <1>0, <1>29 DEF AllEnded, vars
  <1> QED
    BY <1>1, <1>2, <1>3, <1>4, <1>5, <1>6, <1>7, <1>8, <1>9, <1>10, <1>11, <1>12, <1>13, <1>14, <1>15, <1>16, <1>17, <1>18, <1>19, <1>20, <1>21, <1>22, <1>23, <1>24, <1>25, <1>26, <1>27, <1>28, <1>29
       DEF Next, Advance, Acquire, Stage, Promote, Finally

\* With the lock respected, the publisher implements GenerationStore: the
\* output shows the latest generation or nothing.
THEOREM Implements ==
  ASSUME Operator # "careless"
  PROVE  Spec => StoreImplemented
  <1>1. Init => LockInv /\ WholeInv
    <2> SUFFICES ASSUME Init PROVE LockInv /\ WholeInv
      OBVIOUS
    <2>1. Body(output) \in Known
      BY DEF Init, Known
    <2> QED
      BY <2>1 DEF Init, LockInv, WholeInv, StagingWhole, Holder, InSection, Ended
  <1>2. TypeInv /\ LockInv /\ [Next]_vars => LockInv'
    BY LockStep DEF TypeInv
  <1>3. TypeInv /\ WholeInv /\ [Next]_vars => WholeInv'
    BY WholeStep
  <1>4. TypeInv /\ WholeInv /\ LockInv /\ StoreInv /\ [Next]_vars
          => StoreInv' /\ [Store!Next]_(Store!vars)
    BY StoreStep, StoreSimulates
  <1> QED
    BY <1>1, <1>2, <1>3, <1>4, StoreInitially, TypeInit, TypeStep, PTL
       DEF Spec, StoreImplemented, Store!Spec

-----------------------------------------------------------------------------
(* Termination *)

\* How far a call is from its end: each step moves it on, except one of the
\* concurrent writes or one removal of an entry of the backup.
Rank(p) ==
  CASE p = "start"        -> 17
    [] p = "own"          -> 16
    [] p = "validate"     -> 15
    [] p = "stage"        -> 14
    [] p = "write"        -> 13
    [] p = "mark"         -> 12
    [] p = "promote"      -> 11
    [] p = "install"      -> 10
    [] p = "undo"         -> 9
    [] p = "undo_rmdir"   -> 8
    [] p = "restore"      -> 7
    [] p = "drop"         -> 7
    [] p = "sweep"        -> 6
    [] p = "sweep_rmdir"  -> 5
    [] p = "sweep_backup" -> 4
    [] p = "release"      -> 3
    [] p = "unlock"       -> 2
    [] p = "unlock_rmdir" -> 1
    [] OTHER              -> 0

BeforeWrites == {"start", "own", "validate", "stage"}
BeforeDrop == BeforeWrites \cup {"write", "mark", "promote", "install"}

\* The writes that are still to come or in flight, and the entries that are
\* still to be removed from the backup d.
WritesLeft(p, s) == IF p \in BeforeWrites THEN Cardinality(Names) ELSE Cardinality(s)
EntriesLeft(p, d) ==
  IF p \in BeforeDrop THEN Cardinality(Entries)
  ELSE IF p = "drop" THEN Cardinality(EntriesOf(d)) ELSE 0

Left(p, d, s) == Rank(p) + EntriesLeft(p, d) + WritesLeft(p, s)
CallsLeft(w) == Left(pc[w], backup[w], pending[w])

LEMMA EntriesCount ==
  ASSUME IsFiniteSet(Names)
  PROVE  /\ IsFiniteSet(Entries) /\ Cardinality(Entries) = Cardinality(Names) + 2
         /\ Cardinality(Names) \in Nat
<1>1. IsFiniteSet(Names \cup {Marker}) /\ Cardinality(Names \cup {Marker}) = Cardinality(Names) + 1
  BY FS_AddElement, NamesAssumption
<1>2. Foreign \notin Names \cup {Marker}
  BY NamesAssumption
<1>3. /\ IsFiniteSet((Names \cup {Marker}) \cup {Foreign})
      /\ Cardinality((Names \cup {Marker}) \cup {Foreign}) = Cardinality(Names \cup {Marker}) + 1
  BY <1>1, <1>2, FS_AddElement
<1>4. Entries = (Names \cup {Marker}) \cup {Foreign}
  BY DEF Entries
<1>5. Cardinality(Names) \in Nat
  BY FS_CardinalityType
<1> QED BY <1>1, <1>3, <1>4, <1>5

\* What is to be written or removed is a number, and no larger than what there
\* may be at all.
LEMMA PartsCount ==
  ASSUME IsFiniteSet(Names), NEW p,
         NEW d \in Directories \cup {Absent}, NEW s \in SUBSET Names
  PROVE  /\ Rank(p) \in 0..17
         /\ EntriesLeft(p, d) \in Nat /\ EntriesLeft(p, d) <= Cardinality(Names) + 2
         /\ WritesLeft(p, s) \in Nat /\ WritesLeft(p, s) <= Cardinality(Names)
         /\ IsFiniteSet(s) /\ Cardinality(s) \in Nat
         /\ IsFiniteSet(EntriesOf(d)) /\ Cardinality(EntriesOf(d)) \in Nat
<1>1. /\ IsFiniteSet(Entries) /\ Cardinality(Entries) = Cardinality(Names) + 2
      /\ Cardinality(Names) \in Nat
  BY EntriesCount
<1>2. IsFiniteSet(s) /\ Cardinality(s) \in Nat /\ Cardinality(s) <= Cardinality(Names)
  BY FS_Subset, FS_CardinalityType
<1>3. EntriesOf(d) \in SUBSET Entries
  BY DirectoryShape DEF EntriesOf
<1>4. /\ IsFiniteSet(EntriesOf(d)) /\ Cardinality(EntriesOf(d)) \in Nat
      /\ Cardinality(EntriesOf(d)) <= Cardinality(Names) + 2
  BY <1>1, <1>3, FS_Subset, FS_CardinalityType
<1>5. Rank(p) \in 0..17
  BY DEF Rank
<1>6. WritesLeft(p, s) \in Nat /\ WritesLeft(p, s) <= Cardinality(Names)
  BY <1>1, <1>2 DEF WritesLeft
<1>7. EntriesLeft(p, d) \in Nat /\ EntriesLeft(p, d) <= Cardinality(Names) + 2
  BY <1>1, <1>4 DEF EntriesLeft
<1> QED BY <1>2, <1>4, <1>5, <1>6, <1>7

\* A step that moves a call on brings its end nearer.
LEMMA Forward ==
  ASSUME IsFiniteSet(Names), NEW p, NEW q,
         NEW d \in Directories \cup {Absent}, NEW e \in Directories \cup {Absent},
         NEW s \in SUBSET Names, NEW t \in SUBSET Names,
         Rank(q) < Rank(p),
         q \in BeforeWrites => p \in BeforeWrites,
         q \in BeforeDrop \cup {"drop"} => p \in BeforeDrop,
         p \in BeforeWrites \/ t \subseteq s
  PROVE  Left(q, e, t) < Left(p, d, s)
<1>1. /\ Rank(p) \in Nat /\ Rank(q) \in Nat
      /\ EntriesLeft(p, d) \in Nat /\ EntriesLeft(q, e) \in Nat
      /\ WritesLeft(p, s) \in Nat /\ WritesLeft(q, t) \in Nat
      /\ IsFiniteSet(s) /\ Cardinality(Names) + 2 = Cardinality(Entries)
  <2>1. Rank(p) \in 0..17 /\ EntriesLeft(p, d) \in Nat /\ WritesLeft(p, s) \in Nat
        /\ IsFiniteSet(s)
    BY PartsCount
  <2>2. Rank(q) \in 0..17 /\ EntriesLeft(q, e) \in Nat /\ WritesLeft(q, t) \in Nat
    BY PartsCount
  <2>3. Cardinality(Names) + 2 = Cardinality(Entries)
    BY EntriesCount
  <2> QED BY <2>1, <2>2, <2>3
<1>2. EntriesLeft(q, e) <= EntriesLeft(p, d)
  <2>1. CASE q \in BeforeDrop \cup {"drop"}
    BY <2>1, PartsCount, EntriesCount DEF EntriesLeft
  <2>2. CASE q \notin BeforeDrop \cup {"drop"}
    <3>1. EntriesLeft(q, e) = 0
      BY <2>2 DEF EntriesLeft
    <3> QED BY <1>1, <3>1
  <2> QED BY <2>1, <2>2
<1>3. WritesLeft(q, t) <= WritesLeft(p, s)
  <2>1. CASE p \in BeforeWrites
    BY <2>1, PartsCount DEF WritesLeft
  <2>2. CASE p \notin BeforeWrites
    <3>1. t \in SUBSET s
      BY <2>2
    <3>2. Cardinality(t) <= Cardinality(s)
      BY <1>1, <3>1, FS_Subset
    <3> QED BY <2>2, <3>2 DEF WritesLeft
  <2> QED BY <2>1, <2>2
<1> HIDE DEF EntriesLeft, WritesLeft, Rank
<1> QED BY <1>1, <1>2, <1>3 DEF Left

\* No write is in flight before the first one starts.
Unwritten == \A w \in Writers : pc[w] \in BeforeWrites => pending[w] = {}

LEMMA UnwrittenStep == TypeInv /\ Unwritten /\ [Next]_vars => Unwritten'
<1> SUFFICES ASSUME TypeInv, Unwritten, [Next]_vars, NEW v \in Writers,
                    pc'[v] \in BeforeWrites
             PROVE  pending'[v] = {}
  BY DEF Unwritten
<1> USE DEF TypeInv, TypeOK, BeforeWrites, locals, Goto, Abort
<1>1. pc[v] \in BeforeWrites => pending[v] = {}
  BY DEF Unwritten
<1>2. ASSUME NEW w \in Writers, Acquire(w)
      PROVE  pending'[v] = {}
  BY <1>1, <1>2 DEF Acquire, MkdirLock, WriteOwner, WriteOwnerFails, RmLockEntries,
                    RmLockDir, ReleaseFails, GiveUp
<1>3. ASSUME NEW w \in Writers, ValidateExistingOutput(w) \/ MkdirStaging(w) \/ WriteMarker(w)
      PROVE  pending'[v] = {}
  BY <1>1, <1>3 DEF ValidateExistingOutput, MkdirStaging, WriteMarker
<1>4. ASSUME NEW w \in Writers, NEW n \in Names, WriteFile(w, n) \/ WriteFileFails(w, n)
      PROVE  pending'[v] = {}
  BY <1>1, <1>4 DEF WriteFile, WriteFileFails
<1>5. ASSUME NEW w \in Writers, Promote(w)
      PROVE  pending'[v] = {}
  BY <1>1, <1>5 DEF Promote, PromoteFirst, MoveToBackup, Install, Restore, RestoreFails,
                    DropBackupEntry, DropBackupDir, DropBackupFails
<1>6. ASSUME NEW w \in Writers, Finally(w) \/ Crash(w)
      PROVE  pending'[v] = {}
  BY <1>1, <1>6 DEF Finally, SweepStaging, SweepStagingDir, SweepStagingFails, SweepBackup,
                    ReadOwner, Crash
<1>7. CASE RemoveLock \/ AddForeign \/ AllEnded \/ UNCHANGED vars
  BY <1>1, <1>7 DEF RemoveLock, AddForeign, AllEnded, vars
<1> QED BY <1>2, <1>3, <1>4, <1>5, <1>6, <1>7 DEF Next, Advance, Stage

\* A step of w that moves its call on, as all do but a write and a removal from the backup.
Onward(w) ==
  /\ Rank(pc'[w]) < Rank(pc[w])
  /\ pc'[w] \in BeforeWrites => pc[w] \in BeforeWrites
  /\ pc'[w] \in BeforeDrop \cup {"drop"} => pc[w] \in BeforeDrop
  /\ pc[w] \in BeforeWrites \/ pending'[w] \subseteq pending[w]

LEMMA OnwardShrinks ==
  ASSUME IsFiniteSet(Names), TypeInv, TypeInv', NEW w \in Writers, Onward(w)
  PROVE  CallsLeft(w)' < CallsLeft(w)
<1>1. /\ backup[w] \in Directories \cup {Absent} /\ backup'[w] \in Directories \cup {Absent}
      /\ pending[w] \in SUBSET Names /\ pending'[w] \in SUBSET Names
  BY DEF TypeInv, TypeOK
<1>2. Left(pc'[w], backup'[w], pending'[w]) < Left(pc[w], backup[w], pending[w])
  BY <1>1, Forward DEF Onward
<1> QED BY <1>2 DEF CallsLeft

LEMMA StepsOnward ==
  ASSUME TypeInv, NEW w \in Writers,
         \/ Acquire(w) \/ Finally(w) \/ Crash(w)
         \/ ValidateExistingOutput(w) \/ MkdirStaging(w) \/ WriteMarker(w)
         \/ PromoteFirst(w) \/ MoveToBackup(w) \/ Install(w) \/ Restore(w)
         \/ RestoreFails(w) \/ DropBackupDir(w) \/ DropBackupFails(w)
  PROVE  Onward(w)
<1> USE DEF TypeInv, TypeOK, BeforeWrites, BeforeDrop, locals, Goto, Abort, Onward, Rank
<1>1. CASE MkdirLock(w) \/ WriteOwner(w) \/ WriteOwnerFails(w) \/ RmLockEntries(w)
  BY <1>1 DEF MkdirLock, WriteOwner, WriteOwnerFails, RmLockEntries
<1>2. CASE RmLockDir(w) \/ ReleaseFails(w)
  BY <1>2 DEF RmLockDir, ReleaseFails
<1>3. CASE GiveUp(w)
  BY <1>3 DEF GiveUp
<1>4. CASE SweepStaging(w) \/ SweepStagingDir(w) \/ SweepStagingFails(w)
  BY <1>4 DEF SweepStaging, SweepStagingDir, SweepStagingFails
<1>5. CASE SweepBackup(w) \/ ReadOwner(w)
  BY <1>5 DEF SweepBackup, ReadOwner
<1>6. CASE Crash(w)
  BY <1>6 DEF Crash, Live
<1>7. CASE ValidateExistingOutput(w) \/ MkdirStaging(w) \/ WriteMarker(w)
  BY <1>7 DEF ValidateExistingOutput, MkdirStaging, WriteMarker
<1>8. CASE PromoteFirst(w) \/ MoveToBackup(w) \/ Install(w) \/ Restore(w)
  BY <1>8 DEF PromoteFirst, MoveToBackup, Install, Restore
<1>9. CASE RestoreFails(w) \/ DropBackupDir(w) \/ DropBackupFails(w)
  BY <1>9 DEF RestoreFails, DropBackupDir, DropBackupFails
<1> QED BY <1>1, <1>2, <1>3, <1>4, <1>5, <1>6, <1>7, <1>8, <1>9 DEF Acquire, Finally

\* A write that ends, on its own or after the call has moved on, is one less.
LEMMA WritesShrink ==
  ASSUME IsFiniteSet(Names), TypeInv, TypeInv', Unwritten, NEW w \in Writers,
         NEW n \in Names, WriteFile(w, n) \/ WriteFileFails(w, n)
  PROVE  CallsLeft(w)' < CallsLeft(w)
<1>1. /\ n \in pending[w] /\ pending'[w] = pending[w] \ {n} /\ backup' = backup
      /\ pc' = pc \/ (pc[w] = "write" /\ pc'[w] \in {"mark", "sweep"})
  <2> USE DEF Abort, Goto, TypeInv, TypeOK
  <2>1. CASE WriteFile(w, n)
    BY <2>1 DEF WriteFile
  <2>2. CASE WriteFileFails(w, n)
    <3>1. n \in pending[w] /\ pending'[w] = pending[w] \ {n} /\ backup' = backup
      BY <2>2 DEF WriteFileFails
    <3>2. pc' = pc \/ (pc[w] = "write" /\ pc'[w] = "sweep")
      BY <2>2 DEF WriteFileFails
    <3> QED BY <3>1, <3>2
  <2> QED BY <2>1, <2>2
<1>2. CASE pc' = pc
  <2>1. /\ pending[w] \in SUBSET Names /\ backup[w] \in Directories \cup {Absent}
        /\ pc[w] \notin BeforeWrites
    BY <1>1 DEF TypeInv, TypeOK, Unwritten
  <2>2. IsFiniteSet(pending[w]) /\ Cardinality(pending[w]) \in Nat
    BY <2>1, PartsCount
  <2>3. Cardinality(pending'[w]) = Cardinality(pending[w]) - 1
    BY <1>1, <2>2, FS_RemoveElement
  <2>4. Rank(pc[w]) \in 0..17 /\ EntriesLeft(pc[w], backup[w]) \in Nat
    BY <2>1, PartsCount
  <2>5. /\ CallsLeft(w) = Rank(pc[w]) + EntriesLeft(pc[w], backup[w]) + Cardinality(pending[w])
        /\ CallsLeft(w)' = Rank(pc[w]) + EntriesLeft(pc[w], backup[w]) + Cardinality(pending'[w])
    BY <1>1, <1>2, <2>1 DEF CallsLeft, Left, WritesLeft
  <2> HIDE DEF Rank, EntriesLeft
  <2> QED BY <2>2, <2>3, <2>4, <2>5
<1>3. CASE pc[w] = "write" /\ pc'[w] \in {"mark", "sweep"}
  <2>1. Onward(w)
    BY <1>1, <1>3 DEF Onward, Rank, BeforeWrites, BeforeDrop
  <2> QED BY <2>1, OnwardShrinks
<1> QED BY <1>1, <1>2, <1>3

\* The removal of the backup is nearer its end by the entry that goes.
LEMMA DropShrinks ==
  ASSUME IsFiniteSet(Names), TypeInv, NEW w \in Writers, NEW e \in Entries,
         DropBackupEntry(w, e)
  PROVE  CallsLeft(w)' < CallsLeft(w)
<1>1. /\ pc' = pc /\ pc[w] = "drop" /\ pending' = pending
      /\ e \in DOMAIN backup[w] /\ backup'[w] = Without(backup[w], e)
      /\ backup[w] \in Directories
      /\ pending[w] \in SUBSET Names
  BY DEF DropBackupEntry, TypeInv, TypeOK, Present, locals
<1>2. Without(backup[w], e) \in Directories
  BY <1>1, WithoutType
<1>3. /\ EntriesOf(backup[w]) = DOMAIN backup[w]
      /\ EntriesOf(backup'[w]) = EntriesOf(backup[w]) \ {e}
  BY <1>1, <1>2, ValuesAssumption DEF EntriesOf, Without
<1>4. /\ IsFiniteSet(EntriesOf(backup[w])) /\ Cardinality(EntriesOf(backup[w])) \in Nat
      /\ WritesLeft(pc[w], pending[w]) \in Nat /\ Rank(pc[w]) \in 0..17
  BY <1>1, PartsCount
<1>5. Cardinality(EntriesOf(backup'[w])) = Cardinality(EntriesOf(backup[w])) - 1
  <2>1. e \in EntriesOf(backup[w])
    BY <1>1, <1>3
  <2>2. Cardinality(EntriesOf(backup[w]) \ {e}) = Cardinality(EntriesOf(backup[w])) - 1
    BY <1>4, <2>1, FS_RemoveElement
  <2> QED BY <1>3, <2>2
<1>6. /\ CallsLeft(w) = Rank(pc[w]) + Cardinality(EntriesOf(backup[w])) + WritesLeft(pc[w], pending[w])
      /\ CallsLeft(w)' = Rank(pc[w]) + Cardinality(EntriesOf(backup'[w])) + WritesLeft(pc[w], pending[w])
  BY <1>1 DEF CallsLeft, Left, EntriesLeft, BeforeDrop, BeforeWrites
<1> QED BY <1>4, <1>5, <1>6

\* What others do leaves a call where it is.
LEMMA OthersLeave ==
  ASSUME TypeInv, NEW w \in Writers, [Next]_vars, ~Advance(w), ~Crash(w)
  PROVE  CallsLeft(w)' = CallsLeft(w)
<1> SUFFICES /\ pc'[w] = pc[w] /\ backup'[w] = backup[w] /\ pending'[w] = pending[w]
  BY DEF CallsLeft
<1> USE DEF TypeInv, TypeOK, locals, disk, Goto, Abort
<1>1. ASSUME NEW v \in Writers, v # w, Acquire(v)
      PROVE  pc'[w] = pc[w] /\ backup'[w] = backup[w] /\ pending'[w] = pending[w]
  BY <1>1 DEF Acquire, MkdirLock, WriteOwner, WriteOwnerFails, RmLockEntries,
              RmLockDir, ReleaseFails, GiveUp
<1>2. ASSUME NEW v \in Writers, v # w, Stage(v)
      PROVE  pc'[w] = pc[w] /\ backup'[w] = backup[w] /\ pending'[w] = pending[w]
  BY <1>2 DEF Stage, ValidateExistingOutput, MkdirStaging, WriteMarker, WriteFile, WriteFileFails
<1>3. ASSUME NEW v \in Writers, v # w, Promote(v)
      PROVE  pc'[w] = pc[w] /\ backup'[w] = backup[w] /\ pending'[w] = pending[w]
  BY <1>3 DEF Promote, PromoteFirst, MoveToBackup, Install, Restore, RestoreFails,
              DropBackupEntry, DropBackupDir, DropBackupFails
<1>4. ASSUME NEW v \in Writers, v # w, Finally(v) \/ Crash(v)
      PROVE  pc'[w] = pc[w] /\ backup'[w] = backup[w] /\ pending'[w] = pending[w]
  BY <1>4 DEF Finally, SweepStaging, SweepStagingDir, SweepStagingFails, SweepBackup,
              ReadOwner, Crash
<1>5. CASE RemoveLock \/ AddForeign \/ AllEnded \/ UNCHANGED vars
  BY <1>5 DEF RemoveLock, AddForeign, AllEnded, vars
<1> QED BY <1>1, <1>2, <1>3, <1>4, <1>5 DEF Next, Advance

LEMMA CallsShrink ==
  ASSUME IsFiniteSet(Names), TypeInv, TypeInv', Unwritten, NEW w \in Writers,
         Advance(w) \/ Crash(w)
  PROVE  CallsLeft(w)' < CallsLeft(w)
<1>1. ASSUME NEW n \in Names, WriteFile(w, n) \/ WriteFileFails(w, n)
      PROVE  CallsLeft(w)' < CallsLeft(w)
  BY <1>1, WritesShrink
<1>2. ASSUME NEW e \in Entries, DropBackupEntry(w, e)
      PROVE  CallsLeft(w)' < CallsLeft(w)
  BY <1>2, DropShrinks
<1>3. CASE Onward(w)
  BY <1>3, OnwardShrinks
<1>4. \/ Onward(w)
      \/ \E n \in Names : WriteFile(w, n) \/ WriteFileFails(w, n)
      \/ \E e \in Entries : DropBackupEntry(w, e)
  BY StepsOnward DEF Advance, Stage, Promote
<1> QED BY <1>1, <1>2, <1>3, <1>4

\* Each step of publishReportGeneration brings its end nearer, a crash too, and
\* nothing the other writers, the user or an operator do puts it off: however
\* its file system calls come out, it takes at most twice as many steps as
\* there are report names, and 19.
THEOREM CallMakesProgress ==
  ASSUME IsFiniteSet(Names), NEW w \in Writers
  PROVE  Spec => /\ [](CallsLeft(w) \in 0..(2 * Cardinality(Names) + 19))
                 /\ [][IF Advance(w) \/ Crash(w) THEN CallsLeft(w)' < CallsLeft(w)
                                     ELSE CallsLeft(w)' = CallsLeft(w)]_vars
<1>1. Init => Unwritten
  BY DEF Init, Unwritten
<1>2. TypeInv => CallsLeft(w) \in 0..(2 * Cardinality(Names) + 19)
  <2> SUFFICES ASSUME TypeInv PROVE CallsLeft(w) \in 0..(2 * Cardinality(Names) + 19)
    OBVIOUS
  <2>1. backup[w] \in Directories \cup {Absent} /\ pending[w] \in SUBSET Names
    BY DEF TypeInv, TypeOK
  <2>2. /\ Rank(pc[w]) \in 0..17
        /\ EntriesLeft(pc[w], backup[w]) \in Nat
        /\ EntriesLeft(pc[w], backup[w]) <= Cardinality(Names) + 2
        /\ WritesLeft(pc[w], pending[w]) \in Nat
        /\ WritesLeft(pc[w], pending[w]) <= Cardinality(Names)
    BY <2>1, PartsCount
  <2>3. Cardinality(Names) \in Nat
    BY EntriesCount
  <2> HIDE DEF Rank, EntriesLeft, WritesLeft
  <2> QED BY <2>2, <2>3 DEF CallsLeft, Left
<1>3. TypeInv /\ TypeInv' /\ Unwritten /\ [Next]_vars
        => [IF Advance(w) \/ Crash(w) THEN CallsLeft(w)' < CallsLeft(w)
                        ELSE CallsLeft(w)' = CallsLeft(w)]_vars
  BY CallsShrink, OthersLeave
<1> QED BY <1>1, <1>2, <1>3, TypeInit, TypeStep, UnwrittenStep, PTL DEF Spec
=============================================================================
