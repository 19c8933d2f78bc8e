-------------------------- MODULE ReportPublisher --------------------------
(***************************************************************************)
(* publishReportGeneration (packages/report/src/generation-publisher.ts):  *)
(* how a set of report files replaces the previous set as one directory.   *)
(*                                                                         *)
(* A writer is one call of publishReportGeneration, in a process of its    *)
(* own; its identity stands for the generationId it draws.  Every action   *)
(* is one awaited file system call, so that calls of different writers, of *)
(* the user and of an operator interleave.  A directory is a function from *)
(* its entries to what wrote them; the lock directory is abstracted to     *)
(* what its owner.json says.                                               *)
(***************************************************************************)

CONSTANTS
  Writers,       \* the calls of publishReportGeneration
  Names,         \* REPORT_FILE_NAMES
  Marker,        \* the entry .scg-generation.json
  Foreign,       \* an entry the publisher does not own
  Formats,       \* Formats[w]: the file names writer w publishes
  Old,           \* the origin of the files that are there at the start
  User,          \* the origin of a foreign entry
  TornFile,      \* the contents of a file whose write failed half way
  Absent,        \* no directory at a path
  StartOutputs,  \* what the output path may hold at the start
  NoLock,        \* no lock directory
  Unclaimed,     \* a lock directory without owner.json
  TornLock,      \* a lock directory whose owner.json cannot be parsed
  Faulty,        \* the steps whose file system call may be refused
  Crashable,     \* the writers whose process may be killed
  Operator,      \* who removes locks by hand: "none", "careful", "careless"
  UserActs       \* whether the user puts files into the output directory

Gens == Writers \cup {Old}
Entries == Names \cup {Marker, Foreign}
Origins == Gens \cup {User, TornFile}
Directories == UNION {[S -> Origins] : S \in SUBSET Entries}

ASSUME NamesAssumption ==
  /\ Marker \notin Names /\ Foreign \notin Names /\ Marker # Foreign
  /\ Old \notin Writers /\ User \notin Gens /\ TornFile \notin Gens \cup {User}
ASSUME ValuesAssumption ==
  /\ Absent \notin Directories
  /\ {NoLock, Unclaimed, TornLock} \cap Writers = {}
  /\ NoLock # Unclaimed /\ NoLock # TornLock /\ Unclaimed # TornLock
ASSUME InputsAssumption ==
  /\ Formats \in [Gens -> (SUBSET Names) \ {{}}]
  /\ StartOutputs \subseteq Directories \cup {Absent}
  /\ Operator \in {"none", "careful", "careless"} /\ UserActs \in BOOLEAN

VARIABLES
  lock, output, staging, backup,                        \* the file system
  pc, ownsLock, outputExists, preserveBackup,           \* a call's locals
  pending,       \* pending[w]: writeFile calls of Promise.all in flight
  result,        \* result[w]: how the call ends: "none" until decided
  latest,        \* history: the generation installed last
  installed,     \* history: the writers whose generation was installed
  leaked,        \* history: the writers that may have left a lock behind
  late           \* history: a foreign entry came after some validation

disk == <<lock, output, staging, backup>>
locals == <<ownsLock, outputExists, preserveBackup, pending>>
history == <<latest, installed, leaked, late>>
vars == <<disk, pc, locals, result, history>>

-----------------------------------------------------------------------------
(* Directories *)

EmptyDir == [e \in {} |-> Old]
With(d, e, origin) ==
  [x \in DOMAIN d \cup {e} |-> IF x = e THEN origin ELSE d[x]]
Without(d, e) == [x \in DOMAIN d \ {e} |-> d[x]]
EntriesOf(d) == IF d = Absent THEN {} ELSE DOMAIN d

\* rename replaces a missing or an empty directory, never a filled one.
Free(d) == EntriesOf(d) = {}

\* The files of a directory that the publisher owns.
Body(d) == [e \in EntriesOf(d) \ {Foreign} |-> d[e]]
Generation(w) == [e \in Formats[w] \cup {Marker} |-> w]

(* Control *)

Live(w) == pc[w] \notin {"start", "done", "crashed"}
Ended(w) == pc[w] \in {"done", "crashed"}

\* The steps between the first look at the output and the end of the swap.
InSection(w) == pc[w] \in {"validate", "stage", "write", "mark", "promote",
                           "install", "restore", "drop"}
Holder(w) == \/ pc[w] \in {"own", "undo", "undo_rmdir"}
             \/ ownsLock[w] /\ ~Ended(w)

Goto(w, from, to) == pc[w] = from /\ pc' = [pc EXCEPT ![w] = to]
Abort(w, from, to) ==
  /\ Goto(w, from, to)
  /\ result' = [result EXCEPT ![w] = "error"]

Init ==
  /\ lock = NoLock
  /\ output \in StartOutputs
  /\ staging = [w \in Writers |-> Absent]
  /\ backup = [w \in Writers |-> Absent]
  /\ pc = [w \in Writers |-> "start"]
  /\ ownsLock = [w \in Writers |-> FALSE]
  /\ outputExists = [w \in Writers |-> FALSE]
  /\ preserveBackup = [w \in Writers |-> FALSE]
  /\ pending = [w \in Writers |-> {}]
  /\ result = [w \in Writers |-> "none"]
  /\ latest = Body(output)
  /\ installed = {}
  /\ leaked = {}
  /\ late = FALSE

-----------------------------------------------------------------------------
(* acquireLock, and what makes any later step give up *)

MkdirLock(w) ==
  /\ lock = NoLock
  /\ Goto(w, "start", "own")
  /\ lock' = Unclaimed
  /\ UNCHANGED <<output, staging, backup, locals, result, history>>

WriteOwner(w) ==
  /\ lock = Unclaimed
  /\ Goto(w, "own", "validate")
  /\ lock' = w
  /\ ownsLock' = [ownsLock EXCEPT ![w] = TRUE]
  /\ UNCHANGED <<output, staging, backup, outputExists, preserveBackup,
                 pending, result, history>>

\* Mutant: the lock directory is not removed when owner.json fails.
WriteOwnerFails_NoUndo(w) ==
  /\ lock # Unclaimed \/ "own" \in Faulty
  /\ Abort(w, "own", "sweep")
  /\ UNCHANGED <<disk, locals, history>>

\* The wx flag finds owner.json, the directory is gone, or the write is
\* refused, which may leave half a file.
WriteOwnerFails(w) ==
  /\ lock # Unclaimed \/ "own" \in Faulty
  /\ Abort(w, "own", "undo")
  /\ lock' \in {lock} \cup (IF lock = Unclaimed THEN {TornLock} ELSE {})
  /\ UNCHANGED <<output, staging, backup, locals, history>>

\* rm(lockDirectory) unlinks owner.json, then removes the directory.
RmLockEntries(w) ==
  /\ \/ Goto(w, "undo", "undo_rmdir")
     \/ Goto(w, "unlock", "unlock_rmdir")
  /\ lock' = IF lock = NoLock THEN NoLock ELSE Unclaimed
  /\ UNCHANGED <<output, staging, backup, locals, result, history>>

\* An owner.json written since then keeps the directory (ENOTEMPTY).
RmLockDir(w) ==
  /\ \/ Goto(w, "undo_rmdir", "sweep")
     \/ Goto(w, "unlock_rmdir", "done")
  /\ lock' = IF lock = Unclaimed THEN NoLock ELSE lock
  /\ UNCHANGED <<output, staging, backup, locals, result, history>>

\* The lock's owner cannot be read or its directory cannot be removed.
ReleaseFails(w) ==
  /\ pc[w] \in Faulty
  /\ \/ Goto(w, "undo", "sweep")
     \/ Goto(w, "undo_rmdir", "sweep")
     \/ Goto(w, "release", "done") /\ ownsLock[w]
     \/ Goto(w, "unlock", "done")
     \/ Goto(w, "unlock_rmdir", "done")
  /\ leaked' = leaked \cup {w}
  /\ UNCHANGED <<disk, locals, result, latest, installed, late>>

\* Mutant: entries nobody knows are not looked for.
ValidOutput_AnyEntries(d) ==
  Marker \in DOMAIN d =>
    d[Marker] \in Gens /\ Formats[d[Marker]] = DOMAIN d \cap Names

\* The marker, if there is one, lists exactly the report files there are.
ValidOutput(d) ==
  /\ Foreign \notin DOMAIN d
  /\ Marker \in DOMAIN d =>
       d[Marker] \in Gens /\ Formats[d[Marker]] = DOMAIN d \cap Names

\* EEXIST, an output that is not ours to replace, a rename whose source is
\* gone or whose target is taken, or a refused call: the error leaves the
\* try block, and only a failed installation has a backup to put back.
GiveUp(w) ==
  /\ \/ pc[w] \in Faulty
     \/ pc[w] = "start" /\ lock # NoLock
     \/ pc[w] = "validate" /\ output # Absent /\ ~ValidOutput(output)
     \/ pc[w] = "promote" /\ IF outputExists[w] THEN output = Absent
                                              ELSE ~Free(output)
     \/ pc[w] = "install" /\ ~Free(output)
  /\ \/ Abort(w, "start", "sweep")
     \/ Abort(w, "validate", "sweep")
     \/ Abort(w, "stage", "sweep")
     \/ Abort(w, "mark", "sweep")
     \/ Abort(w, "promote", "sweep")
     \/ Abort(w, "install", "restore")
  /\ UNCHANGED <<disk, locals, history>>

-----------------------------------------------------------------------------
(* validateExistingOutput: its three reads are one step, since what can    *)
(* change between them makes them fail, which GiveUp allows anyway.        *)

ValidateExistingOutput(w) ==
  /\ output # Absent => ValidOutput(output)
  /\ Goto(w, "validate", "stage")
  /\ outputExists' = [outputExists EXCEPT ![w] = output # Absent]
  /\ UNCHANGED <<disk, ownsLock, preserveBackup, pending, result, history>>

-----------------------------------------------------------------------------
(* writeStagingGeneration *)

MkdirStaging(w) ==
  /\ Goto(w, "stage", "write")
  /\ staging' = [staging EXCEPT ![w] = EmptyDir]
  /\ pending' = [pending EXCEPT ![w] = Formats[w]]
  /\ UNCHANGED <<lock, output, backup, ownsLock, outputExists,
                 preserveBackup, result, history>>

\* Mutant: the first write that completes lets the call go on.
WriteFile_FirstOnly(w, n) ==
  /\ n \in pending[w]
  /\ staging[w] # Absent
  /\ pending' = [pending EXCEPT ![w] = @ \ {n}]
  /\ staging' = [staging EXCEPT ![w] = With(@, n, w)]
  /\ pc' = IF pc[w] = "write" THEN [pc EXCEPT ![w] = "mark"] ELSE pc
  /\ UNCHANGED <<lock, output, backup, ownsLock, outputExists,
                 preserveBackup, result, history>>

\* One of the concurrent writes of Promise.all; the last one lets the call
\* go on, unless the call has already moved on after a rejection.
WriteFile(w, n) ==
  /\ n \in pending[w]
  /\ staging[w] # Absent
  /\ pending' = [pending EXCEPT ![w] = @ \ {n}]
  /\ staging' = [staging EXCEPT ![w] = With(@, n, w)]
  /\ pc' = IF pc[w] = "write" /\ pending[w] = {n}
           THEN [pc EXCEPT ![w] = "mark"] ELSE pc
  /\ UNCHANGED <<lock, output, backup, ownsLock, outputExists,
                 preserveBackup, result, history>>

\* Promise.all rejects at once; the other writes stay in flight.
WriteFileFails(w, n) ==
  /\ n \in pending[w]
  /\ staging[w] = Absent \/ "write" \in Faulty
  /\ pending' = [pending EXCEPT ![w] = @ \ {n}]
  /\ \/ UNCHANGED staging
     \/ /\ staging[w] # Absent
        /\ staging' = [staging EXCEPT ![w] = With(@, n, TornFile)]
  /\ \/ Abort(w, "write", "sweep")
     \/ pc[w] # "write" /\ UNCHANGED <<pc, result>>
  /\ UNCHANGED <<lock, output, backup, ownsLock, outputExists,
                 preserveBackup, history>>

WriteMarker(w) ==
  /\ Goto(w, "mark", "promote")
  /\ staging' = [staging EXCEPT ![w] = With(@, Marker, w)]
  /\ UNCHANGED <<lock, output, backup, locals, result, history>>

-----------------------------------------------------------------------------
(* The promotion *)

RenameStagingToOutput(w) ==
  /\ Free(output)
  /\ output' = staging[w]
  /\ staging' = [staging EXCEPT ![w] = Absent]
  /\ latest' = Body(staging[w])
  /\ installed' = installed \cup {w}

\* Mutant: the new generation is put over the old one, which is not moved.
PromoteFirst_InPlace(w) ==
  /\ Goto(w, "promote", "sweep")
  /\ output' = staging[w]
  /\ staging' = [staging EXCEPT ![w] = Absent]
  /\ latest' = Body(staging[w])
  /\ installed' = installed \cup {w}
  /\ result' = [result EXCEPT ![w] = "ok"]
  /\ UNCHANGED <<lock, backup, locals, leaked, late>>

PromoteFirst(w) ==
  /\ ~outputExists[w]
  /\ Goto(w, "promote", "sweep")
  /\ RenameStagingToOutput(w)
  /\ result' = [result EXCEPT ![w] = "ok"]
  /\ UNCHANGED <<lock, backup, locals, leaked, late>>

MoveToBackup(w) ==
  /\ outputExists[w]
  /\ output # Absent
  /\ Goto(w, "promote", "install")
  /\ backup' = [backup EXCEPT ![w] = output]
  /\ output' = Absent
  /\ UNCHANGED <<lock, staging, locals, result, history>>

Install(w) ==
  /\ Goto(w, "install", "drop")
  /\ RenameStagingToOutput(w)
  /\ UNCHANGED <<lock, backup, locals, result, leaked, late>>

\* Mutant: the error is forgotten once the backup is back.
Restore_Swallows(w) ==
  /\ Free(output)
  /\ Goto(w, "restore", "sweep")
  /\ output' = backup[w]
  /\ backup' = [backup EXCEPT ![w] = Absent]
  /\ result' = [result EXCEPT ![w] = "ok"]
  /\ UNCHANGED <<lock, staging, locals, history>>

Restore(w) ==
  /\ Free(output)
  /\ Goto(w, "restore", "sweep")
  /\ output' = backup[w]
  /\ backup' = [backup EXCEPT ![w] = Absent]
  /\ UNCHANGED <<lock, staging, locals, result, history>>

\* Mutant: preserveBackup is never set.
KeepBackup_Never(w) == UNCHANGED preserveBackup

KeepBackup(w) == preserveBackup' = [preserveBackup EXCEPT ![w] = TRUE]

RestoreFails(w) ==
  /\ "restore" \in Faulty \/ ~Free(output)
  /\ Goto(w, "restore", "sweep")
  /\ KeepBackup(w)
  /\ UNCHANGED <<disk, ownsLock, outputExists, pending, result,
                 history>>

\* rm(backupDirectory) unlinks entry after entry, then the directory.
DropBackupEntry(w, e) ==
  /\ pc[w] = "drop"
  /\ e \in DOMAIN backup[w]
  /\ backup' = [backup EXCEPT ![w] = Without(@, e)]
  /\ UNCHANGED <<lock, output, staging, pc, locals, result, history>>

DropBackupDir(w) ==
  /\ Goto(w, "drop", "sweep")
  /\ backup[w] = EmptyDir
  /\ backup' = [backup EXCEPT ![w] = Absent]
  /\ result' = [result EXCEPT ![w] = "ok"]
  /\ UNCHANGED <<lock, output, staging, locals, history>>

DropBackupFails(w) ==
  /\ "drop" \in Faulty
  /\ Abort(w, "drop", "sweep")
  /\ KeepBackup(w)
  /\ UNCHANGED <<disk, ownsLock, outputExists, pending, history>>

-----------------------------------------------------------------------------
(* The finally block: removeBestEffort twice, then releaseOwnedLock *)

\* Mutant: staging is only removed after a failure, which is never noticed.
SweepStaging_Skipped(w) ==
  /\ Goto(w, "sweep", "sweep_backup")
  /\ UNCHANGED <<disk, locals, result, history>>

\* rm(stagingDirectory) unlinks what it finds; a write still in flight may
\* add a file before the directory itself is removed, and then it stays.
SweepStaging(w) ==
  /\ Goto(w, "sweep", "sweep_rmdir")
  /\ staging' = [staging EXCEPT ![w] = IF @ = Absent THEN @ ELSE EmptyDir]
  /\ UNCHANGED <<lock, output, backup, locals, result, history>>

SweepStagingDir(w) ==
  /\ Goto(w, "sweep_rmdir", "sweep_backup")
  /\ staging' = [staging EXCEPT ![w] = IF @ = EmptyDir THEN Absent ELSE @]
  /\ UNCHANGED <<lock, output, backup, locals, result, history>>

\* Mutant: a refused removal is tried again.
SweepStagingFails_Retries(w) ==
  /\ pc[w] \in Faulty
  /\ Goto(w, "sweep", "sweep") \/ Goto(w, "sweep_rmdir", "sweep")
  /\ UNCHANGED <<disk, locals, result, history>>

SweepStagingFails(w) ==
  /\ pc[w] \in Faulty
  /\ \/ Goto(w, "sweep", "sweep_backup")
     \/ Goto(w, "sweep_rmdir", "sweep_backup")
  /\ UNCHANGED <<disk, locals, result, history>>

SweepBackup(w) ==
  /\ Goto(w, "sweep_backup", "release")
  /\ IF preserveBackup[w]
     THEN UNCHANGED backup
     ELSE \/ backup' = [backup EXCEPT ![w] = Absent]
          \/ "sweep_backup" \in Faulty /\ UNCHANGED backup
  /\ UNCHANGED <<lock, output, staging, locals, result, history>>

\* Mutant: the lock is removed whoever owns it.
ReadOwner_AnyOwner(w) ==
  /\ Goto(w, "release", "unlock")
  /\ UNCHANGED <<disk, locals, result, history>>

\* owner.json is read: only a lock that names this generation is removed.
ReadOwner(w) ==
  /\ Goto(w, "release",
          IF ownsLock[w] /\ lock = w THEN "unlock" ELSE "done")
  /\ UNCHANGED <<disk, locals, result, history>>

-----------------------------------------------------------------------------
(* The surroundings *)

\* The process of w is killed; owner.json may be cut off half way.
Crash(w) ==
  /\ w \in Crashable /\ Live(w)
  /\ pc' = [pc EXCEPT ![w] = "crashed"]
  /\ pending' = [pending EXCEPT ![w] = {}]
  /\ leaked' = leaked \cup {w}
  /\ lock' \in {lock} \cup
       (IF pc[w] = "own" /\ lock = Unclaimed THEN {TornLock} ELSE {})
  /\ UNCHANGED <<output, staging, backup, ownsLock, outputExists,
                 preserveBackup, result, latest, installed, late>>

\* The hint of acquireLock: "If it crashed, inspect and remove <lock>".  A
\* careless operator removes the lock without looking for a live writer.
RemoveLock ==
  /\ lock # NoLock
  /\ \/ Operator = "careless"
     \/ Operator = "careful" /\ \A w \in Writers : ~Holder(w)
  /\ lock' = NoLock
  /\ UNCHANGED <<output, staging, backup, pc, locals, result, history>>

\* Somebody saves a file of their own in the output directory.
AddForeign ==
  /\ UserActs
  /\ Foreign \notin EntriesOf(output)
  /\ output' = With(IF output = Absent THEN EmptyDir ELSE output, Foreign, User)
  /\ late' = (late \/ \E w \in Writers : pc[w] \in {"stage", "write", "mark", "promote"})
  /\ UNCHANGED <<lock, staging, backup, pc, locals, result, latest, installed,
                 leaked>>

AllEnded ==
  /\ \A w \in Writers : Ended(w) /\ pending[w] = {}
  /\ UNCHANGED vars

Acquire(w) == \/ MkdirLock(w) \/ WriteOwner(w) \/ WriteOwnerFails(w)
              \/ RmLockEntries(w) \/ RmLockDir(w) \/ ReleaseFails(w)
              \/ GiveUp(w)
Stage(w) == \/ ValidateExistingOutput(w) \/ MkdirStaging(w) \/ WriteMarker(w)
            \/ \E n \in Names : WriteFile(w, n) \/ WriteFileFails(w, n)
Promote(w) == \/ PromoteFirst(w) \/ MoveToBackup(w) \/ Install(w)
              \/ Restore(w) \/ RestoreFails(w)
              \/ \E e \in Entries : DropBackupEntry(w, e)
              \/ DropBackupDir(w) \/ DropBackupFails(w)
Finally(w) == \/ SweepStaging(w) \/ SweepStagingDir(w) \/ SweepStagingFails(w)
              \/ SweepBackup(w) \/ ReadOwner(w)

Advance(w) ==
  Acquire(w) \/ Stage(w) \/ Promote(w) \/ Finally(w)

Next ==
  \/ \E w \in Writers : Advance(w) \/ Crash(w)
  \/ RemoveLock
  \/ AddForeign
  \/ AllEnded

Spec == Init /\ [][Next]_vars

\* A process that is not killed goes on: the event loop runs every callback.
FairSpec == Spec /\ \A w \in Writers : WF_vars(Advance(w))

-----------------------------------------------------------------------------
(* Properties *)

TypeOK ==
  /\ lock \in Writers \cup {NoLock, Unclaimed, TornLock}
  /\ output \in Directories \cup {Absent}
  /\ staging \in [Writers -> Directories \cup {Absent}]
  /\ backup \in [Writers -> Directories \cup {Absent}]
  /\ pc \in [Writers -> {"start", "own", "undo", "undo_rmdir",
       "validate", "stage", "write", "mark", "promote", "install",
       "restore", "drop", "sweep", "sweep_rmdir", "sweep_backup", "release",
       "unlock", "unlock_rmdir", "done", "crashed"}]
  /\ ownsLock \in [Writers -> BOOLEAN]
  /\ outputExists \in [Writers -> BOOLEAN]
  /\ preserveBackup \in [Writers -> BOOLEAN]
  /\ pending \in [Writers -> SUBSET Names]
  /\ result \in [Writers -> {"none", "ok", "error"}]
  /\ latest \in Directories
  /\ installed \subseteq Writers
  /\ leaked \subseteq Writers
  /\ late \in BOOLEAN

\* The lock works: two writers never both look at or swap the output, even
\* when writers crash and an operator clears the locks they leave behind.
MutualExclusion ==
  \A v, w \in Writers : InSection(v) /\ InSection(w) => v = w

\* "Never mixes files from different SCG generations": the output holds all
\* the files of one writer and its marker, or what was there at the start,
\* and this does not depend on the lock.
WholeGeneration ==
  Body(output) \in {Generation(w) : w \in Writers}
                   \cup {Body(d) : d \in StartOutputs} \cup {EmptyDir}

\* No swap, restore, cleanup or crash loses the generation installed last:
\* it is complete in the output or in some writer's backup directory.
LatestRecoverable ==
  \/ latest = EmptyDir
  \/ Body(output) = latest
  \/ \E w \in Writers : Body(backup[w]) = latest

\* A call that reports success has installed its files, and a call that
\* reports an error has not, unless it kept the backup for inspection.
HonestResult ==
  \A w \in Writers : pc[w] = "done" =>
    /\ result[w] = "ok" => w \in installed
    /\ result[w] = "error" /\ w \in installed => preserveBackup[w]
    /\ result[w] # "none"

\* A lock directory without a writer behind it was left by a crash or by a
\* removal the file system refused; no error path forgets to release it.
NoOrphanLock ==
  lock # NoLock => leaked # {} \/ \E w \in Writers : Holder(w)

\* A call that ends leaves no staging directory behind, and a backup only if
\* it says so; meant for runs where no write and no removal is refused.
NoResidue ==
  \A w \in Writers : pc[w] = "done" =>
    /\ staging[w] = Absent
    /\ backup[w] # Absent => preserveBackup[w]

\* A foreign file disappears only if it came after a writer's validation.
ForeignSomewhere ==
  \/ Foreign \in EntriesOf(output)
  \/ \E w \in Writers : Foreign \in EntriesOf(backup[w])
ForeignKept == [][ForeignSomewhere /\ ~ForeignSomewhere' => late]_vars

\* The publisher implements GenerationStore: a reader of the output path sees
\* the generation installed last or none, never an older one, although swaps
\* fail half way and writers crash between the two renames.
Store == INSTANCE GenerationStore WITH
  Generations <- ({Generation(w) : w \in Writers}
                  \cup {Body(d) : d \in StartOutputs}) \ {EmptyDir},
  Nothing <- EmptyDir,
  visible <- Body(output),
  published <- {Generation(w) : w \in installed}
StoreImplemented == Store!Spec

\* The runtime-flow document: an output write error preserves or restores the
\* complete previous report generation.  When a call has ended in an error, the
\* generation it started from is whole in the output or in the call's backup.
\* (Stated for one writer, who starts from a generation.)
FailedWriteKeepsPrevious ==
  \A w \in Writers : Ended(w) /\ result[w] = "error" =>
    \E previous \in StartOutputs : Body(previous) \in {Body(output), Body(backup[w])}

\* Every call ends, however its file system calls come out.
EveryCallEnds == \A w \in Writers : <>Ended(w)
=============================================================================
