------------------------ MODULE ReleaseWorkflowProofs ------------------------
(***************************************************************************)
(* Theorems about ReleaseWorkflow, for any versions, any number of lookups *)
(* and runs, whichever answers may be lost.                                *)
(***************************************************************************)
EXTENDS ReleaseWorkflow, TLAPS

-----------------------------------------------------------------------------
(* The invariant *)

\* What the receipts say at each step.
Receipts ==
  /\ pc \in {"preflight", "expect", "create"} => ~created /\ ~changed
  /\ pc \in {"promote", "promoteWrite"} => created /\ ~changed /\ version \in Stable
  /\ pc \in {"publish", "succeeded"} => created /\ (changed <=> version \in Stable)
  /\ changed => version \in Stable
  /\ pc = "delete" => created
  /\ pc \in {"restore", "restoreWrite"} => changed

\* What the run did is still there while it may have to be undone.
ReleaseStands ==
  created /\ pc \in {"promote", "promoteWrite", "publish", "recover", "observe", "delete",
                     "succeeded"}
    => release[version] = Kind(version)
TagStands ==
  changed /\ pc \in {"publish", "recover", "observe", "delete", "restore", "restoreWrite",
                     "succeeded"}
    => major = version

\* Lookups that all answered have worn down what the registry may be late by.
LagKept ==
  pc = "observe" /\ uncertain = FALSE /\ package[version] # Unpublished
    => attempt + package[version] <= Lag
OnlyAbsentDeleted == pc = "delete" => package[version] = Unpublished

\* The run knows what the major tag led to, and it still does unless the run
\* changed it.
Remembered ==
  /\ pc = "preflight" => major = before
  /\ pc \notin {"idle", "preflight"} => previous = before
  /\ ~changed /\ pc # "idle" /\ version \notin trouble => major = before

\* Releases and the major tag have their packages, but for the run's own.
Sound == FirstTags \cup (Published \cap Stable) \cup trouble
ReleasesBacked ==
  \A v \in Versions : release[v] = Kind(v) =>
    \/ v \in Published \cup trouble
    \/ /\ v = version /\ created
       /\ pc \in {"promote", "promoteWrite", "publish", "recover", "observe", "delete"}
MajorBacked ==
  /\ pc # "idle" => before \in Sound
  /\ \/ major \in Sound
     \/ changed /\ pc \in {"publish", "recover", "observe", "delete", "restore", "restoreWrite"}

\* Channels and the major tag are kept clear of prereleases.
ChannelsKept ==
  /\ {distTags["latest"], major, before, previous} \cap (Versions \ Stable) = {}
  /\ pc = "succeeded" => distTags[NpmDistTag(version)] = version /\ version \in Published

ReleaseInv ==
  /\ ReleaseTypeOK /\ Receipts /\ ReleaseStands /\ TagStands /\ LagKept /\ OnlyAbsentDeleted
  /\ Remembered /\ ReleasesBacked /\ MajorBacked /\ ChannelsKept /\ RollbackComplete

-----------------------------------------------------------------------------
(* Steps *)

LEMMA StartKeeps ==
  ASSUME ReleaseInv, NEW v \in Versions, Start(v)
  PROVE  ReleaseInv'
<1> USE DEF ReleaseInv, Goes, Start,
           servers, observer, receipts, history
<1>1. ReleaseTypeOK'
  <2>1. ServersTyped'
    BY RegistryAssumption
       DEF ReleaseTypeOK, ServersTyped, RunTyped, Unpublished, NoVersion, Kind, NpmDistTag
  <2>2. RunTyped'
    BY DEF ReleaseTypeOK, RunTyped
  <2> QED BY <2>1, <2>2 DEF ReleaseTypeOK
<1>2. Receipts'
  BY DEF Receipts, ReleaseTypeOK, ServersTyped, RunTyped
<1>3. ReleaseStands'
  BY DEF ReleaseStands, Receipts, ReleaseTypeOK, ServersTyped, RunTyped, Kind
<1>4. TagStands'
  BY DEF TagStands, Receipts, ReleaseTypeOK, ServersTyped, RunTyped
<1>5. LagKept'
  BY RegistryAssumption DEF LagKept, ReleaseTypeOK, ServersTyped, RunTyped, Unpublished
<1>6. OnlyAbsentDeleted'
  BY RegistryAssumption DEF OnlyAbsentDeleted, LagKept, ReleaseTypeOK, ServersTyped, RunTyped,
         Unpublished
<1>7. Remembered'
  BY DEF Remembered, Receipts, ReleaseTypeOK, ServersTyped, RunTyped, TagStands
<1>8. ReleasesBacked'
  BY DEF ReleasesBacked, Receipts, ReleaseTypeOK, ServersTyped, RunTyped,
         Published, Unpublished, Kind
<1>9. MajorBacked'
  BY DEF MajorBacked, Sound, Published, Receipts, TagStands, Remembered,
         ReleaseTypeOK, ServersTyped, RunTyped, Unpublished
<1>10. ChannelsKept'
  BY VersionsAssumption DEF ChannelsKept, Receipts, ReleaseTypeOK, ServersTyped, RunTyped, Published,
         Unpublished, NpmDistTag, Remembered
<1>11. RollbackComplete'
  BY DEF RollbackComplete, Remembered, ReleasesBacked, Receipts, TagStands,
         ReleaseTypeOK, ServersTyped, RunTyped, Published, Unpublished, Kind
<1> QED BY <1>1, <1>2, <1>3, <1>4, <1>5, <1>6, <1>7, <1>8, <1>9, <1>10, <1>11

LEMMA CaptureKeeps ==
  ASSUME ReleaseInv, Capture
  PROVE  ReleaseInv'
<1> USE DEF ReleaseInv, Goes, Capture, Fails,
           servers, observer, receipts, history
<1>1. ReleaseTypeOK'
  <2>1. ServersTyped'
    BY RegistryAssumption
       DEF ReleaseTypeOK, ServersTyped, RunTyped, Unpublished, NoVersion, Kind, NpmDistTag
  <2>2. RunTyped'
    BY DEF ReleaseTypeOK, RunTyped
  <2> QED BY <2>1, <2>2 DEF ReleaseTypeOK
<1>2. Receipts'
  BY DEF Receipts, ReleaseTypeOK, ServersTyped, RunTyped
<1>3. ReleaseStands'
  BY DEF ReleaseStands, Receipts, ReleaseTypeOK, ServersTyped, RunTyped, Kind
<1>4. TagStands'
  BY DEF TagStands, Receipts, ReleaseTypeOK, ServersTyped, RunTyped
<1>5. LagKept'
  BY RegistryAssumption DEF LagKept, ReleaseTypeOK, ServersTyped, RunTyped, Unpublished
<1>6. OnlyAbsentDeleted'
  BY RegistryAssumption DEF OnlyAbsentDeleted, LagKept, ReleaseTypeOK, ServersTyped, RunTyped,
         Unpublished
<1>7. Remembered'
  BY DEF Remembered, Receipts, ReleaseTypeOK, ServersTyped, RunTyped, TagStands
<1>8. ReleasesBacked'
  BY DEF ReleasesBacked, Receipts, ReleaseTypeOK, ServersTyped, RunTyped,
         Published, Unpublished, Kind
<1>9. MajorBacked'
  BY DEF MajorBacked, Sound, Published, Receipts, TagStands, Remembered,
         ReleaseTypeOK, ServersTyped, RunTyped, Unpublished
<1>10. ChannelsKept'
  BY VersionsAssumption DEF ChannelsKept, Receipts, ReleaseTypeOK, ServersTyped, RunTyped, Published,
         Unpublished, NpmDistTag, Remembered
<1>11. RollbackComplete'
  BY DEF RollbackComplete, Remembered, ReleasesBacked, Receipts, TagStands,
         ReleaseTypeOK, ServersTyped, RunTyped, Published, Unpublished, Kind
<1> QED BY <1>1, <1>2, <1>3, <1>4, <1>5, <1>6, <1>7, <1>8, <1>9, <1>10, <1>11

LEMMA LookupMissesKeeps ==
  ASSUME ReleaseInv, LookupMisses
  PROVE  ReleaseInv'
<1> USE DEF ReleaseInv, Goes, LookupMisses, Asks, Continues, Observed, Verdict, Misses, Expected, Decided, Troubles,
           servers, observer, receipts, history
<1>1. ReleaseTypeOK'
  <2>1. ServersTyped'
    BY RegistryAssumption
       DEF ReleaseTypeOK, ServersTyped, RunTyped, Unpublished, NoVersion, Kind, NpmDistTag
  <2>2. RunTyped'
    <3>1. ({major, previous, before} \subseteq FirstTags \cup Versions \cup {NoTag})'
      BY DEF ReleaseTypeOK, RunTyped
    <3>2. (version \in Versions /\ trouble \subseteq Versions)'
      BY DEF ReleaseTypeOK, RunTyped
    <3>3. (created \in BOOLEAN /\ changed \in BOOLEAN /\ found \in BOOLEAN)'
      BY DEF ReleaseTypeOK, RunTyped
    <3>4. uncertain' \in BOOLEAN
      BY DEF ReleaseTypeOK, RunTyped
    <3>5. attempt' \in Nat
      BY DEF ReleaseTypeOK, RunTyped
    <3>6. (pc \in {"idle", "preflight", "expect", "create", "promote", "promoteWrite", "publish",
                "recover", "observe", "delete", "restore", "restoreWrite", "succeeded",
                "failed"})'
      BY DEF ReleaseTypeOK, RunTyped
    <3> QED BY <3>1, <3>2, <3>3, <3>4, <3>5, <3>6 DEF RunTyped
  <2> QED BY <2>1, <2>2 DEF ReleaseTypeOK
<1>2. Receipts'
  BY DEF Receipts, ReleaseTypeOK, ServersTyped, RunTyped
<1>3. ReleaseStands'
  BY DEF ReleaseStands, Receipts, ReleaseTypeOK, ServersTyped, RunTyped, Kind
<1>4. TagStands'
  BY DEF TagStands, Receipts, ReleaseTypeOK, ServersTyped, RunTyped
<1>5. LagKept'
  BY RegistryAssumption DEF LagKept, ReleaseTypeOK, ServersTyped, RunTyped, Unpublished
<1>6. OnlyAbsentDeleted'
  BY RegistryAssumption DEF OnlyAbsentDeleted, LagKept, ReleaseTypeOK, ServersTyped, RunTyped,
         Unpublished
<1>7. Remembered'
  BY DEF Remembered, Receipts, ReleaseTypeOK, ServersTyped, RunTyped, TagStands
<1>8. ReleasesBacked'
  BY DEF ReleasesBacked, Receipts, ReleaseTypeOK, ServersTyped, RunTyped,
         Published, Unpublished, Kind
<1>9. MajorBacked'
  BY DEF MajorBacked, Sound, Published, Receipts, TagStands, Remembered,
         ReleaseTypeOK, ServersTyped, RunTyped, Unpublished
<1>10. ChannelsKept'
  BY VersionsAssumption DEF ChannelsKept, Receipts, ReleaseTypeOK, ServersTyped, RunTyped, Published,
         Unpublished, NpmDistTag, Remembered
<1>11. RollbackComplete'
  BY DEF RollbackComplete, Remembered, ReleasesBacked, Receipts, TagStands,
         ReleaseTypeOK, ServersTyped, RunTyped, Published, Unpublished, Kind
<1> QED BY <1>1, <1>2, <1>3, <1>4, <1>5, <1>6, <1>7, <1>8, <1>9, <1>10, <1>11

LEMMA LookupHitsKeeps ==
  ASSUME ReleaseInv, LookupHits
  PROVE  ReleaseInv'
<1> USE DEF ReleaseInv, Goes, LookupHits, Asks, Observed, Expected, Decided, Troubles,
           servers, observer, receipts, history
<1>1. ReleaseTypeOK'
  <2>1. ServersTyped'
    BY RegistryAssumption
       DEF ReleaseTypeOK, ServersTyped, RunTyped, Unpublished, NoVersion, Kind, NpmDistTag
  <2>2. RunTyped'
    <3>1. ({major, previous, before} \subseteq FirstTags \cup Versions \cup {NoTag})'
      BY DEF ReleaseTypeOK, RunTyped
    <3>2. (version \in Versions /\ trouble \subseteq Versions)'
      BY DEF ReleaseTypeOK, RunTyped
    <3>3. (created \in BOOLEAN /\ changed \in BOOLEAN /\ found \in BOOLEAN)'
      BY DEF ReleaseTypeOK, RunTyped
    <3>4. uncertain' \in BOOLEAN
      BY DEF ReleaseTypeOK, RunTyped
    <3>5. attempt' \in Nat
      BY DEF ReleaseTypeOK, RunTyped
    <3>6. (pc \in {"idle", "preflight", "expect", "create", "promote", "promoteWrite", "publish",
                "recover", "observe", "delete", "restore", "restoreWrite", "succeeded",
                "failed"})'
      BY DEF ReleaseTypeOK, RunTyped
    <3> QED BY <3>1, <3>2, <3>3, <3>4, <3>5, <3>6 DEF RunTyped
  <2> QED BY <2>1, <2>2 DEF ReleaseTypeOK
<1>2. Receipts'
  BY DEF Receipts, ReleaseTypeOK, ServersTyped, RunTyped
<1>3. ReleaseStands'
  BY DEF ReleaseStands, Receipts, ReleaseTypeOK, ServersTyped, RunTyped, Kind
<1>4. TagStands'
  BY DEF TagStands, Receipts, ReleaseTypeOK, ServersTyped, RunTyped
<1>5. LagKept'
  BY RegistryAssumption DEF LagKept, ReleaseTypeOK, ServersTyped, RunTyped, Unpublished
<1>6. OnlyAbsentDeleted'
  BY RegistryAssumption DEF OnlyAbsentDeleted, LagKept, ReleaseTypeOK, ServersTyped, RunTyped,
         Unpublished
<1>7. Remembered'
  BY DEF Remembered, Receipts, ReleaseTypeOK, ServersTyped, RunTyped, TagStands
<1>8. ReleasesBacked'
  BY DEF ReleasesBacked, Receipts, ReleaseTypeOK, ServersTyped, RunTyped,
         Published, Unpublished, Kind
<1>9. MajorBacked'
  BY DEF MajorBacked, Sound, Published, Receipts, TagStands, Remembered,
         ReleaseTypeOK, ServersTyped, RunTyped, Unpublished
<1>10. ChannelsKept'
  BY VersionsAssumption DEF ChannelsKept, Receipts, ReleaseTypeOK, ServersTyped, RunTyped, Published,
         Unpublished, NpmDistTag, Remembered
<1>11. RollbackComplete'
  BY DEF RollbackComplete, Remembered, ReleasesBacked, Receipts, TagStands,
         ReleaseTypeOK, ServersTyped, RunTyped, Published, Unpublished, Kind
<1> QED BY <1>1, <1>2, <1>3, <1>4, <1>5, <1>6, <1>7, <1>8, <1>9, <1>10, <1>11

LEMMA LookupFailsKeeps ==
  ASSUME ReleaseInv, LookupFails
  PROVE  ReleaseInv'
<1> USE DEF ReleaseInv, Goes, LookupFails, Asks, Continues, Observed, Verdict, Expected, Decided, Troubles,
           servers, observer, receipts, history
<1>1. ReleaseTypeOK'
  <2>1. ServersTyped'
    BY RegistryAssumption
       DEF ReleaseTypeOK, ServersTyped, RunTyped, Unpublished, NoVersion, Kind, NpmDistTag
  <2>2. RunTyped'
    <3>1. ({major, previous, before} \subseteq FirstTags \cup Versions \cup {NoTag})'
      BY DEF ReleaseTypeOK, RunTyped
    <3>2. (version \in Versions /\ trouble \subseteq Versions)'
      BY DEF ReleaseTypeOK, RunTyped
    <3>3. (created \in BOOLEAN /\ changed \in BOOLEAN /\ found \in BOOLEAN)'
      BY DEF ReleaseTypeOK, RunTyped
    <3>4. uncertain' \in BOOLEAN
      BY DEF ReleaseTypeOK, RunTyped
    <3>5. attempt' \in Nat
      BY DEF ReleaseTypeOK, RunTyped
    <3>6. (pc \in {"idle", "preflight", "expect", "create", "promote", "promoteWrite", "publish",
                "recover", "observe", "delete", "restore", "restoreWrite", "succeeded",
                "failed"})'
      BY DEF ReleaseTypeOK, RunTyped
    <3> QED BY <3>1, <3>2, <3>3, <3>4, <3>5, <3>6 DEF RunTyped
  <2> QED BY <2>1, <2>2 DEF ReleaseTypeOK
<1>2. Receipts'
  BY DEF Receipts, ReleaseTypeOK, ServersTyped, RunTyped
<1>3. ReleaseStands'
  BY DEF ReleaseStands, Receipts, ReleaseTypeOK, ServersTyped, RunTyped, Kind
<1>4. TagStands'
  BY DEF TagStands, Receipts, ReleaseTypeOK, ServersTyped, RunTyped
<1>5. LagKept'
  BY RegistryAssumption DEF LagKept, ReleaseTypeOK, ServersTyped, RunTyped, Unpublished
<1>6. OnlyAbsentDeleted'
  BY RegistryAssumption DEF OnlyAbsentDeleted, LagKept, ReleaseTypeOK, ServersTyped, RunTyped,
         Unpublished
<1>7. Remembered'
  BY DEF Remembered, Receipts, ReleaseTypeOK, ServersTyped, RunTyped, TagStands
<1>8. ReleasesBacked'
  BY DEF ReleasesBacked, Receipts, ReleaseTypeOK, ServersTyped, RunTyped,
         Published, Unpublished, Kind
<1>9. MajorBacked'
  BY DEF MajorBacked, Sound, Published, Receipts, TagStands, Remembered,
         ReleaseTypeOK, ServersTyped, RunTyped, Unpublished
<1>10. ChannelsKept'
  BY VersionsAssumption DEF ChannelsKept, Receipts, ReleaseTypeOK, ServersTyped, RunTyped, Published,
         Unpublished, NpmDistTag, Remembered
<1>11. RollbackComplete'
  BY DEF RollbackComplete, Remembered, ReleasesBacked, Receipts, TagStands,
         ReleaseTypeOK, ServersTyped, RunTyped, Published, Unpublished, Kind
<1> QED BY <1>1, <1>2, <1>3, <1>4, <1>5, <1>6, <1>7, <1>8, <1>9, <1>10, <1>11

LEMMA CreateReleaseKeeps ==
  ASSUME ReleaseInv, CreateRelease
  PROVE  ReleaseInv'
<1> USE DEF ReleaseInv, Goes, CreateRelease, Creates, Fails, Troubles,
           servers, observer, receipts, history
<1>1. ReleaseTypeOK'
  <2>1. ServersTyped'
    BY RegistryAssumption
       DEF ReleaseTypeOK, ServersTyped, RunTyped, Unpublished, NoVersion, Kind, NpmDistTag
  <2>2. RunTyped'
    <3>1. ({major, previous, before} \subseteq FirstTags \cup Versions \cup {NoTag})'
      BY DEF ReleaseTypeOK, RunTyped
    <3>2. (version \in Versions /\ trouble \subseteq Versions)'
      BY DEF ReleaseTypeOK, RunTyped
    <3>3. (created \in BOOLEAN /\ changed \in BOOLEAN /\ found \in BOOLEAN)'
      BY DEF ReleaseTypeOK, RunTyped
    <3>4. uncertain' \in BOOLEAN
      BY DEF ReleaseTypeOK, RunTyped
    <3>5. attempt' \in Nat
      BY DEF ReleaseTypeOK, RunTyped
    <3>6. (pc \in {"idle", "preflight", "expect", "create", "promote", "promoteWrite", "publish",
                "recover", "observe", "delete", "restore", "restoreWrite", "succeeded",
                "failed"})'
      BY DEF ReleaseTypeOK, RunTyped
    <3> QED BY <3>1, <3>2, <3>3, <3>4, <3>5, <3>6 DEF RunTyped
  <2> QED BY <2>1, <2>2 DEF ReleaseTypeOK
<1>2. Receipts'
  BY DEF Receipts, ReleaseTypeOK, ServersTyped, RunTyped
<1>3. ReleaseStands'
  BY DEF ReleaseStands, Receipts, ReleaseTypeOK, ServersTyped, RunTyped, Kind
<1>4. TagStands'
  BY DEF TagStands, Receipts, ReleaseTypeOK, ServersTyped, RunTyped
<1>5. LagKept'
  BY RegistryAssumption DEF LagKept, ReleaseTypeOK, ServersTyped, RunTyped, Unpublished
<1>6. OnlyAbsentDeleted'
  BY RegistryAssumption DEF OnlyAbsentDeleted, LagKept, ReleaseTypeOK, ServersTyped, RunTyped,
         Unpublished
<1>7. Remembered'
  BY DEF Remembered, Receipts, ReleaseTypeOK, ServersTyped, RunTyped, TagStands
<1>8. ReleasesBacked'
  BY DEF ReleasesBacked, Receipts, ReleaseTypeOK, ServersTyped, RunTyped,
         Published, Unpublished, Kind
<1>9. MajorBacked'
  BY DEF MajorBacked, Sound, Published, Receipts, TagStands, Remembered,
         ReleaseTypeOK, ServersTyped, RunTyped, Unpublished
<1>10. ChannelsKept'
  BY VersionsAssumption DEF ChannelsKept, Receipts, ReleaseTypeOK, ServersTyped, RunTyped, Published,
         Unpublished, NpmDistTag, Remembered
<1>11. RollbackComplete'
  BY DEF RollbackComplete, Remembered, ReleasesBacked, Receipts, TagStands,
         ReleaseTypeOK, ServersTyped, RunTyped, Published, Unpublished, Kind
<1> QED BY <1>1, <1>2, <1>3, <1>4, <1>5, <1>6, <1>7, <1>8, <1>9, <1>10, <1>11

LEMMA PromoteLookupKeeps ==
  ASSUME ReleaseInv, PromoteLookup
  PROVE  ReleaseInv'
<1> USE DEF ReleaseInv, Goes, PromoteLookup, Fails,
           servers, observer, receipts, history
<1>1. ReleaseTypeOK'
  <2>1. ServersTyped'
    BY RegistryAssumption
       DEF ReleaseTypeOK, ServersTyped, RunTyped, Unpublished, NoVersion, Kind, NpmDistTag
  <2>2. RunTyped'
    BY DEF ReleaseTypeOK, RunTyped
  <2> QED BY <2>1, <2>2 DEF ReleaseTypeOK
<1>2. Receipts'
  BY DEF Receipts, ReleaseTypeOK, ServersTyped, RunTyped
<1>3. ReleaseStands'
  BY DEF ReleaseStands, Receipts, ReleaseTypeOK, ServersTyped, RunTyped, Kind
<1>4. TagStands'
  BY DEF TagStands, Receipts, ReleaseTypeOK, ServersTyped, RunTyped
<1>5. LagKept'
  BY RegistryAssumption DEF LagKept, ReleaseTypeOK, ServersTyped, RunTyped, Unpublished
<1>6. OnlyAbsentDeleted'
  BY RegistryAssumption DEF OnlyAbsentDeleted, LagKept, ReleaseTypeOK, ServersTyped, RunTyped,
         Unpublished
<1>7. Remembered'
  BY DEF Remembered, Receipts, ReleaseTypeOK, ServersTyped, RunTyped, TagStands
<1>8. ReleasesBacked'
  BY DEF ReleasesBacked, Receipts, ReleaseTypeOK, ServersTyped, RunTyped,
         Published, Unpublished, Kind
<1>9. MajorBacked'
  BY DEF MajorBacked, Sound, Published, Receipts, TagStands, Remembered,
         ReleaseTypeOK, ServersTyped, RunTyped, Unpublished
<1>10. ChannelsKept'
  BY VersionsAssumption DEF ChannelsKept, Receipts, ReleaseTypeOK, ServersTyped, RunTyped, Published,
         Unpublished, NpmDistTag, Remembered
<1>11. RollbackComplete'
  BY DEF RollbackComplete, Remembered, ReleasesBacked, Receipts, TagStands,
         ReleaseTypeOK, ServersTyped, RunTyped, Published, Unpublished, Kind
<1> QED BY <1>1, <1>2, <1>3, <1>4, <1>5, <1>6, <1>7, <1>8, <1>9, <1>10, <1>11

LEMMA PromoteWriteKeeps ==
  ASSUME ReleaseInv, PromoteWrite
  PROVE  ReleaseInv'
<1> USE DEF ReleaseInv, Goes, PromoteWrite, WritesTag, Fails, Troubles,
           servers, observer, receipts, history
<1>1. ReleaseTypeOK'
  <2>1. ServersTyped'
    BY RegistryAssumption
       DEF ReleaseTypeOK, ServersTyped, RunTyped, Unpublished, NoVersion, Kind, NpmDistTag
  <2>2. RunTyped'
    BY DEF ReleaseTypeOK, RunTyped
  <2> QED BY <2>1, <2>2 DEF ReleaseTypeOK
<1>2. Receipts'
  BY DEF Receipts, ReleaseTypeOK, ServersTyped, RunTyped
<1>3. ReleaseStands'
  BY DEF ReleaseStands, Receipts, ReleaseTypeOK, ServersTyped, RunTyped, Kind
<1>4. TagStands'
  BY DEF TagStands, Receipts, ReleaseTypeOK, ServersTyped, RunTyped
<1>5. LagKept'
  BY RegistryAssumption DEF LagKept, ReleaseTypeOK, ServersTyped, RunTyped, Unpublished
<1>6. OnlyAbsentDeleted'
  BY RegistryAssumption DEF OnlyAbsentDeleted, LagKept, ReleaseTypeOK, ServersTyped, RunTyped,
         Unpublished
<1>7. Remembered'
  BY DEF Remembered, Receipts, ReleaseTypeOK, ServersTyped, RunTyped, TagStands
<1>8. ReleasesBacked'
  BY DEF ReleasesBacked, Receipts, ReleaseTypeOK, ServersTyped, RunTyped,
         Published, Unpublished, Kind
<1>9. MajorBacked'
  BY DEF MajorBacked, Sound, Published, Receipts, TagStands, Remembered,
         ReleaseTypeOK, ServersTyped, RunTyped, Unpublished
<1>10. ChannelsKept'
  BY VersionsAssumption DEF ChannelsKept, Receipts, ReleaseTypeOK, ServersTyped, RunTyped, Published,
         Unpublished, NpmDistTag, Remembered
<1>11. RollbackComplete'
  BY DEF RollbackComplete, Remembered, ReleasesBacked, Receipts, TagStands,
         ReleaseTypeOK, ServersTyped, RunTyped, Published, Unpublished, Kind
<1> QED BY <1>1, <1>2, <1>3, <1>4, <1>5, <1>6, <1>7, <1>8, <1>9, <1>10, <1>11

LEMMA PublishKeeps ==
  ASSUME ReleaseInv, Publish
  PROVE  ReleaseInv'
<1> USE DEF ReleaseInv, Goes, Publish, Publishes, Fails,
           servers, observer, receipts, history
<1>1. ReleaseTypeOK'
  <2>1. ServersTyped'
    BY RegistryAssumption
       DEF ReleaseTypeOK, ServersTyped, RunTyped, Unpublished, NoVersion, Kind, NpmDistTag
  <2>2. RunTyped'
    BY DEF ReleaseTypeOK, RunTyped
  <2> QED BY <2>1, <2>2 DEF ReleaseTypeOK
<1>2. Receipts'
  BY DEF Receipts, ReleaseTypeOK, ServersTyped, RunTyped
<1>3. ReleaseStands'
  BY DEF ReleaseStands, Receipts, ReleaseTypeOK, ServersTyped, RunTyped, Kind
<1>4. TagStands'
  BY DEF TagStands, Receipts, ReleaseTypeOK, ServersTyped, RunTyped
<1>5. LagKept'
  BY RegistryAssumption DEF LagKept, ReleaseTypeOK, ServersTyped, RunTyped, Unpublished
<1>6. OnlyAbsentDeleted'
  BY RegistryAssumption DEF OnlyAbsentDeleted, LagKept, ReleaseTypeOK, ServersTyped, RunTyped,
         Unpublished
<1>7. Remembered'
  BY DEF Remembered, Receipts, ReleaseTypeOK, ServersTyped, RunTyped, TagStands
<1>8. ReleasesBacked'
  BY DEF ReleasesBacked, Receipts, ReleaseTypeOK, ServersTyped, RunTyped,
         Published, Unpublished, Kind
<1>9. MajorBacked'
  BY DEF MajorBacked, Sound, Published, Receipts, TagStands, Remembered,
         ReleaseTypeOK, ServersTyped, RunTyped, Unpublished
<1>10. ChannelsKept'
  BY VersionsAssumption DEF ChannelsKept, Receipts, ReleaseTypeOK, ServersTyped, RunTyped, Published,
         Unpublished, NpmDistTag, Remembered
<1>11. RollbackComplete'
  BY DEF RollbackComplete, Remembered, ReleasesBacked, Receipts, TagStands,
         ReleaseTypeOK, ServersTyped, RunTyped, Published, Unpublished, Kind
<1> QED BY <1>1, <1>2, <1>3, <1>4, <1>5, <1>6, <1>7, <1>8, <1>9, <1>10, <1>11

LEMMA RecoverKeeps ==
  ASSUME ReleaseInv, Recover
  PROVE  ReleaseInv'
<1> USE DEF ReleaseInv, Goes, Recover, Owes,
           servers, observer, receipts, history
<1>1. ReleaseTypeOK'
  <2>1. ServersTyped'
    BY RegistryAssumption
       DEF ReleaseTypeOK, ServersTyped, RunTyped, Unpublished, NoVersion, Kind, NpmDistTag
  <2>2. RunTyped'
    BY DEF ReleaseTypeOK, RunTyped
  <2> QED BY <2>1, <2>2 DEF ReleaseTypeOK
<1>2. Receipts'
  BY DEF Receipts, ReleaseTypeOK, ServersTyped, RunTyped
<1>3. ReleaseStands'
  BY DEF ReleaseStands, Receipts, ReleaseTypeOK, ServersTyped, RunTyped, Kind
<1>4. TagStands'
  BY DEF TagStands, Receipts, ReleaseTypeOK, ServersTyped, RunTyped
<1>5. LagKept'
  BY RegistryAssumption DEF LagKept, ReleaseTypeOK, ServersTyped, RunTyped, Unpublished
<1>6. OnlyAbsentDeleted'
  BY RegistryAssumption DEF OnlyAbsentDeleted, LagKept, ReleaseTypeOK, ServersTyped, RunTyped,
         Unpublished
<1>7. Remembered'
  BY DEF Remembered, Receipts, ReleaseTypeOK, ServersTyped, RunTyped, TagStands
<1>8. ReleasesBacked'
  BY DEF ReleasesBacked, Receipts, ReleaseTypeOK, ServersTyped, RunTyped,
         Published, Unpublished, Kind
<1>9. MajorBacked'
  BY DEF MajorBacked, Sound, Published, Receipts, TagStands, Remembered,
         ReleaseTypeOK, ServersTyped, RunTyped, Unpublished
<1>10. ChannelsKept'
  BY VersionsAssumption DEF ChannelsKept, Receipts, ReleaseTypeOK, ServersTyped, RunTyped, Published,
         Unpublished, NpmDistTag, Remembered
<1>11. RollbackComplete'
  BY DEF RollbackComplete, Remembered, ReleasesBacked, Receipts, TagStands,
         ReleaseTypeOK, ServersTyped, RunTyped, Published, Unpublished, Kind
<1> QED BY <1>1, <1>2, <1>3, <1>4, <1>5, <1>6, <1>7, <1>8, <1>9, <1>10, <1>11

LEMMA DeleteReleaseKeeps ==
  ASSUME ReleaseInv, DeleteRelease
  PROVE  ReleaseInv'
<1> USE DEF ReleaseInv, Goes, DeleteRelease, AfterDelete, Troubles,
           servers, observer, receipts, history
<1>1. ReleaseTypeOK'
  <2>1. ServersTyped'
    BY RegistryAssumption
       DEF ReleaseTypeOK, ServersTyped, RunTyped, Unpublished, NoVersion, Kind, NpmDistTag
  <2>2. RunTyped'
    BY DEF ReleaseTypeOK, RunTyped
  <2> QED BY <2>1, <2>2 DEF ReleaseTypeOK
<1>2. Receipts'
  BY DEF Receipts, ReleaseTypeOK, ServersTyped, RunTyped
<1>3. ReleaseStands'
  BY DEF ReleaseStands, Receipts, ReleaseTypeOK, ServersTyped, RunTyped, Kind
<1>4. TagStands'
  BY DEF TagStands, Receipts, ReleaseTypeOK, ServersTyped, RunTyped
<1>5. LagKept'
  BY RegistryAssumption DEF LagKept, ReleaseTypeOK, ServersTyped, RunTyped, Unpublished
<1>6. OnlyAbsentDeleted'
  BY RegistryAssumption DEF OnlyAbsentDeleted, LagKept, ReleaseTypeOK, ServersTyped, RunTyped,
         Unpublished
<1>7. Remembered'
  BY DEF Remembered, Receipts, ReleaseTypeOK, ServersTyped, RunTyped, TagStands
<1>8. ReleasesBacked'
  BY DEF ReleasesBacked, Receipts, ReleaseTypeOK, ServersTyped, RunTyped,
         Published, Unpublished, Kind
<1>9. MajorBacked'
  BY DEF MajorBacked, Sound, Published, Receipts, TagStands, Remembered,
         ReleaseTypeOK, ServersTyped, RunTyped, Unpublished
<1>10. ChannelsKept'
  BY VersionsAssumption DEF ChannelsKept, Receipts, ReleaseTypeOK, ServersTyped, RunTyped, Published,
         Unpublished, NpmDistTag, Remembered
<1>11. RollbackComplete'
  BY DEF RollbackComplete, Remembered, ReleasesBacked, Receipts, TagStands,
         ReleaseTypeOK, ServersTyped, RunTyped, Published, Unpublished, Kind
<1> QED BY <1>1, <1>2, <1>3, <1>4, <1>5, <1>6, <1>7, <1>8, <1>9, <1>10, <1>11

LEMMA RestoreLookupKeeps ==
  ASSUME ReleaseInv, RestoreLookup
  PROVE  ReleaseInv'
<1> USE DEF ReleaseInv, Goes, RestoreLookup, Troubles,
           servers, observer, receipts, history
<1>1. ReleaseTypeOK'
  <2>1. ServersTyped'
    BY RegistryAssumption
       DEF ReleaseTypeOK, ServersTyped, RunTyped, Unpublished, NoVersion, Kind, NpmDistTag
  <2>2. RunTyped'
    BY DEF ReleaseTypeOK, RunTyped
  <2> QED BY <2>1, <2>2 DEF ReleaseTypeOK
<1>2. Receipts'
  BY DEF Receipts, ReleaseTypeOK, ServersTyped, RunTyped
<1>3. ReleaseStands'
  BY DEF ReleaseStands, Receipts, ReleaseTypeOK, ServersTyped, RunTyped, Kind
<1>4. TagStands'
  BY DEF TagStands, Receipts, ReleaseTypeOK, ServersTyped, RunTyped
<1>5. LagKept'
  BY RegistryAssumption DEF LagKept, ReleaseTypeOK, ServersTyped, RunTyped, Unpublished
<1>6. OnlyAbsentDeleted'
  BY RegistryAssumption DEF OnlyAbsentDeleted, LagKept, ReleaseTypeOK, ServersTyped, RunTyped,
         Unpublished
<1>7. Remembered'
  BY DEF Remembered, Receipts, ReleaseTypeOK, ServersTyped, RunTyped, TagStands
<1>8. ReleasesBacked'
  BY DEF ReleasesBacked, Receipts, ReleaseTypeOK, ServersTyped, RunTyped,
         Published, Unpublished, Kind
<1>9. MajorBacked'
  BY DEF MajorBacked, Sound, Published, Receipts, TagStands, Remembered,
         ReleaseTypeOK, ServersTyped, RunTyped, Unpublished
<1>10. ChannelsKept'
  BY VersionsAssumption DEF ChannelsKept, Receipts, ReleaseTypeOK, ServersTyped, RunTyped, Published,
         Unpublished, NpmDistTag, Remembered
<1>11. RollbackComplete'
  BY DEF RollbackComplete, Remembered, ReleasesBacked, Receipts, TagStands,
         ReleaseTypeOK, ServersTyped, RunTyped, Published, Unpublished, Kind
<1> QED BY <1>1, <1>2, <1>3, <1>4, <1>5, <1>6, <1>7, <1>8, <1>9, <1>10, <1>11

LEMMA RestoreDeleteKeeps ==
  ASSUME ReleaseInv, RestoreDelete
  PROVE  ReleaseInv'
<1> USE DEF ReleaseInv, Goes, RestoreDelete, Troubles,
           servers, observer, receipts, history
<1>1. ReleaseTypeOK'
  <2>1. ServersTyped'
    BY RegistryAssumption
       DEF ReleaseTypeOK, ServersTyped, RunTyped, Unpublished, NoVersion, Kind, NpmDistTag
  <2>2. RunTyped'
    BY DEF ReleaseTypeOK, RunTyped
  <2> QED BY <2>1, <2>2 DEF ReleaseTypeOK
<1>2. Receipts'
  BY DEF Receipts, ReleaseTypeOK, ServersTyped, RunTyped
<1>3. ReleaseStands'
  BY DEF ReleaseStands, Receipts, ReleaseTypeOK, ServersTyped, RunTyped, Kind
<1>4. TagStands'
  BY DEF TagStands, Receipts, ReleaseTypeOK, ServersTyped, RunTyped
<1>5. LagKept'
  BY RegistryAssumption DEF LagKept, ReleaseTypeOK, ServersTyped, RunTyped, Unpublished
<1>6. OnlyAbsentDeleted'
  BY RegistryAssumption DEF OnlyAbsentDeleted, LagKept, ReleaseTypeOK, ServersTyped, RunTyped,
         Unpublished
<1>7. Remembered'
  BY DEF Remembered, Receipts, ReleaseTypeOK, ServersTyped, RunTyped, TagStands
<1>8. ReleasesBacked'
  BY DEF ReleasesBacked, Receipts, ReleaseTypeOK, ServersTyped, RunTyped,
         Published, Unpublished, Kind
<1>9. MajorBacked'
  BY DEF MajorBacked, Sound, Published, Receipts, TagStands, Remembered,
         ReleaseTypeOK, ServersTyped, RunTyped, Unpublished
<1>10. ChannelsKept'
  BY VersionsAssumption DEF ChannelsKept, Receipts, ReleaseTypeOK, ServersTyped, RunTyped, Published,
         Unpublished, NpmDistTag, Remembered
<1>11. RollbackComplete'
  BY DEF RollbackComplete, Remembered, ReleasesBacked, Receipts, TagStands,
         ReleaseTypeOK, ServersTyped, RunTyped, Published, Unpublished, Kind
<1> QED BY <1>1, <1>2, <1>3, <1>4, <1>5, <1>6, <1>7, <1>8, <1>9, <1>10, <1>11

LEMMA RestoreWriteKeeps ==
  ASSUME ReleaseInv, RestoreWrite
  PROVE  ReleaseInv'
<1> USE DEF ReleaseInv, Goes, RestoreWrite, Restored, WritesTag, Troubles,
           servers, observer, receipts, history
<1>1. ReleaseTypeOK'
  <2>1. ServersTyped'
    BY RegistryAssumption
       DEF ReleaseTypeOK, ServersTyped, RunTyped, Unpublished, NoVersion, Kind, NpmDistTag
  <2>2. RunTyped'
    BY DEF ReleaseTypeOK, RunTyped
  <2> QED BY <2>1, <2>2 DEF ReleaseTypeOK
<1>2. Receipts'
  BY DEF Receipts, ReleaseTypeOK, ServersTyped, RunTyped
<1>3. ReleaseStands'
  BY DEF ReleaseStands, Receipts, ReleaseTypeOK, ServersTyped, RunTyped, Kind
<1>4. TagStands'
  BY DEF TagStands, Receipts, ReleaseTypeOK, ServersTyped, RunTyped
<1>5. LagKept'
  BY RegistryAssumption DEF LagKept, ReleaseTypeOK, ServersTyped, RunTyped, Unpublished
<1>6. OnlyAbsentDeleted'
  BY RegistryAssumption DEF OnlyAbsentDeleted, LagKept, ReleaseTypeOK, ServersTyped, RunTyped,
         Unpublished
<1>7. Remembered'
  BY DEF Remembered, Receipts, ReleaseTypeOK, ServersTyped, RunTyped, TagStands
<1>8. ReleasesBacked'
  BY DEF ReleasesBacked, Receipts, ReleaseTypeOK, ServersTyped, RunTyped,
         Published, Unpublished, Kind
<1>9. MajorBacked'
  BY DEF MajorBacked, Sound, Published, Receipts, TagStands, Remembered,
         ReleaseTypeOK, ServersTyped, RunTyped, Unpublished
<1>10. ChannelsKept'
  BY VersionsAssumption DEF ChannelsKept, Receipts, ReleaseTypeOK, ServersTyped, RunTyped, Published,
         Unpublished, NpmDistTag, Remembered
<1>11. RollbackComplete'
  BY DEF RollbackComplete, Remembered, ReleasesBacked, Receipts, TagStands,
         ReleaseTypeOK, ServersTyped, RunTyped, Published, Unpublished, Kind
<1> QED BY <1>1, <1>2, <1>3, <1>4, <1>5, <1>6, <1>7, <1>8, <1>9, <1>10, <1>11

LEMMA EndKeeps ==
  ASSUME ReleaseInv, End
  PROVE  ReleaseInv'
<1> USE DEF ReleaseInv, Goes, End,
           servers, observer, receipts, history
<1>1. ReleaseTypeOK'
  <2>1. ServersTyped'
    BY RegistryAssumption
       DEF ReleaseTypeOK, ServersTyped, RunTyped, Unpublished, NoVersion, Kind, NpmDistTag
  <2>2. RunTyped'
    BY DEF ReleaseTypeOK, RunTyped
  <2> QED BY <2>1, <2>2 DEF ReleaseTypeOK
<1>2. Receipts'
  BY DEF Receipts, ReleaseTypeOK, ServersTyped, RunTyped
<1>3. ReleaseStands'
  BY DEF ReleaseStands, Receipts, ReleaseTypeOK, ServersTyped, RunTyped, Kind
<1>4. TagStands'
  BY DEF TagStands, Receipts, ReleaseTypeOK, ServersTyped, RunTyped
<1>5. LagKept'
  BY RegistryAssumption DEF LagKept, ReleaseTypeOK, ServersTyped, RunTyped, Unpublished
<1>6. OnlyAbsentDeleted'
  BY RegistryAssumption DEF OnlyAbsentDeleted, LagKept, ReleaseTypeOK, ServersTyped, RunTyped,
         Unpublished
<1>7. Remembered'
  BY DEF Remembered, Receipts, ReleaseTypeOK, ServersTyped, RunTyped, TagStands
<1>8. ReleasesBacked'
  BY DEF ReleasesBacked, Receipts, ReleaseTypeOK, ServersTyped, RunTyped,
         Published, Unpublished, Kind
<1>9. MajorBacked'
  BY DEF MajorBacked, Sound, Published, Receipts, TagStands, Remembered,
         ReleaseTypeOK, ServersTyped, RunTyped, Unpublished
<1>10. ChannelsKept'
  BY VersionsAssumption DEF ChannelsKept, Receipts, ReleaseTypeOK, ServersTyped, RunTyped, Published,
         Unpublished, NpmDistTag, Remembered
<1>11. RollbackComplete'
  BY DEF RollbackComplete, Remembered, ReleasesBacked, Receipts, TagStands,
         ReleaseTypeOK, ServersTyped, RunTyped, Published, Unpublished, Kind
<1> QED BY <1>1, <1>2, <1>3, <1>4, <1>5, <1>6, <1>7, <1>8, <1>9, <1>10, <1>11

LEMMA KillKeeps ==
  ASSUME ReleaseInv, Kill
  PROVE  ReleaseInv'
<1> USE DEF ReleaseInv, Goes, Kill, Troubles,
           servers, observer, receipts, history
<1>1. ReleaseTypeOK'
  <2>1. ServersTyped'
    BY RegistryAssumption
       DEF ReleaseTypeOK, ServersTyped, RunTyped, Unpublished, NoVersion, Kind, NpmDistTag
  <2>2. RunTyped'
    BY DEF ReleaseTypeOK, RunTyped
  <2> QED BY <2>1, <2>2 DEF ReleaseTypeOK
<1>2. Receipts'
  BY DEF Receipts, ReleaseTypeOK, ServersTyped, RunTyped
<1>3. ReleaseStands'
  BY DEF ReleaseStands, Receipts, ReleaseTypeOK, ServersTyped, RunTyped, Kind
<1>4. TagStands'
  BY DEF TagStands, Receipts, ReleaseTypeOK, ServersTyped, RunTyped
<1>5. LagKept'
  BY RegistryAssumption DEF LagKept, ReleaseTypeOK, ServersTyped, RunTyped, Unpublished
<1>6. OnlyAbsentDeleted'
  BY RegistryAssumption DEF OnlyAbsentDeleted, LagKept, ReleaseTypeOK, ServersTyped, RunTyped,
         Unpublished
<1>7. Remembered'
  BY DEF Remembered, Receipts, ReleaseTypeOK, ServersTyped, RunTyped, TagStands
<1>8. ReleasesBacked'
  BY DEF ReleasesBacked, Receipts, ReleaseTypeOK, ServersTyped, RunTyped,
         Published, Unpublished, Kind
<1>9. MajorBacked'
  BY DEF MajorBacked, Sound, Published, Receipts, TagStands, Remembered,
         ReleaseTypeOK, ServersTyped, RunTyped, Unpublished
<1>10. ChannelsKept'
  BY VersionsAssumption DEF ChannelsKept, Receipts, ReleaseTypeOK, ServersTyped, RunTyped, Published,
         Unpublished, NpmDistTag, Remembered
<1>11. RollbackComplete'
  BY DEF RollbackComplete, Remembered, ReleasesBacked, Receipts, TagStands,
         ReleaseTypeOK, ServersTyped, RunTyped, Published, Unpublished, Kind
<1> QED BY <1>1, <1>2, <1>3, <1>4, <1>5, <1>6, <1>7, <1>8, <1>9, <1>10, <1>11

LEMMA CreateByHandKeeps ==
  ASSUME ReleaseInv, NEW v \in Versions, CreateByHand(v)
  PROVE  ReleaseInv'
<1> USE DEF ReleaseInv, Goes, CreateByHand,
           servers, observer, receipts, history
<1>1. ReleaseTypeOK'
  <2>1. ServersTyped'
    BY RegistryAssumption
       DEF ReleaseTypeOK, ServersTyped, RunTyped, Unpublished, NoVersion, Kind, NpmDistTag
  <2>2. RunTyped'
    BY DEF ReleaseTypeOK, RunTyped
  <2> QED BY <2>1, <2>2 DEF ReleaseTypeOK
<1>2. Receipts'
  BY DEF Receipts, ReleaseTypeOK, ServersTyped, RunTyped
<1>3. ReleaseStands'
  BY DEF ReleaseStands, Receipts, ReleaseTypeOK, ServersTyped, RunTyped, Kind
<1>4. TagStands'
  BY DEF TagStands, Receipts, ReleaseTypeOK, ServersTyped, RunTyped
<1>5. LagKept'
  BY RegistryAssumption DEF LagKept, ReleaseTypeOK, ServersTyped, RunTyped, Unpublished
<1>6. OnlyAbsentDeleted'
  BY RegistryAssumption DEF OnlyAbsentDeleted, LagKept, ReleaseTypeOK, ServersTyped, RunTyped,
         Unpublished
<1>7. Remembered'
  BY DEF Remembered, Receipts, ReleaseTypeOK, ServersTyped, RunTyped, TagStands
<1>8. ReleasesBacked'
  BY DEF ReleasesBacked, Receipts, ReleaseTypeOK, ServersTyped, RunTyped,
         Published, Unpublished, Kind
<1>9. MajorBacked'
  BY DEF MajorBacked, Sound, Published, Receipts, TagStands, Remembered,
         ReleaseTypeOK, ServersTyped, RunTyped, Unpublished
<1>10. ChannelsKept'
  BY VersionsAssumption DEF ChannelsKept, Receipts, ReleaseTypeOK, ServersTyped, RunTyped, Published,
         Unpublished, NpmDistTag, Remembered
<1>11. RollbackComplete'
  BY DEF RollbackComplete, Remembered, ReleasesBacked, Receipts, TagStands,
         ReleaseTypeOK, ServersTyped, RunTyped, Published, Unpublished, Kind
<1> QED BY <1>1, <1>2, <1>3, <1>4, <1>5, <1>6, <1>7, <1>8, <1>9, <1>10, <1>11

-----------------------------------------------------------------------------
(* Theorems *)

LEMMA InitInv == ReleaseInit => ReleaseInv
<1> SUFFICES ASSUME ReleaseInit PROVE ReleaseInv
  OBVIOUS
<1> USE DEF ReleaseInit
<1>1. ReleaseTypeOK
  <2>1. release \in [Versions -> {"none", "stable", "prerelease", "foreign"}]
    OBVIOUS
  <2>2. package \in [Versions -> Unpublished..Lag]
    BY RegistryAssumption DEF Unpublished
  <2>3. distTags \in [{"latest", "next"} -> Versions \cup {NoVersion}]
    OBVIOUS
  <2>4. {major, previous, before} \subseteq FirstTags \cup Versions \cup {NoTag}
    OBVIOUS
  <2>5. created \in BOOLEAN /\ changed \in BOOLEAN /\ found \in BOOLEAN /\ uncertain \in BOOLEAN
    OBVIOUS
  <2>6. version \in Versions /\ trouble \subseteq Versions /\ attempt \in Nat
    OBVIOUS
  <2> QED
    BY <2>1, <2>2, <2>3, <2>4, <2>5, <2>6 DEF ReleaseTypeOK, ServersTyped, RunTyped
<1>2. Receipts /\ ReleaseStands /\ TagStands /\ LagKept /\ OnlyAbsentDeleted
  BY DEF Receipts, ReleaseStands, TagStands, LagKept, OnlyAbsentDeleted
<1>3. Remembered /\ MajorBacked /\ RollbackComplete
  BY DEF Remembered, MajorBacked, Sound, RollbackComplete
<1>4. ReleasesBacked
  BY DEF ReleasesBacked, Kind
<1>5. ChannelsKept
  BY VersionsAssumption DEF ChannelsKept, NoVersion
<1> QED
  BY <1>1, <1>2, <1>3, <1>4, <1>5 DEF ReleaseInv

LEMMA StutterKeeps ==
  ASSUME ReleaseInv, UNCHANGED releaseVars
  PROVE  ReleaseInv'
BY DEF releaseVars, servers, receipts, observer, history, ReleaseInv, ReleaseTypeOK,
       ServersTyped, RunTyped, Receipts, ReleaseStands, TagStands, LagKept, OnlyAbsentDeleted,
       Remembered, ReleasesBacked, MajorBacked, Sound, Published, ChannelsKept, RollbackComplete

LEMMA NextKeeps == ReleaseInv /\ [ReleaseNext]_releaseVars => ReleaseInv'
<1> SUFFICES ASSUME ReleaseInv, [ReleaseNext]_releaseVars PROVE ReleaseInv'
  OBVIOUS
<1>1. CASE Run
  BY <1>1, CaptureKeeps, LookupMissesKeeps, LookupHitsKeeps, LookupFailsKeeps,
     CreateReleaseKeeps, PromoteLookupKeeps, PromoteWriteKeeps, PublishKeeps, RecoverKeeps,
     DeleteReleaseKeeps, RestoreLookupKeeps, RestoreDeleteKeeps, RestoreWriteKeeps, EndKeeps
     DEF Run
<1>2. CASE Kill
  BY <1>2, KillKeeps
<1>3. CASE \E v \in Versions : Start(v) \/ CreateByHand(v)
  BY <1>3, StartKeeps, CreateByHandKeeps
<1>4. CASE UNCHANGED releaseVars
  BY <1>4, StutterKeeps
<1> QED
  BY <1>1, <1>2, <1>3, <1>4 DEF ReleaseNext

LEMMA AlwaysInv == ReleaseSpec => []ReleaseInv
BY InitInv, NextKeeps, PTL DEF ReleaseSpec

\* The variables of the services and of the run keep their types.
THEOREM ReleaseTypeCorrect == ReleaseSpec => []ReleaseTypeOK
<1>1. ReleaseInv => ReleaseTypeOK
  BY DEF ReleaseInv
<1> QED
  BY <1>1, AlwaysInv, PTL

\* A run that fails without having published, and without trouble that its
\* recovery does not reach, leaves the release and the major tag as they were.
THEOREM RollbackAlwaysComplete == ReleaseSpec => []RollbackComplete
<1>1. ReleaseInv => RollbackComplete
  BY DEF ReleaseInv
<1> QED
  BY <1>1, AlwaysInv, PTL

\* Between runs the major tag and the releases have their packages.
THEOREM RestingAlwaysAgrees == ReleaseSpec => []RestingAgrees
<1>1. ReleaseInv => RestingAgrees
  BY DEF ReleaseInv, ReleasesBacked, MajorBacked, Sound, RestingAgrees
<1> QED
  BY <1>1, AlwaysInv, PTL

\* A run that succeeds leaves what release-evidence.mjs asks for.
THEOREM SuccessAlwaysEvidenced == ReleaseSpec => []SuccessEvidenced
<1>1. ReleaseInv => SuccessEvidenced
  <2> SUFFICES ASSUME ReleaseInv, pc = "succeeded", package[version] = 0
               PROVE  Evidence(version)
    BY DEF SuccessEvidenced
  <2>1. distTags[NpmDistTag(version)] = version /\ release[version] = Kind(version)
    BY DEF ReleaseInv, ChannelsKept, ReleaseStands, Receipts
  <2>2. version \notin Stable => distTags["latest"] # version /\ major # version
    BY DEF ReleaseInv, ChannelsKept, ReleaseTypeOK, RunTyped
  <2>3. version \in Stable => major = version
    BY DEF ReleaseInv, TagStands, Receipts
  <2> QED
    BY <2>1, <2>2, <2>3 DEF Evidence
<1> QED
  BY <1>1, AlwaysInv, PTL

\* A release that disappears was the run's own, and its version is not published.
THEOREM RemovesJustly == ReleaseSpec => RemovedJustly
<1> DEFINE Just == \A v \in Versions :
      release[v] # "none" /\ release'[v] = "none"
        => v \notin Published /\ release[v] = Kind(v)
<1>1. ReleaseInv /\ [ReleaseNext]_releaseVars => [Just]_releaseVars
  <2> SUFFICES ASSUME ReleaseInv, ReleaseNext, NEW v \in Versions,
                      release[v] # "none", release'[v] = "none"
               PROVE  v \notin Published /\ release[v] = Kind(v)
    OBVIOUS
  <2> USE DEF ReleaseInv, ReleaseTypeOK, ServersTyped, RunTyped
  <2>1. release' # release
    OBVIOUS
  <2>2. ~Kill /\ ~UNCHANGED releaseVars /\ ~\E w \in Versions : Start(w) \/ CreateByHand(w)
    BY <2>1 DEF Kill, releaseVars, servers, Start, CreateByHand
  <2>3. ~CreateRelease
    BY DEF CreateRelease, Creates, Kind
  <2>4. DeleteRelease
    BY <2>1, <2>2, <2>3
       DEF ReleaseNext, Run, Capture, LookupMisses, LookupHits, LookupFails, PromoteLookup,
           PromoteWrite, Publish, Recover, RestoreLookup, RestoreDelete, RestoreWrite, End,
           servers
  <2>5. v = version /\ pc = "delete"
    BY <2>1, <2>4 DEF DeleteRelease, Goes
  <2> QED
    BY <2>5 DEF OnlyAbsentDeleted, ReleaseStands, Receipts, Published
<1> QED
  BY <1>1, AlwaysInv, PTL DEF ReleaseSpec, RemovedJustly
=============================================================================
