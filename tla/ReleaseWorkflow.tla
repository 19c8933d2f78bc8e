--------------------------- MODULE ReleaseWorkflow ---------------------------
(***************************************************************************)
(* The release workflow, .github/workflows/release.yml, with the scripts   *)
(* it runs: scripts/npm-release-visibility.mjs, which asks the registry    *)
(* for a version, and scripts/github-major-tag.mjs, which moves the major  *)
(* tag; and what scripts/release-evidence.mjs demands of a release later.  *)
(*                                                                         *)
(* GitHub and npm are two services that no transaction spans.  A call to   *)
(* one of them may be refused, or carried out and its answer lost, and a   *)
(* runner may be killed between any two calls.  The concurrency group lets *)
(* one run work at a time, in whatever order tags are pushed and rerun.    *)
(***************************************************************************)
EXTENDS Integers, FiniteSets

CONSTANTS
  Versions,         \* version tags; each is the name of its commit as well
  Stable,           \* those that are no prereleases
  FirstTags,        \* what the major tag may lead to at first
  NoTag,            \* there is no major tag
  Attempts,         \* lookups of observeNpmVersion
  Lag,              \* lookups that may still miss a version once it is published
  LostAnswers,      \* calls whose answers may be lost: "create", "tag", "publish"
  MaxRuns           \* bound: runs

\* The registry shows a version before all lookups are used up.
ASSUME RegistryAssumption ==
  Attempts \in Nat /\ Lag \in Nat /\ Lag < Attempts

ASSUME VersionsAssumption ==
  /\ Stable \subseteq Versions /\ NoTag \notin Versions /\ "none" \notin Versions
  /\ FirstTags \cap Versions = {}

VARIABLES
  release,          \* GitHub's releases: "none", "stable", "prerelease" or
                    \* "foreign", one that somebody created by hand
  major,            \* what the major tag leads to
  package,          \* npm's versions: Unpublished, or the number of lookups
                    \* that may still miss it
  distTags,         \* npm's channels, "latest" and "next"
  pc,               \* the step the run is at
  version,          \* the tag the run is for
  previous,         \* PREVIOUS_MAJOR_TARGET
  created, changed, \* the receipts of the steps release-create and major-tag
  attempt, uncertain, \* of observeNpmVersion
  found             \* whether the lookup of the major tag found it

VARIABLES           \* history
  runs,             \* runs begun
  before,           \* what the major tag led to when the run began
  trouble           \* versions one of whose runs was killed, missed an answer
                    \* its receipts need, could not ask the registry, or was
                    \* refused in its recovery

servers == <<release, major, package, distTags>>
observer == <<attempt, uncertain>>
receipts == <<created, changed>>
history == <<runs, before, trouble>>
releaseVars == <<servers, pc, version, previous, receipts, observer, found, history>>

Unpublished == -1
NoVersion == "none"

\* Mutant: every version is published to one channel.
NpmDistTag_Latest(v) == "latest"

\* RELEASE_KIND and NPM_DIST_TAG.
Kind(v) == IF v \in Stable THEN "stable" ELSE "prerelease"
NpmDistTag(v) == IF v \in Stable THEN "latest" ELSE "next"
Published == {v \in Versions : package[v] # Unpublished}

-----------------------------------------------------------------------------
(* Steps *)

ReleaseInit ==
  /\ release = [v \in Versions |-> "none"] /\ major \in FirstTags
  /\ package = [v \in Versions |-> Unpublished]
  /\ distTags = [channel \in {"latest", "next"} |-> NoVersion]
  /\ pc = "idle" /\ version \in Versions /\ previous = NoTag
  /\ created = FALSE /\ changed = FALSE
  /\ attempt = 0 /\ uncertain = FALSE /\ found = FALSE
  /\ runs = 0 /\ before = major /\ trouble = {}

Goes(from, to) == pc = from /\ pc' = to
Troubles == trouble' = trouble \cup {version} /\ UNCHANGED <<runs, before>>

\* A step that fails leads to the step with "if: failure()"; recovery that
\* fails ends the run.
Fails(from) == Goes(from, "recover") /\ UNCHANGED <<observer, found>>

\* Somebody pushes a tag, or reruns its workflow: checkout and checks.
Start(v) ==
  /\ Goes("idle", "preflight") /\ runs < MaxRuns
  /\ version' = v /\ previous' = NoTag
  /\ created' = FALSE /\ changed' = FALSE
  /\ attempt' = 0 /\ uncertain' = FALSE /\ found' = FALSE
  /\ runs' = runs + 1 /\ before' = major
  /\ UNCHANGED <<servers, trouble>>

\* Capture release recovery state, where "gh release view" has the run fail when
\* there is a release, but whatever keeps gh from answering counts as none.  Any
\* step up to here may fail as well.
Capture ==
  /\ previous' = major
  /\ \/ Goes("preflight", "expect") /\ UNCHANGED <<observer, found>>
     \/ Fails("preflight")
  /\ UNCHANGED <<servers, version, receipts, history>>

-----------------------------------------------------------------------------
(* npm-release-visibility.mjs *)

\* Mutant: a lookup that fails is one that found nothing.
Verdict_Optimistic(doubt) == "absent"

\* The end of observeNpmVersion after the last lookup.
Verdict(doubt) == IF doubt THEN "unknown" ELSE "absent"

\* The mode expect-absent, and the recovery step, on the state that was observed.
Expected(state) == pc' = IF state = "absent" THEN "create" ELSE "recover"
Decided(state) ==
  pc' = IF state # "absent" THEN "failed" ELSE IF created THEN "delete"
        ELSE IF changed THEN "restore" ELSE "failed"

Observed(state) ==
  /\ attempt' = 0 /\ uncertain' = FALSE
  /\ IF pc = "expect" THEN Expected(state) /\ UNCHANGED history
     ELSE /\ Decided(state)
          /\ IF state = "unknown" /\ version \notin Published
             THEN Troubles ELSE UNCHANGED history

Continues(doubt) ==
  IF attempt + 1 < Attempts
  THEN attempt' = attempt + 1 /\ uncertain' = doubt /\ UNCHANGED <<pc, history>>
  ELSE Observed(Verdict(doubt))

Asks == pc \in {"expect", "observe"}
Misses(n) == n - (IF n > 0 THEN 1 ELSE 0)

\* 404: the version is not there, or not to be seen yet.
LookupMisses ==
  /\ Asks /\ package[version] # 0 /\ Continues(uncertain)
  /\ package' = [package EXCEPT ![version] = Misses(@)]
  /\ UNCHANGED <<release, major, distTags, version, previous, receipts, found>>

\* 200 with the version, or with a body that cannot be read.
LookupHits ==
  /\ Asks /\ version \in Published
  /\ package' = [package EXCEPT ![version] = 0]
  /\ \E state \in {"published", "unknown"} : Observed(state)
  /\ UNCHANGED <<release, major, distTags, version, previous, receipts, found>>

\* Any other status, or no answer.
LookupFails ==
  /\ Asks /\ Continues(TRUE)
  /\ UNCHANGED <<servers, version, previous, receipts, found>>

-----------------------------------------------------------------------------
(* GitHub release and major tag *)

\* gh release create, and its receipt.
Creates ==
  /\ release[version] = "none"
  /\ release' = [release EXCEPT ![version] = Kind(version)]

CreateRelease ==
  /\ \/ /\ Creates /\ created' = TRUE /\ UNCHANGED <<history, observer, found>>
        /\ Goes("create", IF version \in Stable THEN "promote" ELSE "publish")
     \/ Fails("create") /\ UNCHANGED <<release, created, history>>
     \/ "create" \in LostAnswers /\ Creates /\ Fails("create") /\ Troubles
        /\ UNCHANGED created
  /\ UNCHANGED <<major, package, distTags, version, previous, changed>>

\* promoteMajorTag looks the tag up, then patches or creates it.
PromoteLookup ==
  /\ \/ Goes("promote", "promoteWrite") /\ found' = (major # NoTag) /\ UNCHANGED observer
     \/ Fails("promote")
  /\ UNCHANGED <<servers, version, previous, receipts, history>>

\* PATCH needs the tag, POST needs that there is none.
WritesTag(target) == found = (major # NoTag) /\ major' = target

PromoteWrite ==
  /\ \/ /\ Goes("promoteWrite", "publish") /\ WritesTag(version) /\ changed' = TRUE
        /\ UNCHANGED <<history, observer, found>>
     \/ Fails("promoteWrite") /\ UNCHANGED <<major, changed, history>>
     \/ "tag" \in LostAnswers /\ Fails("promoteWrite") /\ WritesTag(version) /\ Troubles
        /\ UNCHANGED changed
  /\ UNCHANGED <<release, package, distTags, version, previous, created>>

\* npm publish; the version then shows after some lookups.
Publishes ==
  /\ version \notin Published
  /\ \E lookups \in 0..Lag : package' = [package EXCEPT ![version] = lookups]
  /\ distTags' = [distTags EXCEPT ![NpmDistTag(version)] = version]

Publish ==
  /\ \/ Goes("publish", "succeeded") /\ Publishes /\ UNCHANGED <<observer, found>>
     \/ Fails("publish") /\ UNCHANGED <<package, distTags>>
     \/ "publish" \in LostAnswers /\ Fails("publish") /\ Publishes
  /\ UNCHANGED <<release, major, version, previous, receipts, history>>

-----------------------------------------------------------------------------
(* Recovery *)

Owes == created \/ changed

Recover ==
  /\ Goes("recover", IF Owes THEN "observe" ELSE "failed")
  /\ attempt' = 0 /\ uncertain' = FALSE
  /\ UNCHANGED <<servers, version, previous, receipts, found, history>>

\* Mutant: recovery ends with the removal of the release.
AfterDelete_Ends == "failed"

AfterDelete == IF changed THEN "restore" ELSE "failed"

\* gh release delete || true.
DeleteRelease ==
  /\ Goes("delete", AfterDelete)
  /\ \/ release' = [release EXCEPT ![version] = "none"] /\ UNCHANGED history
     \/ Troubles /\ UNCHANGED release
  /\ UNCHANGED <<major, package, distTags, version, previous, receipts, observer, found>>

\* Mutant: a tag that was there before is removed.
Restored_Removes(target) == major' = NoTag

Restored(target) == WritesTag(target)

\* restoreMajorTag deletes a tag that was not there before and writes back one
\* that was.
RestoreLookup ==
  /\ previous # NoTag
  /\ \/ Goes("restore", "restoreWrite") /\ found' = (major # NoTag) /\ UNCHANGED history
     \/ Goes("restore", "failed") /\ Troubles /\ UNCHANGED found
  /\ UNCHANGED <<servers, version, previous, receipts, observer>>

RestoreDelete ==
  /\ previous = NoTag /\ Goes("restore", "failed")
  /\ \/ major' = NoTag /\ UNCHANGED history
     \/ Troubles /\ UNCHANGED major
  /\ UNCHANGED <<release, package, distTags, version, previous, receipts, observer, found>>

RestoreWrite ==
  /\ Goes("restoreWrite", "failed")
  /\ \/ Restored(previous) /\ UNCHANGED history
     \/ Troubles /\ UNCHANGED major
  /\ UNCHANGED <<release, package, distTags, version, previous, receipts, observer, found>>

-----------------------------------------------------------------------------
(* The world around *)

\* The run is over; the group admits another.
End ==
  /\ pc \in {"succeeded", "failed"} /\ pc' = "idle"
  /\ UNCHANGED <<servers, version, previous, receipts, observer, found, history>>

\* A run that is cancelled, times out or loses its runner does not recover,
\* since cancelled() is not failure().
Kill ==
  /\ pc \notin {"idle", "succeeded", "failed"} /\ pc' = "idle" /\ Troubles
  /\ UNCHANGED <<servers, version, previous, receipts, observer, found>>

\* Somebody creates the release by hand.
CreateByHand(v) ==
  /\ release[v] = "none" /\ release' = [release EXCEPT ![v] = "foreign"]
  /\ UNCHANGED <<major, package, distTags, pc, version, previous, receipts,
                 observer, found, history>>

Run ==
  \/ Capture \/ LookupMisses \/ LookupHits \/ LookupFails
  \/ CreateRelease \/ PromoteLookup \/ PromoteWrite \/ Publish
  \/ Recover \/ DeleteRelease \/ RestoreLookup \/ RestoreDelete \/ RestoreWrite
  \/ End

ReleaseNext ==
  \/ Run \/ Kill
  \/ \E v \in Versions : Start(v) \/ CreateByHand(v)
  \/ pc = "idle" /\ runs = MaxRuns /\ UNCHANGED releaseVars

ReleaseSpec == ReleaseInit /\ [][ReleaseNext]_releaseVars
-----------------------------------------------------------------------------
(* release-evidence.mjs *)

\* What it demands of a version that was released last.
Evidence(v) ==
  /\ package[v] = 0 /\ distTags[NpmDistTag(v)] = v
  /\ v \notin Stable => distTags["latest"] # v
  /\ release[v] = Kind(v)
  /\ (major = v) = (v \in Stable)

-----------------------------------------------------------------------------
(* Properties *)

ServersTyped ==
  /\ release \in [Versions -> {"none", "stable", "prerelease", "foreign"}]
  /\ package \in [Versions -> Unpublished..Lag]
  /\ distTags \in [{"latest", "next"} -> Versions \cup {NoVersion}]

RunTyped ==
  /\ {major, previous, before} \subseteq FirstTags \cup Versions \cup {NoTag}
  /\ version \in Versions /\ trouble \subseteq Versions
  /\ created \in BOOLEAN /\ changed \in BOOLEAN /\ found \in BOOLEAN
  /\ uncertain \in BOOLEAN /\ attempt \in Nat
  /\ pc \in {"idle", "preflight", "expect", "create", "promote", "promoteWrite", "publish",
             "recover", "observe", "delete", "restore", "restoreWrite", "succeeded", "failed"}

ReleaseTypeOK == ServersTyped /\ RunTyped

\* Recovery removes a release only if its run created it and its version is
\* not published, although the answer of "npm publish" may be lost and the
\* registry may be late.
RemovedJustly ==
  [][\A v \in Versions :
       release[v] # "none" /\ release'[v] = "none"
         => v \notin Published /\ release[v] = Kind(v)]_releaseVars

\* A run that fails without having published leaves GitHub as it was, unless
\* it had the trouble that recovery does not reach.
RollbackComplete ==
  pc = "failed" /\ version \notin Published \cup trouble
    => major = before /\ release[version] # Kind(version)

\* Between runs, whatever their number and order, the major tag leads to a
\* version that can be installed, and each release has its package.
RestingAgrees ==
  pc = "idle" =>
    /\ major \in FirstTags \cup (Published \cap Stable) \cup trouble
    /\ \A v \in Versions : release[v] = Kind(v) => v \in Published \cup trouble

\* A run that succeeds leaves what the evidence of the release asks for, once
\* the registry shows the version.
SuccessEvidenced ==
  pc = "succeeded" /\ package[version] = 0 => Evidence(version)
=============================================================================
