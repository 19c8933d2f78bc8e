--------------------------- MODULE ManifestContents ---------------------------
(***************************************************************************)
(* What is made of one parsed manifest: the adapter for ZDP contracts      *)
(* (packages/core/src/adapters.ts), the rules of the service schema        *)
(* (packages/schema/src/service-manifest.ts) and the checks after it       *)
(* (packages/core/src/validator.ts).                                       *)
(*                                                                         *)
(* A text of a contract, with no blanks around it, is a record of what the *)
(* adapter and the schema tell apart:                                      *)
(*   shape    "id" matches the pattern of StableIdSchema; "stem" does not, *)
(*            but would with "-contract" added match that of references (a *)
(*            single letter, a colon in it); or "other"                    *)
(*   length   in characters, 0 when it is absent or no text                *)
(*   slug     the length of the id in it: what ids cannot use becomes one  *)
(*            hyphen, or nothing at either end                             *)
(*   digit    whether that id begins with a digit                          *)
(*   secret   how it looks like a secret: as it is, as an id, or with      *)
(*            "-contract" added                                            *)
(***************************************************************************)
EXTENDS FiniteSets, Naturals

IsText(t) ==
  /\ t.shape \in {"id", "stem", "other"} /\ t.length \in Nat /\ t.slug \in Nat
  /\ t.digit \in BOOLEAN /\ t.secret \subseteq {"text", "id", "contract"}
  /\ t.shape = "id" => t.length >= 2 /\ t.slug \in 2..t.length /\ ~t.digit
  /\ t.length = 0 => t.slug = 0 /\ t.secret = {}
  /\ t.slug = 0 => ~t.digit /\ "id" \notin t.secret
  /\ "text" \in t.secret => "contract" \in t.secret

Unknown == [shape |-> "id", length |-> 7, slug |-> 7, digit |-> FALSE, secret |-> {}]

\* readString.
IsGiven(text) == text.length > 0
OrElse(text, default) == IF IsGiven(text) THEN text ELSE default
GivenOf(texts) == {t \in texts : IsGiven(t)}

\* A string that the adapter makes, as the schema sees it: the pattern that it
\* matches ("id", "reference" or "none"), its length, and whether it looks
\* like a secret.
Made(pattern, length, secret) == [pattern |-> pattern, length |-> length, secret |-> secret]

\* Only ids are matched with a pattern as they are.
AsIs(text) ==
  Made(IF text.shape = "id" THEN "id" ELSE "none", text.length, "text" \in text.secret)

\* Mutant: ids may begin with a digit.
ToStableId_KeepsDigit(text) ==
  IF text.slug = 0 THEN Made("id", 7, FALSE)
  ELSE Made(IF text.slug = 1 \/ text.digit THEN "none" ELSE "id", text.slug, "id" \in text.secret)

\* toStableId: "unknown" for nothing, "id-" before a digit.  It shortens
\* nothing, and a single letter stays one, which is no id.
ToStableId(text) ==
  IF text.slug = 0 THEN Made("id", 7, FALSE)
  ELSE IF text.digit THEN Made("id", 3 + text.slug, "id" \in text.secret)
  ELSE Made(IF text.slug = 1 THEN "none" ELSE "id", text.slug, "id" \in text.secret)

\* toOwnerRef puts "system:" before the id, which makes a reference of a letter.
ToOwnerRef(text) ==
  LET id == ToStableId(text) IN Made("reference", 7 + id.length, id.secret)

\* deploy.targets[0].ref, the id with "-contract" added.
ToDeployRef(id) ==
  Made(IF id.shape = "other" THEN "none" ELSE "reference", id.length + 9,
       "contract" \in id.secret)

-----------------------------------------------------------------------------
(* adapters.ts *)

MapLifecycle(status) ==
  CASE status \in {"active", "scaling"} -> "production"
    [] status = "maintenance"           -> "deprecated"
    [] status = "sunset"                -> "retired"
    [] OTHER                            -> "experimental"

DependencyTypes ==
  [services |-> "service", datastores |-> "database", queues |-> "queue",
   internal_apis |-> "api", workers |-> "external"]

\* Dependencies are pairs of the list they are in and a text.
MapDependencies(dependencies) ==
  {[type |-> DependencyTypes[d[1]], target |-> ToStableId(d[2])] :
     d \in {e \in dependencies : IsGiven(e[2])}}

\* The contracts there may be: "copied" are the texts that go into the
\* extensions as they are, "nodate" is a day that no calendar has.
IsContract(zdp) ==
  /\ \A t \in {zdp.id, zdp.owner, zdp.costOwner, zdp.displayName, zdp.repo, zdp.core,
              zdp.framework, zdp.edge} \cup zdp.copied : IsText(t)
  /\ \A d \in zdp.dependencies : d[1] \in DOMAIN DependencyTypes /\ IsText(d[2])
  /\ zdp.reviewed \in {"fresh", "old", "future", "nodate", "absent"}

AdapterAccepts(zdp) ==
  /\ zdp.mappings /\ zdp.schemaVersion = 2
  /\ IsGiven(zdp.id) /\ zdp.reviewed # "absent"

\* What is optional in the manifest is a set of at most one string.
AdaptZdpV2Manifest(zdp) ==
  LET platform == OrElse(zdp.core, OrElse(zdp.framework, zdp.edge))
      framework == OrElse(zdp.framework, OrElse(zdp.core, zdp.edge))
  IN [id |-> AsIs(zdp.id), name |-> AsIs(OrElse(zdp.displayName, zdp.id)),
      lifecycle |-> MapLifecycle(zdp.status), retirement |-> "absent", note |-> FALSE,
      ownerRef |-> ToOwnerRef(OrElse(zdp.owner, Unknown)),
      slug |-> AsIs(OrElse(zdp.repo, zdp.id)),
      platform |-> AsIs(OrElse(platform, Unknown)),
      framework |-> {AsIs(t) : t \in GivenOf({framework})},
      deployRef |-> ToDeployRef(zdp.id),
      dependencies |-> MapDependencies(zdp.dependencies),
      costOwner |-> {ToOwnerRef(t) : t \in GivenOf({zdp.costOwner})},
      reviewed |-> zdp.reviewed,
      extensions |-> {AsIs(t) : t \in GivenOf(zdp.copied)}]

-----------------------------------------------------------------------------
(* service-manifest.ts *)

\* addServiceIssues: lifecycle and retirement say the same.
RetirementAgrees(value) ==
  /\ (value.lifecycle = "retired") = (value.retirement = "retired")
  /\ value.retirement = "retired" => value.note

IsStableId(string) == string.pattern = "id" /\ string.length <= 128
IsReference(string) == string.pattern \in {"id", "reference"} /\ string.length <= 128
Fits(string, max) == string.length \in 1..max

Strings(value) ==
  {value.id, value.name, value.ownerRef, value.slug, value.platform, value.deployRef}
  \cup value.framework \cup value.costOwner \cup value.extensions
  \cup {d.target : d \in value.dependencies}

\* ServiceManifestSchema, for the fields that an adapted contract fills.
SchemaAccepts(value) ==
  /\ IsStableId(value.id) /\ Fits(value.name, 160) /\ Fits(value.slug, 200)
  /\ \A s \in {value.platform} \cup value.framework : Fits(s, 80)
  /\ \A s \in {value.ownerRef, value.deployRef} \cup value.costOwner : IsReference(s)
  /\ \A d \in value.dependencies : IsStableId(d.target)
  /\ value.reviewed \in {"fresh", "old", "future"}
  /\ RetirementAgrees(value)
  /\ \A s \in Strings(value) : ~s.secret

-----------------------------------------------------------------------------
(* validator.ts *)

\* What is parsed is a contract of ZDP or a manifest of scg, unless the text is
\* broken; a manifest of the one kind lacks what the other kind needs.
AdapterError(parsed, inputSchema) ==
  /\ inputSchema = "zdp-v2"
  /\ parsed.kind = "zdp" => ~AdapterAccepts(parsed.value)

Adapted(parsed, inputSchema) ==
  IF inputSchema = "zdp-v2" THEN AdaptZdpV2Manifest(parsed.value) ELSE parsed.value

Normalizes(parsed, inputSchema) ==
  /\ parsed.kind # "broken" /\ ~AdapterError(parsed, inputSchema)
  /\ inputSchema = "scg-v1" => parsed.kind = "scg"
  /\ SchemaAccepts(Adapted(parsed, inputSchema))

\* validateParsedManifest, staleReviewDiagnostic and
\* unknownDependencyDiagnostics for the only manifest of a workspace, in which
\* every other service is unknown: the codes of what they report.
ManifestCodes(parsed, inputSchema, allowUnknownDependencies) ==
  LET value == Adapted(parsed, inputSchema) IN
  IF parsed.kind = "broken" THEN {"manifest.invalid_yaml"}
  ELSE IF AdapterError(parsed, inputSchema) THEN {"adapter.invalid_input"}
  ELSE IF ~Normalizes(parsed, inputSchema) THEN {"manifest.invalid"}
  ELSE {code \in {"metadata.stale_review"} : value.reviewed = "old"}
       \cup {code \in {"metadata.future_review"} : value.reviewed = "future"}
       \cup {code \in {"dependency.unknown_target"} :
               /\ ~allowUnknownDependencies
               /\ \E d \in value.dependencies : d.type = "service"}
=============================================================================
