----------------------------- MODULE MCInvocation -----------------------------
(***************************************************************************)
(* Instances of Invocation for TLC: every command line and every set of    *)
(* inputs over a few workspaces, and a few of them over every workspace.   *)
(***************************************************************************)
EXTENDS Invocation

-----------------------------------------------------------------------------
(* Manifests *)

Absent == [shape |-> "other", length |-> 0, slug |-> 0, digit |-> FALSE, secret |-> {}]
\* An id in kebab case, capitals and blanks, an id after a digit, and nothing
\* that an id can use.
Kebab(n) == [Unknown EXCEPT !.length = n, !.slug = n]
Loose(n) == [Kebab(n) EXCEPT !.shape = "other"]
Numbered(n) == [Loose(n) EXCEPT !.digit = TRUE]
Letter == [Kebab(1) EXCEPT !.shape = "stem"]
Symbols == [Loose(3) EXCEPT !.slug = 0]
\* One that only "-contract" makes look like a secret, "risk-" and 20 letters
\* more, and a token with underscores, which are hyphens in an id.
TaskName == [Kebab(17) EXCEPT !.secret = {"contract"}]
RiskName == [Kebab(25) EXCEPT !.secret = {"text", "id", "contract"}]
Token == [Loose(24) EXCEPT !.secret = {"text", "contract"}]

Contract ==
  [mappings |-> TRUE, schemaVersion |-> 2, id |-> Kebab(8), owner |-> Loose(8),
   costOwner |-> Absent, displayName |-> Absent, repo |-> Absent, core |-> Absent,
   framework |-> Absent, edge |-> Absent, copied |-> {}, status |-> "active",
   dependencies |-> {}, reviewed |-> "fresh"]

Contracts ==
  {Contract}
  \cup {[Contract EXCEPT !.id = t] :
          t \in {Kebab(119), Kebab(120), Kebab(128), Kebab(129), Letter, Loose(8), Symbols,
                 Absent, TaskName, RiskName}}
  \cup {[Contract EXCEPT !.owner = t] :
          t \in {Loose(121), Loose(122), Numbered(118), Numbered(119), Letter, Symbols,
                 Absent, RiskName, Token}}
  \cup {[Contract EXCEPT !.costOwner = t] : t \in {Loose(121), Loose(122), Letter}}
  \cup {[Contract EXCEPT !.displayName = t] : t \in {Loose(160), Loose(161), TaskName}}
  \cup {[Contract EXCEPT !.repo = t] : t \in {Loose(200), Loose(201)}}
  \cup {[Contract EXCEPT !.core = t, !.edge = Loose(81)] : t \in {Loose(81), Loose(80), Absent}}
  \cup {[Contract EXCEPT !.framework = Loose(81), !.core = Loose(8)],
        [Contract EXCEPT !.copied = {Loose(300), Token}]}
  \cup {[Contract EXCEPT !.dependencies = {<<list, t>>}] :
          list \in {"services", "workers"},
          t \in {Loose(128), Loose(129), Numbered(125), Numbered(126), Letter, Symbols, Absent}}
  \cup {[Contract EXCEPT !.status = s] : s \in {"maintenance", "sunset", "experiment"}}
  \cup {[Contract EXCEPT !.reviewed = day] : day \in {"old", "future", "nodate", "absent"}}
  \cup {[Contract EXCEPT !.schemaVersion = 1], [Contract EXCEPT !.mappings = FALSE]}

Service == AdaptZdpV2Manifest(Contract)

Services ==
  {Service} \cup {[Service EXCEPT !.reviewed = day] : day \in {"old", "future", "nodate"}}
  \cup {[Service EXCEPT !.lifecycle = "retired", !.retirement = r, !.note = n] :
          r \in {"absent", "planned", "retired"}, n \in BOOLEAN}
  \cup {[Service EXCEPT !.dependencies = {[type |-> "service", target |-> AsIs(Kebab(8))]}]}

Native(value) == [kind |-> "scg", value |-> value]
Stale == Native([Service EXCEPT !.reviewed = "old"])

Manifests ==
  {[kind |-> "broken"]} \cup {Native(s) : s \in Services}
  \cup {[kind |-> "zdp", value |-> c] : c \in Contracts}

World(manifest, scan, sink) == [manifest |-> manifest, scan |-> scan, sink |-> sink]
FewWorlds == {World(Stale, "fine", "file"), World([kind |-> "zdp", value |-> Contract], "fine", "file")}
AllWorlds ==
  {World(manifest, "fine", "file") : manifest \in Manifests}
  \cup {World(Stale, scan, sink) :
          scan \in {"fine", "locked", "clash", "beyondLimit"}, sink \in {"file", "none"}}

-----------------------------------------------------------------------------
(* Config files *)

Mapping(value) == [kind |-> "mapping", value |-> value]
NoFile == [kind |-> "none"]
Strict == Mapping([NoConfig EXCEPT !.failOnWarnings = "on", !.formats = {"html"}])
FewFiles == {NoFile, Strict}

SoundValues ==
  {NoConfig, Strict.value} \cup {[NoConfig EXCEPT !.allowUnknownDependencies = "on"],
   [NoConfig EXCEPT !.formats = {}], [NoConfig EXCEPT !.directory = "outside"],
   [NoConfig EXCEPT !.minimumServiceCount = 2], [NoConfig EXCEPT !.maxReportBytes = "small"],
   [NoConfig EXCEPT !.sources = "zdp-v2"],
   [NoConfig EXCEPT !.sources = "scg-v1", !.failOnWarnings = "on"]}

RefusedValues ==
  {[NoConfig EXCEPT !.refused = {place}] :
     place \in {"roots", "formats", "limits", "unknown key"}}

SoundFiles ==
  {[kind |-> k] : k \in {"none", "unreadable", "large", "notUtf8", "broken", "list"}}
  \cup {Mapping(value) : value \in SoundValues \cup RefusedValues}

\* A section of the config file holds something else than a mapping.
SpreadAway == {Mapping([NoConfig EXCEPT !.refused = {"validation"}])}

Changed == {NoFile, Strict, [kind |-> "broken"]}

-----------------------------------------------------------------------------
(* Command lines *)

FlagUses ==
  {<<flag>> : flag \in (Dashed \ ValueFlags) \ {"-h", "--version", "--no-color"}}
  \cup {<<"">>, <<"--root">>, <<"--root", "--json">>, <<"--root", "some">>,
        <<"--manifest", "some">>, <<"--config", "some">>, <<"--input-schema", "zdp-v2">>,
        <<"--input-schema", "some">>, <<"--format", "json">>, <<"--format", "html">>,
        <<"--format", "some">>, <<"--out", "inside">>, <<"--out", "outside">>}

Named == {<<>>} \cup {<<command>> : command \in Commands}
AllLines ==
  {n \o u : n \in Named, u \in FlagUses} \cup Named
  \cup {n \o u \o v : n \in {<<"check">>, <<"report">>}, u \in FlagUses, v \in FlagUses}
  \cup {<<"completion">>, <<"completion", "zsh">>, <<"completion", "some", "--json">>}

FewLines ==
  {<<"check", "--json">>, <<"check", "--input-schema", "zdp-v2">>,
   <<"report", "--summary-json">>, <<"report", "--allow-unknown-dependencies">>,
   <<"report", "--format", "json", "--input-schema", "zdp-v2">>,
   <<"scan", "--root", "some", "--no-fail-on-warning">>, <<"check", "--config", "some">>}

-----------------------------------------------------------------------------
(* Inputs of the Action *)

NoInputs ==
  [report |-> "", roots |-> <<>>, manifestName |-> "", inputSchema |-> "", config |-> "",
   failOnWarning |-> "", allowUnknown |-> "", outputDirectory |-> "", format |-> <<>>]

Varied(given) ==
  {[given EXCEPT !.roots = r] : r \in {<<"some", "">>, <<"--json">>}}
  \cup {[given EXCEPT !.manifestName = "some"], [given EXCEPT !.config = "some"]}
  \cup {[given EXCEPT !.inputSchema = i] : i \in {"zdp-v2", "some"}}
  \cup {[given EXCEPT !.failOnWarning = b] : b \in {"true", "false", "some"}}
  \cup {[given EXCEPT !.allowUnknown = b] : b \in {"true", "some"}}
  \cup {[given EXCEPT !.outputDirectory = d] : d \in {"inside", "outside"}}
  \cup {[given EXCEPT !.format = f] : f \in {<<"json", "">>, <<"json", "dot">>, <<"some">>}}

FewInputs == {NoInputs, [NoInputs EXCEPT !.report = "true"],
              [NoInputs EXCEPT !.report = "true", !.inputSchema = "zdp-v2",
                               !.format = <<"json">>]}
Reporting == {[NoInputs EXCEPT !.report = r] : r \in {"", "true", "some"}}
AllInputs == UNION {Varied(v) : v \in Reporting \cup UNION {Varied(r) : r \in Reporting}}

-----------------------------------------------------------------------------
FromShell(lines, worlds, files) ==
  [inputs : {Shell}, argv : lines, world : worlds, configFile : files]
FromAction(given, worlds, files) ==
  [inputs : given, argv : {<<>>}, world : worlds, configFile : files]

AllScenarios ==
  FromShell(AllLines, FewWorlds, FewFiles) \cup FromShell(FewLines, AllWorlds, SoundFiles)
  \cup FromAction(AllInputs, FewWorlds, FewFiles)
  \cup FromAction(FewInputs, AllWorlds, SoundFiles)

SpreadScenarios == FromShell(FewLines, FewWorlds, SpreadAway \cup FewFiles)
=============================================================================
