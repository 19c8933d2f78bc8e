------------------------------ MODULE Invocation ------------------------------
(***************************************************************************)
(* One invocation from its arguments to its exit code: the GitHub Action   *)
(* (packages/action/src/index.ts), which builds a command line and reads   *)
(* back what is printed, the command line itself (packages/cli/src/index   *)
(* .ts), and the report writer (packages/report/src/index.ts).  What the   *)
(* compiler makes of a manifest is ManifestContents; what becomes of the   *)
(* output while it is replaced is ReportPublisher.                         *)
(*                                                                         *)
(* Only what another process can do between two calls is a step of its     *)
(* own: the code from one await to the next is one action.                 *)
(***************************************************************************)
EXTENDS ManifestContents, SequencesExt, FiniteSetsExt

CONSTANTS
  Shell,            \* stands for inputs where the caller is no Action
  Scenarios,        \* records of the inputs, command line, world and config file
  Edits,            \* what the config file may become
  MaxEdits          \* bound: changes of the config file meanwhile

VARIABLES
  inputs,           \* of the Action, or Shell
  argv,             \* the command line
  world,            \* the only manifest, how its directory scans, the output's
                    \* directory, and whether GITHUB_OUTPUT is set
  configFile,       \* the config file as it is now
  pc,               \* the step that comes next
  args,             \* ParsedArgs
  config,           \* what was loaded, then merged with the flags
  snapshot,         \* codes of the diagnostics and number of services
  exitCode,         \* exit code of the CLI, then of the Action
  output,           \* formats of this invocation that are published, or Previous
  printed,          \* documents written to stdout and stderr
  outputs           \* lines of GITHUB_OUTPUT

VARIABLE seen       \* history: what the config file was meanwhile

invocationVars == <<inputs, argv, world, configFile, pc, args, config, snapshot,
                    exitCode, output, printed, outputs, seen>>

Previous == {"previous"}
NotYet == [is |-> "not yet"]
Unset == "unset"

-----------------------------------------------------------------------------
(* parseArgs *)

Commands == {"scan", "check", "report"}
ValueFlags == {"--input-schema", "--root", "--config", "--manifest", "--format", "--out"}
Formats == {"json", "dot", "html"}
Dashed == {"--help", "-h", "--version", "-v", "--json", "--summary-json", "--no-color",
           "--fail-on-warning", "--no-fail-on-warning", "--allow-unknown-dependencies",
           "--no-allow-unknown-dependencies", "--unknown"} \cup ValueFlags

InitialArgs ==
  [command |-> "scan", json |-> FALSE, summaryJson |-> FALSE, help |-> FALSE,
   version |-> FALSE, roots |-> FALSE, manifestNames |-> FALSE, formats |-> {},
   out |-> Unset, failOnWarnings |-> Unset, allowUnknownDependencies |-> Unset,
   inputSchema |-> Unset, configPath |-> Unset, awaiting |-> "none", usageError |-> FALSE]

Misused(state) == [state EXCEPT !.usageError = TRUE]

\* readFlagValue, parseInputSchema and parseReportFormat.
TakeValue(state, value) ==
  LET flag == state.awaiting
      next == [state EXCEPT !.awaiting = "none"] IN
  IF \/ value = "" \/ value \in Dashed
     \/ flag = "--format" /\ value \notin Formats
     \/ flag = "--input-schema" /\ value \notin {"scg-v1", "zdp-v2"}
  THEN Misused(state)
  ELSE CASE flag = "--root"         -> [next EXCEPT !.roots = TRUE]
         [] flag = "--manifest"     -> [next EXCEPT !.manifestNames = TRUE]
         [] flag = "--config"       -> [next EXCEPT !.configPath = value]
         [] flag = "--out"          -> [next EXCEPT !.out = value]
         [] flag = "--format"       -> [next EXCEPT !.formats = @ \cup {value}]
         [] flag = "--input-schema" -> [next EXCEPT !.inputSchema = value]

TakeFlag(state, token) ==
  CASE token \in {"--help", "-h"}    -> [state EXCEPT !.help = TRUE]
    [] token \in {"--version", "-v"} -> [state EXCEPT !.version = TRUE]
    [] token = "--json"              -> [state EXCEPT !.json = TRUE]
    [] token = "--summary-json"      -> [state EXCEPT !.summaryJson = TRUE]
    [] token = "--fail-on-warning"   -> [state EXCEPT !.failOnWarnings = "on"]
    [] token = "--no-fail-on-warning" -> [state EXCEPT !.failOnWarnings = "off"]
    [] token = "--allow-unknown-dependencies" ->
         [state EXCEPT !.allowUnknownDependencies = "on"]
    [] token = "--no-allow-unknown-dependencies" ->
         [state EXCEPT !.allowUnknownDependencies = "off"]
    [] token \in ValueFlags          -> [state EXCEPT !.awaiting = token]
    [] token \in {"", "--no-color"}  -> state
    [] OTHER                         -> Misused(state)

ParseToken(state, token) ==
  IF state.usageError THEN state
  ELSE IF state.awaiting # "none" THEN TakeValue(state, token) ELSE TakeFlag(state, token)

\* What is refused once all tokens are read.
Contradictory(state) ==
  \/ state.awaiting # "none"
  \/ state.command # "report" /\ state.formats \ {"json"} # {}
  \/ state.json /\ state.summaryJson

ParseArgs(tokens) ==
  LET named == Len(tokens) > 0 /\ Head(tokens) \in Commands
      state == FoldLeft(ParseToken,
                        IF named THEN [InitialArgs EXCEPT !.command = Head(tokens)]
                        ELSE InitialArgs,
                        IF named THEN Tail(tokens) ELSE tokens) IN
  IF Contradictory(state) THEN Misused(state) ELSE state

\* Mutant: the other flag is forgotten.
UsesJsonOutput_One(tokens) == \E token \in ToSet(tokens) : token = "--json"

UsesJsonOutput(tokens) == \E token \in ToSet(tokens) : token \in {"--json", "--summary-json"}
Json == args.json \/ args.summaryJson
-----------------------------------------------------------------------------
(* Config *)

\* A config file that is a mapping has what it says, and in "refused" the
\* sections that are a number, a Boolean, null or an empty list, and the fields
\* whose values the schema refuses.
NoConfig ==
  [sources |-> Unset, failOnWarnings |-> Unset, allowUnknownDependencies |-> Unset,
   minimumServiceCount |-> 0, formats |-> Formats, directory |-> "inside",
   maxReportBytes |-> "default", refused |-> {}]

Or(flag, value) == IF flag # Unset THEN flag ELSE value

\* Mutant: formats are added to those of the file.
MergeCliFlags_Adds(file, flags) ==
  [file EXCEPT
     !.failOnWarnings = Or(flags.failOnWarnings, @),
     !.allowUnknownDependencies = Or(flags.allowUnknownDependencies, @),
     !.directory = Or(flags.out, @),
     !.formats = @ \cup flags.formats]

\* Fields that a flag replaces.
Replaced(flags) ==
  {field \in {"roots"} : flags.roots} \cup {field \in {"manifestNames"} : flags.manifestNames}
  \cup {field \in {"failOnWarnings"} : flags.failOnWarnings # Unset}
  \cup {field \in {"allowUnknownDependencies"} : flags.allowUnknownDependencies # Unset}
  \cup {field \in {"directory"} : flags.out # Unset}
  \cup {field \in {"formats"} : flags.formats # {}}

\* Spreading a section that is no mapping makes an empty mapping of it.
MergeCliFlags(file, flags) ==
  [file EXCEPT
     !.failOnWarnings = Or(flags.failOnWarnings, @),
     !.allowUnknownDependencies = Or(flags.allowUnknownDependencies, @),
     !.directory = Or(flags.out, @),
     !.formats = IF flags.formats # {} THEN flags.formats ELSE @,
     !.refused = @ \ ({"scan", "validation", "output"} \cup Replaced(flags))]

ValidateSourceSelectorConflicts(file, flags) ==
  /\ file.sources # Unset
  /\ flags.roots \/ flags.manifestNames \/ flags.inputSchema # Unset

-----------------------------------------------------------------------------
(* What the compiler reports *)

InputSchemaOf(file, flags) ==
  IF file.sources # Unset THEN file.sources ELSE Or(flags.inputSchema, "scg-v1")

Compiled(manifest, scan, file, schema) ==
  LET services == IF Normalizes(manifest, schema) THEN 1 ELSE 0 IN
  [codes |->
     ManifestCodes(manifest, schema, file.allowUnknownDependencies = "on")
     \cup {code \in {"catalog.minimum_service_count"} : services < file.minimumServiceCount}
     \cup {code \in {"config.invalid"} : scan = "beyondLimit"},
   services |-> services]

Warnings == {"metadata.stale_review", "metadata.future_review"}
Errors(codes) == codes \ Warnings

\* Mutant: warnings fail nothing.
ExitCodeForDiagnostics_Lenient(codes, failOnWarnings) ==
  IF "config.invalid" \in codes THEN 2
  ELSE IF "manifest.invalid_yaml" \in codes THEN 3
  ELSE IF Errors(codes) # {} THEN 1 ELSE 0

ExitCodeForDiagnostics(codes, failOnWarnings) ==
  IF "config.invalid" \in codes THEN 2
  ELSE IF "manifest.invalid_yaml" \in codes THEN 3
  ELSE IF Errors(codes) # {} \/ (failOnWarnings /\ codes # {}) THEN 1 ELSE 0

-----------------------------------------------------------------------------
(* Report writer *)

NormalizeFormats(formats) == IF formats = {} THEN Formats ELSE formats

\* Reports of all formats are more than a small limit admits.
WithinBytes(formats, maxReportBytes) ==
  maxReportBytes = "small" => "html" \notin formats

-----------------------------------------------------------------------------
(* Action *)

IsBoolean(text) == text \in {"", "true", "false"}
BooleanFlag(text, yes, no) ==
  IF text = "" THEN <<>> ELSE IF text = "true" THEN <<yes>> ELSE <<no>>
ValueFlag(flag, text) == IF text = "" THEN <<>> ELSE <<flag, text>>

\* splitListInput drops what is empty.
ListFlags(flag, items) == FlattenSeq([i \in DOMAIN items |-> ValueFlag(flag, items[i])])

\* Mutant: the reports to be written are not passed on.
ReportFlags_Dropped(given) == <<>>

ReportFlags(given) ==
  ValueFlag("--out", given.outputDirectory) \o ListFlags("--format", given.format)

BuildCliArguments(given) ==
  LET command == IF given.report = "true" THEN "report" ELSE "check" IN
  <<command, "--summary-json">>
  \o ListFlags("--root", given.roots)
  \o ValueFlag("--manifest", given.manifestName)
  \o ValueFlag("--input-schema", given.inputSchema)
  \o ValueFlag("--config", given.config)
  \o BooleanFlag(given.failOnWarning, "--fail-on-warning", "--no-fail-on-warning")
  \o BooleanFlag(given.allowUnknown, "--allow-unknown-dependencies",
                 "--no-allow-unknown-dependencies")
  \o IF command = "report" THEN ReportFlags(given) ELSE <<>>
-----------------------------------------------------------------------------
(* What an invocation meets *)

Policies == {Unset, "on", "off"}
ConfigValues ==
  [sources : {Unset, "scg-v1", "zdp-v2"}, failOnWarnings : Policies,
   allowUnknownDependencies : Policies, minimumServiceCount : Nat,
   formats : SUBSET Formats, directory : STRING, maxReportBytes : {"default", "small"},
   refused : SUBSET STRING]

IsConfigFile(file) ==
  \/ file.kind \in {"none", "unreadable", "large", "notUtf8", "broken", "list"}
  \/ file.kind = "mapping" /\ file.value \in ConfigValues

IsManifest(manifest) ==
  \/ manifest.kind \in {"broken", "scg"}
  \/ manifest.kind = "zdp" /\ IsContract(manifest.value)

IsWorld(w) ==
  /\ IsManifest(w.manifest) /\ w.sink \in {"file", "none"}
  /\ w.scan \in {"fine", "locked", "clash", "beyondLimit"}

ActionInputs ==
  [report : STRING, roots : Seq(STRING), manifestName : STRING, inputSchema : STRING,
   config : STRING, failOnWarning : STRING, allowUnknown : STRING,
   outputDirectory : STRING, format : Seq(STRING)]

ASSUME ScenariosAssumption ==
  /\ \A s \in Scenarios :
       /\ s.inputs = Shell \/ s.inputs \in ActionInputs
       /\ s.argv \in Seq(STRING) /\ IsWorld(s.world) /\ IsConfigFile(s.configFile)
  /\ \A file \in Edits : IsConfigFile(file)

-----------------------------------------------------------------------------
(* Steps of the command line *)

InvocationInit ==
  /\ \E s \in Scenarios :
       /\ inputs = s.inputs /\ argv = s.argv /\ world = s.world
       /\ configFile = s.configFile /\ seen = {s.configFile}
       /\ pc = IF s.inputs = Shell THEN "parse" ELSE "build"
  /\ args = InitialArgs /\ config = NoConfig /\ snapshot = NotYet
  /\ exitCode = 0 /\ output = Previous /\ printed = <<>> /\ outputs = <<>>

Writes(stream, form) == printed' = Append(printed, [stream |-> stream, form |-> form])

Answers(form) == Writes("stdout", form) /\ pc' = "returned"

\* writeCliError.
CliError(code, json) ==
  /\ exitCode' = code /\ pc' = "returned"
  /\ Writes("stderr", IF json THEN "json" ELSE "text")

Given == <<inputs, argv, world>>

\* runCompletionCommand.
Complete ==
  /\ pc = "parse" /\ Len(argv) > 0 /\ Head(argv) = "completion"
  /\ IF Len(argv) = 2 /\ argv[2] \in {"bash", "zsh", "powershell"}
     THEN Answers("completion") /\ UNCHANGED exitCode
     ELSE CliError(2, FALSE)
  /\ UNCHANGED <<Given, configFile, args, config, snapshot, output, outputs, seen>>

Parse ==
  /\ pc = "parse" /\ (Len(argv) > 0 => Head(argv) # "completion")
  /\ args' = ParseArgs(argv)
  /\ IF args'.usageError THEN CliError(2, UsesJsonOutput(argv))
     ELSE /\ UNCHANGED exitCode
          /\ IF args'.version THEN Answers("version")
             ELSE IF args'.help THEN Answers("help")
             ELSE pc' = "exists" /\ UNCHANGED printed
  /\ UNCHANGED <<Given, configFile, config, snapshot, output, outputs, seen>>

\* loadConfigInput asks whether there is a file before it opens it.
LookForConfig ==
  /\ pc = "exists"
  /\ IF configFile.kind = "none" /\ args.configPath # Unset THEN CliError(2, Json)
     ELSE /\ pc' = IF configFile.kind = "none" THEN "configure" ELSE "read"
          /\ UNCHANGED <<exitCode, printed>>
  /\ UNCHANGED <<Given, configFile, args, config, snapshot, output, outputs, seen>>

ReadBoundedConfigFile(file) == file.kind \notin {"none", "unreadable", "large", "notUtf8"}
IsPlainRecord(file) == file.kind \notin {"broken", "list"}

LoadConfig ==
  /\ pc = "read"
  /\ IF ReadBoundedConfigFile(configFile) /\ IsPlainRecord(configFile)
     THEN /\ config' = configFile.value /\ pc' = "configure"
          /\ UNCHANGED <<exitCode, printed>>
     ELSE CliError(2, Json) /\ UNCHANGED config
  /\ UNCHANGED <<Given, configFile, args, snapshot, output, outputs, seen>>

\* validateConfigInput looks at what the merge leaves.
Configure ==
  /\ pc = "configure"
  /\ LET merged == MergeCliFlags(config, args) IN
     IF ValidateSourceSelectorConflicts(config, args) \/ merged.refused # {}
     THEN CliError(2, Json) /\ UNCHANGED config
     ELSE config' = merged /\ pc' = "compile" /\ UNCHANGED <<exitCode, printed>>
  /\ UNCHANGED <<Given, configFile, args, snapshot, output, outputs, seen>>

\* compileCatalog rejects sources that turn out to overlap, and what it cannot list.
Compile ==
  /\ pc = "compile"
  /\ IF world.scan = "locked" \/ (world.scan = "clash" /\ config.sources # Unset)
     THEN /\ CliError(IF world.scan = "clash" THEN 2 ELSE 5, UsesJsonOutput(argv))
          /\ UNCHANGED snapshot
     ELSE /\ snapshot' = Compiled(world.manifest, world.scan, config,
                                  InputSchemaOf(config, args))
          /\ exitCode' = ExitCodeForDiagnostics(snapshot'.codes, config.failOnWarnings = "on")
          /\ pc' = IF args.command = "report" THEN "publish" ELSE "print"
          /\ UNCHANGED printed
  /\ UNCHANGED <<Given, configFile, args, config, output, outputs, seen>>

\* writeCatalogReports: what it refuses itself, what publishReportGeneration
\* refuses with the old reports in place or with the new ones, and a workspace
\* whose path cannot be resolved any more.
Publish ==
  /\ pc = "publish"
  /\ LET formats == NormalizeFormats(config.formats)
         admits == config.directory = "inside" /\ WithinBytes(formats, config.maxReportBytes) IN
     \/ /\ admits /\ output' = formats /\ pc' = "print"
        /\ UNCHANGED <<exitCode, printed>>
     \/ /\ CliError(4, UsesJsonOutput(argv))
        /\ output' = output \/ (admits /\ output' = formats)
     \/ CliError(5, UsesJsonOutput(argv)) /\ UNCHANGED output
  /\ UNCHANGED <<Given, configFile, args, config, snapshot, outputs, seen>>

PrintResult ==
  /\ pc = "print"
  /\ Answers(IF args.json THEN "json" ELSE IF args.summaryJson THEN "summary" ELSE "text")
  /\ UNCHANGED <<Given, configFile, args, config, snapshot, exitCode, output, outputs, seen>>

-----------------------------------------------------------------------------
(* Steps of the Action *)

\* The entry point's catch.
ActionFails == exitCode' = 5 /\ Writes("stderr", "text") /\ pc' = "ended"

BuildArguments ==
  /\ pc = "build"
  /\ IF \A text \in {inputs.report, inputs.failOnWarning, inputs.allowUnknown} :
          IsBoolean(text)
     THEN argv' = BuildCliArguments(inputs) /\ pc' = "parse" /\ UNCHANGED <<exitCode, printed>>
     ELSE ActionFails /\ UNCHANGED argv
  /\ UNCHANGED <<inputs, world, configFile, args, config, snapshot, output, outputs, seen>>

WithoutSummary(code) == IF code = 0 THEN 5 ELSE code

\* What is on stdout is the one document that --summary-json asks for.
ExtractSummary ==
  \E i \in DOMAIN printed :
    /\ printed[i].form \in {"json", "summary"}
    /\ \A j \in DOMAIN printed : printed[j].stream = "stdout" <=> i = j

Return ==
  /\ pc = "returned"
  /\ IF inputs = Shell \/ ExtractSummary
     THEN /\ pc' = IF inputs = Shell THEN "ended" ELSE "append"
          /\ UNCHANGED <<exitCode, printed>>
     ELSE /\ exitCode' = WithoutSummary(exitCode)
          /\ Writes("stderr", "text") /\ pc' = "ended"
  /\ UNCHANGED <<Given, configFile, args, config, snapshot, output, outputs, seen>>

OutputLines ==
  <<snapshot.services, Cardinality(Errors(snapshot.codes)),
    Cardinality(snapshot.codes \cap Warnings), IF args.command = "report" THEN 1 ELSE 0>>

\* appendGitHubOutput, one line at a time; nothing where no file is named.
AppendOutput ==
  /\ pc = "append"
  /\ \/ /\ world.sink = "none" /\ pc' = "ended" /\ UNCHANGED <<exitCode, printed, outputs>>
     \/ /\ world.sink = "file"
        /\ outputs' = Append(outputs, OutputLines[Len(outputs) + 1])
        /\ pc' = IF Len(outputs') = 4 THEN "ended" ELSE "append"
        /\ UNCHANGED <<exitCode, printed>>
     \/ world.sink = "file" /\ ActionFails /\ UNCHANGED outputs
  /\ UNCHANGED <<Given, configFile, args, config, snapshot, output, seen>>

-----------------------------------------------------------------------------
\* Somebody changes the config file before it is read.
EditConfig(file) ==
  /\ pc \in {"exists", "read"} /\ file \notin seen /\ Cardinality(seen) <= MaxEdits
  /\ configFile' = file /\ seen' = seen \cup {file}
  /\ UNCHANGED <<Given, pc, args, config, snapshot, exitCode, output, printed, outputs>>

InvocationNext ==
  \/ BuildArguments \/ Complete \/ Parse \/ LookForConfig \/ LoadConfig \/ Configure
  \/ Compile \/ Publish \/ PrintResult \/ Return \/ AppendOutput
  \/ \E file \in Edits : EditConfig(file)
  \/ pc = "ended" /\ UNCHANGED invocationVars

InvocationSpec == InvocationInit /\ [][InvocationNext]_invocationVars
-----------------------------------------------------------------------------
(* What is asked for, read off the command line and a config file *)

\* The token after the last use of one of the flags, or that use itself.
Uses(flags) == {i \in DOMAIN argv : argv[i] \in flags}
LastUse(flags) == argv[CHOOSE i \in Uses(flags) : \A j \in Uses(flags) : j <= i]
LastValue(flag) == argv[1 + CHOOSE i \in Uses({flag}) : \A j \in Uses({flag}) : j <= i]

IsAsked(yes, no, value) ==
  IF Uses({yes, no}) = {} THEN value = "on" ELSE LastUse({yes, no}) = yes

FormatsAsked(file) ==
  IF Uses({"--format"}) # {} THEN {argv[i + 1] : i \in Uses({"--format"})}
  ELSE IF file.formats = {} THEN Formats ELSE file.formats

SchemaAsked(file) ==
  CASE file.sources # Unset                                     -> file.sources
    [] file.sources = Unset /\ Uses({"--input-schema"}) = {}    -> "scg-v1"
    [] file.sources = Unset /\ Uses({"--input-schema"}) # {}    -> LastValue("--input-schema")

\* What the config file may have been when it was read.
FilesRead ==
  {IF file.kind = "none" THEN NoConfig ELSE file.value :
     file \in {f \in seen : f.kind \in {"none", "mapping"}}}

\* The diagnostics and policies that the file and the command line stand for.
IsClean(file) ==
  LET codes ==
        Compiled(world.manifest, world.scan,
                 [file EXCEPT !.allowUnknownDependencies =
                    IF IsAsked("--allow-unknown-dependencies",
                               "--no-allow-unknown-dependencies", @) THEN "on" ELSE "off"],
                 SchemaAsked(file)).codes
  IN /\ codes \subseteq Warnings
     /\ IsAsked("--fail-on-warning", "--no-fail-on-warning", file.failOnWarnings) => codes = {}

Ended == pc = "ended"
Scanned == snapshot # NotYet
-----------------------------------------------------------------------------
(* Properties *)

\* Unless something failed afterwards, the exit code is 0 exactly if the
\* catalog is clean under what the flags and then the config file ask for, for
\* one state the config file had while the invocation ran.
ZeroIsClean ==
  Ended /\ Scanned /\ exitCode \notin {4, 5}
    => \E file \in FilesRead : (exitCode = 0) = IsClean(file)

\* A command line writes one document: to stderr if it failed before there was
\* a result, to stdout if not, and in JSON if JSON was asked for.
OneAnswer ==
  Ended /\ inputs = Shell =>
    /\ Len(printed) = 1
    /\ (printed[1].stream = "stdout") = (exitCode \notin {4, 5} /\ (Scanned \/ exitCode = 0))
    /\ ToSet(argv) \cap {"--json", "--summary-json"} # {} /\ Head(argv) # "completion"
         => printed[1].form \in {"json", "summary", "version", "help"}

\* Reports are replaced by a report command only, after the scan, and by the
\* formats the flags ask for, or else the config file.
PublishedAsAsked ==
  [][output' # output =>
       /\ Head(argv) = "report" /\ Scanned
       /\ \E file \in FilesRead : output' = FormatsAsked(file)]_invocationVars

\* An Action that succeeds has set all its outputs, reports no error, and has
\* published the formats of its inputs if it was to.
OutputsTruthful ==
  Ended /\ inputs # Shell /\ exitCode = 0 =>
    /\ world.sink = "file" => Len(outputs) = 4 /\ outputs[2] = 0
    /\ (output # Previous) = (inputs.report = "true")
    /\ LET formats == ToSet(inputs.format) \ {""} IN
       output # Previous /\ formats # {} => output = formats

\* What the schema finds wrong with an adapted contract, in terms of the
\* contract: "-contract" and "system:" take 9 and 7 of the 128 characters of a
\* reference, "id-" takes 3; nothing is cut; a letter is no id; of core,
\* framework and edge the last counts only when it is alone.
IdLength(text) == text.slug + (IF text.digit THEN 3 ELSE 0)
Faulty(zdp) ==
  LET edges == IF zdp.core.length = 0 /\ zdp.framework.length = 0 THEN {zdp.edge} ELSE {}
      targets == {d[2] : d \in zdp.dependencies}
  IN \/ zdp.id.shape # "id" \/ zdp.id.length > 119
     \/ \E t \in {zdp.owner, zdp.costOwner} : IdLength(t) > 121
     \/ zdp.displayName.length > 160 \/ zdp.repo.length > 200
     \/ \E t \in {zdp.core, zdp.framework} \cup edges : t.length > 80
     \/ \E t \in targets : IdLength(t) > 128 \/ IdLength(t) = 1
     \/ zdp.reviewed = "nodate" \/ zdp.status = "sunset"
     \/ "contract" \in zdp.id.secret
     \/ \E t \in {zdp.displayName, zdp.repo, zdp.core, zdp.framework} \cup edges \cup zdp.copied :
          "text" \in t.secret
     \/ \E t \in {zdp.owner, zdp.costOwner} \cup targets : "id" \in t.secret

\* Of the contracts that the adapter accepts, the schema refuses exactly these.
RefusesFaulty ==
  LET manifest == world.manifest IN
  Scanned /\ manifest.kind = "zdp" /\ (\A file \in FilesRead : SchemaAsked(file) = "zdp-v2")
    => ("manifest.invalid" \in snapshot.codes
          <=> AdapterAccepts(manifest.value) /\ Faulty(manifest.value))

\* docs/cli/output-and-exit-codes.md: a config file that fails the schema fails
\* the invocation, unless flags replace what fails.
StrictConfig ==
  Scanned => \E file \in FilesRead : file.refused \subseteq Replaced(args)
=============================================================================
