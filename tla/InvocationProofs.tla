--------------------------- MODULE InvocationProofs ---------------------------
(***************************************************************************)
(* What TLAPS proves about Invocation for every command line, every set of *)
(* inputs of the Action, every workspace and every change of the config    *)
(* file: what the arguments mean, and with it the exit code, the answer,   *)
(* the outputs and the reports.                                            *)
(***************************************************************************)
EXTENDS Invocation, DataLemmas

\* The strings, with those named that have to be known for strings.
Words == STRING \cup Dashed \cup Commands \cup {Unset}

ArgsType ==
  [command : Words, json : BOOLEAN, summaryJson : BOOLEAN, help : BOOLEAN,
   version : BOOLEAN, roots : BOOLEAN, manifestNames : BOOLEAN, formats : SUBSET Formats,
   out : Words, failOnWarnings : Policies, allowUnknownDependencies : Policies,
   inputSchema : {Unset, "scg-v1", "zdp-v2"}, configPath : Words,
   awaiting : ValueFlags \cup {"none"}, usageError : BOOLEAN]

-----------------------------------------------------------------------------
(* One token *)

LEMMA MisusedType ==
  ASSUME NEW state \in ArgsType
  PROVE  Misused(state) \in ArgsType /\ Misused(state).usageError
BY DEF Misused, ArgsType

LEMMA TakeValueType ==
  ASSUME NEW state \in ArgsType, NEW token \in Words, state.awaiting # "none"
  PROVE  TakeValue(state, token) \in ArgsType
<1> DEFINE flag == state.awaiting
           next == [state EXCEPT !.awaiting = "none"]
<1>1. CASE \/ token = "" \/ token \in Dashed
           \/ flag = "--format" /\ token \notin Formats
           \/ flag = "--input-schema" /\ token \notin {"scg-v1", "zdp-v2"}
  BY <1>1, MisusedType DEF TakeValue
<1>2. CASE ~(\/ token = "" \/ token \in Dashed
             \/ flag = "--format" /\ token \notin Formats
             \/ flag = "--input-schema" /\ token \notin {"scg-v1", "zdp-v2"})
  <2>1. next \in ArgsType
    BY DEF ArgsType
  <2>2. flag \in ValueFlags
    BY DEF ArgsType
  <2> HIDE DEF next
  <2>3. CASE flag = "--root"
    BY <1>2, <2>1, <2>3 DEF TakeValue, next, ArgsType
  <2>4. CASE flag = "--manifest"
    BY <1>2, <2>1, <2>4 DEF TakeValue, next, ArgsType
  <2>5. CASE flag = "--config"
    BY <1>2, <2>1, <2>5 DEF TakeValue, next, ArgsType
  <2>6. CASE flag = "--out"
    BY <1>2, <2>1, <2>6 DEF TakeValue, next, ArgsType
  <2>7. CASE flag = "--format"
    <3>1. TakeValue(state, token) = [next EXCEPT !.formats = @ \cup {token}]
      BY <1>2, <2>7 DEF TakeValue, next
    <3>2. token \in Formats
      BY <1>2, <2>7
    <3> QED BY <2>1, <3>1, <3>2 DEF ArgsType
  <2>8. CASE flag = "--input-schema"
    BY <1>2, <2>1, <2>8 DEF TakeValue, next, ArgsType
  <2> QED BY <2>2, <2>3, <2>4, <2>5, <2>6, <2>7, <2>8 DEF ValueFlags
<1> QED BY <1>1, <1>2

LEMMA TakeFlagType ==
  ASSUME NEW state \in ArgsType, NEW token \in Words
  PROVE  TakeFlag(state, token) \in ArgsType
<1>1. CASE token \in {"--help", "-h", "--version", "-v", "--json", "--summary-json"}
  BY ZenonT(60), <1>1 DEF TakeFlag, ArgsType
<1>2. CASE token \in {"--fail-on-warning", "--no-fail-on-warning",
                      "--allow-unknown-dependencies", "--no-allow-unknown-dependencies"}
  BY ZenonT(60), <1>2 DEF TakeFlag, ArgsType, Policies
<1>3. CASE token \in ValueFlags
  BY <1>3 DEF TakeFlag, ArgsType, ValueFlags
<1>4. CASE token \in {"", "--no-color"}
  BY <1>4 DEF TakeFlag, ValueFlags
<1>5. CASE token \notin {"", "--no-color"} \cup ValueFlags \cup
             {"--help", "-h", "--version", "-v", "--json", "--summary-json",
              "--fail-on-warning", "--no-fail-on-warning",
              "--allow-unknown-dependencies", "--no-allow-unknown-dependencies"}
  <2>1. TakeFlag(state, token) = Misused(state)
    BY <1>5 DEF TakeFlag
  <2> QED BY <2>1, MisusedType
<1> QED BY <1>1, <1>2, <1>3, <1>4, <1>5

LEMMA ParseTokenType ==
  ASSUME NEW state \in ArgsType, NEW token \in Words
  PROVE  ParseToken(state, token) \in ArgsType
BY TakeValueType, TakeFlagType DEF ParseToken

\* An error in the usage stays.
LEMMA ErrorStays ==
  ASSUME NEW state \in ArgsType, NEW token \in Words, state.usageError
  PROVE  ParseToken(state, token).usageError
BY DEF ParseToken

\* What a token means after a flag that takes a value, unless it is refused.
LEMMA ValueTaken ==
  ASSUME NEW state \in ArgsType, NEW token \in Words,
         state.awaiting # "none", ~TakeValue(state, token).usageError
  PROVE  LET next == TakeValue(state, token) IN
         /\ token \notin Dashed
         /\ state.awaiting = "--input-schema" => token \in {"scg-v1", "zdp-v2"}
         /\ next.awaiting = "none" /\ next.command = state.command
         /\ next.json = state.json /\ next.summaryJson = state.summaryJson
         /\ next.failOnWarnings = state.failOnWarnings
         /\ next.allowUnknownDependencies = state.allowUnknownDependencies
         /\ next.formats = IF state.awaiting = "--format"
                           THEN state.formats \cup {token} ELSE state.formats
         /\ next.inputSchema = IF state.awaiting = "--input-schema"
                               THEN token ELSE state.inputSchema
<1> DEFINE flag == state.awaiting
           next == [state EXCEPT !.awaiting = "none"]
           result == TakeValue(state, token)
<1>1. ~(\/ token = "" \/ token \in Dashed
        \/ flag = "--format" /\ token \notin Formats
        \/ flag = "--input-schema" /\ token \notin {"scg-v1", "zdp-v2"})
  BY MisusedType DEF TakeValue
<1>2. /\ next \in ArgsType /\ next.awaiting = "none" /\ next.command = state.command
      /\ next.json = state.json /\ next.summaryJson = state.summaryJson
      /\ next.failOnWarnings = state.failOnWarnings
      /\ next.allowUnknownDependencies = state.allowUnknownDependencies
      /\ next.formats = state.formats /\ next.inputSchema = state.inputSchema
  BY DEF ArgsType
<1>3. flag \in ValueFlags
  BY DEF ArgsType
<1>4. CASE flag = "--root"
  <2>1. result = [next EXCEPT !.roots = TRUE]
    BY <1>1, <1>4 DEF TakeValue
  <2> HIDE DEF next, result
  <2> QED BY <1>1, <1>2, <1>4, <2>1 DEF ArgsType, result
<1>5. CASE flag = "--manifest"
  <2>1. result = [next EXCEPT !.manifestNames = TRUE]
    BY <1>1, <1>5 DEF TakeValue
  <2> HIDE DEF next, result
  <2> QED BY ZenonT(60), <1>1, <1>2, <1>5, <2>1 DEF ArgsType, result
<1>6. CASE flag = "--config"
  <2>1. result = [next EXCEPT !.configPath = token]
    BY <1>1, <1>6 DEF TakeValue
  <2> HIDE DEF next, result
  <2> QED BY <1>1, <1>2, <1>6, <2>1 DEF ArgsType, result
<1>7. CASE flag = "--out"
  <2>1. result = [next EXCEPT !.out = token]
    BY <1>1, <1>7 DEF TakeValue
  <2> HIDE DEF next, result
  <2> QED BY <1>1, <1>2, <1>7, <2>1 DEF ArgsType, result
<1>8. CASE flag = "--format"
  <2>1. result = [next EXCEPT !.formats = @ \cup {token}]
    BY <1>1, <1>8 DEF TakeValue
  <2> HIDE DEF next, result
  <2> QED BY ZenonT(60), <1>1, <1>2, <1>8, <2>1 DEF ArgsType, result
<1>9. CASE flag = "--input-schema"
  <2>1. result = [next EXCEPT !.inputSchema = token]
    BY <1>1, <1>9 DEF TakeValue
  <2> HIDE DEF next, result
  <2> QED BY <1>1, <1>2, <1>9, <2>1 DEF ArgsType, result
<1> QED BY <1>3, <1>4, <1>5, <1>6, <1>7, <1>8, <1>9 DEF ValueFlags

\* What a token means as a flag, unless it is refused.
LEMMA FlagTaken ==
  ASSUME NEW state \in ArgsType, NEW token \in Words,
         state.awaiting = "none", ~state.usageError, ~TakeFlag(state, token).usageError
  PROVE  LET next == TakeFlag(state, token) IN
         /\ next.awaiting = IF token \in ValueFlags THEN token ELSE "none"
         /\ next.command = state.command
         /\ next.json = (state.json \/ token = "--json")
         /\ next.summaryJson = (state.summaryJson \/ token = "--summary-json")
         /\ next.failOnWarnings =
              IF token = "--fail-on-warning" THEN "on"
              ELSE IF token = "--no-fail-on-warning" THEN "off" ELSE state.failOnWarnings
         /\ next.allowUnknownDependencies =
              IF token = "--allow-unknown-dependencies" THEN "on"
              ELSE IF token = "--no-allow-unknown-dependencies" THEN "off"
              ELSE state.allowUnknownDependencies
         /\ next.formats = state.formats /\ next.inputSchema = state.inputSchema
<1>1. CASE token \in {"--help", "-h", "--version", "-v"}
  BY <1>1 DEF TakeFlag, ArgsType, ValueFlags
<1>2. CASE token \in {"--json", "--summary-json"}
  BY <1>2 DEF TakeFlag, ArgsType, ValueFlags
<1>3. CASE token \in {"--fail-on-warning", "--no-fail-on-warning"}
  BY <1>3 DEF TakeFlag, ArgsType, ValueFlags
<1>4. CASE token \in {"--allow-unknown-dependencies", "--no-allow-unknown-dependencies"}
  BY <1>4 DEF TakeFlag, ArgsType, ValueFlags
<1>5. CASE token \in ValueFlags
  BY <1>5 DEF TakeFlag, ArgsType, ValueFlags
<1>6. CASE token \in {"", "--no-color"}
  BY <1>6 DEF TakeFlag, ArgsType, ValueFlags
<1>7. CASE token \notin {"", "--no-color"} \cup ValueFlags \cup
             {"--help", "-h", "--version", "-v", "--json", "--summary-json",
              "--fail-on-warning", "--no-fail-on-warning",
              "--allow-unknown-dependencies", "--no-allow-unknown-dependencies"}
  <2>1. TakeFlag(state, token) = Misused(state)
    BY <1>7 DEF TakeFlag
  <2> QED BY <2>1, MisusedType
<1> QED BY <1>1, <1>2, <1>3, <1>4, <1>5, <1>6, <1>7

\* What a token means, unless it is refused.
TokenMeans(state, token, next) ==
  /\ ~state.usageError
  /\ state.awaiting # "none" => token \notin Dashed
  /\ state.awaiting = "--input-schema" => token \in {"scg-v1", "zdp-v2"}
  /\ next.awaiting = IF token \in ValueFlags THEN token ELSE "none"
  /\ next.command = state.command
  /\ next.json = (state.json \/ token = "--json")
  /\ next.summaryJson = (state.summaryJson \/ token = "--summary-json")
  /\ next.failOnWarnings =
       IF token = "--fail-on-warning" THEN "on"
       ELSE IF token = "--no-fail-on-warning" THEN "off" ELSE state.failOnWarnings
  /\ next.allowUnknownDependencies =
       IF token = "--allow-unknown-dependencies" THEN "on"
       ELSE IF token = "--no-allow-unknown-dependencies" THEN "off"
       ELSE state.allowUnknownDependencies
  /\ next.formats = IF state.awaiting = "--format"
                    THEN state.formats \cup {token} ELSE state.formats
  /\ next.inputSchema = IF state.awaiting = "--input-schema"
                        THEN token ELSE state.inputSchema

LEMMA TokenTaken ==
  ASSUME NEW state \in ArgsType, NEW token \in Words, ~ParseToken(state, token).usageError
  PROVE  TokenMeans(state, token, ParseToken(state, token))
<1> USE DEF TokenMeans
<1>1. ~state.usageError
  BY ErrorStays
<1>2. CASE state.awaiting # "none"
  <2>1. ParseToken(state, token) = TakeValue(state, token)
    BY <1>1, <1>2 DEF ParseToken
  <2>2. /\ token \notin Dashed
        /\ state.awaiting = "--input-schema" => token \in {"scg-v1", "zdp-v2"}
    BY ZenonT(60), <1>2, <2>1, ValueTaken
  <2>3. /\ token \notin ValueFlags /\ token # "--json" /\ token # "--summary-json"
        /\ token # "--fail-on-warning" /\ token # "--no-fail-on-warning"
        /\ token # "--allow-unknown-dependencies"
        /\ token # "--no-allow-unknown-dependencies"
    BY <2>2 DEF Dashed
  <2>4. state.json \in BOOLEAN /\ state.summaryJson \in BOOLEAN
    BY DEF ArgsType
  <2> QED BY <1>1, <1>2, <2>1, <2>2, <2>3, <2>4, ValueTaken
<1>3. CASE state.awaiting = "none"
  <2>1. ParseToken(state, token) = TakeFlag(state, token)
    BY <1>1, <1>3 DEF ParseToken
  <2> QED BY <1>1, <1>3, <2>1, FlagTaken
<1> QED BY <1>2, <1>3

-----------------------------------------------------------------------------
(* A list of tokens *)

Run(base, tokens) == FoldLeft(ParseToken, base, tokens)

\* The states between the tokens.
IsTrace(g, base, tokens) ==
  /\ g \in [0..Len(tokens) -> ArgsType]
  /\ g[0] = base
  /\ \A i \in 1..Len(tokens) : g[i] = ParseToken(g[i - 1], tokens[i])

LEMMA RunTraced ==
  ASSUME NEW base \in ArgsType, NEW tokens \in Seq(Words)
  PROVE  \E g : IsTrace(g, base, tokens) /\ Run(base, tokens) = g[Len(tokens)]
<1> DEFINE n == Len(tokens)
           P == SUBSET (1..n)
           value(h, s) == IF s = {} THEN base
                          ELSE ParseToken(h[s \ {Max(s)}], tokens[Max(s)])
           step == [p \in ArgsType \X (1..n) |-> ParseToken(p[1], tokens[p[2]])]
           k == CHOOSE h : h = [s \in SUBSET DOMAIN tokens |-> value(h, s)]
<1>1. n \in Nat /\ DOMAIN tokens = 1..n /\ \A i \in 1..n : tokens[i] \in Words
  BY LenProperties, ElementOfSeq
<1>2. Run(base, tokens) = k[1..n]
  <2>1. Run(base, tokens) = k[DOMAIN tokens]
    BY DEF Run, FoldLeft, MapThenFoldSet
  <2> QED BY <1>1, <2>1
<1> HIDE DEF n
<1>3. step \in [ArgsType \X (1..n) -> ArgsType]
  BY <1>1, ParseTokenType
<1>4. \A state \in ArgsType, i \in 1..n : step[<<state, i>>] = ParseToken(state, tokens[i])
  OBVIOUS
<1> HIDE DEF step
<1>5. \E h \in [SUBSET (1..n) -> ArgsType] : FoldsTo(h, n, base, step)
  <2> HIDE DEF P, value, k
  <2> QED BY <1>1, <1>3, FoldExists
<1>6. PICK h \in [P -> ArgsType] : \A s \in P : h[s] = value(h, s)
  <2>1. PICK h \in [P -> ArgsType] : FoldsTo(h, n, base, step)
    BY <1>5
  <2> SUFFICES ASSUME NEW s \in P PROVE h[s] = value(h, s)
    OBVIOUS
  <2>2. CASE s = {}
    BY <2>1, <2>2 DEF FoldsTo
  <2>3. CASE s # {}
    <3>1. Max(s) \in 1..n /\ s \ {Max(s)} \in P
      BY <1>1, <2>3, LastPosition
    <3> QED BY <1>4, <2>1, <2>3, <3>1 DEF FoldsTo
  <2> QED BY <2>2, <2>3
<1>7. k = [s \in P |-> value(k, s)]
  <2>1. h = [s \in P |-> value(h, s)]
    BY <1>6
  <2>2. \E x : x = [s \in SUBSET DOMAIN tokens |-> value(x, s)]
    BY <1>1, <2>1
  <2>3. k = [s \in SUBSET DOMAIN tokens |-> value(k, s)]
    <3> HIDE DEF value
    <3> QED BY <2>2
  <2> QED BY <1>1, <2>3
<1> HIDE DEF k
<1>8. \A s \in P : k[s] = value(k, s)
  BY <1>7
<1> DEFINE g == [i \in 0..n |-> k[1..i]]
<1>9. k[{}] = base
  BY <1>8
<1>10. ASSUME NEW i \in 1..n PROVE k[1..i] = ParseToken(k[1..(i - 1)], tokens[i])
  <2>1. 1..i \in P /\ 1..i # {} /\ (1..i) \ {i} = 1..(i - 1)
    <3>1. i \in Nat /\ 1 <= i /\ i <= n /\ n \in Nat
      BY <1>1
    <3>2. 1..i \subseteq 1..n /\ i \in 1..i
      BY <3>1
    <3>3. (1..i) \ {i} = 1..(i - 1)
      BY <3>1
    <3> QED BY <3>2, <3>3
  <2>2. Max(1..i) = i
    BY DEF Max
  <2> QED BY <1>8, <2>1, <2>2
<1>11. \A i \in 0..n : k[1..i] \in ArgsType
  <2> DEFINE B == {i \in 0..n : k[1..i] \notin ArgsType}
  <2>1. SUFFICES ASSUME B # {} PROVE FALSE
    OBVIOUS
  <2>2. PICK i \in B : \A j \in B : i <= j
    <3>1. B \in SUBSET Nat
      BY <1>1
    <3> HIDE DEF B
    <3> QED BY <2>1, <3>1, First
  <2>3. i \in 0..n /\ k[1..i] \notin ArgsType
    OBVIOUS
  <2>4. i # 0
    <3>1. 1..0 = {}
      OBVIOUS
    <3> QED BY <1>9, <2>3, <3>1
  <2>5. i \in 1..n /\ i - 1 \in 0..n /\ ~(i <= i - 1)
    BY <1>1, <2>3, <2>4
  <2>6. k[1..(i - 1)] \in ArgsType
    BY <2>2, <2>5
  <2>7. k[1..i] = ParseToken(k[1..(i - 1)], tokens[i]) /\ tokens[i] \in Words
    BY <1>1, <1>10, <2>5
  <2>8. k[1..i] \in ArgsType
    BY <2>6, <2>7, ParseTokenType
  <2> QED BY <2>3, <2>8
<1>12. g \in [0..n -> ArgsType] /\ g[0] = base /\ g[n] = k[1..n]
  <2>1. 1..0 = {} /\ 0 \in 0..n /\ n \in 0..n
    BY <1>1
  <2> QED BY <1>9, <1>11, <2>1
<1>13. \A i \in 1..n : g[i] = ParseToken(g[i - 1], tokens[i])
  <2> SUFFICES ASSUME NEW i \in 1..n PROVE g[i] = ParseToken(g[i - 1], tokens[i])
    OBVIOUS
  <2>1. i \in 0..n /\ i - 1 \in 0..n
    BY <1>1
  <2> QED BY <1>10, <2>1
<1> HIDE DEF g
<1>14. IsTrace(g, base, tokens) /\ Run(base, tokens) = g[n]
  BY <1>2, <1>12, <1>13 DEF IsTrace, n
<1> QED BY <1>14 DEF n

\* There is one trace only.
LEMMA TraceOnce ==
  ASSUME NEW base \in ArgsType, NEW tokens \in Seq(Words),
         NEW g, IsTrace(g, base, tokens), NEW h, IsTrace(h, base, tokens)
  PROVE  g[Len(tokens)] = h[Len(tokens)]
<1> DEFINE n == Len(tokens)
           B == {i \in 0..n : g[i] # h[i]}
<1>0. n \in Nat
  BY LenProperties
<1>1. /\ g[0] = h[0]
      /\ \A i \in 1..n : g[i] = ParseToken(g[i - 1], tokens[i])
                            /\ h[i] = ParseToken(h[i - 1], tokens[i])
  BY DEF IsTrace
<1> HIDE DEF n
<1>2. B = {}
  <2>1. SUFFICES ASSUME B # {} PROVE FALSE
    OBVIOUS
  <2>2. PICK i \in B : \A j \in B : i <= j
    <3>1. B \in SUBSET Nat
      BY <1>0
    <3> HIDE DEF B
    <3> QED BY <2>1, <3>1, First
  <2>3. i \in 1..n /\ i - 1 \in 0..n /\ ~(i <= i - 1)
    BY <1>0, <1>1
  <2>4. g[i - 1] = h[i - 1]
    BY <2>2, <2>3
  <2> QED BY <1>1, <2>3, <2>4
<1>3. n \in 0..n
  BY <1>0
<1> QED BY <1>2, <1>3 DEF n

LEMMA RunIs ==
  ASSUME NEW base \in ArgsType, NEW tokens \in Seq(Words),
         NEW g, IsTrace(g, base, tokens)
  PROVE  Run(base, tokens) = g[Len(tokens)]
BY RunTraced, TraceOnce

\* Two lists of tokens, one after the other.
LEMMA RunConcat ==
  ASSUME NEW base \in ArgsType, NEW s \in Seq(Words), NEW t \in Seq(Words)
  PROVE  /\ Run(base, s) \in ArgsType
         /\ Run(base, s \o t) = Run(Run(base, s), t)
<1> DEFINE m == Len(s)
           n == Len(t)
<1>1. m \in Nat /\ n \in Nat /\ s \o t \in Seq(Words) /\ Len(s \o t) = m + n
      /\ \A i \in 1..m + n : (s \o t)[i] = IF i <= m THEN s[i] ELSE t[i - m]
  <2>1. m \in Nat /\ n \in Nat
    BY LenProperties
  <2>2. s \o t \in Seq(Words) /\ Len(s \o t) = m + n
    BY ConcatProperties
  <2>3. \A i \in 1..m + n : (s \o t)[i] = IF i <= m THEN s[i] ELSE t[i - m]
    BY ConcatProperties
  <2> QED BY <2>1, <2>2, <2>3
<1>2. PICK g : IsTrace(g, base, s) /\ Run(base, s) = g[m]
  BY RunTraced
<1>3. g[m] \in ArgsType
  BY <1>1, <1>2 DEF IsTrace
<1>4. PICK h : IsTrace(h, g[m], t) /\ Run(g[m], t) = h[n]
  BY <1>3, RunTraced
<1>5. /\ \A i \in 0..m : g[i] \in ArgsType
      /\ \A i \in 0..n : h[i] \in ArgsType
      /\ g[0] = base /\ h[0] = g[m]
      /\ \A i \in 1..m : g[i] = ParseToken(g[i - 1], s[i])
      /\ \A i \in 1..n : h[i] = ParseToken(h[i - 1], t[i])
  BY <1>2, <1>4 DEF IsTrace
<1> HIDE DEF m, n
<1> DEFINE f == [i \in 0..m + n |-> IF i <= m THEN g[i] ELSE h[i - m]]
<1>6. f \in [0..m + n -> ArgsType] /\ f[0] = base
  <2>1. \A i \in 0..m + n : IF i <= m THEN i \in 0..m ELSE i - m \in 0..n
    BY <1>1
  <2>2. 0 \in 0..m + n /\ 0 <= m
    BY <1>1
  <2> QED BY <1>5, <2>1, <2>2
<1>7. ASSUME NEW i \in 1..m + n PROVE f[i] = ParseToken(f[i - 1], (s \o t)[i])
  <2>1. i \in 0..m + n /\ i - 1 \in 0..m + n
    BY <1>1
  <2>2. CASE i <= m
    <3>1. i \in 1..m /\ i - 1 <= m
      BY <1>1, <2>2
    <3> QED BY <1>1, <1>5, <2>1, <2>2, <3>1
  <2>3. CASE i = m + 1
    <3>1. 1 \in 1..n /\ i - m = 1 /\ i - 1 = m /\ ~(i <= m)
      BY <1>1, <2>3
    <3>2. f[i] = h[1] /\ f[i - 1] = g[m] /\ (s \o t)[i] = t[1]
      BY <1>1, <2>1, <3>1
    <3>3. h[1] = ParseToken(h[1 - 1], t[1]) /\ 1 - 1 = 0
      BY <1>5, <3>1
    <3> QED BY <1>5, <3>2, <3>3
  <2>4. CASE i > m + 1
    <3>1. i - m \in 1..n /\ ~(i <= m) /\ ~(i - 1 <= m) /\ (i - m) - 1 = (i - 1) - m
      BY <1>1, <2>4
    <3> QED BY <1>1, <1>5, <2>1, <3>1
  <2> QED BY <1>1, <2>2, <2>3, <2>4
<1>8. f[m + n] = h[n]
  <2>1. m + n \in 0..m + n /\ (m + n <= m <=> n = 0) /\ (m + n) - m = n
    BY <1>1
  <2>2. n = 0 => m + n = m
    BY <1>1
  <2> QED BY <1>5, <2>1, <2>2
<1> HIDE DEF f
<1>9. IsTrace(f, base, s \o t)
  BY <1>1, <1>6, <1>7 DEF IsTrace
<1>10. Run(base, s \o t) = f[m + n]
  BY <1>1, <1>9, RunIs
<1> QED BY <1>2, <1>3, <1>4, <1>8, <1>10 DEF m, n

LEMMA Single ==
  ASSUME NEW S, NEW x \in S
  PROVE  <<x>> \in Seq(S) /\ Len(<<x>>) = 1 /\ <<x>>[1] = x
<1>1. \A y \in S : <<y>> \in Seq(S)
  OBVIOUS
<1>2. Len(<<x>>) = 1 /\ <<x>>[1] = x
  OBVIOUS
<1> QED BY <1>1, <1>2

LEMMA Pair ==
  ASSUME NEW S, NEW x \in S, NEW y \in S
  PROVE  <<x, y>> \in Seq(S) /\ <<x, y>> = <<x>> \o <<y>>
<1> DEFINE s == <<x, y>>
           a == <<x>>
           b == <<y>>
<1>1. \A u, v \in S : <<u, v>> \in Seq(S)
  OBVIOUS
<1>2. s \in Seq(S)
  BY <1>1
<1>3. Len(s) = 2 /\ s[1] = x /\ s[2] = y
  OBVIOUS
<1>4. /\ a \in Seq(S) /\ Len(a) = 1 /\ a[1] = x
      /\ b \in Seq(S) /\ Len(b) = 1 /\ b[1] = y
  BY Single
<1> HIDE DEF s, a, b
<1>5. /\ a \o b \in Seq(S) /\ Len(a \o b) = 2
      /\ \A i \in 1..2 : (a \o b)[i] = IF i <= 1 THEN a[i] ELSE b[i - 1]
  <2>1. /\ a \o b \in Seq(S) /\ Len(a \o b) = Len(a) + Len(b)
        /\ \A i \in 1..Len(a) + Len(b) :
             (a \o b)[i] = IF i <= Len(a) THEN a[i] ELSE b[i - Len(a)]
    BY <1>4, ConcatProperties
  <2> QED BY <1>4, <2>1
<1>6. \A i \in 1..2 : s[i] = (a \o b)[i]
  BY <1>3, <1>4, <1>5
<1>7. s = a \o b
  BY <1>2, <1>3, <1>5, <1>6, SeqEqual
<1> QED BY <1>2, <1>7 DEF s, a, b

LEMMA RunOne ==
  ASSUME NEW base \in ArgsType, NEW token \in Words
  PROVE  Run(base, <<token>>) = ParseToken(base, token)
<1> DEFINE s == <<token>>
<1>1. s \in Seq(Words) /\ Len(s) = 1 /\ s[1] = token
  BY Single
<1> HIDE DEF s
<1>2. PICK g : IsTrace(g, base, s) /\ Run(base, s) = g[1]
  BY <1>1, RunTraced
<1>3. g[0] = base /\ \A i \in 1..1 : g[i] = ParseToken(g[i - 1], s[i])
  BY <1>1, <1>2 DEF IsTrace
<1>4. g[1] = ParseToken(g[0], token)
  <2>1. 1 \in 1..1 /\ 1 - 1 = 0
    OBVIOUS
  <2> QED BY <1>1, <1>3, <2>1
<1> QED BY <1>2, <1>3, <1>4 DEF s

LEMMA RunNone ==
  ASSUME NEW base \in ArgsType
  PROVE  Run(base, <<>>) = base
<1>1. <<>> \in Seq(Words) /\ Len(<<>>) = 0
  OBVIOUS
<1>2. PICK g : IsTrace(g, base, <<>>) /\ Run(base, <<>>) = g[0]
  BY <1>1, RunTraced
<1> QED BY <1>2 DEF IsTrace

-----------------------------------------------------------------------------
(* What the tokens say *)

\* The last use of one of two flags decides a policy.
PolicyRead(policy, yes, no, tokens, i) ==
  \/ policy = Unset /\ \A j \in 1..i : tokens[j] \notin {yes, no}
  \/ \E j \in 1..i : /\ tokens[j] \in {yes, no}
                     /\ \A k \in j + 1..i : tokens[k] \notin {yes, no}
                     /\ policy = IF tokens[j] = yes THEN "on" ELSE "off"

\* The token after the last use of the flag, if that token has been read.
SchemaRead(schema, tokens, i) ==
  \/ schema = Unset /\ \A j \in 1..i - 1 : tokens[j] # "--input-schema"
  \/ \E j \in 1..i - 1 : /\ tokens[j] = "--input-schema"
                         /\ \A k \in j + 1..i - 1 : tokens[k] # "--input-schema"
                         /\ schema = tokens[j + 1] /\ schema # Unset

\* A state says what the first i tokens say.
Reads(state, tokens, i) ==
  /\ state.awaiting = IF i > 0 /\ tokens[i] \in ValueFlags THEN tokens[i] ELSE "none"
  /\ state.json <=> \E j \in 1..i : tokens[j] = "--json"
  /\ state.summaryJson <=> \E j \in 1..i : tokens[j] = "--summary-json"
  /\ state.formats = {tokens[j + 1] : j \in {k \in 1..i - 1 : tokens[k] = "--format"}}
  /\ SchemaRead(state.inputSchema, tokens, i)
  /\ PolicyRead(state.failOnWarnings, "--fail-on-warning", "--no-fail-on-warning", tokens, i)
  /\ PolicyRead(state.allowUnknownDependencies, "--allow-unknown-dependencies",
                "--no-allow-unknown-dependencies", tokens, i)

LEMMA PolicyStep ==
  ASSUME NEW policy, NEW yes, NEW no, yes # no, NEW tokens, NEW i \in Nat,
         PolicyRead(policy, yes, no, tokens, i)
  PROVE  PolicyRead(IF tokens[i + 1] = yes THEN "on"
                    ELSE IF tokens[i + 1] = no THEN "off" ELSE policy,
                    yes, no, tokens, i + 1)
<1>1. CASE tokens[i + 1] \in {yes, no}
  <2>1. i + 1 \in 1..i + 1 /\ \A k \in (i + 1) + 1..i + 1 : FALSE
    OBVIOUS
  <2> QED BY <1>1, <2>1 DEF PolicyRead
<1>2. CASE tokens[i + 1] \notin {yes, no}
  <2>1. CASE policy = Unset /\ \A j \in 1..i : tokens[j] \notin {yes, no}
    <3>1. \A j \in 1..i + 1 : j \in 1..i \/ j = i + 1
      OBVIOUS
    <3> QED BY <1>2, <2>1, <3>1 DEF PolicyRead
  <2>2. CASE \E j \in 1..i : /\ tokens[j] \in {yes, no}
                             /\ \A k \in j + 1..i : tokens[k] \notin {yes, no}
                             /\ policy = IF tokens[j] = yes THEN "on" ELSE "off"
    <3>1. PICK j \in 1..i : /\ tokens[j] \in {yes, no}
                            /\ \A k \in j + 1..i : tokens[k] \notin {yes, no}
                            /\ policy = IF tokens[j] = yes THEN "on" ELSE "off"
      BY <2>2
    <3>2. j \in 1..i + 1 /\ \A k \in j + 1..i + 1 : k \in j + 1..i \/ k = i + 1
      OBVIOUS
    <3> QED BY <1>2, <3>1, <3>2 DEF PolicyRead
  <2> QED BY <2>1, <2>2 DEF PolicyRead
<1> QED BY <1>1, <1>2

LEMMA SchemaStep ==
  ASSUME NEW schema, NEW tokens, NEW i \in Nat, SchemaRead(schema, tokens, i),
         i > 0 /\ tokens[i] = "--input-schema" => tokens[i + 1] # Unset
  PROVE  SchemaRead(IF i > 0 /\ tokens[i] = "--input-schema" THEN tokens[i + 1] ELSE schema,
                    tokens, i + 1)
<1>0. (i + 1) - 1 = i
  OBVIOUS
<1>1. CASE i > 0 /\ tokens[i] = "--input-schema"
  <2>1. i \in 1..i /\ \A k \in i + 1..i : FALSE
    BY <1>1
  <2> QED BY <1>0, <1>1, <2>1 DEF SchemaRead
<1>2. CASE ~(i > 0 /\ tokens[i] = "--input-schema")
  <2>1. CASE schema = Unset /\ \A j \in 1..i - 1 : tokens[j] # "--input-schema"
    <3>1. \A j \in 1..i : j \in 1..i - 1 \/ (j = i /\ i > 0)
      OBVIOUS
    <3> QED BY <1>0, <1>2, <2>1, <3>1 DEF SchemaRead
  <2>2. CASE \E j \in 1..i - 1 : /\ tokens[j] = "--input-schema"
                                 /\ \A k \in j + 1..i - 1 : tokens[k] # "--input-schema"
                                 /\ schema = tokens[j + 1] /\ schema # Unset
    <3>1. PICK j \in 1..i - 1 : /\ tokens[j] = "--input-schema"
                                /\ \A k \in j + 1..i - 1 : tokens[k] # "--input-schema"
                                /\ schema = tokens[j + 1] /\ schema # Unset
      BY <2>2
    <3>2. j \in 1..i /\ \A k \in j + 1..i : k \in j + 1..i - 1 \/ (k = i /\ i > 0)
      OBVIOUS
    <3> QED BY <1>0, <1>2, <3>1, <3>2 DEF SchemaRead
  <2> QED BY <2>1, <2>2 DEF SchemaRead
<1> QED BY <1>1, <1>2

LEMMA ReadsStep ==
  ASSUME NEW tokens \in Seq(Words), NEW i \in 0..Len(tokens) - 1,
         NEW state \in ArgsType, Reads(state, tokens, i),
         ~ParseToken(state, tokens[i + 1]).usageError
  PROVE  Reads(ParseToken(state, tokens[i + 1]), tokens, i + 1)
<1> DEFINE token == tokens[i + 1]
           next == ParseToken(state, token)
<1>1. i \in Nat /\ i + 1 \in 1..Len(tokens) /\ token \in Words /\ i + 1 > 0
      /\ (i + 1) - 1 = i
  <2>1. Len(tokens) \in Nat
    BY LenProperties
  <2>2. i \in Nat /\ i + 1 \in 1..Len(tokens)
    BY <2>1
  <2> QED BY <2>2, ElementOfSeq
<1>2. /\ next.awaiting = IF token \in ValueFlags THEN token ELSE "none"
      /\ next.json = (state.json \/ token = "--json")
      /\ next.summaryJson = (state.summaryJson \/ token = "--summary-json")
      /\ next.failOnWarnings =
           IF token = "--fail-on-warning" THEN "on"
           ELSE IF token = "--no-fail-on-warning" THEN "off" ELSE state.failOnWarnings
      /\ next.allowUnknownDependencies =
           IF token = "--allow-unknown-dependencies" THEN "on"
           ELSE IF token = "--no-allow-unknown-dependencies" THEN "off"
           ELSE state.allowUnknownDependencies
      /\ next.formats = IF state.awaiting = "--format"
                        THEN state.formats \cup {token} ELSE state.formats
      /\ next.inputSchema = IF state.awaiting = "--input-schema"
                            THEN token ELSE state.inputSchema
      /\ state.awaiting = "--input-schema" => token # Unset
  <2>1. TokenMeans(state, token, next)
    BY <1>1, TokenTaken
  <2> QED BY <2>1 DEF TokenMeans, Unset
<1>3. \A flag \in {"--format", "--input-schema"} :
        state.awaiting = flag <=> i > 0 /\ tokens[i] = flag
  BY DEF Reads, ValueFlags
<1>4. \A j : j \in 1..i + 1 <=> j \in 1..i \/ j = i + 1
  BY <1>1
<1> HIDE DEF next
<1>5. PolicyRead(next.failOnWarnings, "--fail-on-warning", "--no-fail-on-warning",
                 tokens, i + 1)
  <2>1. PolicyRead(state.failOnWarnings, "--fail-on-warning", "--no-fail-on-warning", tokens, i)
    BY DEF Reads
  <2> QED BY <1>1, <1>2, <2>1, PolicyStep
<1>6. PolicyRead(next.allowUnknownDependencies, "--allow-unknown-dependencies",
                 "--no-allow-unknown-dependencies", tokens, i + 1)
  <2>1. PolicyRead(state.allowUnknownDependencies, "--allow-unknown-dependencies",
                   "--no-allow-unknown-dependencies", tokens, i)
    BY DEF Reads
  <2> QED BY <1>1, <1>2, <2>1, PolicyStep
<1>7. SchemaRead(next.inputSchema, tokens, i + 1)
  <2>1. next.inputSchema = IF i > 0 /\ tokens[i] = "--input-schema"
                           THEN token ELSE state.inputSchema
    BY <1>2, <1>3
  <2>2. SchemaRead(state.inputSchema, tokens, i)
    BY DEF Reads
  <2>3. i > 0 /\ tokens[i] = "--input-schema" => tokens[i + 1] # Unset
    BY <1>2, <1>3
  <2> QED BY <1>1, <2>1, <2>2, <2>3, SchemaStep
<1>8. next.formats = {tokens[j + 1] : j \in {k \in 1..(i + 1) - 1 : tokens[k] = "--format"}}
  <2> DEFINE Before == {k \in 1..i - 1 : tokens[k] = "--format"}
             Now == {k \in 1..(i + 1) - 1 : tokens[k] = "--format"}
  <2>1. state.formats = {tokens[j + 1] : j \in Before}
    BY DEF Reads
  <2>2. \A j : j \in 1..(i + 1) - 1 <=> j \in 1..i - 1 \/ (j = i /\ i > 0)
    BY <1>1
  <2>3. CASE i > 0 /\ tokens[i] = "--format"
    <3>1. Now = Before \cup {i}
      BY <2>2, <2>3
    <3>2. next.formats = state.formats \cup {tokens[i + 1]}
      BY <1>2, <1>3, <2>3
    <3> HIDE DEF Before, Now
    <3> QED BY SMTT(30), <2>1, <3>1, <3>2 DEF Now
  <2>4. CASE ~(i > 0 /\ tokens[i] = "--format")
    <3>1. Now = Before
      BY <2>2, <2>4
    <3>2. next.formats = state.formats
      BY <1>2, <1>3, <2>4
    <3> QED BY <2>1, <3>1, <3>2
  <2> QED BY <2>3, <2>4
<1>9. /\ next.json <=> \E j \in 1..i + 1 : tokens[j] = "--json"
      /\ next.summaryJson <=> \E j \in 1..i + 1 : tokens[j] = "--summary-json"
  <2>1. /\ state.json <=> \E j \in 1..i : tokens[j] = "--json"
        /\ state.summaryJson <=> \E j \in 1..i : tokens[j] = "--summary-json"
    BY DEF Reads
  <2> QED BY <1>2, <1>4, <2>1
<1>10. next.awaiting = IF i + 1 > 0 /\ tokens[i + 1] \in ValueFlags
                       THEN tokens[i + 1] ELSE "none"
  BY <1>1, <1>2
<1>11. Reads(next, tokens, i + 1)
  BY <1>5, <1>6, <1>7, <1>8, <1>9, <1>10 DEF Reads
<1> QED BY <1>11 DEF next

-----------------------------------------------------------------------------
(* The command line *)

LEMMA InitialType ==
  /\ InitialArgs \in ArgsType
  /\ \A command \in Commands : /\ [InitialArgs EXCEPT !.command = command] \in ArgsType
                               /\ [InitialArgs EXCEPT !.command = command].command = command
<1>1. InitialArgs \in ArgsType
  BY DEF InitialArgs, ArgsType, Policies, Words, Commands
<1>2. ASSUME NEW command \in Commands
      PROVE  /\ [InitialArgs EXCEPT !.command = command] \in ArgsType
             /\ [InitialArgs EXCEPT !.command = command].command = command
  <2>1. command \in Words
    BY DEF Words
  <2>2. [InitialArgs EXCEPT !.command = command] \in ArgsType
    BY <1>1, <2>1 DEF ArgsType
  <2>3. [InitialArgs EXCEPT !.command = command].command = command
    BY DEF InitialArgs
  <2> QED BY <2>2, <2>3
<1> QED BY <1>1, <1>2

\* No command is a flag.
LEMMA ReadsNothing ==
  /\ \A tokens : Reads(InitialArgs, tokens, 0)
  /\ \A tokens : \A command \in Commands : tokens[1] = command =>
       Reads([InitialArgs EXCEPT !.command = command], tokens, 1)
<1>1. \A j : j \notin 1..0 /\ j \notin 1..0 - 1 /\ j \notin 1..1 - 1 /\ (j \in 1..1 => j = 1)
  OBVIOUS
<1>2. ASSUME NEW tokens PROVE Reads(InitialArgs, tokens, 0)
  BY <1>1 DEF Reads, InitialArgs, SchemaRead, PolicyRead
<1>3. ASSUME NEW command \in Commands, NEW tokens, tokens[1] = command
      PROVE  Reads([InitialArgs EXCEPT !.command = command], tokens, 1)
  <2> DEFINE base == [InitialArgs EXCEPT !.command = command]
  <2>1. /\ base.awaiting = "none" /\ ~base.json /\ ~base.summaryJson /\ base.formats = {}
        /\ base.inputSchema = Unset /\ base.failOnWarnings = Unset
        /\ base.allowUnknownDependencies = Unset
    BY DEF InitialArgs
  <2>2. /\ tokens[1] \notin ValueFlags /\ tokens[1] \notin {"--json", "--summary-json"}
        /\ tokens[1] \notin {"--fail-on-warning", "--no-fail-on-warning"}
        /\ tokens[1] \notin {"--allow-unknown-dependencies", "--no-allow-unknown-dependencies"}
    BY <1>3 DEF Commands, ValueFlags
  <2> HIDE DEF base
  <2>3. Reads(base, tokens, 1)
    BY <1>1, <2>1, <2>2 DEF Reads, SchemaRead, PolicyRead
  <2> QED BY <2>3 DEF base
<1> QED BY <1>2, <1>3

\* Once all tokens are read without an error, the state says what they say.
LEMMA RunReads ==
  ASSUME NEW base \in ArgsType, NEW tokens \in Seq(Words), NEW k \in 0..Len(tokens),
         NEW rest \in Seq(Words), Len(rest) = Len(tokens) - k,
         \A i \in 1..Len(rest) : rest[i] = tokens[i + k],
         Reads(base, tokens, k), ~Run(base, rest).usageError
  PROVE  /\ Reads(Run(base, rest), tokens, Len(tokens))
         /\ Run(base, rest).command = base.command
<1> DEFINE n == Len(rest)
<1>1. PICK g : IsTrace(g, base, rest) /\ Run(base, rest) = g[n]
  BY RunTraced
<1>2. /\ n \in Nat /\ Len(tokens) = n + k /\ k \in Nat
      /\ \A i \in 0..n : g[i] \in ArgsType
      /\ g[0] = base
      /\ \A i \in 1..n : g[i] = ParseToken(g[i - 1], rest[i]) /\ rest[i] \in Words
  <2>1. n \in Nat /\ Len(tokens) \in Nat
    BY LenProperties
  <2>2. \A i \in 1..n : rest[i] \in Words
    BY ElementOfSeq
  <2>3. /\ g \in [0..n -> ArgsType] /\ g[0] = base
        /\ \A i \in 1..n : g[i] = ParseToken(g[i - 1], rest[i])
    BY <1>1 DEF IsTrace
  <2>4. Len(tokens) = n + k /\ k \in Nat
    BY <2>1
  <2> QED BY <2>1, <2>2, <2>3, <2>4
<1> HIDE DEF n
<1> DEFINE Fine(i) == g[i].usageError
                      \/ (Reads(g[i], tokens, i + k) /\ g[i].command = base.command)
           B == {i \in 0..n : ~Fine(i)}
<1>3. B = {}
  <2>1. SUFFICES ASSUME B # {} PROVE FALSE
    OBVIOUS
  <2>2. PICK i \in B : \A j \in B : i <= j
    <3>1. B \in SUBSET Nat
      BY <1>2
    <3> HIDE DEF B
    <3> QED BY <2>1, <3>1, First
  <2>3. i \in 0..n /\ ~Fine(i)
    OBVIOUS
  <2>4. i # 0
    <3>1. 0 + k = k
      BY <1>2
    <3> QED BY <1>2, <2>3, <3>1
  <2>5. i \in 1..n /\ i - 1 \in 0..n /\ ~(i <= i - 1)
    BY <1>2, <2>3, <2>4
  <2>6. Fine(i - 1)
    BY <2>2, <2>5
  <2>7. /\ g[i] = ParseToken(g[i - 1], rest[i]) /\ rest[i] = tokens[i + k]
        /\ rest[i] \in Words /\ g[i - 1] \in ArgsType
    BY <1>2, <2>5 DEF n
  <2>8. ~g[i].usageError
    BY <2>3
  <2>9. ~g[i - 1].usageError
    BY <2>7, <2>8, ErrorStays
  <2>10. /\ (i - 1) + k \in 0..Len(tokens) - 1 /\ ((i - 1) + k) + 1 = i + k
    BY <1>2, <2>5
  <2>11. Reads(g[i], tokens, i + k)
    <3> DEFINE j == (i - 1) + k
    <3>1. /\ j \in 0..Len(tokens) - 1 /\ Reads(g[i - 1], tokens, j)
          /\ ~ParseToken(g[i - 1], tokens[j + 1]).usageError /\ j + 1 = i + k
          /\ g[i] = ParseToken(g[i - 1], tokens[j + 1])
      BY <2>6, <2>7, <2>8, <2>9, <2>10
    <3> HIDE DEF j
    <3> QED BY <2>7, <3>1, ReadsStep
  <2>12. g[i].command = base.command
    <3>1. TokenMeans(g[i - 1], rest[i], g[i])
      BY <2>7, <2>8, TokenTaken
    <3> QED BY <2>6, <2>9, <3>1 DEF TokenMeans
  <2> QED BY <2>3, <2>11, <2>12
<1>4. Fine(n)
  <2>1. n \in 0..n
    BY <1>2
  <2> QED BY <1>3, <2>1
<1> QED BY <1>1, <1>2, <1>4

LEMMA TailProperties ==
  ASSUME NEW tokens \in Seq(Words), Len(tokens) > 0
  PROVE  /\ Head(tokens) = tokens[1] /\ Head(tokens) \in Words
         /\ Tail(tokens) \in Seq(Words) /\ Len(Tail(tokens)) = Len(tokens) - 1
         /\ \A i \in 1..Len(Tail(tokens)) : Tail(tokens)[i] = tokens[i + 1]
<1>1. tokens # <<>>
  OBVIOUS
<1> QED BY <1>1, HeadTailProperties

\* What the arguments say, unless they are refused.
LEMMA ParseReads ==
  ASSUME NEW tokens \in Seq(Words), ~ParseArgs(tokens).usageError
  PROVE  /\ ParseArgs(tokens) \in ArgsType
         /\ Reads(ParseArgs(tokens), tokens, Len(tokens))
         /\ ParseArgs(tokens).command =
              IF Len(tokens) > 0 /\ Head(tokens) \in Commands THEN Head(tokens) ELSE "scan"
         /\ ~Contradictory(ParseArgs(tokens))
<1> DEFINE named == Len(tokens) > 0 /\ Head(tokens) \in Commands
           base == IF named THEN [InitialArgs EXCEPT !.command = Head(tokens)] ELSE InitialArgs
           rest == IF named THEN Tail(tokens) ELSE tokens
           k == IF named THEN 1 ELSE 0
<1>1. /\ base \in ArgsType
      /\ base.command = IF named THEN Head(tokens) ELSE "scan"
  <2>1. InitialArgs.command = "scan"
    BY DEF InitialArgs
  <2> QED BY <2>1, InitialType
<1>2. /\ k \in 0..Len(tokens) /\ rest \in Seq(Words) /\ Len(rest) = Len(tokens) - k
      /\ \A i \in 1..Len(rest) : rest[i] = tokens[i + k]
  <2>1. Len(tokens) \in Nat
    BY LenProperties
  <2>2. CASE named
    BY <2>1, <2>2, TailProperties
  <2>3. CASE ~named
    BY <2>1, <2>3
  <2> QED BY <2>2, <2>3
<1>3. Reads(base, tokens, k)
  <2>1. CASE named
    BY <2>1, TailProperties, ReadsNothing
  <2>2. CASE ~named
    BY <2>2, ReadsNothing
  <2> QED BY <2>1, <2>2
<1>4. ParseArgs(tokens) = IF Contradictory(Run(base, rest))
                          THEN Misused(Run(base, rest)) ELSE Run(base, rest)
  BY DEF ParseArgs, Run
<1> HIDE DEF base, rest, k
<1>5. Run(base, rest) \in ArgsType
  BY <1>1, <1>2, RunConcat
<1>6. ~Contradictory(Run(base, rest)) /\ ParseArgs(tokens) = Run(base, rest)
  BY <1>4, <1>5, MisusedType
<1>7. /\ Reads(Run(base, rest), tokens, Len(tokens))
      /\ Run(base, rest).command = base.command
  BY <1>1, <1>2, <1>3, <1>6, RunReads
<1> QED BY <1>1, <1>5, <1>6, <1>7

LEMMA LastChosen ==
  ASSUME NEW B \in SUBSET Int, NEW j \in B, \A k \in B : k <= j
  PROVE  (CHOOSE i \in B : \A k \in B : k <= i) = j
<1> DEFINE c == CHOOSE i \in B : \A k \in B : k <= i
<1>1. c \in B /\ \A k \in B : k <= c
  OBVIOUS
<1> HIDE DEF c
<1>2. c <= j /\ j <= c /\ c \in Int /\ j \in Int
  BY <1>1
<1>3. c = j
  BY <1>2
<1> QED BY <1>3 DEF c

LEMMA PolicyAsked ==
  ASSUME argv \in Seq(Words), NEW policy, NEW yes, NEW no, yes # no,
         PolicyRead(policy, yes, no, argv, Len(argv)), NEW value
  PROVE  IsAsked(yes, no, value) = (Or(policy, value) = "on")
<1> DEFINE n == Len(argv)
           B == Uses({yes, no})
<1>1. n \in Nat /\ DOMAIN argv = 1..n
  BY LenProperties
<1>2. B = {i \in 1..n : argv[i] \in {yes, no}}
  BY <1>1 DEF Uses
<1>3. CASE policy = Unset /\ \A j \in 1..n : argv[j] \notin {yes, no}
  <2>1. B = {}
    BY <1>2, <1>3
  <2> QED BY <1>3, <2>1 DEF IsAsked, Or
<1>4. CASE \E j \in 1..n : /\ argv[j] \in {yes, no}
                           /\ \A k \in j + 1..n : argv[k] \notin {yes, no}
                           /\ policy = IF argv[j] = yes THEN "on" ELSE "off"
  <2>1. PICK j \in 1..n : /\ argv[j] \in {yes, no}
                          /\ \A k \in j + 1..n : argv[k] \notin {yes, no}
                          /\ policy = IF argv[j] = yes THEN "on" ELSE "off"
    BY <1>4
  <2>2. j \in B /\ B \in SUBSET Int
    <3> HIDE DEF B
    <3> QED BY <1>2, <2>1
  <2>3. ASSUME NEW k \in B PROVE k <= j
    <3>1. k \in 1..n /\ argv[k] \in {yes, no}
      BY <1>2
    <3>2. k \notin j + 1..n
      BY <2>1, <3>1
    <3> QED BY <1>1, <3>1, <3>2
  <2> HIDE DEF B
  <2>4. (CHOOSE i \in B : \A k \in B : k <= i) = j
    BY <2>2, <2>3, LastChosen
  <2>5. LastUse({yes, no}) = argv[j] /\ B # {}
    BY <2>2, <2>4 DEF LastUse, B
  <2>6. IsAsked(yes, no, value) = (argv[j] = yes)
    BY <2>5 DEF IsAsked, B
  <2> QED BY <2>1, <2>6 DEF Or, Unset
<1> QED BY <1>3, <1>4 DEF PolicyRead

LEMMA SchemaChosen ==
  ASSUME argv \in Seq(Words), NEW schema, SchemaRead(schema, argv, Len(argv)),
         Len(argv) > 0 => argv[Len(argv)] # "--input-schema"
  PROVE  IF Uses({"--input-schema"}) = {} THEN schema = Unset
         ELSE schema # Unset /\ schema = LastValue("--input-schema")
<1> DEFINE n == Len(argv)
           B == Uses({"--input-schema"})
<1>1. n \in Nat /\ DOMAIN argv = 1..n
  BY LenProperties
<1>2. B = {i \in 1..n : argv[i] = "--input-schema"} /\ n \notin B
  BY <1>1 DEF Uses
<1>3. CASE schema = Unset /\ \A j \in 1..n - 1 : argv[j] # "--input-schema"
  <2>1. B = {}
    BY <1>1, <1>2, <1>3
  <2> QED BY <1>3, <2>1
<1>4. CASE \E j \in 1..n - 1 : /\ argv[j] = "--input-schema"
                               /\ \A k \in j + 1..n - 1 : argv[k] # "--input-schema"
                               /\ schema = argv[j + 1] /\ schema # Unset
  <2>1. PICK j \in 1..n - 1 : /\ argv[j] = "--input-schema"
                              /\ \A k \in j + 1..n - 1 : argv[k] # "--input-schema"
                              /\ schema = argv[j + 1] /\ schema # Unset
    BY <1>4
  <2>2. j \in B /\ B \in SUBSET Int
    BY <1>1, <1>2, <2>1
  <2>3. ASSUME NEW k \in B PROVE k <= j
    <3>1. k \in 1..n /\ argv[k] = "--input-schema" /\ k # n
      BY <1>2
    <3>2. k \notin j + 1..n - 1 /\ j \in 1..n - 1
      BY <2>1, <3>1
    <3> HIDE DEF n
    <3>3. j \in Int /\ n \in Int /\ k \in Int /\ k < n
      BY <1>1, <3>1, <3>2
    <3> QED BY <3>2, <3>3
  <2> HIDE DEF B
  <2>4. (CHOOSE i \in B : \A k \in B : k <= i) = j
    BY <2>2, <2>3, LastChosen
  <2>5. LastValue("--input-schema") = argv[1 + j] /\ B # {}
    BY <2>2, <2>4 DEF LastValue, B
  <2>6. 1 + j = j + 1
    OBVIOUS
  <2> QED BY <2>1, <2>5, <2>6 DEF B
<1> QED BY <1>3, <1>4 DEF SchemaRead

\* The arguments are those that the properties read off the command line.
ArgsSay ==
  /\ args \in ArgsType
  /\ args.command = IF Len(argv) > 0 /\ Head(argv) \in Commands THEN Head(argv) ELSE "scan"
  /\ Json = UsesJsonOutput(argv) /\ ~(args.json /\ args.summaryJson)
  /\ args.formats = {argv[i + 1] : i \in Uses({"--format"})}
  /\ IF Uses({"--input-schema"}) = {} THEN args.inputSchema = Unset
     ELSE args.inputSchema # Unset /\ args.inputSchema = LastValue("--input-schema")
  /\ \A value : IsAsked("--fail-on-warning", "--no-fail-on-warning", value)
                  = (Or(args.failOnWarnings, value) = "on")
  /\ \A value : IsAsked("--allow-unknown-dependencies", "--no-allow-unknown-dependencies",
                        value)
                  = (Or(args.allowUnknownDependencies, value) = "on")

LEMMA ParsedSay ==
  ASSUME argv \in Seq(Words), args = ParseArgs(argv), ~args.usageError
  PROVE  ArgsSay
<1> DEFINE n == Len(argv)
<1>1. /\ args \in ArgsType /\ Reads(args, argv, n)
      /\ args.command = IF n > 0 /\ Head(argv) \in Commands THEN Head(argv) ELSE "scan"
      /\ ~Contradictory(args)
  BY ParseReads
<1>2. n \in Nat /\ DOMAIN argv = 1..n
  BY LenProperties
<1>3. args.awaiting = "none" /\ ~(args.json /\ args.summaryJson)
  BY <1>1 DEF Contradictory
<1>4. n > 0 => argv[n] \notin ValueFlags
  BY <1>1, <1>3 DEF Reads, ValueFlags
<1>5. Json = UsesJsonOutput(argv)
  <2>1. /\ args.json <=> \E j \in 1..n : argv[j] = "--json"
        /\ args.summaryJson <=> \E j \in 1..n : argv[j] = "--summary-json"
    BY <1>1 DEF Reads
  <2>2. UsesJsonOutput(argv) <=> \E j \in 1..n : argv[j] \in {"--json", "--summary-json"}
    BY <1>2 DEF UsesJsonOutput, ToSet
  <2>3. Json \in BOOLEAN /\ UsesJsonOutput(argv) \in BOOLEAN
    BY <1>1 DEF Json, ArgsType, UsesJsonOutput
  <2> QED BY <2>1, <2>2, <2>3 DEF Json
<1>6. args.formats = {argv[i + 1] : i \in Uses({"--format"})}
  <2>1. args.formats = {argv[j + 1] : j \in {k \in 1..n - 1 : argv[k] = "--format"}}
    BY <1>1 DEF Reads
  <2>2. {k \in 1..n - 1 : argv[k] = "--format"} = Uses({"--format"})
    <3>1. n > 0 => argv[n] # "--format"
      BY <1>4 DEF ValueFlags
    <3>2. \A k : k \in 1..n <=> k \in 1..n - 1 \/ (k = n /\ n > 0)
      BY <1>2
    <3> QED BY <1>2, <3>1, <3>2 DEF Uses
  <2> QED BY <2>1, <2>2
<1>7. IF Uses({"--input-schema"}) = {} THEN args.inputSchema = Unset
      ELSE args.inputSchema # Unset /\ args.inputSchema = LastValue("--input-schema")
  <2>1. SchemaRead(args.inputSchema, argv, n)
    BY <1>1 DEF Reads
  <2>2. n > 0 => argv[n] # "--input-schema"
    BY <1>4 DEF ValueFlags
  <2> QED BY <2>1, <2>2, SchemaChosen
<1>8. ASSUME NEW value
      PROVE  /\ IsAsked("--fail-on-warning", "--no-fail-on-warning", value)
                  = (Or(args.failOnWarnings, value) = "on")
             /\ IsAsked("--allow-unknown-dependencies", "--no-allow-unknown-dependencies",
                        value)
                  = (Or(args.allowUnknownDependencies, value) = "on")
  <2>1. /\ PolicyRead(args.failOnWarnings, "--fail-on-warning", "--no-fail-on-warning", argv, n)
        /\ PolicyRead(args.allowUnknownDependencies, "--allow-unknown-dependencies",
                      "--no-allow-unknown-dependencies", argv, n)
    BY <1>1 DEF Reads
  <2>2. /\ "--fail-on-warning" # "--no-fail-on-warning"
        /\ "--allow-unknown-dependencies" # "--no-allow-unknown-dependencies"
    OBVIOUS
  <2> QED BY <2>1, <2>2, PolicyAsked
<1> QED BY <1>1, <1>3, <1>5, <1>6, <1>7, <1>8 DEF ArgsSay

-----------------------------------------------------------------------------
(* The command line that the Action builds *)

\* Reading the tokens ends in an error or adds the formats, and no flag is left
\* to wait for its value.
IsPart(s, formats) ==
  /\ s \in Seq(Words)
  /\ \A state \in ArgsType : state.usageError \/ state.awaiting = "none" =>
       LET next == Run(state, s) IN
       \/ next.usageError
       \/ /\ ~state.usageError /\ next.awaiting = "none"
          /\ next.formats = state.formats \cup formats

LEMMA PartNone == IsPart(<<>>, {})
<1>1. <<>> \in Seq(Words)
  BY EmptySeq
<1> QED BY <1>1, RunNone DEF IsPart, ArgsType

LEMMA PartFlag ==
  ASSUME NEW token \in Words, token \notin ValueFlags
  PROVE  IsPart(<<token>>, {})
<1>1. <<token>> \in Seq(Words)
  BY Single
<1>2. ASSUME NEW state \in ArgsType, state.usageError \/ state.awaiting = "none",
             ~Run(state, <<token>>).usageError
      PROVE  /\ ~state.usageError /\ Run(state, <<token>>).awaiting = "none"
             /\ Run(state, <<token>>).formats = state.formats
  <2>1. Run(state, <<token>>) = ParseToken(state, token)
    BY RunOne
  <2>2. TokenMeans(state, token, ParseToken(state, token))
    BY <1>2, <2>1, TokenTaken
  <2> QED BY <1>2, <2>1, <2>2 DEF TokenMeans
<1> QED BY <1>1, <1>2 DEF IsPart, ArgsType

LEMMA PartValue ==
  ASSUME NEW flag \in ValueFlags, NEW text \in Words
  PROVE  IsPart(<<flag, text>>, IF flag = "--format" THEN {text} ELSE {})
<1> DEFINE s == <<flag, text>>
<1>1. flag \in Words
  BY DEF Words, Dashed
<1>2. /\ <<flag>> \in Seq(Words) /\ <<text>> \in Seq(Words) /\ s \in Seq(Words)
      /\ s = <<flag>> \o <<text>>
  BY <1>1, Single, Pair
<1> HIDE DEF s
<1>3. ASSUME NEW state \in ArgsType, state.usageError \/ state.awaiting = "none",
             ~Run(state, s).usageError
      PROVE  /\ ~state.usageError /\ Run(state, s).awaiting = "none"
             /\ Run(state, s).formats = state.formats \cup IF flag = "--format" THEN {text} ELSE {}
  <2> DEFINE middle == ParseToken(state, flag)
             next == ParseToken(middle, text)
  <2>1. middle \in ArgsType
    BY <1>1, ParseTokenType
  <2>2. Run(state, s) = next
    <3>1. Run(state, <<flag>>) = middle
      BY <1>1, RunOne
    <3>2. Run(state, <<flag>> \o <<text>>) = Run(Run(state, <<flag>>), <<text>>)
      BY <1>2, RunConcat
    <3> HIDE DEF middle
    <3> QED BY <1>2, <2>1, <3>1, <3>2, RunOne
  <2>3. TokenMeans(middle, text, next)
    <3> HIDE DEF middle
    <3> QED BY <1>3, <2>1, <2>2, TokenTaken
  <2>4. TokenMeans(state, flag, middle)
    <3>1. ~middle.usageError
      BY <2>3 DEF TokenMeans
    <3> QED BY <1>1, <3>1, TokenTaken
  <2>5. ~state.usageError /\ state.awaiting = "none"
    BY <1>3, <2>4 DEF TokenMeans
  <2> HIDE DEF middle, next
  <2>6. middle.awaiting = flag /\ middle.formats = state.formats /\ flag # "none"
    BY <2>4, <2>5 DEF TokenMeans, ValueFlags
  <2>7. text \notin Dashed
    BY <2>3, <2>6 DEF TokenMeans
  <2>8. text \notin ValueFlags
    BY <2>7 DEF Dashed
  <2>9. next.awaiting = "none"
    BY <2>3, <2>8 DEF TokenMeans
  <2>10. next.formats = state.formats \cup IF flag = "--format" THEN {text} ELSE {}
    BY <2>3, <2>6 DEF TokenMeans
  <2> QED BY <2>2, <2>5, <2>9, <2>10
<1>4. IsPart(s, IF flag = "--format" THEN {text} ELSE {})
  BY <1>2, <1>3 DEF IsPart
<1> QED BY <1>4 DEF s

LEMMA PartsJoined ==
  ASSUME NEW s, NEW t, NEW f, NEW g, IsPart(s, f), IsPart(t, g)
  PROVE  IsPart(s \o t, f \cup g)
<1>1. s \in Seq(Words) /\ t \in Seq(Words) /\ s \o t \in Seq(Words)
  BY ConcatProperties DEF IsPart
<1>2. ASSUME NEW state \in ArgsType, state.usageError \/ state.awaiting = "none",
             ~Run(state, s \o t).usageError
      PROVE  /\ ~state.usageError /\ Run(state, s \o t).awaiting = "none"
             /\ Run(state, s \o t).formats = state.formats \cup (f \cup g)
  <2> DEFINE middle == Run(state, s)
             next == Run(middle, t)
  <2>1. middle \in ArgsType /\ Run(state, s \o t) = next
    BY <1>1, RunConcat
  <2>2. middle.usageError
        \/ (/\ ~state.usageError /\ middle.awaiting = "none"
            /\ middle.formats = state.formats \cup f)
    BY <1>2 DEF IsPart
  <2> HIDE DEF middle
  <2>3. /\ ~middle.usageError /\ next.awaiting = "none"
        /\ next.formats = middle.formats \cup g
    BY <1>2, <2>1, <2>2 DEF IsPart
  <2> QED BY <2>1, <2>2, <2>3
<1> QED BY <1>1, <1>2 DEF IsPart

LEMMA PartOptional ==
  ASSUME NEW flag \in ValueFlags, NEW text \in Words
  PROVE  IsPart(ValueFlag(flag, text), IF flag = "--format" THEN {text} \ {""} ELSE {})
<1>1. CASE text = ""
  BY <1>1, PartNone DEF ValueFlag
<1>2. CASE text # ""
  <2>1. {text} \ {""} = {text}
    BY <1>2
  <2> QED BY <1>2, <2>1, PartValue DEF ValueFlag
<1> QED BY <1>1, <1>2

LEMMA PartBoolean ==
  ASSUME NEW text, NEW yes \in Words \ ValueFlags, NEW no \in Words \ ValueFlags
  PROVE  IsPart(BooleanFlag(text, yes, no), {})
BY PartNone, PartFlag DEF BooleanFlag

LEMMA PartList ==
  ASSUME NEW flag \in ValueFlags, NEW items \in Seq(Words)
  PROVE  IsPart(ListFlags(flag, items), IF flag = "--format" THEN ToSet(items) \ {""} ELSE {})
<1> DEFINE n == Len(items)
           lists == [i \in DOMAIN items |-> ValueFlag(flag, items[i])]
           Said(i) == IF flag = "--format" THEN {items[j] : j \in 1..i} \ {""} ELSE {}
<1>1. n \in Nat /\ DOMAIN items = 1..n /\ \A i \in 1..n : items[i] \in Words
  BY LenProperties, ElementOfSeq
<1>2. \A i \in 1..n :
        IsPart(ValueFlag(flag, items[i]), IF flag = "--format" THEN {items[i]} \ {""} ELSE {})
  BY <1>1, PartOptional
<1>3. lists \in Seq(Seq(Words)) /\ Len(lists) = n
  <2>1. \A i \in 1..n : ValueFlag(flag, items[i]) \in Seq(Words)
    BY <1>2 DEF IsPart
  <2> HIDE DEF n
  <2>2. lists \in [1..n -> Seq(Words)]
    BY <1>1, <2>1
  <2> HIDE DEF lists
  <2> QED BY <1>1, <2>2, ListOf
<1>4. \A i \in 1..n : lists[i] = ValueFlag(flag, items[i])
  BY <1>1
<1>5. ListFlags(flag, items) = FlattenSeq(lists)
  BY DEF ListFlags
<1>6. ToSet(items) = {items[j] : j \in 1..n}
  BY <1>1 DEF ToSet
<1> HIDE DEF lists
<1>7. CASE n = 0
  <2>1. lists = <<>>
    BY <1>3, <1>7, EmptySeq
  <2>2. FlattenSeq(lists) = <<>>
    BY <1>3, <1>7, <2>1 DEF FlattenSeq
  <2>3. ToSet(items) = {}
    BY <1>6, <1>7
  <2> QED BY <1>5, <2>2, <2>3, PartNone
<1>8. CASE n > 0
  <2>1. PICK f \in [1..n -> Seq(Words)] :
          /\ \A i \in 1..n : f[i] = IF i = 1 THEN lists[i] ELSE f[i - 1] \o lists[i]
          /\ FlattenSeq(lists) = f[n]
    BY <1>3, <1>8, JoinedFromLeft
  <2> HIDE DEF n
  <2> DEFINE B == {i \in 1..n : ~IsPart(f[i], Said(i))}
  <2>2. B = {}
    <3>1. SUFFICES ASSUME B # {} PROVE FALSE
      OBVIOUS
    <3>2. PICK i \in B : \A j \in B : i <= j
      <4>1. B \in SUBSET Nat
        <5> HIDE DEF Said
        <5> QED OBVIOUS
      <4> HIDE DEF B
      <4> QED BY <3>1, <4>1, First
    <3>3. i \in 1..n /\ ~IsPart(f[i], Said(i))
      OBVIOUS
    <3>4. \A j \in 1..n : ~(i <= j) => IsPart(f[j], Said(j))
      BY <3>2
    <3> HIDE DEF B
    <3>5. i \in Int /\ i >= 1 /\ (i # 1 => i - 1 \in 1..n) /\ ~(i <= i - 1)
      <4> HIDE DEF Said
      <4>1. i \in Int /\ n \in Int /\ 1 <= i /\ i <= n
        BY <1>1, <3>3
      <4> QED BY <4>1
    <3>6. CASE i = 1
      <4>1. f[i] = ValueFlag(flag, items[i])
        BY <1>4, <2>1, <3>3, <3>6
      <4>2. {items[j] : j \in 1..1} = {items[1]}
        <5>1. \A j : j \in 1..1 <=> j = 1
          OBVIOUS
        <5> QED BY <5>1
      <4> QED BY <1>2, <3>3, <3>6, <4>1, <4>2
    <3>7. CASE i # 1
      <4>1. IsPart(f[i - 1], Said(i - 1))
        BY <3>4, <3>5, <3>7
      <4>2. f[i] = f[i - 1] \o ValueFlag(flag, items[i])
        BY <1>4, <2>1, <3>3, <3>7
      <4>3. Said(i - 1) \cup (IF flag = "--format" THEN {items[i]} \ {""} ELSE {}) = Said(i)
        <5>1. \A j : j \in 1..i <=> j \in 1..i - 1 \/ j = i
          BY <3>5
        <5>2. {items[j] : j \in 1..i} = {items[j] : j \in 1..i - 1} \cup {items[i]}
          BY <5>1
        <5> QED BY <5>2
      <4> HIDE DEF Said
      <4>4. IsPart(f[i - 1] \o ValueFlag(flag, items[i]),
                   Said(i - 1) \cup (IF flag = "--format" THEN {items[i]} \ {""} ELSE {}))
        BY <1>2, <3>3, <4>1, PartsJoined
      <4> QED BY <3>3, <4>2, <4>3, <4>4
    <3> QED BY <3>6, <3>7
  <2>3. IsPart(f[n], Said(n))
    <3>1. n \in 1..n
      BY <1>1, <1>8
    <3> QED BY <2>2, <3>1
  <2> QED BY <1>5, <1>6, <2>1, <2>3
<1>9. n = 0 \/ n > 0
  <2> HIDE DEF n
  <2> QED BY <1>1
<1> QED BY <1>7, <1>8, <1>9

\* The tokens are a command and what follows it.
Begins(s, command, formats) == \E t : s = <<command>> \o t /\ IsPart(t, formats)

LEMMA BeginsType ==
  ASSUME NEW s, NEW command \in Words, NEW f, Begins(s, command, f)
  PROVE  s \in Seq(Words)
<1>1. <<command>> \in Seq(Words)
  BY Single
<1> QED BY <1>1, ConcatProperties DEF Begins, IsPart

LEMMA BeginsJoined ==
  ASSUME NEW s, NEW command \in Words, NEW f, Begins(s, command, f),
         NEW t, NEW g, IsPart(t, g)
  PROVE  Begins(s \o t, command, f \cup g)
<1>1. PICK r : s = <<command>> \o r /\ IsPart(r, f)
  BY DEF Begins
<1>2. <<command>> \in Seq(Words) /\ r \in Seq(Words) /\ t \in Seq(Words)
  BY <1>1, Single DEF IsPart
<1>3. (<<command>> \o r) \o t = <<command>> \o (r \o t)
  BY <1>2, ConcatAssociative
<1>4. IsPart(r \o t, f \cup g)
  BY <1>1, PartsJoined
<1> QED BY <1>1, <1>3, <1>4 DEF Begins

LEMMA HeadTailOfJoined ==
  ASSUME NEW S, NEW x \in S, NEW t \in Seq(S)
  PROVE  LET s == <<x>> \o t IN Len(s) > 0 /\ Head(s) = x /\ Tail(s) = t
<1> DEFINE a == <<x>>
           s == a \o t
           n == Len(t)
<1>1. a \in Seq(S) /\ Len(a) = 1 /\ a[1] = x
  BY Single
<1> HIDE DEF a
<1>2. /\ n \in Nat /\ s \in Seq(S) /\ Len(s) = 1 + n
      /\ \A i \in 1..1 + n : s[i] = IF i <= 1 THEN a[i] ELSE t[i - 1]
  <2>1. n \in Nat
    BY LenProperties
  <2>2. /\ s \in Seq(S) /\ Len(s) = Len(a) + n
        /\ \A i \in 1..Len(a) + n : s[i] = IF i <= Len(a) THEN a[i] ELSE t[i - Len(a)]
    BY <1>1, ConcatProperties
  <2> QED BY <1>1, <2>1, <2>2
<1> HIDE DEF s
<1>3. s # <<>> /\ Len(s) > 0
  <2>1. Len(s) > 0
    <3> HIDE DEF n
    <3> QED BY <1>2
  <2> QED BY <2>1, EmptySeq
<1>4. Head(s) = x
  <2>1. 1 \in 1..1 + n /\ 1 <= 1
    <3> HIDE DEF n
    <3> QED BY <1>2
  <2>2. s[1] = x
    BY <1>1, <1>2, <2>1
  <2>3. Head(s) = s[1]
    BY <1>2, <1>3
  <2> QED BY <2>2, <2>3
<1>5. Tail(s) = t
  <2>1. /\ Tail(s) \in Seq(S) /\ Len(Tail(s)) = Len(s) - 1
        /\ \A i \in 1..Len(Tail(s)) : Tail(s)[i] = s[i + 1]
    BY <1>2, <1>3, HeadTailProperties
  <2>2. Len(Tail(s)) = n
    <3> HIDE DEF n
    <3> QED BY <1>2, <2>1
  <2>3. ASSUME NEW i \in 1..n PROVE Tail(s)[i] = t[i]
    <3>1. i + 1 \in 1..1 + n /\ ~(i + 1 <= 1) /\ (i + 1) - 1 = i
      <4> HIDE DEF n
      <4> QED BY <1>2
    <3> QED BY <1>2, <2>1, <2>2, <3>1
  <2> QED BY <2>1, <2>2, <2>3, SeqEqual
<1> QED BY <1>3, <1>4, <1>5 DEF s, a

LEMMA BuiltBegins ==
  ASSUME NEW given \in ActionInputs
  PROVE  LET command == IF given.report = "true" THEN "report" ELSE "check" IN
         Begins(BuildCliArguments(given), command,
                IF command = "report" THEN ToSet(given.format) \ {""} ELSE {})
<1> DEFINE command == IF given.report = "true" THEN "report" ELSE "check"
           asked == ToSet(given.format) \ {""}
           s1 == <<command, "--summary-json">>
           s2 == s1 \o ListFlags("--root", given.roots)
           s3 == s2 \o ValueFlag("--manifest", given.manifestName)
           s4 == s3 \o ValueFlag("--input-schema", given.inputSchema)
           s5 == s4 \o ValueFlag("--config", given.config)
           s6 == s5 \o BooleanFlag(given.failOnWarning, "--fail-on-warning",
                                   "--no-fail-on-warning")
           s7 == s6 \o BooleanFlag(given.allowUnknown, "--allow-unknown-dependencies",
                                   "--no-allow-unknown-dependencies")
           s8 == s7 \o IF command = "report" THEN ReportFlags(given) ELSE <<>>
<1>1. BuildCliArguments(given) = s8
  BY DEF BuildCliArguments
<1>2. /\ command \in Words /\ "--summary-json" \in Words \ ValueFlags
      /\ "--fail-on-warning" \in Words \ ValueFlags /\ "--no-fail-on-warning" \in Words \ ValueFlags
      /\ "--allow-unknown-dependencies" \in Words \ ValueFlags
      /\ "--no-allow-unknown-dependencies" \in Words \ ValueFlags
  BY DEF Words, Dashed, Commands, ValueFlags
<1>3. /\ {"--root", "--manifest", "--input-schema", "--config", "--out", "--format"}
           \subseteq ValueFlags
      /\ \A flag \in ValueFlags \ {"--format"} : flag # "--format"
  BY DEF ValueFlags
<1>4. /\ given.roots \in Seq(Words) /\ given.manifestName \in Words
      /\ given.inputSchema \in Words /\ given.config \in Words
      /\ given.outputDirectory \in Words /\ given.format \in Seq(Words)
  <2>1. /\ given.roots \in Seq(STRING) /\ given.manifestName \in STRING
        /\ given.inputSchema \in STRING /\ given.config \in STRING
        /\ given.outputDirectory \in STRING /\ given.format \in Seq(STRING)
    BY DEF ActionInputs
  <2>2. STRING \subseteq Words
    BY DEF Words
  <2>3. Seq(STRING) \subseteq Seq(Words)
    BY <2>2, SeqWider
  <2> QED BY <2>1, <2>2, <2>3
<1>5. ASSUME NEW flag \in ValueFlags, flag # "--format"
      PROVE  /\ \A items \in Seq(Words) : IsPart(ListFlags(flag, items), {})
             /\ \A text \in Words : IsPart(ValueFlag(flag, text), {})
  <2>1. \A items \in Seq(Words) :
          IsPart(ListFlags(flag, items), IF flag = "--format" THEN ToSet(items) \ {""} ELSE {})
    BY PartList
  <2>2. \A text \in Words :
          IsPart(ValueFlag(flag, text), IF flag = "--format" THEN {text} \ {""} ELSE {})
    BY PartOptional
  <2> QED BY <1>5, <2>1, <2>2
<1>6. IsPart(ReportFlags(given), asked)
  <2>1. IsPart(ValueFlag("--out", given.outputDirectory), {})
    BY <1>3, <1>4, <1>5
  <2>2. IsPart(ListFlags("--format", given.format), asked)
    <3>1. "--format" \in ValueFlags
      BY <1>3
    <3>2. IsPart(ListFlags("--format", given.format),
                 IF "--format" = "--format" THEN ToSet(given.format) \ {""} ELSE {})
      BY <1>4, <3>1, PartList
    <3> QED BY <3>2
  <2>3. {} \cup asked = asked
    OBVIOUS
  <2> HIDE DEF asked
  <2> QED BY <2>1, <2>2, <2>3, PartsJoined DEF ReportFlags
<1> DEFINE last == IF command = "report" THEN ReportFlags(given) ELSE <<>>
           formats == IF command = "report" THEN asked ELSE {}
<1>7. IsPart(last, formats)
  BY <1>6, PartNone
<1>8. \A f : f \cup {} = f /\ {} \cup f = f
  OBVIOUS
<1>9. Begins(s1, command, {})
  <2>1. s1 = <<command>> \o <<"--summary-json">>
    BY <1>2, Pair
  <2>2. IsPart(<<"--summary-json">>, {})
    BY <1>2, PartFlag
  <2> QED BY <2>1, <2>2 DEF Begins
<1> HIDE DEF command, s1, asked, last, formats
<1>10. Begins(s2, command, {})
  <2>1. IsPart(ListFlags("--root", given.roots), {})
    BY <1>3, <1>4, <1>5
  <2> QED BY <1>2, <1>8, <1>9, <2>1, BeginsJoined
<1>11. Begins(s3, command, {})
  <2>1. IsPart(ValueFlag("--manifest", given.manifestName), {})
    BY <1>3, <1>4, <1>5
  <2> HIDE DEF s2
  <2> QED BY <1>2, <1>8, <1>10, <2>1, BeginsJoined
<1>12. Begins(s4, command, {})
  <2>1. IsPart(ValueFlag("--input-schema", given.inputSchema), {})
    BY <1>3, <1>4, <1>5
  <2> HIDE DEF s3
  <2> QED BY <1>2, <1>8, <1>11, <2>1, BeginsJoined
<1>13. Begins(s5, command, {})
  <2>1. IsPart(ValueFlag("--config", given.config), {})
    BY <1>3, <1>4, <1>5
  <2> HIDE DEF s4
  <2> QED BY <1>2, <1>8, <1>12, <2>1, BeginsJoined
<1>14. Begins(s6, command, {})
  <2>1. IsPart(BooleanFlag(given.failOnWarning, "--fail-on-warning", "--no-fail-on-warning"), {})
    BY <1>2, PartBoolean
  <2> HIDE DEF s5
  <2> QED BY <1>2, <1>8, <1>13, <2>1, BeginsJoined
<1>15. Begins(s7, command, {})
  <2>1. IsPart(BooleanFlag(given.allowUnknown, "--allow-unknown-dependencies",
                           "--no-allow-unknown-dependencies"), {})
    BY <1>2, PartBoolean
  <2> HIDE DEF s6
  <2> QED BY <1>2, <1>8, <1>14, <2>1, BeginsJoined
<1> HIDE DEF s7
<1>16. Begins(s7 \o last, command, {} \cup formats)
  BY <1>2, <1>7, <1>15, BeginsJoined
<1>17. Begins(s7 \o last, command, formats)
  BY <1>8, <1>16
<1> QED BY <1>1, <1>17 DEF last, formats, command, asked

\* The command line of the Action is one that says what its inputs say.
LEMMA BuiltSays ==
  ASSUME NEW given \in ActionInputs
  PROVE  LET tokens == BuildCliArguments(given)
             parsed == ParseArgs(tokens) IN
         /\ tokens \in Seq(Words)
         /\ ~parsed.usageError =>
              /\ (parsed.command = "report") = (given.report = "true")
              /\ given.report = "true" => parsed.formats = ToSet(given.format) \ {""}
<1> DEFINE tokens == BuildCliArguments(given)
           parsed == ParseArgs(tokens)
           command == IF given.report = "true" THEN "report" ELSE "check"
           formats == IF command = "report" THEN ToSet(given.format) \ {""} ELSE {}
           base == [InitialArgs EXCEPT !.command = command]
<1>1. Begins(tokens, command, formats)
  <2> HIDE DEF tokens
  <2> QED BY BuiltBegins DEF tokens
<1>2. command \in Commands /\ command \in Words
  BY DEF Words, Commands
<1>3. (command = "report") = (given.report = "true")
  OBVIOUS
<1>4. given.report = "true" => formats = ToSet(given.format) \ {""}
  OBVIOUS
<1> HIDE DEF tokens, command, formats
<1>5. tokens \in Seq(Words)
  BY <1>1, <1>2, BeginsType
<1>6. PICK t : tokens = <<command>> \o t /\ IsPart(t, formats)
  BY <1>1 DEF Begins
<1>7. t \in Seq(Words) /\ Len(tokens) > 0 /\ Head(tokens) = command /\ Tail(tokens) = t
  BY <1>2, <1>6, HeadTailOfJoined DEF IsPart
<1>8. parsed = IF Contradictory(Run(base, t)) THEN Misused(Run(base, t)) ELSE Run(base, t)
  BY <1>2, <1>7 DEF ParseArgs, Run
<1>9. base \in ArgsType /\ base.awaiting = "none" /\ base.formats = {}
  BY <1>2, InitialType DEF InitialArgs
<1> HIDE DEF base, parsed
<1>10. Run(base, t) \in ArgsType
  BY <1>7, <1>9, RunConcat
<1>11. ASSUME ~parsed.usageError
       PROVE  parsed.command = command /\ parsed.formats = formats
  <2>1. parsed = Run(base, t) /\ ~Run(base, t).usageError
    BY <1>8, <1>10, <1>11, MisusedType
  <2>2. Run(base, t).formats = formats
    BY <1>6, <1>9, <2>1 DEF IsPart
  <2>3. parsed.command = command
    BY <1>2, <1>5, <1>7, <1>11, ParseReads DEF parsed
  <2> QED BY <2>1, <2>2, <2>3
<1> QED BY <1>3, <1>4, <1>5, <1>11 DEF tokens, parsed

-----------------------------------------------------------------------------
(* The inductive invariant *)

\* A config file that is a mapping, or none: directories are strings.
ConfigType ==
  [sources : {Unset, "scg-v1", "zdp-v2"}, failOnWarnings : Policies,
   allowUnknownDependencies : Policies, minimumServiceCount : Nat,
   formats : SUBSET Formats, directory : STRING \cup {"inside"},
   maxReportBytes : {"default", "small"}, refused : SUBSET STRING]

\* What is given stays given; the Action's command line is its inputs.
GivenTyped ==
  /\ inputs = Shell \/ inputs \in ActionInputs
  /\ argv \in Seq(Words) /\ IsWorld(world)
  /\ configFile \in seen /\ \A file \in seen : IsConfigFile(file)
  /\ inputs # Shell /\ (pc \notin {"build", "ended"} \/ Scanned) =>
       argv = BuildCliArguments(inputs)
  /\ pc \in {"build", "append"} => inputs # Shell

Before == {"build", "parse", "exists", "read", "configure", "compile"}
Midway == {"publish", "print"}
After == {"returned", "append", "ended"}

\* Before the scan there is nothing but a command line and a config file.
Progress ==
  /\ pc \in Before \cup Midway \cup After
  /\ pc \in Before => ~Scanned /\ exitCode = 0 /\ output = Previous
  /\ pc \in Midway => Scanned
  /\ pc \notin After => printed = <<>>
  /\ pc \notin {"append", "ended"} => outputs = <<>>
  /\ pc = "publish" => args.command = "report" /\ output = Previous
  /\ pc = "append" => Scanned

\* The arguments are parsed before anything is read.
ParsedRead ==
  pc \in {"exists", "read", "configure", "compile"} \/ Scanned =>
    args = ParseArgs(argv) /\ ~args.usageError

\* The config is that of one moment, under the flags.
ConfigRead ==
  /\ pc \in {"build", "parse", "exists", "read"} => config = NoConfig
  /\ pc = "configure" => config \in FilesRead
  /\ pc = "compile" \/ Scanned => \E file \in FilesRead : config = MergeCliFlags(file, args)

\* The exit code and the reports follow from the scan, unless something failed.
ResultFollows ==
  Scanned =>
    /\ snapshot = Compiled(world.manifest, world.scan, config, InputSchemaOf(config, args))
    /\ LET code == ExitCodeForDiagnostics(snapshot.codes, config.failOnWarnings = "on") IN
       exitCode = code \/ (pc \in After /\ exitCode \in {4, 5})
    /\ pc # "publish" /\ exitCode \notin {4, 5} =>
         output = IF args.command = "report" THEN NormalizeFormats(config.formats)
                  ELSE Previous

Documents == [stream : {"stdout", "stderr"},
              form : {"json", "summary", "text", "version", "help", "completion"}]

\* There is one answer.
Answered ==
  pc = "returned" \/ (pc = "ended" /\ inputs = Shell) =>
    /\ printed \in Seq(Documents) /\ Len(printed) = 1
    /\ (printed[1].stream = "stdout") = (exitCode \notin {4, 5} /\ (Scanned \/ exitCode = 0))
    /\ UsesJsonOutput(argv) /\ Head(argv) # "completion"
         => printed[1].form \in {"json", "summary", "version", "help"}
    /\ printed[1].stream = "stdout" /\ printed[1].form \in {"json", "summary"} => Scanned

\* The outputs are the result, line by line, and are complete in the end.
OutputsFollow ==
  /\ IF Scanned
     THEN /\ outputs \in Seq({OutputLines[i] : i \in 1..4}) /\ Len(outputs) <= 4
          /\ \A i \in 1..Len(outputs) : outputs[i] = OutputLines[i]
     ELSE outputs = <<>>
  /\ pc = "append" => Len(outputs) < 4 /\ exitCode \notin {4, 5}
  /\ pc = "ended" /\ inputs # Shell /\ exitCode = 0 =>
       Scanned /\ (world.sink = "file" => Len(outputs) = 4)

InvocationInv ==
  GivenTyped /\ Progress /\ ParsedRead /\ ConfigRead /\ ResultFollows /\ Answered
  /\ OutputsFollow

LEMMA CompiledIsResult ==
  ASSUME NEW manifest, NEW scan, NEW file, NEW schema
  PROVE  Compiled(manifest, scan, file, schema) # NotYet
<1>1. "codes" \in DOMAIN Compiled(manifest, scan, file, schema)
  BY DEF Compiled
<1>2. "codes" \notin DOMAIN NotYet
  BY DEF NotYet
<1> QED BY <1>1, <1>2

LEMMA ExitCodes ==
  ASSUME NEW codes, NEW strict
  PROVE  ExitCodeForDiagnostics(codes, strict) \in {0, 1, 2, 3}
BY DEF ExitCodeForDiagnostics

\* The first document is written.
LEMMA FirstWritten ==
  ASSUME printed = <<>>, NEW stream, NEW form, [stream |-> stream, form |-> form] \in Documents,
         Writes(stream, form)
  PROVE  /\ printed' \in Seq(Documents) /\ Len(printed') = 1
         /\ printed'[1].stream = stream /\ printed'[1].form = form
<1> DEFINE d == [stream |-> stream, form |-> form]
<1>1. d \in Documents /\ d.stream = stream /\ d.form = form
  OBVIOUS
<1>2. printed' = Append(<<>>, d)
  BY DEF Writes
<1> HIDE DEF d
<1>3. Append(<<>>, d) \in Seq(Documents) /\ Len(Append(<<>>, d)) = 1 /\ Append(<<>>, d)[1] = d
  <2>1. <<>> \in Seq(Documents) /\ Len(<<>>) = 0
    BY EmptySeq
  <2> QED BY <1>1, <2>1, AppendProperties
<1> QED BY <1>1, <1>2, <1>3

LEMMA InvocationInitially ==
  InvocationInit => InvocationInv
<1> SUFFICES ASSUME InvocationInit PROVE InvocationInv
  OBVIOUS
<1> USE DEF InvocationInit
<1>1. PICK s \in Scenarios :
        /\ inputs = s.inputs /\ argv = s.argv /\ world = s.world
        /\ configFile = s.configFile /\ seen = {s.configFile}
        /\ pc = IF s.inputs = Shell THEN "parse" ELSE "build"
  OBVIOUS
<1>2. ~Scanned /\ outputs = <<>> /\ pc \in {"parse", "build"}
  BY <1>1 DEF Scanned
<1>3. GivenTyped
  <2>1. /\ inputs = Shell \/ inputs \in ActionInputs
        /\ argv \in Seq(STRING) /\ IsWorld(world) /\ IsConfigFile(configFile)
    BY <1>1, ScenariosAssumption
  <2>2. argv \in Seq(Words)
    <3>1. STRING \subseteq Words
      BY DEF Words
    <3> QED BY <2>1, <3>1, SeqWider
  <2>3. inputs # Shell => pc = "build"
    BY <1>1
  <2>4. pc = "build" => inputs # Shell
    BY <1>1
  <2>5. configFile \in seen /\ \A file \in seen : IsConfigFile(file)
    BY <1>1, <2>1
  <2> HIDE DEF InvocationInit
  <2> QED BY <1>2, <2>1, <2>2, <2>3, <2>4, <2>5 DEF GivenTyped
<1>4. Progress
  BY <1>2 DEF Progress, Before, Midway, After
<1>5. ParsedRead /\ ConfigRead /\ ResultFollows /\ Answered /\ OutputsFollow
  BY <1>2 DEF ParsedRead, ConfigRead, ResultFollows, Answered, OutputsFollow
<1> QED BY <1>3, <1>4, <1>5 DEF InvocationInv

-----------------------------------------------------------------------------
(* Steps *)

LEMMA BuildArgumentsKeeps ==
  ASSUME InvocationInv, BuildArguments
  PROVE  InvocationInv'
<1> USE DEF InvocationInv
<1>1. /\ pc = "build" /\ ~Scanned /\ exitCode = 0 /\ output = Previous
      /\ printed = <<>> /\ outputs = <<>> /\ inputs # Shell /\ inputs \in ActionInputs
  BY DEF BuildArguments, Progress, GivenTyped, Before, After
<1>2. /\ inputs' = inputs /\ world' = world /\ configFile' = configFile /\ seen' = seen
      /\ args' = args /\ config' = config /\ snapshot' = snapshot /\ output' = output
      /\ outputs' = outputs
  BY DEF BuildArguments
<1>3. ~Scanned'
  BY <1>1, <1>2 DEF Scanned
<1>4. \/ argv' = BuildCliArguments(inputs) /\ pc' = "parse"
         /\ exitCode' = exitCode /\ printed' = printed
      \/ argv' = argv /\ pc' = "ended" /\ exitCode' = 5
  BY DEF BuildArguments, ActionFails
<1>5. GivenTyped'
  <2>1. argv' \in Seq(Words)
    BY <1>1, <1>4, BuiltSays DEF GivenTyped
  <2>2. pc' \notin {"build", "ended"} => argv' = BuildCliArguments(inputs)
    BY <1>4
  <2>3. pc' \notin {"build", "append"}
    BY <1>4
  <2> QED BY <1>1, <1>2, <1>3, <2>1, <2>2, <2>3 DEF GivenTyped
<1>6. Progress'
  BY <1>1, <1>2, <1>3, <1>4 DEF Progress, Before, Midway, After
<1>7. ParsedRead' /\ ConfigRead' /\ ResultFollows' /\ Answered' /\ OutputsFollow'
  BY <1>1, <1>2, <1>3, <1>4
     DEF ParsedRead, ConfigRead, ResultFollows, Answered, OutputsFollow
<1> QED BY <1>5, <1>6, <1>7

LEMMA CompleteKeeps ==
  ASSUME InvocationInv, Complete
  PROVE  InvocationInv'
<1> USE DEF InvocationInv
<1>1. /\ pc = "parse" /\ ~Scanned /\ exitCode = 0 /\ output = Previous
      /\ printed = <<>> /\ outputs = <<>> /\ Head(argv) = "completion"
  BY DEF Complete, Progress, Before, After
<1>2. /\ inputs' = inputs /\ argv' = argv /\ world' = world /\ configFile' = configFile
      /\ seen' = seen /\ args' = args /\ config' = config /\ snapshot' = snapshot
      /\ output' = output /\ outputs' = outputs
  BY DEF Complete, Given
<1>3. ~Scanned' /\ pc' = "returned"
  BY <1>1, <1>2 DEF Scanned, Complete, Answers, CliError
<1>4. GivenTyped'
  BY <1>1, <1>2, <1>3 DEF GivenTyped
<1>5. Progress'
  BY <1>1, <1>2, <1>3 DEF Progress, Before, Midway, After
<1>6. Answered'
  <2>1. CASE Writes("stdout", "completion") /\ exitCode' = exitCode
    BY <1>1, <1>2, <1>3, <2>1, FirstWritten DEF Answered, Documents
  <2>2. CASE Writes("stderr", "text") /\ exitCode' = 2
    BY <1>1, <1>2, <1>3, <2>2, FirstWritten DEF Answered, Documents
  <2> QED BY <2>1, <2>2 DEF Complete, Answers, CliError
<1>7. ParsedRead' /\ ConfigRead' /\ ResultFollows' /\ OutputsFollow'
  BY <1>1, <1>2, <1>3 DEF ParsedRead, ConfigRead, ResultFollows, OutputsFollow
<1> QED BY <1>4, <1>5, <1>6, <1>7

LEMMA ParseKeeps ==
  ASSUME InvocationInv, Parse
  PROVE  InvocationInv'
<1> USE DEF InvocationInv
<1>1. /\ pc = "parse" /\ ~Scanned /\ exitCode = 0 /\ output = Previous
      /\ printed = <<>> /\ outputs = <<>>
  BY DEF Parse, Progress, Before, After
<1>2. /\ inputs' = inputs /\ argv' = argv /\ world' = world /\ configFile' = configFile
      /\ seen' = seen /\ config' = config /\ snapshot' = snapshot
      /\ output' = output /\ outputs' = outputs
  BY DEF Parse, Given
<1>3. ~Scanned'
  BY <1>1, <1>2 DEF Scanned
<1>4. \/ pc' = "returned" /\ exitCode' = 2
         /\ Writes("stderr", IF UsesJsonOutput(argv) THEN "json" ELSE "text")
      \/ pc' = "returned" /\ exitCode' = 0 /\ Writes("stdout", "version")
      \/ pc' = "returned" /\ exitCode' = 0 /\ Writes("stdout", "help")
      \/ pc' = "exists" /\ exitCode' = 0 /\ printed' = printed
         /\ args' = ParseArgs(argv) /\ ~args'.usageError
  BY <1>1 DEF Parse, CliError, Answers
<1>5. GivenTyped'
  BY <1>1, <1>2, <1>3, <1>4 DEF GivenTyped
<1>6. Progress'
  BY <1>1, <1>2, <1>3, <1>4 DEF Progress, Before, Midway, After
<1>7. ParsedRead'
  BY <1>2, <1>3, <1>4 DEF ParsedRead
<1>8. ConfigRead'
  <2>1. config = NoConfig
    BY <1>1 DEF ConfigRead
  <2> QED BY <1>2, <1>3, <1>4, <2>1 DEF ConfigRead
<1>9. Answered'
  <2>1. CASE pc' = "exists"
    BY <2>1 DEF Answered
  <2>2. CASE /\ pc' = "returned" /\ exitCode' = 2
             /\ Writes("stderr", IF UsesJsonOutput(argv) THEN "json" ELSE "text")
    BY <1>1, <1>2, <1>3, <2>2, FirstWritten DEF Answered, Documents
  <2>3. CASE pc' = "returned" /\ exitCode' = 0 /\ Writes("stdout", "version")
    BY <1>1, <1>2, <1>3, <2>3, FirstWritten DEF Answered, Documents
  <2>4. CASE pc' = "returned" /\ exitCode' = 0 /\ Writes("stdout", "help")
    BY <1>1, <1>2, <1>3, <2>4, FirstWritten DEF Answered, Documents
  <2> QED BY <1>4, <2>1, <2>2, <2>3, <2>4
<1>10. ResultFollows' /\ OutputsFollow'
  BY <1>1, <1>2, <1>3, <1>4 DEF ResultFollows, OutputsFollow
<1> QED BY <1>5, <1>6, <1>7, <1>8, <1>9, <1>10

\* An error of the command line before the scan is the answer.
LEMMA ErrorAnswers ==
  ASSUME InvocationInv, pc \in Before, pc # "build", NEW code \in {2, 4, 5}, NEW json \in BOOLEAN,
         UsesJsonOutput(argv) => json, CliError(code, json),
         UNCHANGED <<Given, configFile, args, config, snapshot, output, outputs, seen>>
  PROVE  InvocationInv'
<1> USE DEF InvocationInv
<1>1. /\ ~Scanned /\ exitCode = 0 /\ output = Previous /\ printed = <<>> /\ outputs = <<>>
  BY DEF Progress, Before, After
<1>2. /\ inputs' = inputs /\ argv' = argv /\ world' = world /\ configFile' = configFile
      /\ seen' = seen /\ args' = args /\ config' = config /\ snapshot' = snapshot
      /\ output' = output /\ outputs' = outputs
  BY DEF Given
<1>3. ~Scanned' /\ pc' = "returned" /\ exitCode' = code
      /\ Writes("stderr", IF json THEN "json" ELSE "text")
  BY <1>1, <1>2 DEF Scanned, CliError
<1>4. GivenTyped'
  <2>1. inputs # Shell => argv = BuildCliArguments(inputs)
    BY DEF GivenTyped, Before
  <2> QED BY <1>2, <1>3, <2>1 DEF GivenTyped
<1>5. Progress'
  BY <1>1, <1>2, <1>3 DEF Progress, Before, Midway, After
<1>6. Answered'
  BY <1>1, <1>2, <1>3, FirstWritten DEF Answered, Documents
<1>7. ParsedRead' /\ ConfigRead' /\ ResultFollows' /\ OutputsFollow'
  BY <1>1, <1>2, <1>3 DEF ParsedRead, ConfigRead, ResultFollows, OutputsFollow
<1> QED BY <1>4, <1>5, <1>6, <1>7

\* Once the arguments are parsed, JSON is asked for exactly if they say so.
LEMMA JsonAsked ==
  ASSUME InvocationInv, pc \in {"exists", "read", "configure", "compile"} \/ Scanned
  PROVE  ArgsSay /\ Json = UsesJsonOutput(argv) /\ Json \in BOOLEAN
<1>1. argv \in Seq(Words) /\ args = ParseArgs(argv) /\ ~args.usageError
  BY DEF InvocationInv, GivenTyped, ParsedRead
<1>2. ArgsSay
  BY <1>1, ParsedSay
<1> QED BY <1>2 DEF ArgsSay, Json, ArgsType

LEMMA LookForConfigKeeps ==
  ASSUME InvocationInv, LookForConfig
  PROVE  InvocationInv'
<1> USE DEF InvocationInv
<1>1. /\ pc = "exists" /\ ~Scanned /\ exitCode = 0 /\ output = Previous
      /\ printed = <<>> /\ outputs = <<>> /\ config = NoConfig /\ configFile \in seen
      /\ args = ParseArgs(argv) /\ ~args.usageError
  BY DEF LookForConfig, Progress, Before, After, ConfigRead, GivenTyped, ParsedRead
<1>2. CASE CliError(2, Json)
  <2>1. Json = UsesJsonOutput(argv) /\ Json \in BOOLEAN
    BY <1>1, JsonAsked
  <2>2. UNCHANGED <<Given, configFile, args, config, snapshot, output, outputs, seen>>
    BY DEF LookForConfig
  <2> QED BY <1>1, <1>2, <2>1, <2>2, ErrorAnswers DEF Before
<1>3. CASE /\ pc' = IF configFile.kind = "none" THEN "configure" ELSE "read"
           /\ UNCHANGED <<exitCode, printed>>
  <2>1. /\ inputs' = inputs /\ argv' = argv /\ world' = world /\ configFile' = configFile
        /\ seen' = seen /\ args' = args /\ config' = config /\ snapshot' = snapshot
        /\ output' = output /\ outputs' = outputs /\ exitCode' = exitCode /\ printed' = printed
    BY <1>3 DEF LookForConfig, Given
  <2>2. ~Scanned'
    BY <1>1, <2>1 DEF Scanned
  <2>3. pc' \in {"configure", "read"}
    BY <1>3
  <2>4. GivenTyped'
    BY <1>1, <2>1, <2>2, <2>3 DEF GivenTyped
  <2>5. Progress'
    BY <1>1, <2>1, <2>2, <2>3 DEF Progress, Before, Midway, After
  <2>6. ConfigRead'
    <3>1. ASSUME pc' = "configure" PROVE config' \in FilesRead'
      <4>1. configFile.kind = "none"
        BY <1>3, <3>1
      <4>2. NoConfig \in FilesRead
        BY <1>1, <4>1 DEF FilesRead
      <4> QED BY <1>1, <2>1, <4>2 DEF FilesRead
    <3> QED BY <1>1, <2>1, <2>2, <2>3, <3>1 DEF ConfigRead
  <2>7. ParsedRead' /\ ResultFollows' /\ Answered' /\ OutputsFollow'
    BY <1>1, <2>1, <2>2, <2>3 DEF ParsedRead, ResultFollows, Answered, OutputsFollow
  <2> QED BY <2>4, <2>5, <2>6, <2>7
<1> QED BY <1>2, <1>3 DEF LookForConfig

LEMMA LoadConfigKeeps ==
  ASSUME InvocationInv, LoadConfig
  PROVE  InvocationInv'
<1> USE DEF InvocationInv
<1>1. /\ pc = "read" /\ ~Scanned /\ exitCode = 0 /\ output = Previous
      /\ printed = <<>> /\ outputs = <<>> /\ config = NoConfig
      /\ configFile \in seen /\ IsConfigFile(configFile)
      /\ args = ParseArgs(argv) /\ ~args.usageError
  BY DEF LoadConfig, Progress, Before, After, ConfigRead, GivenTyped, ParsedRead
<1>2. CASE CliError(2, Json) /\ UNCHANGED config
  <2>1. Json = UsesJsonOutput(argv) /\ Json \in BOOLEAN
    BY <1>1, JsonAsked
  <2>2. UNCHANGED <<Given, configFile, args, config, snapshot, output, outputs, seen>>
    BY <1>2 DEF LoadConfig
  <2> QED BY <1>1, <1>2, <2>1, <2>2, ErrorAnswers DEF Before
<1>3. CASE /\ ReadBoundedConfigFile(configFile) /\ IsPlainRecord(configFile)
           /\ config' = configFile.value /\ pc' = "configure"
           /\ UNCHANGED <<exitCode, printed>>
  <2>1. /\ inputs' = inputs /\ argv' = argv /\ world' = world /\ configFile' = configFile
        /\ seen' = seen /\ args' = args /\ snapshot' = snapshot
        /\ output' = output /\ outputs' = outputs /\ exitCode' = exitCode /\ printed' = printed
    BY <1>3 DEF LoadConfig, Given
  <2>2. ~Scanned'
    BY <1>1, <2>1 DEF Scanned
  <2>3. GivenTyped'
    BY <1>1, <1>3, <2>1, <2>2 DEF GivenTyped
  <2>4. Progress'
    BY <1>1, <1>3, <2>1, <2>2 DEF Progress, Before, Midway, After
  <2>5. ConfigRead'
    <3>1. configFile.kind = "mapping"
      BY <1>1, <1>3 DEF IsConfigFile, ReadBoundedConfigFile, IsPlainRecord
    <3>2. configFile.value \in FilesRead
      BY <1>1, <3>1 DEF FilesRead
    <3> QED BY <1>3, <2>1, <2>2, <3>2 DEF ConfigRead, FilesRead
  <2>6. ParsedRead' /\ ResultFollows' /\ Answered' /\ OutputsFollow'
    BY <1>1, <1>3, <2>1, <2>2 DEF ParsedRead, ResultFollows, Answered, OutputsFollow
  <2> QED BY <2>3, <2>4, <2>5, <2>6
<1> QED BY <1>2, <1>3 DEF LoadConfig

LEMMA ConfigureKeeps ==
  ASSUME InvocationInv, Configure
  PROVE  InvocationInv'
<1> USE DEF InvocationInv
<1>1. /\ pc = "configure" /\ ~Scanned /\ exitCode = 0 /\ output = Previous
      /\ printed = <<>> /\ outputs = <<>> /\ config \in FilesRead
      /\ args = ParseArgs(argv) /\ ~args.usageError
  BY DEF Configure, Progress, Before, After, ConfigRead, ParsedRead
<1>2. CASE CliError(2, Json) /\ UNCHANGED config
  <2>1. Json = UsesJsonOutput(argv) /\ Json \in BOOLEAN
    BY <1>1, JsonAsked
  <2>2. UNCHANGED <<Given, configFile, args, config, snapshot, output, outputs, seen>>
    BY <1>2 DEF Configure
  <2> QED BY <1>1, <1>2, <2>1, <2>2, ErrorAnswers DEF Before
<1>3. CASE /\ config' = MergeCliFlags(config, args) /\ pc' = "compile"
           /\ UNCHANGED <<exitCode, printed>>
  <2>1. /\ inputs' = inputs /\ argv' = argv /\ world' = world /\ configFile' = configFile
        /\ seen' = seen /\ args' = args /\ snapshot' = snapshot
        /\ output' = output /\ outputs' = outputs /\ exitCode' = exitCode /\ printed' = printed
    BY <1>3 DEF Configure, Given
  <2>2. ~Scanned'
    BY <1>1, <2>1 DEF Scanned
  <2>3. GivenTyped'
    BY <1>1, <1>3, <2>1, <2>2 DEF GivenTyped
  <2>4. Progress'
    BY <1>1, <1>3, <2>1, <2>2 DEF Progress, Before, Midway, After
  <2>5. ConfigRead'
    <3>1. FilesRead' = FilesRead
      BY <2>1 DEF FilesRead
    <3>2. \E file \in FilesRead' : config' = MergeCliFlags(file, args)'
      BY <1>1, <1>3, <2>1, <3>1
    <3> QED BY <1>3, <3>2 DEF ConfigRead
  <2>6. ParsedRead' /\ ResultFollows' /\ Answered' /\ OutputsFollow'
    BY <1>1, <1>3, <2>1, <2>2 DEF ParsedRead, ResultFollows, Answered, OutputsFollow
  <2> QED BY <2>3, <2>4, <2>5, <2>6
<1> QED BY <1>2, <1>3 DEF Configure

LEMMA NoOutputsYet ==
  ASSUME outputs' = <<>>, pc' = "append" => exitCode' \notin {4, 5},
         pc' = "ended" /\ inputs' # Shell => exitCode' # 0
  PROVE  OutputsFollow'
<1>1. outputs' \in Seq({OutputLines'[i] : i \in 1..4}) /\ Len(outputs') = 0
  BY EmptySeq
<1>2. /\ Len(outputs') <= 4 /\ Len(outputs') < 4
      /\ \A i \in 1..Len(outputs') : outputs'[i] = OutputLines'[i]
  BY <1>1
<1> QED BY <1>1, <1>2 DEF OutputsFollow

LEMMA CompileKeeps ==
  ASSUME InvocationInv, Compile
  PROVE  InvocationInv'
<1> USE DEF InvocationInv
<1>1. /\ pc = "compile" /\ ~Scanned /\ exitCode = 0 /\ output = Previous
      /\ printed = <<>> /\ outputs = <<>>
      /\ args = ParseArgs(argv) /\ ~args.usageError
      /\ \E file \in FilesRead : config = MergeCliFlags(file, args)
  BY DEF Compile, Progress, Before, After, ConfigRead, ParsedRead
<1>2. CASE /\ CliError(IF world.scan = "clash" THEN 2 ELSE 5, UsesJsonOutput(argv))
           /\ UNCHANGED snapshot
  <2>1. UsesJsonOutput(argv) \in BOOLEAN
    BY DEF UsesJsonOutput
  <2>2. UNCHANGED <<Given, configFile, args, config, snapshot, output, outputs, seen>>
    BY <1>2 DEF Compile
  <2>3. (IF world.scan = "clash" THEN 2 ELSE 5) \in {2, 4, 5}
    OBVIOUS
  <2> QED BY <1>1, <1>2, <2>1, <2>2, <2>3, ErrorAnswers DEF Before
<1>3. CASE /\ snapshot' = Compiled(world.manifest, world.scan, config, InputSchemaOf(config, args))
           /\ exitCode' = ExitCodeForDiagnostics(snapshot'.codes, config.failOnWarnings = "on")
           /\ pc' = IF args.command = "report" THEN "publish" ELSE "print"
           /\ UNCHANGED printed
  <2>1. /\ inputs' = inputs /\ argv' = argv /\ world' = world /\ configFile' = configFile
        /\ seen' = seen /\ args' = args /\ config' = config
        /\ output' = output /\ outputs' = outputs /\ printed' = printed
    BY <1>3 DEF Compile, Given
  <2>2. Scanned'
    BY <1>3, CompiledIsResult DEF Scanned
  <2>3. /\ pc' \in {"publish", "print"} /\ (pc' = "publish" => args.command = "report")
        /\ (pc' = "print" => args.command # "report")
    BY <1>3
  <2>4. GivenTyped'
    BY <1>1, <2>1, <2>3 DEF GivenTyped
  <2>5. Progress'
    BY <1>1, <2>1, <2>2, <2>3 DEF Progress, Before, Midway, After
  <2>6. ConfigRead'
    <3>1. FilesRead' = FilesRead
      BY <2>1 DEF FilesRead
    <3>2. \E file \in FilesRead' : config' = MergeCliFlags(file, args)'
      BY <1>1, <2>1, <3>1
    <3> QED BY <2>3, <3>2 DEF ConfigRead
  <2>7. ResultFollows'
    <3>1. snapshot' = Compiled(world.manifest, world.scan, config, InputSchemaOf(config, args))'
      BY <1>3, <2>1
    <3>2. exitCode' = ExitCodeForDiagnostics(snapshot.codes, config.failOnWarnings = "on")'
      BY <1>3, <2>1
    <3>3. pc' # "publish" => output' = Previous /\ args'.command # "report"
      BY <1>1, <2>1, <2>3
    <3> QED BY <3>1, <3>2, <3>3 DEF ResultFollows
  <2>8. ParsedRead' /\ Answered'
    BY <1>1, <2>1, <2>3 DEF ParsedRead, Answered
  <2>9. OutputsFollow'
    <3>1. outputs' = <<>> /\ pc' \notin {"append", "ended"}
      BY <1>1, <2>1, <2>3
    <3> QED BY <3>1, NoOutputsYet
  <2> QED BY <2>4, <2>5, <2>6, <2>7, <2>8, <2>9
<1> QED BY <1>2, <1>3 DEF Compile

LEMMA PublishKeeps ==
  ASSUME InvocationInv, Publish
  PROVE  InvocationInv'
<1> USE DEF InvocationInv
<1> DEFINE code == ExitCodeForDiagnostics(snapshot.codes, config.failOnWarnings = "on")
           formats == NormalizeFormats(config.formats)
<1>1. /\ pc = "publish" /\ Scanned /\ output = Previous /\ args.command = "report"
      /\ printed = <<>> /\ outputs = <<>>
      /\ args = ParseArgs(argv) /\ ~args.usageError
      /\ \E file \in FilesRead : config = MergeCliFlags(file, args)
      /\ snapshot = Compiled(world.manifest, world.scan, config, InputSchemaOf(config, args))
      /\ exitCode = code
  BY DEF Publish, Progress, Before, Midway, After, ConfigRead, ParsedRead, ResultFollows
<1>2. /\ inputs' = inputs /\ argv' = argv /\ world' = world /\ configFile' = configFile
      /\ seen' = seen /\ args' = args /\ config' = config /\ snapshot' = snapshot
      /\ outputs' = outputs
  BY DEF Publish, Given
<1>3. Scanned'
  BY <1>1, <1>2 DEF Scanned
<1>4. \/ /\ pc' = "print" /\ output' = formats /\ exitCode' = exitCode /\ printed' = printed
      \/ /\ pc' = "returned" /\ exitCode' \in {4, 5}
         /\ Writes("stderr", IF UsesJsonOutput(argv) THEN "json" ELSE "text")
  BY DEF Publish, CliError
<1>5. GivenTyped'
  BY <1>1, <1>2, <1>3, <1>4 DEF GivenTyped
<1>6. Progress'
  BY <1>1, <1>2, <1>3, <1>4 DEF Progress, Before, Midway, After
<1>7. ConfigRead'
  <2>1. FilesRead' = FilesRead
    BY <1>2 DEF FilesRead
  <2>2. \E file \in FilesRead' : config' = MergeCliFlags(file, args)'
    BY <1>1, <1>2, <2>1
  <2> QED BY <1>4, <2>2 DEF ConfigRead
<1>8. ResultFollows'
  <2>1. snapshot' = Compiled(world.manifest, world.scan, config, InputSchemaOf(config, args))'
    BY <1>1, <1>2
  <2>2. /\ code' = code /\ args'.command = "report"
        /\ NormalizeFormats(config'.formats) = formats
    BY <1>1, <1>2
  <2>3. CASE /\ pc' = "print" /\ output' = formats /\ exitCode' = exitCode
    <3>1. exitCode' = code'
      BY <1>1, <2>2, <2>3
    <3> QED BY <2>1, <2>2, <2>3, <3>1 DEF ResultFollows
  <2>4. CASE pc' = "returned" /\ exitCode' \in {4, 5}
    BY <2>1, <2>4 DEF ResultFollows, After
  <2> QED BY <1>4, <2>3, <2>4
<1>9. Answered'
  <2>1. CASE pc' = "print"
    BY <2>1 DEF Answered
  <2>2. CASE /\ pc' = "returned" /\ exitCode' \in {4, 5}
             /\ Writes("stderr", IF UsesJsonOutput(argv) THEN "json" ELSE "text")
    BY <1>1, <1>2, <1>3, <2>2, FirstWritten DEF Answered, Documents
  <2> QED BY <1>4, <2>1, <2>2
<1>10. ParsedRead'
  BY <1>1, <1>2 DEF ParsedRead
<1>11. OutputsFollow'
  <2>1. outputs' = <<>> /\ pc' \notin {"append", "ended"}
    BY <1>1, <1>2, <1>4
  <2> QED BY <2>1, NoOutputsYet
<1> QED BY <1>5, <1>6, <1>7, <1>8, <1>9, <1>10, <1>11

LEMMA PrintResultKeeps ==
  ASSUME InvocationInv, PrintResult
  PROVE  InvocationInv'
<1> USE DEF InvocationInv
<1> DEFINE form == IF args.json THEN "json" ELSE IF args.summaryJson THEN "summary" ELSE "text"
<1>1. /\ pc = "print" /\ Scanned /\ printed = <<>> /\ outputs = <<>>
      /\ args = ParseArgs(argv) /\ ~args.usageError
      /\ \E file \in FilesRead : config = MergeCliFlags(file, args)
  BY DEF PrintResult, Progress, Before, Midway, After, ConfigRead, ParsedRead
<1>2. /\ inputs' = inputs /\ argv' = argv /\ world' = world /\ configFile' = configFile
      /\ seen' = seen /\ args' = args /\ config' = config /\ snapshot' = snapshot
      /\ outputs' = outputs /\ output' = output /\ exitCode' = exitCode
  BY DEF PrintResult, Given
<1>3. Scanned' /\ pc' = "returned" /\ Writes("stdout", form)
  BY <1>1, <1>2 DEF Scanned, PrintResult, Answers
<1>4. GivenTyped'
  BY <1>1, <1>2, <1>3 DEF GivenTyped
<1>5. Progress'
  BY <1>1, <1>2, <1>3 DEF Progress, Before, Midway, After
<1>6. ConfigRead'
  <2>1. FilesRead' = FilesRead
    BY <1>2 DEF FilesRead
  <2>2. \E file \in FilesRead' : config' = MergeCliFlags(file, args)'
    BY <1>1, <1>2, <2>1
  <2> QED BY <1>3, <2>2 DEF ConfigRead
<1>7. exitCode = ExitCodeForDiagnostics(snapshot.codes, config.failOnWarnings = "on")
  BY <1>1 DEF ResultFollows, After
<1>8. ResultFollows'
  BY <1>1, <1>2, <1>3, <1>7 DEF ResultFollows
<1>9. Answered'
  <2>1. exitCode \in {0, 1, 2, 3}
    BY <1>7, ExitCodes
  <2>2. form \in {"json", "summary", "text"} /\ (UsesJsonOutput(argv) => form # "text")
    BY <1>1, JsonAsked DEF Json
  <2> HIDE DEF form
  <2>3. [stream |-> "stdout", form |-> form] \in Documents
    BY <2>2 DEF Documents
  <2>4. /\ printed' \in Seq(Documents) /\ Len(printed') = 1
        /\ printed'[1].stream = "stdout" /\ printed'[1].form = form
    BY <1>1, <1>3, <2>3, FirstWritten
  <2> QED BY <1>2, <1>3, <2>1, <2>2, <2>4 DEF Answered
<1>10. ParsedRead'
  BY <1>1, <1>2 DEF ParsedRead
<1>11. OutputsFollow'
  <2>1. outputs' = <<>> /\ pc' \notin {"append", "ended"}
    BY <1>1, <1>2, <1>3
  <2> QED BY <2>1, NoOutputsYet
<1> QED BY <1>4, <1>5, <1>6, <1>8, <1>9, <1>10, <1>11

\* What the scan and the command line left stays as it is afterwards.
LEMMA ResultStays ==
  ASSUME InvocationInv, pc \in {"returned", "append"}, pc' \in {"append", "ended"},
         UNCHANGED <<Given, configFile, args, config, snapshot, output, seen>>,
         pc' = "append" => Scanned /\ inputs # Shell,
         exitCode' = exitCode \/ exitCode' = 5
  PROVE  GivenTyped' /\ Progress' /\ ParsedRead' /\ ConfigRead' /\ ResultFollows'
<1> USE DEF InvocationInv
<1>1. /\ inputs' = inputs /\ argv' = argv /\ world' = world /\ configFile' = configFile
      /\ seen' = seen /\ args' = args /\ config' = config /\ snapshot' = snapshot
      /\ output' = output
  BY DEF Given
<1>2. Scanned' = Scanned
  BY <1>1 DEF Scanned
<1>3. GivenTyped'
  BY <1>1, <1>2 DEF GivenTyped
<1>4. Progress'
  BY <1>1, <1>2 DEF Progress, Before, Midway, After
<1>5. ParsedRead'
  BY <1>1, <1>2 DEF ParsedRead
<1>6. ConfigRead'
  <2>1. FilesRead' = FilesRead
    BY <1>1 DEF FilesRead
  <2>2. Scanned => \E file \in FilesRead' : config' = MergeCliFlags(file, args)'
    BY <1>1, <2>1 DEF ConfigRead
  <2> QED BY <1>2, <2>2 DEF ConfigRead
<1>7. ResultFollows'
  <2> DEFINE code == ExitCodeForDiagnostics(snapshot.codes, config.failOnWarnings = "on")
  <2> SUFFICES ASSUME Scanned PROVE ResultFollows'
    BY <1>2 DEF ResultFollows
  <2>1. /\ snapshot = Compiled(world.manifest, world.scan, config, InputSchemaOf(config, args))
        /\ exitCode = code \/ exitCode \in {4, 5}
        /\ exitCode \notin {4, 5} =>
             output = IF args.command = "report" THEN NormalizeFormats(config.formats)
                      ELSE Previous
    BY DEF ResultFollows
  <2>2. code' = code /\ pc' \in After
    BY <1>1 DEF After
  <2>3. snapshot' = Compiled(world.manifest, world.scan, config, InputSchemaOf(config, args))'
    BY <1>1, <2>1
  <2>4. exitCode' = code' \/ exitCode' \in {4, 5}
    BY <2>1, <2>2
  <2>5. exitCode' \notin {4, 5} =>
          output' = (IF args.command = "report" THEN NormalizeFormats(config.formats)
                     ELSE Previous)'
    BY <1>1, <2>1
  <2> QED BY <2>2, <2>3, <2>4, <2>5 DEF ResultFollows
<1> QED BY <1>3, <1>4, <1>5, <1>6, <1>7

LEMMA ReturnKeeps ==
  ASSUME InvocationInv, Return
  PROVE  InvocationInv'
<1> USE DEF InvocationInv
<1>1. pc = "returned" /\ outputs = <<>>
  BY DEF Return, Progress
<1>2. UNCHANGED <<Given, configFile, args, config, snapshot, output, outputs, seen>>
  BY DEF Return
<1>3. /\ printed \in Seq(Documents) /\ Len(printed) = 1
      /\ (printed[1].stream = "stdout") = (exitCode \notin {4, 5} /\ (Scanned \/ exitCode = 0))
      /\ printed[1].stream = "stdout" /\ printed[1].form \in {"json", "summary"} => Scanned
  BY <1>1 DEF Answered
<1>4. ExtractSummary => Scanned /\ exitCode \notin {4, 5}
  <2>1. DOMAIN printed = 1..1
    BY <1>3, LenProperties
  <2>2. \A i : i \in 1..1 <=> i = 1
    OBVIOUS
  <2> QED BY <1>3, <2>1, <2>2 DEF ExtractSummary
<1>5. /\ inputs' = inputs /\ argv' = argv /\ args' = args /\ snapshot' = snapshot
      /\ outputs' = outputs /\ world' = world
  BY <1>2 DEF Given
<1>6. CASE inputs = Shell /\ pc' = "ended" /\ UNCHANGED <<exitCode, printed>>
  <2>1. GivenTyped' /\ Progress' /\ ParsedRead' /\ ConfigRead' /\ ResultFollows'
    BY <1>1, <1>2, <1>6, ResultStays
  <2>2. Answered'
    BY <1>1, <1>5, <1>6 DEF Answered, Scanned
  <2>3. OutputsFollow'
    BY <1>1, <1>5, <1>6, NoOutputsYet
  <2> QED BY <2>1, <2>2, <2>3
<1>7. CASE inputs # Shell /\ ExtractSummary /\ pc' = "append" /\ UNCHANGED <<exitCode, printed>>
  <2>1. GivenTyped' /\ Progress' /\ ParsedRead' /\ ConfigRead' /\ ResultFollows'
    BY <1>1, <1>2, <1>4, <1>7, ResultStays
  <2>2. Answered'
    BY <1>7 DEF Answered
  <2>3. OutputsFollow'
    BY <1>1, <1>4, <1>5, <1>7, NoOutputsYet
  <2> QED BY <2>1, <2>2, <2>3
<1>8. CASE inputs # Shell /\ exitCode' = WithoutSummary(exitCode) /\ pc' = "ended"
  <2>1. exitCode' # 0 /\ (exitCode' = exitCode \/ exitCode' = 5)
    BY <1>8 DEF WithoutSummary
  <2>2. GivenTyped' /\ Progress' /\ ParsedRead' /\ ConfigRead' /\ ResultFollows'
    BY <1>1, <1>2, <1>8, <2>1, ResultStays
  <2>3. Answered'
    BY <1>5, <1>8 DEF Answered
  <2>4. OutputsFollow'
    BY <1>1, <1>5, <1>8, <2>1, NoOutputsYet
  <2> QED BY <2>2, <2>3, <2>4
<1> QED BY <1>6, <1>7, <1>8 DEF Return

LEMMA AppendOutputKeeps ==
  ASSUME InvocationInv, AppendOutput
  PROVE  InvocationInv'
<1> USE DEF InvocationInv
<1> DEFINE n == Len(outputs)
           Lines == {OutputLines[i] : i \in 1..4}
<1>1. /\ pc = "append" /\ Scanned /\ inputs # Shell /\ n < 4 /\ exitCode \notin {4, 5}
      /\ outputs \in Seq(Lines) /\ \A i \in 1..n : outputs[i] = OutputLines[i]
  BY DEF AppendOutput, Progress, GivenTyped, OutputsFollow
<1>2. UNCHANGED <<Given, configFile, args, config, snapshot, output, seen>>
  BY DEF AppendOutput
<1>3. /\ inputs' = inputs /\ world' = world /\ OutputLines' = OutputLines /\ Scanned'
  BY <1>1, <1>2 DEF Given, OutputLines, Scanned
<1>4. n \in Nat
  BY <1>1, LenProperties
<1>5. CASE /\ world.sink = "none" /\ pc' = "ended" /\ UNCHANGED <<exitCode, printed, outputs>>
  <2>1. GivenTyped' /\ Progress' /\ ParsedRead' /\ ConfigRead' /\ ResultFollows'
    BY <1>1, <1>2, <1>5, ResultStays
  <2>2. Answered'
    BY <1>1, <1>3, <1>5 DEF Answered
  <2>3. n <= 4 /\ world.sink # "file"
    BY <1>1, <1>4, <1>5
  <2>4. OutputsFollow'
    BY <1>1, <1>3, <1>5, <2>3 DEF OutputsFollow
  <2> QED BY <2>1, <2>2, <2>4
<1>6. CASE /\ world.sink = "file"
           /\ outputs' = Append(outputs, OutputLines[n + 1])
           /\ pc' = IF Len(outputs') = 4 THEN "ended" ELSE "append"
           /\ UNCHANGED <<exitCode, printed>>
  <2>1. GivenTyped' /\ Progress' /\ ParsedRead' /\ ConfigRead' /\ ResultFollows'
    BY <1>1, <1>2, <1>6, ResultStays
  <2>2. Answered'
    BY <1>1, <1>3, <1>6 DEF Answered
  <2>3. n + 1 \in 1..4
    BY <1>1, <1>4
  <2>4. OutputLines[n + 1] \in Lines
    BY <2>3
  <2>5. /\ outputs' \in Seq(Lines) /\ Len(outputs') = n + 1
        /\ outputs'[n + 1] = OutputLines[n + 1]
        /\ \A i \in 1..n : outputs'[i] = outputs[i]
    <3> HIDE DEF Lines
    <3> QED BY <1>1, <1>4, <1>6, <2>4, AppendProperties
  <2>6. ASSUME NEW i \in 1..Len(outputs') PROVE outputs'[i] = OutputLines[i]
    <3>1. i \in 1..n \/ i = n + 1
      BY <1>4, <2>5
    <3> QED BY <1>1, <2>5, <3>1
  <2>7. Len(outputs') <= 4 /\ (Len(outputs') # 4 => Len(outputs') < 4)
    BY <1>4, <2>3, <2>5
  <2> HIDE DEF Lines
  <2>8. outputs' \in Seq(Lines')
    BY <1>3, <2>5 DEF Lines
  <2>9. /\ pc' = "append" => Len(outputs') < 4 /\ exitCode' \notin {4, 5}
        /\ pc' = "ended" => Len(outputs') = 4
    BY <1>1, <1>6, <2>7
  <2>10. OutputsFollow'
    BY <1>3, <2>6, <2>7, <2>8, <2>9 DEF OutputsFollow, Lines
  <2> QED BY <2>1, <2>2, <2>10
<1>7. CASE world.sink = "file" /\ ActionFails /\ UNCHANGED outputs
  <2>1. pc' = "ended" /\ exitCode' = 5 /\ outputs' = outputs
    BY <1>7 DEF ActionFails
  <2>2. GivenTyped' /\ Progress' /\ ParsedRead' /\ ConfigRead' /\ ResultFollows'
    BY <1>1, <1>2, <2>1, ResultStays
  <2>3. Answered'
    BY <1>1, <1>3, <2>1 DEF Answered
  <2>4. n <= 4
    BY <1>1, <1>4
  <2>5. OutputsFollow'
    BY <1>1, <1>3, <2>1, <2>4 DEF OutputsFollow
  <2> QED BY <2>2, <2>3, <2>5
<1> QED BY <1>5, <1>6, <1>7 DEF AppendOutput

LEMMA EditConfigKeeps ==
  ASSUME InvocationInv, NEW file \in Edits, EditConfig(file)
  PROVE  InvocationInv'
<1> USE DEF InvocationInv
<1>1. /\ pc \in {"exists", "read"} /\ ~Scanned /\ printed = <<>> /\ outputs = <<>>
      /\ exitCode = 0 /\ output = Previous /\ config = NoConfig
  BY DEF EditConfig, Progress, Before, After, ConfigRead
<1>2. /\ inputs' = inputs /\ argv' = argv /\ world' = world /\ pc' = pc
      /\ args' = args /\ config' = config /\ snapshot' = snapshot /\ exitCode' = exitCode
      /\ outputs' = outputs /\ output' = output /\ printed' = printed
      /\ configFile' = file /\ seen' = seen \cup {file}
  BY DEF EditConfig, Given
<1>3. ~Scanned'
  BY <1>1, <1>2 DEF Scanned
<1>4. GivenTyped'
  <2>1. IsConfigFile(file)
    BY ScenariosAssumption
  <2>2. configFile' \in seen' /\ \A f \in seen' : IsConfigFile(f)
    BY <1>2, <2>1 DEF GivenTyped
  <2>3. inputs # Shell => argv = BuildCliArguments(inputs)
    BY <1>1 DEF GivenTyped
  <2> QED BY <1>1, <1>2, <2>2, <2>3 DEF GivenTyped
<1>5. Progress'
  BY <1>1, <1>2, <1>3 DEF Progress, Before, Midway, After
<1>6. ParsedRead' /\ ConfigRead' /\ ResultFollows' /\ Answered' /\ OutputsFollow'
  BY <1>1, <1>2, <1>3
     DEF ParsedRead, ConfigRead, ResultFollows, Answered, OutputsFollow
<1> QED BY <1>4, <1>5, <1>6

LEMMA StutterKeeps ==
  ASSUME InvocationInv, UNCHANGED invocationVars
  PROVE  InvocationInv'
<1>1. /\ inputs' = inputs /\ argv' = argv /\ world' = world /\ configFile' = configFile
      /\ pc' = pc /\ args' = args /\ config' = config /\ snapshot' = snapshot
      /\ exitCode' = exitCode /\ output' = output /\ printed' = printed
      /\ outputs' = outputs /\ seen' = seen
  BY DEF invocationVars
<1>2. Scanned' = Scanned /\ FilesRead' = FilesRead /\ OutputLines' = OutputLines
  BY <1>1 DEF Scanned, FilesRead, OutputLines
<1>3. GivenTyped' /\ Progress' /\ ParsedRead'
  BY <1>1, <1>2 DEF InvocationInv, GivenTyped, Progress, ParsedRead
<1>4. ConfigRead'
  BY <1>1, <1>2 DEF InvocationInv, ConfigRead
<1>5. ResultFollows'
  BY <1>1, <1>2 DEF InvocationInv, ResultFollows
<1>6. Answered' /\ OutputsFollow'
  BY <1>1, <1>2 DEF InvocationInv, Answered, OutputsFollow
<1> QED BY <1>3, <1>4, <1>5, <1>6 DEF InvocationInv

\* The invariant holds in every state.
THEOREM InvocationInvariant == InvocationSpec => []InvocationInv
<1>1. InvocationInit => InvocationInv
  BY InvocationInitially
<1>2. InvocationInv /\ [InvocationNext]_invocationVars => InvocationInv'
  <2> SUFFICES ASSUME InvocationInv, [InvocationNext]_invocationVars
               PROVE  InvocationInv'
    OBVIOUS
  <2>1. CASE BuildArguments
    BY <2>1, BuildArgumentsKeeps
  <2>2. CASE Complete
    BY <2>2, CompleteKeeps
  <2>3. CASE Parse
    BY <2>3, ParseKeeps
  <2>4. CASE LookForConfig
    BY <2>4, LookForConfigKeeps
  <2>5. CASE LoadConfig
    BY <2>5, LoadConfigKeeps
  <2>6. CASE Configure
    BY <2>6, ConfigureKeeps
  <2>7. CASE Compile
    BY <2>7, CompileKeeps
  <2>8. CASE Publish
    BY <2>8, PublishKeeps
  <2>9. CASE PrintResult
    BY <2>9, PrintResultKeeps
  <2>10. CASE Return
    BY <2>10, ReturnKeeps
  <2>11. CASE AppendOutput
    BY <2>11, AppendOutputKeeps
  <2>12. ASSUME NEW file \in Edits, EditConfig(file) PROVE InvocationInv'
    BY <2>12, EditConfigKeeps
  <2>13. CASE UNCHANGED invocationVars
    BY <2>13, StutterKeeps
  <2> QED BY <2>1, <2>2, <2>3, <2>4, <2>5, <2>6, <2>7, <2>8, <2>9, <2>10, <2>11, <2>12,
             <2>13 DEF InvocationNext
<1> QED BY <1>1, <1>2, PTL DEF InvocationSpec

-----------------------------------------------------------------------------
(* The properties *)

LEMMA FilesReadType ==
  ASSUME GivenTyped
  PROVE  FilesRead \subseteq ConfigType
<1>1. NoConfig \in ConfigType
  BY DEF NoConfig, ConfigType, Policies, Formats
<1>2. ConfigValues \subseteq ConfigType
  BY DEF ConfigValues, ConfigType
<1>3. ASSUME NEW f \in seen, f.kind = "mapping" PROVE f.value \in ConfigType
  BY <1>2, <1>3 DEF GivenTyped, IsConfigFile
<1> QED BY <1>1, <1>3 DEF FilesRead

\* What the flags leave of a config file.
LEMMA Merged ==
  ASSUME NEW file \in ConfigType, config = MergeCliFlags(file, args)
  PROVE  /\ config.sources = file.sources
         /\ config.minimumServiceCount = file.minimumServiceCount
         /\ config.failOnWarnings = Or(args.failOnWarnings, file.failOnWarnings)
         /\ config.allowUnknownDependencies =
              Or(args.allowUnknownDependencies, file.allowUnknownDependencies)
         /\ config.formats = IF args.formats # {} THEN args.formats ELSE file.formats
BY DEF MergeCliFlags, ConfigType

\* The config is what the command line and one state of the config file ask for.
LEMMA ConfigAsked ==
  ASSUME InvocationInv, Scanned
  PROVE  \E file \in FilesRead :
           /\ file \in ConfigType
           /\ config.minimumServiceCount = file.minimumServiceCount
           /\ (config.failOnWarnings = "on")
                = IsAsked("--fail-on-warning", "--no-fail-on-warning", file.failOnWarnings)
           /\ (config.allowUnknownDependencies = "on")
                = IsAsked("--allow-unknown-dependencies", "--no-allow-unknown-dependencies",
                          file.allowUnknownDependencies)
           /\ NormalizeFormats(config.formats) = FormatsAsked(file)
           /\ InputSchemaOf(config, args) = SchemaAsked(file)
<1>1. ArgsSay
  BY JsonAsked
<1>2. PICK file \in FilesRead : config = MergeCliFlags(file, args)
  BY DEF InvocationInv, ConfigRead
<1>3. file \in ConfigType
  BY FilesReadType DEF InvocationInv
<1>4. /\ config.sources = file.sources
      /\ config.minimumServiceCount = file.minimumServiceCount
      /\ config.failOnWarnings = Or(args.failOnWarnings, file.failOnWarnings)
      /\ config.allowUnknownDependencies =
           Or(args.allowUnknownDependencies, file.allowUnknownDependencies)
      /\ config.formats = IF args.formats # {} THEN args.formats ELSE file.formats
  BY <1>2, <1>3, Merged
<1>5. /\ (config.failOnWarnings = "on")
           = IsAsked("--fail-on-warning", "--no-fail-on-warning", file.failOnWarnings)
      /\ (config.allowUnknownDependencies = "on")
           = IsAsked("--allow-unknown-dependencies", "--no-allow-unknown-dependencies",
                     file.allowUnknownDependencies)
  BY <1>1, <1>4 DEF ArgsSay
<1>6. NormalizeFormats(config.formats) = FormatsAsked(file)
  <2>1. args.formats = {argv[i + 1] : i \in Uses({"--format"})}
    BY <1>1 DEF ArgsSay
  <2>2. CASE Uses({"--format"}) = {}
    <3>1. args.formats = {}
      BY <2>1, <2>2
    <3> QED BY <1>4, <2>2, <3>1 DEF NormalizeFormats, FormatsAsked
  <2>3. CASE Uses({"--format"}) # {}
    <3>1. args.formats # {}
      BY <2>1, <2>3
    <3> QED BY <1>4, <2>1, <2>3, <3>1 DEF NormalizeFormats, FormatsAsked
  <2> QED BY <2>2, <2>3
<1>7. InputSchemaOf(config, args) = SchemaAsked(file)
  <2>1. IF Uses({"--input-schema"}) = {} THEN args.inputSchema = Unset
        ELSE args.inputSchema # Unset /\ args.inputSchema = LastValue("--input-schema")
    BY <1>1 DEF ArgsSay
  <2>2. CASE file.sources # Unset
    BY <1>4, <2>2 DEF InputSchemaOf, SchemaAsked
  <2>3. CASE file.sources = Unset /\ Uses({"--input-schema"}) = {}
    BY <1>4, <2>1, <2>3 DEF InputSchemaOf, SchemaAsked, Or
  <2>4. CASE file.sources = Unset /\ Uses({"--input-schema"}) # {}
    BY <1>4, <2>1, <2>4 DEF InputSchemaOf, SchemaAsked, Or
  <2> QED BY <2>2, <2>3, <2>4
<1> QED BY <1>3, <1>4, <1>5, <1>6, <1>7

\* What the compiler makes of a manifest depends on two fields of the config.
LEMMA CompiledAlike ==
  ASSUME NEW manifest, NEW scan, NEW schema, NEW f, NEW g,
         f.minimumServiceCount = g.minimumServiceCount,
         (f.allowUnknownDependencies = "on") = (g.allowUnknownDependencies = "on")
  PROVE  Compiled(manifest, scan, f, schema).codes = Compiled(manifest, scan, g, schema).codes
BY DEF Compiled

LEMMA ExitZero ==
  ASSUME NEW codes, NEW strict \in BOOLEAN
  PROVE  (ExitCodeForDiagnostics(codes, strict) = 0)
           = (codes \subseteq Warnings /\ (strict => codes = {}))
<1>1. Errors(codes) = {} <=> codes \subseteq Warnings
  BY DEF Errors
<1>2. codes \subseteq Warnings => "config.invalid" \notin codes /\ "manifest.invalid_yaml" \notin codes
  BY DEF Warnings
<1> QED BY <1>1, <1>2 DEF ExitCodeForDiagnostics

LEMMA InvImpliesZeroIsClean ==
  ASSUME InvocationInv
  PROVE  ZeroIsClean
<1> SUFFICES ASSUME Ended, Scanned, exitCode \notin {4, 5}
             PROVE  \E file \in FilesRead : (exitCode = 0) = IsClean(file)
  BY DEF ZeroIsClean
<1>1. PICK file \in FilesRead :
        /\ file \in ConfigType
        /\ config.minimumServiceCount = file.minimumServiceCount
        /\ (config.failOnWarnings = "on")
             = IsAsked("--fail-on-warning", "--no-fail-on-warning", file.failOnWarnings)
        /\ (config.allowUnknownDependencies = "on")
             = IsAsked("--allow-unknown-dependencies", "--no-allow-unknown-dependencies",
                       file.allowUnknownDependencies)
        /\ InputSchemaOf(config, args) = SchemaAsked(file)
  BY ConfigAsked
<1>2. /\ snapshot = Compiled(world.manifest, world.scan, config, InputSchemaOf(config, args))
      /\ exitCode = ExitCodeForDiagnostics(snapshot.codes, config.failOnWarnings = "on")
  BY DEF InvocationInv, ResultFollows
<1> DEFINE asked == IsAsked("--allow-unknown-dependencies", "--no-allow-unknown-dependencies",
                            file.allowUnknownDependencies)
           strict == IsAsked("--fail-on-warning", "--no-fail-on-warning", file.failOnWarnings)
           f == [file EXCEPT !.allowUnknownDependencies = IF asked THEN "on" ELSE "off"]
           codes == Compiled(world.manifest, world.scan, f, SchemaAsked(file)).codes
<1>3. /\ f.minimumServiceCount = file.minimumServiceCount
      /\ f.allowUnknownDependencies = IF asked THEN "on" ELSE "off"
  <2> HIDE DEF asked
  <2> QED BY <1>1 DEF ConfigType
<1>4. IsClean(file) = (codes \subseteq Warnings /\ (strict => codes = {}))
  BY DEF IsClean
<1> HIDE DEF f, codes, asked, strict
<1>5. (config.allowUnknownDependencies = "on") = (f.allowUnknownDependencies = "on")
  BY <1>1, <1>3 DEF asked
<1>6. snapshot.codes = codes
  BY <1>1, <1>2, <1>3, <1>5, CompiledAlike DEF codes
<1>7. strict = (config.failOnWarnings = "on") /\ strict \in BOOLEAN
  BY <1>1 DEF strict
<1>8. (exitCode = 0) = (codes \subseteq Warnings /\ (strict => codes = {}))
  BY <1>2, <1>6, <1>7, ExitZero
<1> QED BY <1>4, <1>8

\* The exit code is 0 exactly if the catalog is clean under what the flags and
\* the config file ask for (exitCodeForDiagnostics, mergeCliFlags, parseArgs).
THEOREM ExitCodeTruthful == InvocationSpec => []ZeroIsClean
<1>1. InvocationInv => ZeroIsClean
  BY InvImpliesZeroIsClean
<1> QED BY <1>1, InvocationInvariant, PTL

LEMMA InvImpliesOneAnswer ==
  ASSUME InvocationInv
  PROVE  OneAnswer
<1> SUFFICES ASSUME Ended, inputs = Shell
             PROVE  /\ Len(printed) = 1
                    /\ (printed[1].stream = "stdout")
                         = (exitCode \notin {4, 5} /\ (Scanned \/ exitCode = 0))
                    /\ ToSet(argv) \cap {"--json", "--summary-json"} # {}
                         /\ Head(argv) # "completion"
                         => printed[1].form \in {"json", "summary", "version", "help"}
  BY DEF OneAnswer
<1>1. ToSet(argv) \cap {"--json", "--summary-json"} # {} => UsesJsonOutput(argv)
  BY DEF UsesJsonOutput
<1> QED BY <1>1 DEF InvocationInv, Answered, Ended

\* A command line writes one document, to the stream and in the form that the
\* exit code and the flags promise (writeCliError, printResult).
THEOREM OneDocument == InvocationSpec => []OneAnswer
<1>1. InvocationInv => OneAnswer
  BY InvImpliesOneAnswer
<1> QED BY <1>1, InvocationInvariant, PTL

LEMMA PublishedInStep ==
  ASSUME InvocationInv, [InvocationNext]_invocationVars, output' # output
  PROVE  /\ Head(argv) = "report" /\ Scanned
         /\ \E file \in FilesRead : output' = FormatsAsked(file)
<1>1. Publish
  BY DEF InvocationNext, invocationVars, BuildArguments, Complete, Parse, LookForConfig,
         LoadConfig, Configure, Compile, PrintResult, Return, AppendOutput, EditConfig
<1>2. Scanned /\ args.command = "report"
  BY <1>1 DEF InvocationInv, Progress, Publish, Midway
<1>3. output' = NormalizeFormats(config.formats)
  BY <1>1 DEF Publish
<1>4. Head(argv) = "report"
  <2>1. args.command = IF Len(argv) > 0 /\ Head(argv) \in Commands THEN Head(argv) ELSE "scan"
    BY <1>2, JsonAsked DEF ArgsSay
  <2> QED BY <1>2, <2>1
<1>5. \E file \in FilesRead : NormalizeFormats(config.formats) = FormatsAsked(file)
  BY <1>2, ConfigAsked
<1> QED BY <1>2, <1>3, <1>4, <1>5

\* Reports are replaced by a report command only, after the scan, and by the
\* formats that are asked for (writeCatalogReports).
THEOREM ReportsAsAsked == InvocationSpec => PublishedAsAsked
<1>1. InvocationInv /\ [InvocationNext]_invocationVars =>
        [output' # output =>
           /\ Head(argv) = "report" /\ Scanned
           /\ \E file \in FilesRead : output' = FormatsAsked(file)]_invocationVars
  BY PublishedInStep
<1> QED BY <1>1, InvocationInvariant, PTL DEF InvocationSpec, PublishedAsAsked

LEMMA InvImpliesOutputsTruthful ==
  ASSUME InvocationInv
  PROVE  OutputsTruthful
<1> DEFINE asked == ToSet(inputs.format) \ {""}
<1> SUFFICES ASSUME Ended, inputs # Shell, exitCode = 0
             PROVE  /\ world.sink = "file" => Len(outputs) = 4 /\ outputs[2] = 0
                    /\ (output # Previous) = (inputs.report = "true")
                    /\ output # Previous /\ asked # {} => output = asked
  BY DEF OutputsTruthful
<1>1. Scanned /\ (world.sink = "file" => Len(outputs) = 4)
  BY DEF InvocationInv, OutputsFollow, Ended
<1>2. /\ 0 = ExitCodeForDiagnostics(snapshot.codes, config.failOnWarnings = "on")
      /\ output = IF args.command = "report" THEN NormalizeFormats(config.formats)
                  ELSE Previous
  BY <1>1 DEF InvocationInv, ResultFollows, Ended
<1>3. ASSUME Len(outputs) = 4 PROVE outputs[2] = 0
  <2>1. 2 \in 1..Len(outputs)
    BY <1>3
  <2>2. outputs[2] = OutputLines[2]
    BY <1>1, <2>1 DEF InvocationInv, OutputsFollow
  <2>3. OutputLines[2] = Cardinality(Errors(snapshot.codes))
    BY DEF OutputLines
  <2>4. Errors(snapshot.codes) = {}
    BY <1>2, ExitZero DEF Errors
  <2>5. Cardinality({}) = 0
    BY FS_EmptySet
  <2> QED BY <2>2, <2>3, <2>4, <2>5
<1>4. /\ inputs \in ActionInputs /\ argv = BuildCliArguments(inputs)
      /\ args = ParseArgs(argv) /\ ~args.usageError
  BY <1>1 DEF InvocationInv, GivenTyped, ParsedRead, Ended
<1>5. /\ (args.command = "report") = (inputs.report = "true")
      /\ inputs.report = "true" => args.formats = asked
  BY <1>4, BuiltSays
<1>6. PICK file \in ConfigType : config = MergeCliFlags(file, args)
  BY <1>1, FilesReadType DEF InvocationInv, ConfigRead
<1>7. config.formats = IF args.formats # {} THEN args.formats ELSE file.formats
  BY <1>6, Merged
<1>8. NormalizeFormats(config.formats) # Previous
  <2>1. args.formats \subseteq Formats
    BY <1>1, JsonAsked DEF ArgsSay, ArgsType
  <2>2. file.formats \subseteq Formats
    BY DEF ConfigType
  <2>3. NormalizeFormats(config.formats) \subseteq Formats
    BY <1>7, <2>1, <2>2 DEF NormalizeFormats
  <2> QED BY <2>3 DEF Previous, Formats
<1>9. (output # Previous) = (inputs.report = "true")
  <2> HIDE DEF asked
  <2> QED BY <1>2, <1>5, <1>8
<1>10. ASSUME output # Previous, asked # {} PROVE output = asked
  <2>1. args.command = "report" /\ args.formats = asked
    BY <1>5, <1>9, <1>10
  <2> HIDE DEF asked
  <2> QED BY <1>2, <1>7, <1>10, <2>1 DEF NormalizeFormats
<1> QED BY <1>1, <1>3, <1>9, <1>10

\* An Action that succeeds has set all its outputs, reports no error, and has
\* published the formats of its inputs if it was to (buildCliArguments,
\* appendGitHubOutput).
THEOREM ActionTruthful == InvocationSpec => []OutputsTruthful
<1>1. InvocationInv => OutputsTruthful
  BY InvImpliesOutputsTruthful
<1> QED BY <1>1, InvocationInvariant, PTL

\* The parts of what the adapter makes.
LEMMA MadeIs ==
  ASSUME NEW pattern, NEW length, NEW secret
  PROVE  /\ Made(pattern, length, secret).pattern = pattern
         /\ Made(pattern, length, secret).length = length
         /\ Made(pattern, length, secret).secret = secret
BY DEF Made

\* The id of a text, in parts (toStableId).
LEMMA StableIdIs ==
  ASSUME NEW t, IsText(t)
  PROVE  /\ t.slug = 0 => ToStableId(t).pattern = "id" /\ ToStableId(t).length = 7
         /\ t.slug # 0 => ToStableId(t).length = IdLength(t)
         /\ t.slug # 0 => (ToStableId(t).pattern = "id" <=> IdLength(t) # 1)
         /\ ToStableId(t).secret <=> "id" \in t.secret
<1>1. t.slug \in Nat /\ t.digit \in BOOLEAN /\ (t.slug = 0 => ~t.digit /\ "id" \notin t.secret)
  BY DEF IsText
<1>2. CASE t.slug = 0
  <2>1. ToStableId(t) = Made("id", 7, FALSE)
    BY <1>2 DEF ToStableId
  <2>2. ToStableId(t).pattern = "id" /\ ToStableId(t).length = 7
    BY <2>1 DEF Made
  <2>3. ~Made("id", 7, FALSE).secret
    BY DEF Made
  <2>4. ToStableId(t).secret <=> "id" \in t.secret
    BY <1>1, <1>2, <2>1, <2>3
  <2> QED BY <1>2, <2>2, <2>4
<1>3. CASE t.slug # 0 /\ t.digit
  <2>1. ToStableId(t) = Made("id", 3 + t.slug, "id" \in t.secret)
    BY <1>3 DEF ToStableId
  <2>2. /\ ToStableId(t).pattern = "id" /\ ToStableId(t).length = 3 + t.slug
        /\ ToStableId(t).secret = ("id" \in t.secret)
    BY <2>1, MadeIs
  <2>3. IdLength(t) = 3 + t.slug /\ IdLength(t) # 1
    BY <1>1, <1>3 DEF IdLength
  <2>4. ToStableId(t).secret <=> "id" \in t.secret
    BY <2>2
  <2> QED BY <1>3, <2>2, <2>3, <2>4
<1>4. CASE t.slug # 0 /\ ~t.digit
  <2>1. ToStableId(t)
          = Made(IF t.slug = 1 THEN "none" ELSE "id", t.slug, "id" \in t.secret)
    BY <1>4 DEF ToStableId
  <2>2. /\ ToStableId(t).pattern = IF t.slug = 1 THEN "none" ELSE "id"
        /\ ToStableId(t).length = t.slug
        /\ ToStableId(t).secret = ("id" \in t.secret)
    BY <2>1, MadeIs
  <2>3. IdLength(t) = t.slug
    BY <1>1, <1>4 DEF IdLength
  <2>4. ToStableId(t).secret <=> "id" \in t.secret
    BY <2>2
  <2> QED BY <1>4, <2>2, <2>3, <2>4
<1> QED BY <1>1, <1>2, <1>3, <1>4

\* An id that the adapter makes passes the schema unless it is too long or a
\* letter.
LEMMA StableIdOf ==
  ASSUME NEW t, IsText(t)
  PROVE  IsStableId(ToStableId(t)) <=> IdLength(t) # 1 /\ IdLength(t) <= 128
<1>1. t.slug = 0 => IdLength(t) = 0
  BY DEF IsText, IdLength
<1> QED BY <1>1, StableIdIs DEF IsStableId

\* A reference to an owner passes unless it is too long (toOwnerRef).
LEMMA OwnerRefOf ==
  ASSUME NEW t, IsText(t)
  PROVE  /\ IsReference(ToOwnerRef(t)) <=> IdLength(t) <= 121
         /\ ToOwnerRef(t).secret <=> "id" \in t.secret
<1>1. IdLength(t) \in Nat /\ (t.slug = 0 => IdLength(t) = 0)
  BY DEF IsText, IdLength
<1>2. /\ ToOwnerRef(t).pattern = "reference"
      /\ ToOwnerRef(t).length = 7 + ToStableId(t).length
      /\ ToOwnerRef(t).secret = ToStableId(t).secret
  BY MadeIs DEF ToOwnerRef
<1>3. ToOwnerRef(t).length = IF t.slug = 0 THEN 14 ELSE 7 + IdLength(t)
  BY <1>2, StableIdIs
<1>4. IsReference(ToOwnerRef(t)) <=> IdLength(t) <= 121
  BY <1>1, <1>2, <1>3 DEF IsReference
<1>5. ToOwnerRef(t).secret <=> "id" \in t.secret
  BY <1>2, StableIdIs
<1> QED BY <1>4, <1>5

\* What takes the place of a text that is absent (readString).
LEMMA OrElseIs ==
  ASSUME NEW t, NEW default, IsText(t)
  PROVE  /\ IsGiven(t) <=> t.length # 0
         /\ IsGiven(t) => OrElse(t, default) = t
         /\ ~IsGiven(t) => /\ OrElse(t, default) = default
                           /\ t.length = 0 /\ t.slug = 0 /\ t.secret = {} /\ ~t.digit
BY DEF IsText, IsGiven, OrElse

\* The schema refuses exactly the contracts with a fault, among those that the
\* adapter accepts (adaptZdpV2Manifest, ServiceManifestSchema).
LEMMA FaultyRefused ==
  ASSUME NEW zdp, IsContract(zdp), AdapterAccepts(zdp)
  PROVE  SchemaAccepts(AdaptZdpV2Manifest(zdp)) <=> ~Faulty(zdp)
<1> DEFINE value == AdaptZdpV2Manifest(zdp)
           edges == IF zdp.core.length = 0 /\ zdp.framework.length = 0 THEN {zdp.edge} ELSE {}
           targets == {d[2] : d \in zdp.dependencies}
           platform == OrElse(zdp.core, OrElse(zdp.framework, zdp.edge))
           framework == OrElse(zdp.framework, OrElse(zdp.core, zdp.edge))
           sound == zdp.id.shape = "id" /\ zdp.id.length <= 119
<1>1. /\ IsText(zdp.id) /\ IsText(zdp.owner) /\ IsText(zdp.costOwner)
      /\ IsText(zdp.displayName) /\ IsText(zdp.repo) /\ IsText(zdp.core)
      /\ IsText(zdp.framework) /\ IsText(zdp.edge) /\ IsGiven(zdp.id)
      /\ \A t \in zdp.copied : IsText(t)
      /\ \A d \in zdp.dependencies : IsText(d[2])
  BY DEF IsContract, AdapterAccepts
<1>2. /\ value.id = AsIs(zdp.id) /\ value.name = AsIs(OrElse(zdp.displayName, zdp.id))
      /\ value.lifecycle = MapLifecycle(zdp.status) /\ value.retirement = "absent"
      /\ value.ownerRef = ToOwnerRef(OrElse(zdp.owner, Unknown))
      /\ value.slug = AsIs(OrElse(zdp.repo, zdp.id))
      /\ value.platform = AsIs(OrElse(platform, Unknown))
      /\ value.framework = {AsIs(t) : t \in GivenOf({framework})}
      /\ value.deployRef = ToDeployRef(zdp.id)
      /\ value.dependencies = MapDependencies(zdp.dependencies)
      /\ value.costOwner = {ToOwnerRef(t) : t \in GivenOf({zdp.costOwner})}
      /\ value.reviewed = zdp.reviewed
      /\ value.extensions = {AsIs(t) : t \in GivenOf(zdp.copied)}
  BY DEF AdaptZdpV2Manifest
<1>3. \A t : AsIs(t).length = t.length /\ (AsIs(t).pattern = "id" <=> t.shape = "id")
  BY MadeIs DEF AsIs
<1>0. \A t : AsIs(t).secret <=> "text" \in t.secret
  <2>1. \A t : AsIs(t).secret = ("text" \in t.secret)
    BY MadeIs DEF AsIs
  <2> QED BY <2>1
<1>4. IsText(Unknown) /\ IsGiven(Unknown) /\ Unknown.length = 7 /\ IdLength(Unknown) = 7
      /\ "text" \notin Unknown.secret /\ "id" \notin Unknown.secret
  BY DEF IsText, Unknown, IsGiven, IdLength
<1> HIDE DEF value
<1>5. IsStableId(value.id) /\ IsReference(value.deployRef) <=> sound
  BY <1>1, <1>2, <1>3 DEF IsStableId, IsReference, ToDeployRef, Made, IsText
<1>6. /\ IsReference(value.ownerRef) <=> IdLength(zdp.owner) <= 121
      /\ value.ownerRef.secret <=> "id" \in zdp.owner.secret
  <2>1. CASE IsGiven(zdp.owner)
    BY <1>1, <1>2, <2>1, OrElseIs, OwnerRefOf DEF IsText
  <2>2. CASE ~IsGiven(zdp.owner)
    BY <1>1, <1>2, <1>4, <2>2, OrElseIs, OwnerRefOf DEF IdLength
  <2> QED BY <2>1, <2>2
<1>7. /\ (\A s \in value.costOwner : IsReference(s)) <=> IdLength(zdp.costOwner) <= 121
      /\ (\A s \in value.costOwner : ~s.secret) <=> "id" \notin zdp.costOwner.secret
  <2>1. CASE IsGiven(zdp.costOwner)
    <3>1. value.costOwner = {ToOwnerRef(zdp.costOwner)}
      BY <1>2, <2>1 DEF GivenOf
    <3> QED BY <1>1, <3>1, OwnerRefOf DEF IsText
  <2>2. CASE ~IsGiven(zdp.costOwner)
    <3>1. value.costOwner = {}
      BY <1>2, <2>2 DEF GivenOf
    <3> QED BY <1>1, <2>2, <3>1, OrElseIs DEF IdLength
  <2> QED BY <2>1, <2>2
<1>8. /\ sound => (Fits(value.name, 160) <=> zdp.displayName.length <= 160)
      /\ value.name.secret => "text" \in zdp.displayName.secret \/ "contract" \in zdp.id.secret
      /\ "text" \in zdp.displayName.secret => value.name.secret
  <2>1. zdp.displayName.length \in Nat /\ zdp.id.length \in Nat \ {0}
    BY <1>1 DEF IsText, IsGiven
  <2>2. CASE IsGiven(zdp.displayName)
    <3>1. value.name = AsIs(zdp.displayName) /\ zdp.displayName.length # 0
      BY <1>1, <1>2, <2>2, OrElseIs
    <3>2. value.name.length = zdp.displayName.length
      BY <1>3, <3>1
    <3>3. Fits(value.name, 160) <=> zdp.displayName.length <= 160
      BY <2>1, <3>1, <3>2 DEF Fits
    <3> QED BY <1>0, <3>1, <3>3
  <2>3. CASE ~IsGiven(zdp.displayName)
    <3>1. value.name = AsIs(zdp.id) /\ zdp.displayName.length = 0 /\ zdp.displayName.secret = {}
      BY <1>1, <1>2, <2>3, OrElseIs
    <3>2. value.name.length = zdp.id.length
      BY <1>3, <3>1
    <3>3. sound => Fits(value.name, 160)
      BY <2>1, <3>2 DEF Fits
    <3>4. zdp.displayName.length <= 160
      BY <3>1
    <3>5. "text" \in zdp.id.secret => "contract" \in zdp.id.secret
      BY <1>1 DEF IsText
    <3> QED BY <1>0, <3>1, <3>3, <3>4, <3>5
  <2> QED BY <2>2, <2>3
<1>9. /\ sound => (Fits(value.slug, 200) <=> zdp.repo.length <= 200)
      /\ value.slug.secret => "text" \in zdp.repo.secret \/ "contract" \in zdp.id.secret
      /\ "text" \in zdp.repo.secret => value.slug.secret
  <2>1. zdp.repo.length \in Nat /\ zdp.id.length \in Nat \ {0}
    BY <1>1 DEF IsText, IsGiven
  <2>2. CASE IsGiven(zdp.repo)
    <3>1. value.slug = AsIs(zdp.repo) /\ zdp.repo.length # 0
      BY <1>1, <1>2, <2>2, OrElseIs
    <3>2. value.slug.length = zdp.repo.length
      BY <1>3, <3>1
    <3>3. Fits(value.slug, 200) <=> zdp.repo.length <= 200
      BY <2>1, <3>1, <3>2 DEF Fits
    <3> QED BY <1>0, <3>1, <3>3
  <2>3. CASE ~IsGiven(zdp.repo)
    <3>1. value.slug = AsIs(zdp.id) /\ zdp.repo.length = 0 /\ zdp.repo.secret = {}
      BY <1>1, <1>2, <2>3, OrElseIs
    <3>2. value.slug.length = zdp.id.length
      BY <1>3, <3>1
    <3>3. sound => Fits(value.slug, 200)
      BY <2>1, <3>2 DEF Fits
    <3>4. zdp.repo.length <= 200
      BY <3>1
    <3>5. "text" \in zdp.id.secret => "contract" \in zdp.id.secret
      BY <1>1 DEF IsText
    <3> QED BY <1>0, <3>1, <3>3, <3>4, <3>5
  <2> QED BY <2>2, <2>3
<1>10. /\ (\A s \in {value.platform} \cup value.framework : Fits(s, 80))
            <=> (\A t \in {zdp.core, zdp.framework} \cup edges : t.length <= 80)
       /\ (\A s \in {value.platform} \cup value.framework : ~s.secret)
            <=> (\A t \in {zdp.core, zdp.framework} \cup edges : "text" \notin t.secret)
  <2>1. CASE IsGiven(zdp.core) \/ IsGiven(zdp.framework)
    <3>1. /\ platform = IF IsGiven(zdp.core) THEN zdp.core ELSE zdp.framework
          /\ framework = IF IsGiven(zdp.framework) THEN zdp.framework ELSE zdp.core
          /\ edges = {}
      BY <1>1, <2>1, OrElseIs
    <3>2. IsGiven(platform) /\ IsGiven(framework)
      BY <2>1, <3>1
    <3>3. value.platform = AsIs(platform) /\ value.framework = {AsIs(framework)}
      BY <1>2, <3>2 DEF OrElse, GivenOf
    <3> HIDE DEF platform, framework, edges
    <3>4. /\ ~IsGiven(zdp.core) => zdp.core.length = 0 /\ zdp.core.secret = {}
          /\ ~IsGiven(zdp.framework) => zdp.framework.length = 0 /\ zdp.framework.secret = {}
      BY <1>1, OrElseIs
    <3>5. (\A s \in {value.platform} \cup value.framework : Fits(s, 80))
            <=> zdp.core.length <= 80 /\ zdp.framework.length <= 80
      <4>1. zdp.core.length \in Nat /\ zdp.framework.length \in Nat
        BY <1>1 DEF IsText
      <4>2. platform.length \in 1..80 /\ framework.length \in 1..80
              <=> zdp.core.length <= 80 /\ zdp.framework.length <= 80
        BY <2>1, <3>1, <3>4, <4>1 DEF IsGiven
      <4> QED BY <1>3, <3>3, <4>2 DEF Fits
    <3>6. (\A s \in {value.platform} \cup value.framework : ~s.secret)
            <=> "text" \notin zdp.core.secret /\ "text" \notin zdp.framework.secret
      <4>1. "text" \in platform.secret \/ "text" \in framework.secret
              <=> "text" \in zdp.core.secret \/ "text" \in zdp.framework.secret
        BY <2>1, <3>1, <3>4
      <4> QED BY <1>0, <3>3, <4>1
    <3> QED BY <3>1, <3>5, <3>6
  <2>2. CASE ~IsGiven(zdp.core) /\ ~IsGiven(zdp.framework)
    <3>1. /\ platform = zdp.edge /\ framework = zdp.edge /\ edges = {zdp.edge}
          /\ zdp.core.length = 0 /\ zdp.core.secret = {}
          /\ zdp.framework.length = 0 /\ zdp.framework.secret = {}
      BY <1>1, <2>2, OrElseIs
    <3> HIDE DEF platform, framework, edges
    <3>2. CASE IsGiven(zdp.edge)
      <4>1. value.platform = AsIs(zdp.edge) /\ value.framework = {AsIs(zdp.edge)}
        BY <1>2, <3>1, <3>2 DEF OrElse, GivenOf
      <4>2. zdp.edge.length \in Nat \ {0}
        BY <1>1, <3>2 DEF IsText, IsGiven
      <4>3. (\A s \in {value.platform} \cup value.framework : Fits(s, 80))
              <=> zdp.edge.length <= 80
        BY <1>3, <4>1, <4>2 DEF Fits
      <4>4. (\A s \in {value.platform} \cup value.framework : ~s.secret)
              <=> "text" \notin zdp.edge.secret
        BY <1>0, <4>1
      <4>5. zdp.core.length <= 80 /\ zdp.framework.length <= 80
        BY <3>1
      <4> QED BY <3>1, <4>3, <4>4, <4>5
    <3>3. CASE ~IsGiven(zdp.edge)
      <4>1. value.platform = AsIs(Unknown) /\ value.framework = {}
        BY <1>2, <3>1, <3>3 DEF OrElse, GivenOf
      <4>2. zdp.edge.length = 0 /\ zdp.edge.secret = {}
        BY <1>1, <3>3, OrElseIs
      <4>3. Fits(value.platform, 80) /\ ~value.platform.secret
        BY <1>0, <1>3, <1>4, <4>1 DEF Fits
      <4>4. zdp.core.length <= 80 /\ zdp.framework.length <= 80 /\ zdp.edge.length <= 80
        BY <3>1, <4>2
      <4> QED BY <3>1, <4>1, <4>2, <4>3, <4>4
    <3> QED BY <3>2, <3>3
  <2> QED BY <2>1, <2>2
<1>11. \A d \in value.dependencies :
         \E e \in zdp.dependencies : IsGiven(e[2]) /\ d.target = ToStableId(e[2])
  BY <1>2 DEF MapDependencies
<1>12. \A e \in zdp.dependencies :
         IsGiven(e[2]) => \E d \in value.dependencies : d.target = ToStableId(e[2])
  <2> SUFFICES ASSUME NEW e \in zdp.dependencies, IsGiven(e[2])
               PROVE  \E d \in value.dependencies : d.target = ToStableId(e[2])
    OBVIOUS
  <2>1. [type |-> DependencyTypes[e[1]], target |-> ToStableId(e[2])] \in value.dependencies
    BY <1>2 DEF MapDependencies
  <2> QED BY <2>1
<1>13. (\A d \in value.dependencies : IsStableId(d.target))
         <=> ~(\E t \in targets : IdLength(t) > 128 \/ IdLength(t) = 1)
  <2>1. \A e \in zdp.dependencies :
          /\ IdLength(e[2]) \in Nat
          /\ ~IsGiven(e[2]) => IdLength(e[2]) = 0
          /\ IsStableId(ToStableId(e[2])) <=> ~(IdLength(e[2]) > 128 \/ IdLength(e[2]) = 1)
    <3> SUFFICES ASSUME NEW e \in zdp.dependencies
                 PROVE  /\ IdLength(e[2]) \in Nat
                        /\ ~IsGiven(e[2]) => IdLength(e[2]) = 0
                        /\ IsStableId(ToStableId(e[2]))
                             <=> ~(IdLength(e[2]) > 128 \/ IdLength(e[2]) = 1)
      OBVIOUS
    <3>1. IsText(e[2])
      BY <1>1
    <3>2. IdLength(e[2]) \in Nat
      BY <3>1 DEF IdLength, IsText
    <3> QED BY <3>1, <3>2, OrElseIs, StableIdOf DEF IdLength
  <2> QED BY <1>11, <1>12, <2>1
<1>14. (\A d \in value.dependencies : ~d.target.secret) <=> \A t \in targets : "id" \notin t.secret
  <2>1. \A e \in zdp.dependencies :
          /\ "id" \in e[2].secret => IsGiven(e[2])
          /\ ToStableId(e[2]).secret <=> "id" \in e[2].secret
    BY <1>1, OrElseIs, StableIdIs
  <2> QED BY <1>11, <1>12, <2>1
<1>15. value.reviewed \in {"fresh", "old", "future"} <=> zdp.reviewed # "nodate"
  BY <1>2 DEF IsContract, AdapterAccepts
<1>16. RetirementAgrees(value) <=> zdp.status # "sunset"
  BY <1>2 DEF RetirementAgrees, MapLifecycle
<1>17. (\A s \in value.extensions : ~s.secret) <=> \A t \in zdp.copied : "text" \notin t.secret
  <2>1. \A t \in zdp.copied : "text" \in t.secret => IsGiven(t)
    BY <1>1, OrElseIs
  <2> QED BY <1>0, <1>2, <2>1 DEF GivenOf
<1>18. /\ value.id.secret => "contract" \in zdp.id.secret
       /\ value.deployRef.secret <=> "contract" \in zdp.id.secret
  <2>1. "text" \in zdp.id.secret => "contract" \in zdp.id.secret
    BY <1>1 DEF IsText
  <2>2. value.deployRef.secret = ("contract" \in zdp.id.secret)
    BY <1>2, MadeIs DEF ToDeployRef
  <2> QED BY <1>0, <1>2, <2>1, <2>2
<1>19. (\A s \in Strings(value) : ~s.secret)
         <=> /\ ~value.id.secret /\ ~value.name.secret /\ ~value.ownerRef.secret
             /\ ~value.slug.secret /\ ~value.deployRef.secret
             /\ \A s \in {value.platform} \cup value.framework : ~s.secret
             /\ \A s \in value.costOwner : ~s.secret
             /\ \A s \in value.extensions : ~s.secret
             /\ \A d \in value.dependencies : ~d.target.secret
  BY DEF Strings
<1>20. (\A s \in {value.ownerRef, value.deployRef} \cup value.costOwner : IsReference(s))
         <=> /\ IsReference(value.ownerRef) /\ IsReference(value.deployRef)
             /\ \A s \in value.costOwner : IsReference(s)
  OBVIOUS
<1> DEFINE
     secrets == /\ "contract" \notin zdp.id.secret
                /\ "text" \notin zdp.displayName.secret /\ "text" \notin zdp.repo.secret
                /\ "id" \notin zdp.owner.secret /\ "id" \notin zdp.costOwner.secret
                /\ \A t \in {zdp.core, zdp.framework} \cup edges : "text" \notin t.secret
                /\ \A t \in zdp.copied : "text" \notin t.secret
                /\ \A t \in targets : "id" \notin t.secret
     lengths == /\ sound /\ IdLength(zdp.owner) <= 121 /\ IdLength(zdp.costOwner) <= 121
                /\ zdp.displayName.length <= 160 /\ zdp.repo.length <= 200
                /\ \A t \in {zdp.core, zdp.framework} \cup edges : t.length <= 80
                /\ ~(\E t \in targets : IdLength(t) > 128 \/ IdLength(t) = 1)
<1>21. (\A s \in Strings(value) : ~s.secret) <=> secrets
  <2> HIDE DEF edges, targets, platform, framework
  <2> QED BY <1>6, <1>7, <1>8, <1>9, <1>10, <1>14, <1>17, <1>18, <1>19
<1>22. ~Faulty(zdp) <=> lengths /\ zdp.reviewed # "nodate" /\ zdp.status # "sunset" /\ secrets
  <2>1. \A t \in {zdp.owner, zdp.costOwner} : IdLength(t) \in Nat
    BY <1>1 DEF IdLength, IsText
  <2>2. \A t \in {zdp.id, zdp.displayName, zdp.repo, zdp.core, zdp.framework} \cup edges :
          t.length \in Nat
    BY <1>1 DEF IsText
  <2>3. Faulty(zdp) <=>
          \/ zdp.id.shape # "id" \/ zdp.id.length > 119
          \/ \E t \in {zdp.owner, zdp.costOwner} : IdLength(t) > 121
          \/ zdp.displayName.length > 160 \/ zdp.repo.length > 200
          \/ \E t \in {zdp.core, zdp.framework} \cup edges : t.length > 80
          \/ \E t \in targets : IdLength(t) > 128 \/ IdLength(t) = 1
          \/ zdp.reviewed = "nodate" \/ zdp.status = "sunset"
          \/ "contract" \in zdp.id.secret
          \/ \E t \in {zdp.displayName, zdp.repo, zdp.core, zdp.framework} \cup edges
                       \cup zdp.copied : "text" \in t.secret
          \/ \E t \in {zdp.owner, zdp.costOwner} \cup targets : "id" \in t.secret
    BY DEF Faulty
  <2> HIDE DEF edges, targets
  <2> QED BY <2>1, <2>2, <2>3
<1>23. SchemaAccepts(value) <=> lengths /\ zdp.reviewed # "nodate" /\ zdp.status # "sunset" /\ secrets
  <2> HIDE DEF edges, targets, platform, framework, secrets
  <2> QED BY <1>5, <1>6, <1>7, <1>8, <1>9, <1>10, <1>13, <1>15, <1>16, <1>20, <1>21
          DEF SchemaAccepts
<1> HIDE DEF secrets, lengths
<1> QED BY <1>22, <1>23 DEF value

\* Whether a manifest is reported as invalid (validateParsedManifest).
LEMMA RefusedContract ==
  ASSUME NEW manifest, IsManifest(manifest), manifest.kind = "zdp", NEW allow
  PROVE  "manifest.invalid" \in ManifestCodes(manifest, "zdp-v2", allow)
           <=> AdapterAccepts(manifest.value) /\ Faulty(manifest.value)
<1> DEFINE zdp == manifest.value
<1>1. IsContract(zdp)
  BY DEF IsManifest
<1>2. "manifest.invalid" \in ManifestCodes(manifest, "zdp-v2", allow)
        <=> ~AdapterError(manifest, "zdp-v2") /\ ~Normalizes(manifest, "zdp-v2")
  BY DEF ManifestCodes
<1>3. AdapterError(manifest, "zdp-v2") <=> ~AdapterAccepts(zdp)
  BY DEF AdapterError
<1>4. AdapterAccepts(zdp) =>
        (Normalizes(manifest, "zdp-v2") <=> SchemaAccepts(AdaptZdpV2Manifest(zdp)))
  BY <1>3 DEF Normalizes, Adapted
<1> QED BY <1>1, <1>2, <1>3, <1>4, FaultyRefused

LEMMA InvImpliesRefusesFaulty ==
  ASSUME InvocationInv
  PROVE  RefusesFaulty
<1> DEFINE zdp == world.manifest.value
<1> SUFFICES ASSUME Scanned, world.manifest.kind = "zdp",
                    \A file \in FilesRead : SchemaAsked(file) = "zdp-v2"
             PROVE  "manifest.invalid" \in snapshot.codes <=> AdapterAccepts(zdp) /\ Faulty(zdp)
  BY DEF RefusesFaulty
<1>1. IsManifest(world.manifest)
  BY DEF InvocationInv, GivenTyped, IsWorld
<1>2. snapshot = Compiled(world.manifest, world.scan, config, "zdp-v2")
  <2>1. InputSchemaOf(config, args) = "zdp-v2"
    BY ConfigAsked
  <2> QED BY <2>1 DEF InvocationInv, ResultFollows
<1>3. "manifest.invalid" \in snapshot.codes <=>
        "manifest.invalid" \in
          ManifestCodes(world.manifest, "zdp-v2", config.allowUnknownDependencies = "on")
  BY <1>2 DEF Compiled
<1> QED BY <1>1, <1>3, RefusedContract

\* Of the contracts that the adapter accepts, whatever their texts, the schema
\* refuses those with one of the listed faults and no others
\* (adaptZdpV2Manifest, ServiceManifestSchema).
THEOREM RefusalsExact == InvocationSpec => []RefusesFaulty
<1>1. InvocationInv => RefusesFaulty
  BY InvImpliesRefusesFaulty
<1> QED BY <1>1, InvocationInvariant, PTL
=============================================================================
