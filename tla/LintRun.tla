------------------------------- MODULE LintRun -------------------------------
(***************************************************************************)
(* Running the rules: the registration scan, the configuration and legacy  *)
(* rules, the settings, a run with its scope, and the three audits.        *)
(*                                                                         *)
(* A finding is [rule, path, own]: own is the severity the finding itself  *)
(* was given, "" when it keeps its rule's.                                 *)
(***************************************************************************)
EXTENDS LintRules

(* ------------------------------- registration ------------------------------ *)
constructorsReturning(ws, path, suffix) ==
  {fn.name : fn \in {fn \in funcsIn(ws, path) :
     /\ ~isMethod(fn) /\ Prefix(fn.name, "New") /\ Len(fn.results) > 0 /\ Suffix(fn.results[1].type, suffix)}}

(* Every entry of every fx.Provide of every bootstrap file; an annotated entry of a *)
(* constructor hides a plain one.                                                   *)
collectFxProvides(ws) ==
  LET provides(path) == UNION {ToSet(ws.disk[path].fx[v]) : v \in DOMAIN ws.disk[path].fx}
  IN  UNION {UNION provides(path) : path \in FilesIn(ws, {"bootstrap"})}

ScanFX(ws) ==
  LET entries == collectFxProvides(ws)
      Ann(name) == {e \in entries : e.ctor = name /\ e.annotated}
      State(name) == IF Ann(name) # {} THEN "annotated"
                     ELSE IF \E e \in entries : e.ctor = name THEN "plain" ELSE "unregistered"
      Ctors(layer, kind, suffix) ==
        UNION {{[name |-> name, kind |-> kind, file |-> path, state |-> State(name),
                 as |-> \E e \in Ann(name) : e.as # "", tags |-> \E e \in Ann(name) : e.tags # ""] :
                  name \in constructorsReturning(ws, path, suffix)} : path \in FilesIn(ws, {layer})}
  IN  [present |-> FilesIn(ws, {"bootstrap"}) # {},
       ctors |-> Ctors("handler", "handler", "Handler") \cup Ctors("repo", "repo", "Repository")]

OK(c) == IF c.kind = "repo" THEN c.state # "unregistered" ELSE c.state = "annotated" /\ c.as /\ c.tags
Names(scan, kind) == {c.name : c \in {c \in scan.ctors : c.kind = kind}}
Unwired(scan) == {c.name : c \in {c \in scan.ctors : c.state = "unregistered"}}
Misregistered(scan) == {c.name : c \in {c \in scan.ctors : c.kind = "handler" /\ c.state # "unregistered" /\ ~OK(c)}}

(* A missing registration is reported at the constructor, an incomplete one at the *)
(* registration.                                                                   *)
FXRegistration(ws) ==
  LET scan == ScanFX(ws)
      Place(c) == IF c.state = "unregistered" THEN c.file ELSE Bootstrapper
  IN  IF ~scan.present THEN {} ELSE {Place(c) : c \in {c \in scan.ctors : ~OK(c)}}

(* ------------------------------- configuration ----------------------------- *)
isCredentialKey(key) == key \in {"db.password"}
configGetters == {"GetString", "GetInt", "GetBool", "GetDuration", "Get"}
swaggerModeKey == "swagger.generation.mode"

Credentials(ws) == {path \in Configs(ws) : \E key \in ConfigKeys : isCredentialKey(key) /\ HasRealValue(ws.disk[path], key)}
Touched(scope, path) == path \in scope
(* A credential blocks only in a file the caller says it changed. *)
SecretsInConfig(ws, scope) ==
  {[rule |-> "secrets-in-config", path |-> path, own |-> IF Touched(scope, path) THEN "" ELSE "warning"] :
     path \in Credentials(ws)}

(* Any call of a getter with a literal is taken as a read of the configuration. *)
ConfigKeyExists(ws) ==
  LET reads(st) == methodNamed(st.call, configGetters) /\ Len(st.call) > 1 /\ Len(st.args) > 0 /\ isLit(st.args[1])
      lacking(key) == {path \in Configs(ws) : ws.disk[path].parsed /\ ~HasKey(ws.disk[path], key)}
      Bad(fn) == \E st \in Statements(fn) : reads(st) /\ lacking(st.args[1][1]) # {}
  IN  IF Configs(ws) = {} THEN {} ELSE Reporting(ws, Except(ws, {"test"}), Bad)

ConfigBase == <<ConfigDir, "config", ".yaml">>
SwaggerVisible(ws) ==
  LET base == BaseConfig(ws)
      Blind(path) == ~HasRealValue(ws.disk[path], swaggerModeKey)
      At(path, severity) == [rule |-> "swagger-visible", path |-> path, own |-> severity]
  IN  IF Configs(ws) = {} THEN {}
      ELSE IF base = {} THEN {At(ConfigBase, "")}
      ELSE {At(path, "") : path \in {path \in base : Blind(path)}}
           \cup {At(ConfigBase, "warning") :
                   path \in {path \in Configs(ws) \ base : ws.disk[path].parsed /\ Blind(path)}}

(* ----------------------- traces of the older template ---------------------- *)
SupersededBy(path) == IF path = Legacy THEN Server ELSE ""
LegacyLibGeneration(ws) == {file \in ws.files : \E path \in ImportsOf(ws, file) : SupersededBy(path) # ""}

LegacyRoutesFile(ws) ==
  LET invokes(st) == st.call = <<"fx", "Invoke">> /\ \E arg \in ToSet(st.args) : Prefix(arg, "routes")
      Bad(fn) == \E st \in Statements(fn) : invokes(st)
  IN  FilesIn(ws, {"routes"}) \cup Reporting(ws, ws.files \cap {MainGo}, Bad)

LegacyGinHandler(ws) == {path \in FilesIn(ws, {"handler", "repo", "response", "domain"}) : ImportsAny(ws, path, {Gin})}

LegacyManualValidation(ws) ==
  LET ginTag(f) == "binding" \in f.tags /\ "validate" \notin f.tags
      Own(fn) == fn.name = <<"New", "Validator", "Service">>
  IN  {path \in ws.files : \/ ImportsAny(ws, path, {"github.com/go-playground/validator"})
                           \/ \E s \in structsIn(ws, path) : \E f \in s.fields : ginTag(f)}
      \cup Reporting(ws, ws.files, Own)

LegacySwaggo(ws) ==
  {path \in ws.files : ImportsAny(ws, path, {"github.com/swaggo/gin-swagger"})}
  \cup (DOMAIN ws.disk \cap {<<"docs", "docs", ".go">>})

LegacyResponseHelper(ws) ==
  LET Bad(fn) == anyCall(fn, {<<"handleSuccess">>, <<"handleError">>, <<"handleAbort">>})
  IN  Reporting(ws, Handlers(ws), Bad)

isTestFunc(name) == Prefix(name, "Test") \/ Prefix(name, "Benchmark")
hasHTTPParam(fn) == params(fn) \cap {"*gin.Context", "*serverRoute.Context", "http.ResponseWriter"} # {}
LegacyHandmadeHealth(ws) ==
  LET health(name) == \/ Suffix(name, "Healthz")
                      \/ \E i \in 1 .. Len(name) - 1 : name[i] \in {"Health", "health"} /\ name[i + 1] = "Check"
      Bad(fn) == ~isTestFunc(fn.name) /\ health(fn.name) /\ hasHTTPParam(fn)
  IN  Reporting(ws, Except(ws, {"test"}), Bad)

LegacyGoWork(ws) == DOMAIN ws.disk \cap {<<".", "go", ".work">>, <<".", "go.work", ".sum">>}
LegacyCommittedArtifacts(ws) == DOMAIN ws.disk \cap {<<".", "gin", ".log">>, <<".", "cover", ".html">>}

(* -------------------------------- the settings ----------------------------- *)
DefaultSensitiveFields == {<<"password">>, <<"token">>, <<"aadhaar">>, <<"pan">>, <<"account", "no">>, <<"otp">>}
DefaultConfig ==
  [allowed |-> {Squirrel, Pgx, Fx, Legacy, Server, "n-api-bootstrapper", "api-config", "n-api-db", "n-api-log", "n-api-server/route"},
   allowedInTests |-> {}, maxLines |-> 600, notice |-> 2, recommend |-> 3,
   sensitive |-> DefaultSensitiveFields, required |-> {<<"ID">>, <<"CreatedAt">>, <<"UpdatedAt">>},
   disabled |-> {}, severity |-> <<>>]

(* The repository's own settings replace the defaults one by one; it may set any    *)
(* of them, or none.                                                                *)
LoadConfig(over) == over @@ DefaultConfig
Disabled(cfg, id) == id \in cfg.disabled
HasSeverityOverride(cfg, id) == id \in DOMAIN cfg.severity
SeverityFor(cfg, rule) == IF HasSeverityOverride(cfg, rule.id) THEN cfg.severity[rule.id] ELSE rule.severity

(* ----------------------------------- a run --------------------------------- *)
Default ==
  LET Of(ids, severity, legacy) == {[id |-> id, severity |-> severity, legacy |-> legacy] : id \in ids}
  IN  Of({"layer-sql-boundary", "layer-dto-boundary", "handler-signature", "handler-base", "routes-in-handler",
          "repo-contract", "repo-rowmapper", "repo-norows", "repo-batch-in-loop", "repo-raw-rows",
          "repo-select-star", "no-stored-procedure", "client-singleton", "ctx-propagation", "request-dto",
          "response-dto", "domain-tags", "fx-registration", "error-handling", "dep-allowlist",
          "validator-generated", "secrets-in-config", "config-key-exists", "swagger-visible", "no-fmt-print"},
         "error", FALSE)
      \cup Of({"repo-multi-roundtrip", "repo-transaction-scope", "repo-sql-now",
               "external-call-timeout", "repo-no-logging", "no-sensitive-logging", "log-level-hygiene",
               "request-validate-depth", "response-status", "file-size", "config-no-hardcode", "go-idiom",
               "ctx-naming", "prefer-switch", "magic-literal", "handler-single-repo-call"},
              "warning", FALSE)
      \cup Of({"legacy-lib-generation", "legacy-routes-file", "legacy-gin-handler", "legacy-manual-validation",
               "legacy-response-helper"}, "error", TRUE)
      \cup Of({"legacy-swaggo", "legacy-handmade-health", "legacy-go-work", "legacy-committed-artifacts"},
              "warning", TRUE)

Plain(ws, cfg, id) ==
  CASE id = "layer-sql-boundary" -> LayerSQLBoundary(ws)
    [] id = "layer-dto-boundary" -> LayerDTOBoundary(ws)
    [] id = "handler-signature" -> HandlerSignature(ws)
    [] id = "handler-base" -> HandlerBase(ws)
    [] id = "routes-in-handler" -> RoutesInHandler(ws)
    [] id = "repo-contract" -> RepoContract(ws)
    [] id = "repo-rowmapper" -> RepoRowMapper(ws)
    [] id = "repo-norows" -> RepoNoRows(ws)
    [] id = "repo-batch-in-loop" -> RepoBatchInLoop(ws)
    [] id = "repo-raw-rows" -> RepoRawRows(ws)
    [] id = "repo-select-star" -> RepoSelectStar(ws)
    [] id = "no-stored-procedure" -> NoStoredProcedure(ws)
    [] id = "repo-multi-roundtrip" -> RepoMultiRoundTrip(ws, cfg)
    [] id = "repo-transaction-scope" -> RepoTransactionScope(ws)
    [] id = "repo-sql-now" -> RepoSQLNow(ws)
    [] id = "client-singleton" -> ClientSingleton(ws)
    [] id = "ctx-propagation" -> CtxPropagation(ws)
    [] id = "external-call-timeout" -> ExternalCallTimeout(ws)
    [] id = "repo-no-logging" -> RepoNoLogging(ws)
    [] id = "no-sensitive-logging" -> NoSensitiveLogging(ws, cfg)
    [] id = "log-level-hygiene" -> LogLevelHygiene(ws)
    [] id = "request-dto" -> RequestDTO(ws)
    [] id = "request-validate-depth" -> RequestValidateDepth(ws)
    [] id = "response-dto" -> ResponseDTO(ws)
    [] id = "response-status" -> ResponseStatus(ws)
    [] id = "domain-tags" -> DomainTags(ws, cfg)
    [] id = "fx-registration" -> FXRegistration(ws)
    [] id = "error-handling" -> ErrorHandling(ws)
    [] id = "dep-allowlist" -> DepAllowlist(ws, cfg)
    [] id = "file-size" -> FileSize(ws, cfg)
    [] id = "validator-generated" -> ValidatorStale(ws)
    [] id = "config-key-exists" -> ConfigKeyExists(ws)
    [] id = "config-no-hardcode" -> ConfigNoHardcode(ws)
    [] id = "go-idiom" -> GoIdiom(ws)
    [] id = "no-fmt-print" -> NoFmtPrint(ws)
    [] id = "ctx-naming" -> CtxNaming(ws)
    [] id = "prefer-switch" -> PreferSwitch(ws)
    [] id = "magic-literal" -> MagicLiteral(ws)
    [] id = "handler-single-repo-call" -> HandlerSingleRepoCall(ws)
    [] id = "legacy-lib-generation" -> LegacyLibGeneration(ws)
    [] id = "legacy-routes-file" -> LegacyRoutesFile(ws)
    [] id = "legacy-gin-handler" -> LegacyGinHandler(ws)
    [] id = "legacy-manual-validation" -> LegacyManualValidation(ws)
    [] id = "legacy-swaggo" -> LegacySwaggo(ws)
    [] id = "legacy-response-helper" -> LegacyResponseHelper(ws)
    [] id = "legacy-handmade-health" -> LegacyHandmadeHealth(ws)
    [] id = "legacy-go-work" -> LegacyGoWork(ws)
    [] id = "legacy-committed-artifacts" -> LegacyCommittedArtifacts(ws)
    [] OTHER -> {}

Check(ws, cfg, scope, id) ==
  {[rule |-> id, path |-> path, own |-> ""] : path \in Plain(ws, cfg, id)}
  \cup (CASE id = "secrets-in-config" -> SecretsInConfig(ws, scope)
          [] id = "swagger-visible" -> SwaggerVisible(ws)
          [] id = "go-idiom" -> {[rule |-> id, path |-> path, own |-> "error"] : path \in checkPackageConsistency(ws)}
          [] OTHER -> {})

(* Rules asked for by name run, whichever set they are of and though the settings   *)
(* disable them.                                                                    *)
selectRules(cfg, legacy, only) ==
  IF only # {} THEN {rule \in Default : rule.id \in only}
  ELSE {rule \in Default : rule.legacy = legacy /\ ~Disabled(cfg, rule.id)}
Report(cfg, rule, finding) ==
  IF finding.own # "" /\ ~HasSeverityOverride(cfg, rule.id) THEN finding.own ELSE SeverityFor(cfg, rule)

(* What a run answers: the findings that block, those outside the scope, and the   *)
(* warnings, which are the same whatever the scope.                                *)
Split(found, errors, scope) ==
  LET beyond == {v \in errors : scope # {} /\ v.path \notin scope}
  IN  [violations |-> errors \ beyond, outOfScope |-> beyond, warnings |-> found \ errors, ok |-> errors \subseteq beyond]
Sorted(found, scope) == Split(found, {v \in found : v.severity = "error"}, scope)
Run(ws, cfg, scope, legacy, only) ==
  Sorted(UNION {{[rule |-> rule.id, path |-> f.path, severity |-> Report(cfg, rule, f)] :
                   f \in Check(ws, cfg, scope, rule.id)} : rule \in selectRules(cfg, legacy, only)}, scope)

(* Generated files and tests are read for the one rule that looks at each. *)
needsGenerated(only) == only = {} \/ "validator-generated" \in only
needsTests(only) == only = {} \/ "dep-allowlist" \in only
Analyze(disk, over, scope, legacy, only) ==
  Run(Load(disk, needsGenerated(only), needsTests(only)), LoadConfig(over), scope, legacy, only)

(* The tool counts what is outside the scope, the command answers by its exit code. *)
Answered(r) == [ok |-> r.ok, violations |-> r.violations, warnings |-> r.warnings, beyond |-> Cardinality(r.outOfScope)]
lintHandler(disk, over, scope, legacy, only) == Answered(Analyze(disk, over, scope, legacy, only))
cmdLint(disk, over, scope, legacy, only) == IF Analyze(disk, over, scope, legacy, only).ok THEN "ok" ELSE "findings"

(* ---------------------------------- audits --------------------------------- *)
roundTripVerdict(r) ==
  IF r.inLoop /\ ~r.batched THEN "N+1"
  ELSE IF r.transaction /\ r.statements <= 1 THEN "drop the transaction"
  ELSE IF r.batched THEN "ok"
  ELSE IF r.transaction THEN "transaction without a batch"
  ELSE IF r.statements >= 3 THEN "batch these" ELSE IF r.statements = 2 THEN "a batch may be possible" ELSE "ok"

RoundTripAudit(ws) ==
  LET Row(path, fn) == [path |-> path, method |-> fn.name, statements |-> countCalls(fn, isDBExec),
                        inLoop |-> callsInLoops(fn, isDBExec) # {}, batched |-> usesBatch(fn),
                        transaction |-> usesTransaction(fn)]
      rows == UNION {{Row(path, fn) : fn \in funcsIn(ws, path)} : path \in Repos(ws)}
  IN  {[row |-> r, verdict |-> roundTripVerdict(r), score |-> IF r.inLoop THEN r.statements * 10 ELSE r.statements] :
         r \in {r \in rows : r.statements > 0}}

(* An empty tag is as good as none here, where the rule asks for its presence. *)
missingValidation(f) ==
  IF validateRules(f) = {} THEN "no validate tag"
  ELSE IF ~Unbounded(f) THEN ""
  ELSE IF f.type = <<"string">> THEN "max/len" ELSE IF f.type = <<"[]">> THEN "max" ELSE "min/max"
ValidationAudit(ws) ==
  UNION {UNION {{[path |-> path, struct |-> s.name, field |-> f.name, missing |-> missingValidation(f)] :
                   f \in ownFields(s)} : s \in {s \in structsIn(ws, path) : isRequestStruct(s.name)}}
         : path \in Handlers(ws)}

temporalKind(name) ==
  LET about(words) == ToSet(name) \cap words # {}
  IN  IF methodNamed(name, {"ToSql", "ToErrorResponse", "String", "Error", "Bytes"}) THEN ""
      ELSE IF about({"minio", "PutObject"}) THEN "file storage"
      ELSE IF about({"SendSMS", "Notify"}) THEN "notification"
      ELSE IF about({"GenerateReport"}) THEN "report generation"
      ELSE IF about({"kafka", "Publish"}) THEN "event publication" ELSE ""
TemporalAudit(ws) ==
  LET Kinds(st) == ({temporalKind(st.call)} \ {""})
                   \cup (IF isOutboundCall(st.call) THEN {"outbound service call"} ELSE {})
      Sites(path, fn) == UNION {{[path |-> path, func |-> fn.name, kind |-> kind, call |-> st.call] : kind \in Kinds(st)}
                                : st \in Statements(fn)}
  IN  UNION {UNION {Sites(path, fn) : fn \in funcsIn(ws, path)} : path \in Except(ws, {"test", "main", "bootstrap"})}
(* What the audit tools show: no generated files, no tests, nothing that is fine.   *)
auditWorkspace(disk) == Load(disk, FALSE, FALSE)
roundTripHandler(disk) == {m \in RoundTripAudit(auditWorkspace(disk)) : m.verdict # "ok"}
validationHandler(disk) == {f \in ValidationAudit(auditWorkspace(disk)) : f.missing # ""}
temporalHandler(disk) == TemporalAudit(auditWorkspace(disk))
===============================================================================
