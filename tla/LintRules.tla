------------------------------ MODULE LintRules ------------------------------
(***************************************************************************)
(* The rules of the template and those on what a service may call, log and *)
(* accept: each is the set of paths it reports in a workspace.  A rule     *)
(* that needs the repository's settings (see LintRun) takes cfg.           *)
(***************************************************************************)
EXTENDS GoFiles

Handlers(ws) == FilesIn(ws, {"handler"})
Repos(ws) == FilesIn(ws, {"repo"})
Except(ws, layers) == {path \in ws.files : classify(path) \notin layers}
Reporting(ws, paths, Bad(_)) == {path \in paths : \E fn \in funcsIn(ws, path) : Bad(fn)}

(* ------------------------------ the layers --------------------------------- *)
DataAccess == {Squirrel, Pgx, "n-api-db", "database/sql"}
LayerSQLBoundary(ws) == {path \in Except(ws, {"repo", "test"}) : ImportsAny(ws, path, DataAccess)}

LayerDTOBoundary(ws) ==
  {path \in Repos(ws) :
     ws.module /\ ImportsAny(ws, path, {HandlerPkg, "pisapi/handler/request", "pisapi/handler/response"})}
  \cup {path \in FilesIn(ws, {"domain"}) : ImportsAny(ws, path, {"net/http", Gin, "mime/multipart"})}

(* ------------------------------ the handlers ------------------------------- *)
RouteHandler(fn) ==
  isMethod(fn) /\ Suffix(receiverType(fn), "Handler") /\ fn.name # <<"Routes">> /\ IsExported(fn.name)

BindMethods == {"ShouldBind", "ShouldBindJSON", "ShouldBindQuery", "ShouldBindUri", "BindJSON", "MustBindWith"}
HandlerSignature(ws) ==
  LET asAsked(fn) == /\ Len(fn.params) = 2 /\ fn.params[1].type = "*serverRoute.Context"
                     /\ Len(fn.results) = 2 /\ fn.results[1].ptr /\ fn.results[2].type = <<"error">>
                     /\ "*gin.Context" \notin params(fn)
      Bad(fn) == callsMatching(fn, BindMethods) \/ (RouteHandler(fn) /\ ~asAsked(fn))
  IN  Reporting(ws, Handlers(ws), Bad)

DeclaresHandler(ws, path) == \E s \in structsIn(ws, path) : Suffix(s.name, "Handler")
HandlerBase(ws) ==
  LET noEmbed(s) == /\ Suffix(s.name, "Handler")
                    /\ ~\E f \in s.fields : isEmbedded(f) /\ f.type = <<"*serverHandler", "Base">>
      builds(st) == st.call = <<"serverHandler", "New">> /\ {"SetPrefix", "AddPrefix"} \subseteq ToSet(st.chain)
      BadCtor(fn) == /\ ~isMethod(fn) /\ Prefix(fn.name, "New")
                     /\ Len(fn.results) = 1 /\ Suffix(fn.results[1].type, "Handler")
                     /\ ~\E st \in Statements(fn) : builds(st)
  IN  {path \in Handlers(ws) : \E s \in structsIn(ws, path) : noEmbed(s)}
      \cup Reporting(ws, Handlers(ws), BadCtor)

Verbs == {"GET", "POST", "PUT", "DELETE", "PATCH"}
RoutesInHandler(ws) ==
  LET isRoutes(fn) == fn.name = <<"Routes">> /\ isMethod(fn)
      unnamed(st) == /\ Prefix(st.call, "serverRoute") /\ methodNamed(st.call, Verbs)
                     /\ "Name" \notin ToSet(st.chain)
      Bad(fn) == isRoutes(fn) /\ \E st \in Statements(fn) : unnamed(st)
  IN  {path \in Handlers(ws) :
         DeclaresHandler(ws, path) /\ ~\E fn \in funcsIn(ws, path) : isRoutes(fn)}
      \cup Reporting(ws, {path \in Handlers(ws) : DeclaresHandler(ws, path)}, Bad)

(* Mutant of ErrorHandling: any log call above the return will do. *)
ErrorHandlingAbove(ws) ==
  LET logs(st) == st.call \in {<<"log", "Error">>, <<"log", "Fatal">>}
      Untold(fn) == \E i \in DOMAIN fn.body :
        fn.body[i].returns = "err" /\ ~\E j \in 1 .. i - 1 : logs(fn.body[j])
      Bad(fn) == RouteHandler(fn) /\ Untold(fn)
  IN  Reporting(ws, Handlers(ws), Bad)
(* A returned err that no log call precedes, in its block or in a statement nested *)
(* in that block: between the two no statement stands outside the block.           *)
ErrorHandling(ws) ==
  LET logs(st) == st.call \in {<<"log", "Error">>, <<"log", "Fatal">>}
      Untold(fn) == \E i \in DOMAIN fn.body :
        /\ fn.body[i].returns = "err"
        /\ ~\E j \in 1 .. i - 1 :
              logs(fn.body[j]) /\ \A k \in j .. i : fn.body[k].depth >= fn.body[i].depth
      Bad(fn) == RouteHandler(fn) /\ Untold(fn)
  IN  Reporting(ws, Handlers(ws), Bad)

repoFields(ws, path) ==
  LET holders == {s \in structsIn(ws, path) : Suffix(s.name, "Handler")}
  IN  {f.name : f \in {f \in UNION {s.fields : s \in holders} :
                         ~isEmbedded(f) /\ (Suffix(f.type, "Repository") \/ Prefix(f.type, "*repo"))}}
isRepoCall(st, fields) == Len(st.call) > 2 /\ <<st.call[Len(st.call) - 1]>> \in fields
HandlerSingleRepoCall(ws) ==
  {path \in Handlers(ws) : \E fn \in funcsIn(ws, path) :
     LET repoCall(st) == isRepoCall(st, repoFields(ws, path))
     IN  RouteHandler(fn) /\ countCalls(fn, repoCall) >= 2}

(* ---------------------------- the repositories ----------------------------- *)
dblibExec == {<<"dblib", op>> : op \in {"Insert", "SelectOne", "SelectRows", "Update", "Delete", "Exec",
                                        "SelectOneOK", "SelectRowsOK", "InsertReturning", "UpdateReturning"}}
isDBExec(st) == st.call \in dblibExec
Detached == {<<"context", "Background">>, <<"context", "TODO">>}
detachedTimeouts(fn) ==
  {st \in Statements(fn) : /\ st.call \in {<<"context", c>> : c \in {"WithTimeout", "WithDeadline", "WithCancel"}}
                           /\ Len(st.args) > 0 /\ st.args[1] \in Detached}

RepoContract(ws) ==
  LET BadCtor(fn) == /\ ~isMethod(fn) /\ Prefix(fn.name, "New")
                     /\ Len(fn.results) > 0 /\ Suffix(fn.results[1].type, "Repository")
                     /\ ~{"*dblib.DB", "*config.Config"} \subseteq params(fn)
      RawBuilder(fn) == \E st \in Statements(fn) :
        Prefix(st.call, "sq") /\ methodNamed(st.call, {"Insert", "Select", "Update", "Delete", "StatementBuilder"})
      BadDeadline(fn) == /\ isMethod(fn) /\ \E st \in Statements(fn) : isDBExec(st)
                         /\ \/ ~anyCall(fn, {<<"context", "WithTimeout">>})
                            \/ detachedTimeouts(fn) # {}
                            \/ ~callsMatching(fn, {"GetDuration"})
      Bad(fn) == BadCtor(fn) \/ RawBuilder(fn) \/ BadDeadline(fn)
  IN  Reporting(ws, Repos(ws), Bad)

isSafeRowMapper(mapper) == methodNamed(mapper, {"RowToStructByName", "RowToAddrOfStructByName", "RowToStructByNameLax", "RowTo"})
dblibMappedCalls == dblibExec \ {<<"dblib", op>> : op \in {"Insert", "Update", "Delete", "Exec"}}
RepoRowMapper(ws) ==
  LET Bad(fn) == \E st \in Statements(fn) :
        st.call \in dblibMappedCalls /\ (Len(st.args) < 4 \/ ~isSafeRowMapper(st.args[4]))
  IN  Reporting(ws, Repos(ws), Bad)

RepoNoRows(ws) ==
  LET Bad(fn) == /\ anyCall(fn, {<<"dblib", "Update">>, <<"dblib", "Delete">>})
                 /\ \/ ~callsMatching(fn, {"RowsAffected"})
                    \/ ~\E st \in Statements(fn) : st.returns = "pgx.ErrNoRows"
  IN  Reporting(ws, Repos(ws), Bad)

usesBatch(fn) == \E st \in Statements(fn) :
  methodNamed(st.call, {"SendBatch"}) \/ st.call \in {<<"dblib", "QueueExecRow">>, <<"pgx", "Batch{}">>}
usesTransaction(fn) == \E st \in Statements(fn) :
  methodNamed(st.call, {"Begin", "BeginTx"}) \/ st.call = <<"dblib", "Tx">>

RepoBatchInLoop(ws) ==
  LET Bad(fn) == callsInLoops(fn, isDBExec) # {}
  IN  Reporting(ws, Repos(ws), Bad)

(* Advice from the lower of the two thresholds on. *)
RepoMultiRoundTrip(ws, cfg) ==
  LET least == IF cfg.notice <= cfg.recommend THEN cfg.notice ELSE cfg.recommend
      Bad(fn) == ~usesBatch(fn) /\ ~usesTransaction(fn) /\ countCalls(fn, isDBExec) >= least
  IN  Reporting(ws, Repos(ws), Bad)

(* Mutant of RepoTransactionScope: one statement and no batch, instead of either. *)
RepoTransactionScopeBoth(ws) ==
  LET Bad(fn) == usesTransaction(fn) /\ countCalls(fn, isDBExec) <= 1 /\ ~usesBatch(fn)
  IN  Reporting(ws, Repos(ws), Bad)
RepoTransactionScope(ws) ==
  LET Bad(fn) == usesTransaction(fn) /\ (countCalls(fn, isDBExec) <= 1 \/ ~usesBatch(fn))
  IN  Reporting(ws, Repos(ws), Bad)

isDBReceiver(name) == Len(name) > 1 /\ name[Len(name) - 1] \in {"db", "conn", "pool", "tx"}
RepoRawRows(ws) ==
  LET Bad(fn) == \E st \in Statements(fn) :
        \/ /\ Prefix(st.call, "rows")
           /\ methodNamed(st.call, {"Next", "Scan"})
        \/ /\ methodNamed(st.call, {"Query", "QueryRow"})
           /\ ~Prefix(st.call, "dblib") /\ isDBReceiver(st.call)
  IN  Reporting(ws, Repos(ws), Bad)

RepoSelectStar(ws) ==
  LET Bad(fn) == \E st \in Statements(fn) : methodNamed(st.call, {"Select"}) /\ <<"*">> \in ToSet(st.args)
  IN  Reporting(ws, Repos(ws), Bad) \cup {path \in Repos(ws) : HasLit(ws, path, {"select *"})}
NoStoredProcedure(ws) == {path \in Repos(ws) : HasLit(ws, path, {"call close_month"})}
RepoSQLNow(ws) == {path \in Repos(ws) : HasLit(ws, path, {"now()"})}

(* --------------------------- clients and contexts -------------------------- *)
clientConstructors == {<<"resty", "New">>, <<"minio", "New">>, <<"kafka", "NewWriter">>, <<"redis", "NewClient">>}
isProviderFunc(fn) == ~isMethod(fn) /\ (Prefix(fn.name, "New") \/ Prefix(fn.name, "Provide"))
ClientSingleton(ws) ==
  LET Bad(fn) == ~isProviderFunc(fn) /\ anyCall(fn, clientConstructors)
  IN  Reporting(ws, Except(ws, {"bootstrap", "main", "test"}), Bad)

takesContext(fn) ==
  {"context.Context", "*context.Context", "*serverRoute.Context", "*gin.Context"} \cap params(fn) # {}
CtxPropagation(ws) ==
  LET detaches(st) == st.call \in Detached \/ ToSet(st.args) \cap Detached # {}
      Bad(fn) == takesContext(fn) /\ \E st \in Statements(fn) : detaches(st)
  IN  Reporting(ws, Except(ws, {"bootstrap", "main", "test"}), Bad)

outboundVerbs == {"Get", "Post", "Put", "Patch", "Delete", "Head", "Do", "Send"}
isOutboundCall(name) ==
  /\ Len(name) > 1 /\ methodNamed(name, outboundVerbs)
  /\ name[1] \in {"http", "client", "httpclient", "restclient", "resty", "r", "req", "request"}
ExternalCallTimeout(ws) ==
  LET bounds(st) == methodNamed(st.call, {"SetTimeout", "WithTimeout", "SetDeadline", "Timeout", "WithDeadline"})
      Bad(fn) == /\ ~\E st \in Statements(fn) : bounds(st)
                 /\ \E st \in Statements(fn) : isOutboundCall(st.call)
  IN  Reporting(ws, Except(ws, {"test"}), Bad)

(* --------------------------------- logging --------------------------------- *)
isLogCall(st) ==
  Len(st.call) = 2 /\ st.call[1] \in {"log", "logger"} /\ st.call[2] \in {"Debug", "Info", "Warn", "Error", "Fatal", "Panic"}
RepoNoLogging(ws) ==
  LET Bad(fn) == \E st \in Statements(fn) : isLogCall(st)
  IN  Reporting(ws, Repos(ws), Bad)

(* A word of the name, or two neighbouring ones, never a part of a word. *)
IsSensitive(cfg, ident) ==
  \/ \E i \in DOMAIN ident : <<ident[i]>> \in cfg.sensitive
  \/ \E i \in 1 .. Len(ident) - 1 : <<ident[i], ident[i + 1]>> \in cfg.sensitive
sensitiveOperand(cfg, arg) == ~isLit(arg) /\ IsSensitive(cfg, arg)
NoSensitiveLogging(ws, cfg) ==
  LET Bad(fn) == \E st \in Statements(fn) :
        isLogCall(st) /\ \E arg \in ToSet(st.args) : sensitiveOperand(cfg, arg)
  IN  Reporting(ws, Except(ws, {"test"}), Bad)

payloadOperand(arg) == \E w \in {"request", "response", "req", "resp", "payload", "body", "dto"} : Suffix(arg, w)
LogLevelHygiene(ws) ==
  LET Bad(fn) == \E st \in Statements(fn) :
        isLogCall(st) /\ st.call[2] = "Info" /\ \E arg \in ToSet(st.args) : payloadOperand(arg)
  IN  Reporting(ws, Except(ws, {"test"}), Bad)

(* ------------------------- requests and responses -------------------------- *)
isRequestStruct(name) == \E w \in {"Request", "Uri", "Params", "Req"} : Suffix(name, w)
hasAnyTag(field, keys) == field.tags \cap keys # {}
ownFields(s) == {f \in s.fields : ~isEmbedded(f)}

RequestDTO(ws) ==
  LET Misplaced(path) == path # RequestFile /\ \E s \in structsIn(ws, path) : isRequestStruct(s.name)
      Loose(s) == isRequestStruct(s.name) /\ \E f \in ownFields(s) :
                    ~hasAnyTag(f, {"validate"}) \/ ~hasAnyTag(f, {"json", "uri", "form"})
  IN  {path \in Handlers(ws) :
         Misplaced(path) \/ (path = RequestFile /\ \E s \in structsIn(ws, path) : Loose(s))}

envelopeKind(name) ==
  IF Suffix(name, "Response") /\ Len(name) > 1 /\ name[Len(name) - 1] \in {"Create", "Fetch", "List", "Update", "Delete"}
  THEN name[Len(name) - 1] ELSE ""
ResponseDTO(ws) ==
  LET inlined(s, type) == \E f \in s.fields : isEmbedded(f) /\ f.type = type /\ "inline" \in f.tags
      Torn(s) == /\ envelopeKind(s.name) # ""
                 /\ \/ ~inlined(s, <<"port", "StatusCodeAndMessage">>)
                    \/ (envelopeKind(s.name) = "List" /\ ~inlined(s, <<"port", "MetaDataResponse">>))
      ctors(path) == {fn.name : fn \in {fn \in funcsIn(ws, path) : ~isMethod(fn)}}
      Unconverted(s, path) == /\ envelopeKind(s.name) = "" /\ Suffix(s.name, "Response")
                              /\ <<"New">> \o s.name \notin ctors(path)
  IN  {path \in FilesIn(ws, {"response"}) :
         \E s \in structsIn(ws, path) : Torn(s) \/ Unconverted(s, path)}

(* Only a composite literal, or a value outside package port, is reported. *)
ResponseStatus(ws) ==
  LET Bad(fn) == \E st \in Statements(fn) :
        st.call = <<"=", "StatusCodeAndMessage">> /\ ~Prefix(st.args[1], "port")
  IN  Reporting(ws, Handlers(ws), Bad)

(* Which directives bound a field, by its type; none are asked of the others. *)
boundFor(type) ==
  CASE type = <<"string">> -> {"max", "len", "oneof", "eq", "email", "uuid", "numeric", "datetime"}
    [] type \in {<<"int">>, <<"float">>} -> {"min", "max", "gte", "lte", "gt", "lt", "eq", "oneof", "len"}
    [] type = <<"[]">> -> {"max", "len", "dive"}
    [] OTHER -> {}
validateRules(field) == field.rules
Unbounded(f) ==
  /\ validateRules(f) # {"omitempty"}
  /\ boundFor(f.type) # {} /\ boundFor(f.type) \cap validateRules(f) = {}
RequestValidateDepth(ws) ==
  LET Loose(s) == isRequestStruct(s.name) /\ \E f \in ownFields(s) : "validate" \in f.tags /\ Unbounded(f)
  IN  {path \in Handlers(ws) \cap {RequestFile} : \E s \in structsIn(ws, path) : Loose(s)}

looksLikeHostPort(lit) == lit \in {"10.1.2.3:443"}
hardcodedKind(lit) ==
  IF lit \in {"https://pfms.gov.in"} THEN "endpoint" ELSE IF looksLikeHostPort(lit) THEN "host:port" ELSE ""
ConfigNoHardcode(ws) ==
  {path \in Except(ws, {"bootstrap", "main", "test"}) :
     \E lit \in stringLitsIn(ws, path) : hardcodedKind(lit.value) # ""}

(* ------------------- models, dependencies, files, names -------------------- *)
isSnake(tag) == tag \notin {"jsonCamel", "dbCamel"}
DomainTags(ws, cfg) ==
  LET Untagged(f) == \/ f.tags \cap {"json", "jsonCamel"} = {} \/ f.tags \cap {"db", "dbCamel"} = {}
                     \/ \E tag \in f.tags : ~isSnake(tag)
      Bad(s) == \/ \E f \in ownFields(s) : Untagged(f)
                \/ cfg.required \ {f.name : f \in ownFields(s)} # {}
  IN  {path \in FilesIn(ws, {"domain"}) : \E s \in structsIn(ws, path) : Bad(s)}

isExternal(path) == path \notin StandardPaths
DepAllowed(cfg, ws, path, inTest) ==
  \/ ~isExternal(path) \/ (ws.module /\ path \in ModulePaths)
  \/ path \in cfg.allowed \/ (inTest /\ path \in cfg.allowedInTests)
DepAllowlist(ws, cfg) ==
  {file \in ws.files : \E path \in ImportsOf(ws, file) : ~DepAllowed(cfg, ws, path, classify(file) = "test")}

FileSize(ws, cfg) ==
  {path \in Except(ws, {"test"}) : ~isGenerated(ws.disk[path]) /\ cfg.maxLines > 0 /\ ws.disk[path].lines > cfg.maxLines}
ValidatorStale(ws) == {path \in ws.files : path[2] = "request_validator" /\ ~isGenerated(ws.disk[path])}

(* ----------------------------------- idiom --------------------------------- *)
(* The odd file out is the one reported: the package most files of a directory     *)
(* declare is taken as right, the first in order of two that as many declare.      *)
checkPackageConsistency(ws) ==
  LET Siblings(path) == {other \in Except(ws, {"test"}) : other[1] = path[1]}
      Declaring(path, pkg) == Cardinality({other \in Siblings(path) : ws.disk[other].pkg = pkg})
      Outvoted(path) == \E other \in Siblings(path) :
        LET mine == ws.disk[path].pkg
            its == ws.disk[other].pkg
        IN  /\ its # mine
            /\ \/ Declaring(path, its) > Declaring(path, mine)
               \/ Declaring(path, its) = Declaring(path, mine) /\ PackageRank(its) < PackageRank(mine)
  IN  {path \in Except(ws, {"test"}) : Outvoted(path)}

checkAnyOverInterface(ws, path) ==
  \/ \E fn \in funcsIn(ws, path) : "interface{}" \in params(fn)
  \/ \E s \in structsIn(ws, path) : \E f \in s.fields : f.type = <<"interface{}">>
startsWithInitialism(lit) == lit \in {"PFMS failed"}
errorCalls(fn) ==
  {st \in Statements(fn) : st.call \in {<<"errors", "New">>, <<"fmt", "Errorf">>} /\ Len(st.args) > 0 /\ isLit(st.args[1])}
checkErrorStrings(fn) == \E st \in errorCalls(fn) :
  st.args[1][1] \in Capitalised \cup Punctuated /\ ~startsWithInitialism(st.args[1][1])
looksLikeError(arg) == Suffix(arg, "err") \/ Suffix(arg, "Err") \/ Suffix(arg, "Error")
checkErrorWrapping(fn) == \E st \in errorCalls(fn) :
  /\ st.call = <<"fmt", "Errorf">> /\ st.args[1][1] \notin Wrapping
  /\ \E arg \in ToSet(Tail(st.args)) : looksLikeError(arg)
checkPackageNames(ws) == {path \in Except(ws, {"test"}) : ws.disk[path].pkg \in {"claim_repo", "Handler"}}

GoIdiom(ws) ==
  LET Bad(fn) == checkErrorStrings(fn) \/ checkErrorWrapping(fn)
  IN  Reporting(ws, Except(ws, {"test"}), Bad) \cup checkPackageNames(ws)
      \cup {path \in Except(ws, {"test"}) : checkAnyOverInterface(ws, path)}

(* ------------------------------- the checklist ----------------------------- *)
NoFmtPrint(ws) ==
  LET Bad(fn) == anyCall(fn, {<<"fmt", "Print">>, <<"fmt", "Printf">>, <<"fmt", "Println">>})
  IN  Reporting(ws, Except(ws, {"test", "main"}), Bad)

CtxNaming(ws) ==
  LET Bad(fn) == \E p \in ToSet(fn.params) :
        p.type \in {"context.Context", "*context.Context"} /\ p.name \notin {"ctx", "_"}
  IN  Reporting(ws, Except(ws, {"test"}), Bad)

(* The value every branch of an if compares, and how many branches there are: none *)
(* as soon as one branch is not an equality on it.                                 *)
chainOperand(st) ==
  IF st.call = <<"if">> /\ st.args # <<>> /\ (\A i \in DOMAIN st.args : st.args[i] = st.args[1] /\ st.args[i] # <<"<">>)
  THEN Len(st.args) ELSE 0
PreferSwitch(ws) ==
  LET Bad(fn) == \E st \in Statements(fn) : chainOperand(st) >= 3
  IN  Reporting(ws, Except(ws, {"test"}), Bad)

isSchemaOrFormat(lit) == lit \in Wrapping \cup {"read: %v", "https://pfms.gov.in", "10.1.2.3:443"} \cup ConfigKeys
MagicLiteral(ws) ==
  LET Times(path, v) == Cardinality({lit \in stringLitsIn(ws, path) : lit.value = v})
  IN  {path \in Except(ws, {"test", "repo"}) :
         \E v \in Literals \ {"*"} : ~isSchemaOrFormat(v) /\ Times(path, v) >= 3}
===============================================================================
