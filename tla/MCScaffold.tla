----------------------------- MODULE MCScaffold -----------------------------
(***************************************************************************)
(* Scaffold on small instances: a seed and three specs, one of them        *)
(* refused; an empty tree and an existing one with CRLF line endings; and, *)
(* for each rule, an edit with the defect the rule's own tests use.        *)
(***************************************************************************)
EXTENDS Scaffold

FieldSpec(go, type) == [go |-> go, type |-> type, json |-> <<>>, db |-> <<>>, validate |-> {}]
ResourceSpec(name, ops, fields, filters) ==
  [name |-> name, plural |-> <<>>, ops |-> ops, fields |-> fields, filters |-> filters, paginate |-> FALSE]
MCSeed == ResourceSpec(<<"Pension">>, {}, <<FieldSpec(<<"Status">>, "string"), FieldSpec(<<"Granted">>, "date")>>, {<<"Status">>})
Claim == ResourceSpec(<<"Claim">>, {"add", "list"}, <<FieldSpec(<<"Raised">>, "date"), FieldSpec(<<"Amount">>, "integer")>>, {<<"Raised">>})
CamelTag == ResourceSpec(<<"Award">>, {"list"}, <<[FieldSpec(<<"Ppo">>, "string") EXCEPT !.json = <<"ppoNumber">>]>>, {})
MCSpecs == {MCSeed, Claim, CamelTag}

Empty == [path \in {} |-> 0]
Existing ==
  LET plan == NewProject(Empty, MCSeed, <<"request", "response">>).files
      at(path) == CHOOSE i \in DOMAIN plan : plan[i].path = path
  IN  [path \in {plan[i].path : i \in DOMAIN plan} |-> ApplyEOL(plan[at(path)].content, "CRLF")]
MCTrees == {Empty, Existing}
(* Severities moved both ways, rules switched off, thresholds raised. *)
OwnTests == [allowedInTests |-> {"github.com/unheard/of"}]
Pinned == [severity |-> ("error-handling" :> "warning" @@ "magic-literal" :> "error" @@ "secrets-in-config" :> "warning"
                        @@ "request-validate-depth" :> "error"),
           disabled |-> {"repo-contract", "file-size", "legacy-go-work"}]
Raised == [notice |-> 3, recommend |-> 4]
MCSettings == {OwnTests, Pinned @@ OwnTests, Raised @@ OwnTests}

(* ---------------------------------- edits ---------------------------------- *)
RepoFile == Go("repo/postgres", "Pension")
HandlerFile == Go("handler", "Pension")
ResponseFile == Go("handler/response", "Pension")
DomainFile == Go("core/domain", "Pension")

Edit(name, kind, path, rules) ==
  [name |-> name, kind |-> kind, path |-> path, rules |-> rules, needs |-> {path}, pkg |-> "", imports |-> <<>>,
   structs |-> {}, funcs |-> {}, lines |-> 0, keys |-> <<>>, dropped |-> {}, ctor |-> <<>>, entries |-> {}]
Adding(name, path, rules, fn) == [Edit(name, "go", path, rules) EXCEPT !.funcs = {fn}]
Declaring_(name, path, rules, s) == [Edit(name, "go", path, rules) EXCEPT !.structs = {s}]
Importing(name, path, rules, import) == [Edit(name, "go", path, rules) EXCEPT !.imports = <<import>>]
New(name, path, pkg, rules) == [Edit(name, "go", path, rules) EXCEPT !.pkg = pkg, !.needs = {}]
Stray(name, path, rules) == [Edit(name, "stray", path, rules) EXCEPT !.needs = {}]

Exec == St(<<"dblib", "Exec">>, <<<<"ctx">>, <<"r", "db">>, <<"q">>>>)
Bounded == Timeout("db.QueryTimeoutLow")
RepoFn(name, body) ==
  Func(<<name>>, <<"Pension", "Repository">>, <<Param("ctx", "context.Context")>>, <<ErrResult>>, body)
InRepo(name, rules, body) == Adding(name, RepoFile, rules, RepoFn(name, body))
RouteFn(name, body) ==
  Func(<<name>>, <<"Pension", "Handler">>, <<Param("sctx", "*serverRoute.Context"), Param("req", "request.IDUri")>>,
       <<Result(TRUE, <<"resp", "Response">>), ErrResult>>, body)
InHandler(name, rules, body) == Adding(name, HandlerFile, rules, RouteFn(name, body))

RepoEdits ==
  {InRepo("RawBuilder", {"repo-contract"}, <<St(<<"sq", "Select">>, <<>>)>>),
   InRepo("NoDeadline", {"repo-contract"}, <<Exec>>),
   InRepo("OwnContext", {"repo-contract", "ctx-propagation"},
          <<St(<<"context", "WithTimeout">>, <<<<"context", "Background">>>>), Bounded[2], Exec>>),
   InRepo("ByPosition", {"repo-rowmapper"},
          Bounded \o <<St(<<"dblib", "SelectOne">>, <<<<"ctx">>, <<"r", "db">>, <<"q">>, <<"pgx", "RowToStructByPos">>>>)>>),
   InRepo("SilentDelete", {"repo-norows"}, Bounded \o <<St(<<"dblib", "Delete">>, <<<<"ctx">>, <<"r", "db">>, <<"q">>>>)>>),
   InRepo("Loop", {"repo-batch-in-loop"}, Bounded \o <<InLoop(Exec)>>),
   InRepo("BatchedLoop", {"repo-batch-in-loop"}, Bounded \o <<InLoop(Exec), St(<<"dblib", "QueueExecRow">>, <<>>)>>),
   InRepo("TwoTrips", {"repo-multi-roundtrip"}, Bounded \o <<Exec, Exec>>),
   InRepo("ThreeTrips", {"repo-multi-roundtrip"}, Bounded \o <<Exec, Exec, Exec>>),
   InRepo("OneInTx", {"repo-transaction-scope"}, Bounded \o <<St(<<"dblib", "Tx">>, <<>>), Exec>>),
   InRepo("TwoInTx", {"repo-transaction-scope"}, Bounded \o <<St(<<"dblib", "Tx">>, <<>>), Exec, Exec>>),
   InRepo("RawRows", {"repo-raw-rows"}, <<St(<<"r", "db", "Query">>, <<<<"ctx">>>>)>>),
   InRepo("Star", {"repo-select-star"}, <<St(<<"dblib", "Psql", "Select">>, <<<<"*">>>>)>>),
   InRepo("RawStar", {"repo-select-star"}, <<St(<<"q">>, <<<<"select *">>>>)>>),
   InRepo("Procedure", {"no-stored-procedure"}, <<St(<<"q">>, <<<<"call close_month">>>>)>>),
   InRepo("Clock", {"repo-sql-now"}, <<St(<<"q">>, <<<<"now()">>>>)>>),
   InRepo("LogsTwice", {"repo-no-logging"}, <<St(<<"log", "Warn">>, <<<<"ctx">>>>)>>),
   InRepo("UnknownKey", {"config-key-exists"}, <<St(<<"r", "cfg", "GetString">>, <<<<"pfms.url">>>>)>>),
   Importing("DTOInRepo", RepoFile, {"layer-dto-boundary"}, "pisapi/handler/response"),
   Importing("GinInRepo", RepoFile, {"legacy-gin-handler", "dep-allowlist"}, Gin),
   [Edit("BareCtor", "go", RepoFile, {"repo-contract", "fx-registration"}) EXCEPT
      !.funcs = {Func(<<"New", "Bare", "Repository">>, <<>>, <<>>, <<Result(TRUE, <<"Bare", "Repository">>)>>, <<>>)}]}

HandlerEdits ==
  {Adding("GinParam", HandlerFile, {"handler-signature"}, [RouteFn("GinParam", <<>>) EXCEPT !.params = <<Param("c", "*gin.Context")>>]),
   InHandler("Binds", {"handler-signature"}, <<St(<<"c", "ShouldBindJSON">>, <<>>)>>),
   Declaring_("NoBase", HandlerFile, {"handler-base"}, Struct(<<"Bare", "Handler">>, {Field(<<"name">>, <<"string">>, {}, {})})),
   Adding("Unnamed", HandlerFile, {"routes-in-handler"},
          [RouteFn("Unnamed", <<St(<<"serverRoute", "GET">>, <<>>)>>) EXCEPT !.name = <<"Routes">>, !.recv = <<"Bare">>]),
   InHandler("Swallows", {"error-handling"}, <<Nested(ReturnErr)>>),
   InHandler("LogsElsewhere", {"error-handling"}, <<Nested(St(<<"log", "Error">>, <<>>)), St(<<"next">>, <<>>), Nested(ReturnErr)>>),
   InHandler("TwoCalls", {"handler-single-repo-call"}, <<St(<<"h", "svc", "get">>, <<>>), St(<<"h", "svc", "update">>, <<>>)>>),
   InHandler("OwnStatus", {"response-status"}, <<St(<<"=", "StatusCodeAndMessage">>, <<<<"status", "Literal">>>>)>>),
   InHandler("LogsPassword", {"no-sensitive-logging"}, <<St(<<"log", "Warn">>, <<<<"user", "password">>>>)>>),
   InHandler("LogsPayload", {"log-level-hygiene"}, <<St(<<"log", "Info">>, <<<<"req">>>>)>>),
   InHandler("Prints", {"no-fmt-print"}, <<St(<<"fmt", "Println">>, <<>>)>>),
   InHandler("IfChain", {"prefer-switch"}, <<St(<<"if">>, <<<<"x">>, <<"x">>, <<"x">>>>)>>),
   InHandler("Magic", {"magic-literal"}, <<St(<<"f">>, <<<<"Pending">>, <<"Pending">>, <<"Pending">>>>)>>),
   InHandler("Endpoint", {"config-no-hardcode"}, <<St(<<"f">>, <<<<"https://pfms.gov.in">>>>)>>),
   InHandler("HostPort", {"config-no-hardcode"}, <<St(<<"f">>, <<<<"10.1.2.3:443">>>>)>>),
   InHandler("Unbounded", {"external-call-timeout"}, <<St(<<"client", "Post">>, <<>>)>>),
   InHandler("OwnClient", {"client-singleton"}, <<St(<<"resty", "New">>, <<>>)>>),
   InHandler("Capital", {"go-idiom"}, <<St(<<"errors", "New">>, <<<<"Read failed">>>>)>>),
   InHandler("Initialism", {}, <<St(<<"errors", "New">>, <<<<"PFMS failed">>>>)>>),
   InHandler("Unwrapped", {"go-idiom"}, <<St(<<"fmt", "Errorf">>, <<<<"read: %v">>, <<"err">>>>)>>),
   InHandler("Wrapped", {}, <<St(<<"fmt", "Errorf">>, <<<<"read: %w">>, <<"err">>>>)>>),
   Adding("AnyParam", HandlerFile, {"go-idiom"}, Func(<<"build">>, <<>>, <<Param("v", "interface{}")>>, <<>>, <<>>)),
   Adding("CtxName", HandlerFile, {"ctx-naming"}, Func(<<"notify">>, <<>>, <<Param("gctx", "context.Context")>>, <<>>, <<>>)),
   Adding("Helper", HandlerFile, {"legacy-response-helper"}, Func(<<"build">>, <<>>, <<>>, <<>>, <<St(<<"handleError">>, <<>>)>>)),
   Adding("Health", HandlerFile, {"legacy-handmade-health"},
          Func(<<"Health", "Check">>, <<>>, <<Param("sctx", "*serverRoute.Context")>>, <<>>, <<>>)),
   Importing("SQLInHandler", HandlerFile, {"layer-sql-boundary"}, Squirrel),
   Importing("UnheardOf", HandlerFile, {"dep-allowlist"}, "github.com/unheard/of"),
   Importing("OldServer", HandlerFile, {"legacy-lib-generation"}, Legacy),
   Importing("OwnValidator", HandlerFile, {"legacy-manual-validation", "dep-allowlist"}, "github.com/go-playground/validator"),
   Importing("Swaggo", HandlerFile, {"legacy-swaggo", "dep-allowlist"}, "github.com/swaggo/gin-swagger"),
   Declaring_("Misplaced", HandlerFile, {"request-dto"}, Struct(<<"Misplaced", "Request">>, {})),
   [Edit("Grown", "go", HandlerFile, {"file-size"}) EXCEPT !.lines = 700]}

OtherEdits ==
  {Declaring_("Untagged", RequestFile, {"request-dto"}, Struct(<<"Untagged", "Request">>, {Field(<<"Name">>, <<"string">>, {"json"}, {})})),
   Declaring_("Bound", RequestFile, {},
              Struct(<<"Bound", "Request">>, {Field(<<"Name">>, <<"string">>, {"json", "validate"}, {"required", "max"})})),
   Declaring_("Unbindable", RequestFile, {"request-dto"},
              Struct(<<"Unbindable", "Request">>, {Field(<<"Name">>, <<"string">>, {"validate"}, {"required", "max"})})),
   Declaring_("Blank", RequestFile, {},
              Struct(<<"Blank", "Request">>, {Field(<<"Active">>, <<"bool">>, {"json", "validate"}, {})})),
   Declaring_("Binding", RequestFile, {"legacy-manual-validation"},
              Struct(<<"Legacy">>, {Field(<<"Name">>, <<"string">>, {"json", "binding"}, {})})),
   Declaring_("NotInline", ResponseFile, {"response-dto"},
              Struct(<<"Note", "Fetch", "Response">>, {Embedded(<<"port", "StatusCodeAndMessage">>, {"json"})})),
   Declaring_("Unconverted", ResponseFile, {"response-dto"}, Struct(<<"Note", "Response">>, {})),
   Declaring_("Untyped", DomainFile, {"domain-tags"}, Struct(<<"Note">>, Stamps(<<"time", "Time">>, {"json"}))),
   Importing("HTTPInDomain", DomainFile, {"layer-dto-boundary"}, "net/http"),
   New("HandRequest", RequestFile, "request", {}),
   New("HandDomain", Go("core/domain", "Claim"), "domain", {}),
   [New("OddPackage", Go("handler", "odd"), "handlers", {"go-idiom"}) EXCEPT !.needs = {HandlerFile}],
   New("BadPackage", Go("core/extra", "claims"), "claim_repo", {"go-idiom"}),
   New("Vendored", Go("vendor", "claims"), "claim_repo", {}),
   New("OwnGenerated", Go("handler/request", "request_validator"), "request", {"validator-generated"}),
   New("Routes", Go("routes", "routes"), "handlers", {"legacy-routes-file"}),
   [New("TestFile", <<"handler", "Pension", "_test.go">>, "handler", {}) EXCEPT !.imports = <<"github.com/unheard/of">>],
   Stray("Workspace", <<".", "go", ".work">>, {"legacy-go-work"}),
   Stray("Artifact", <<".", "gin", ".log">>, {"legacy-committed-artifacts"}),
   New("Docs", <<"docs", "docs", ".go">>, "docs", {"legacy-swaggo"}),
   [Edit("Password", "config", ConfigFile("dev"), {"secrets-in-config"}) EXCEPT !.keys = [k \in {"db.password"} |-> "value"]],
   [Edit("NoSwagger", "config", ConfigFile(""), {"swagger-visible"}) EXCEPT !.keys = [k \in {swaggerModeKey} |-> "blank"]],
   [Edit("NoTimeout", "config", ConfigFile("dev"), {"config-key-exists"}) EXCEPT !.dropped = {"db.QueryTimeoutMed"}]}

FxEdit(name, of, entries) ==
  [Edit(name, "fx", Bootstrapper, {"fx-registration"}) EXCEPT !.ctor = <<"New", of, "Handler">>, !.entries = entries]
FxEdits == {FxEdit("Unregister", "Pension", {}),
            FxEdit("Plainly", "Claim", {plainEntry("handler", <<"New", "Claim", "Handler">>)}),
            Importing("OldBoot", Bootstrapper, {"legacy-lib-generation"}, Legacy)}

MCEdits == RepoEdits \cup HandlerEdits \cup OtherEdits \cup FxEdits
MCRacing == {e \in MCEdits : e.name \in {"Bound", "Plainly", "HandDomain", "HandRequest", "Password"}}
=============================================================================
