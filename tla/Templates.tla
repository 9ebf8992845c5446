----------------------------- MODULE Templates ------------------------------
(***************************************************************************)
(* What the scaffolder renders from a spec: the files of a resource and    *)
(* those of a new service, each as a Go file of GoFiles.                   *)
(***************************************************************************)
EXTENDS FxWire

Imp(alias, path) == [alias |-> alias, path |-> path]
GoFile(pkg, imports, structs, funcs) ==
  [eol |-> "LF", gen |-> FALSE, pkg |-> pkg, lines |-> 100, imports |-> renderImports(imports),
   structs |-> structs, funcs |-> funcs, fx |-> <<>>, hand |-> {}]
Other == [eol |-> "LF", hand |-> {}]
Struct(name, fields) == [name |-> name, fields |-> fields]
Embedded(type, tags) == Field(<<>>, type, tags, {})
ErrResult == Result(FALSE, <<"error">>)

(* ------------------------------- the domain -------------------------------- *)
(* A tag is told by its key, and by its spelling when it is not snake case. *)
TagOf(key, words) == IF snakeRe(words) THEN key ELSE key \o "Camel"
Stamps(type, tags) == {Field(<<"ID">>, <<"int">>, tags, {}), Field(<<"CreatedAt">>, type, tags, {}),
                       Field(<<"UpdatedAt">>, type, tags, {})}
domainTmpl(r) ==
  GoFile("domain", {Imp("", "time")},
         {Struct(r.name, Stamps(<<"time", "Time">>, {"json", "db"}) \cup
            {Field(f.go, GoType(f.type), {TagOf("json", f.json), TagOf("db", f.db)}, {}) : f \in ToSet(r.fields)})},
         {})

(* ----------------------------- the repository ------------------------------ *)
Timeout(key) == <<St(<<"context", "WithTimeout">>, <<<<"ctx">>, <<"r", "cfg", "GetDuration">>>>),
                  St(<<"r", "cfg", "GetDuration">>, <<<<key>>>>)>>
Where == St(<<"sq", "Eq">>, <<<<"id">>>>)
Mapped(call) == <<St(<<"dblib", call>>, <<<<"ctx">>, <<"r", "db">>, <<"q">>, <<"pgx", "RowToStructByName">>>>)>>
Psql(verb) == St(<<"dblib", "Psql", verb>>, <<>>)
repositoryBody(r, op) ==
  CASE op = "create" -> Timeout("db.QueryTimeoutLow") \o <<Psql("Insert")>> \o Mapped("InsertReturning")
    [] op = "list" -> Timeout("db.QueryTimeoutMed") \o <<Psql("Select")>>
                      \o (IF r.filters = {} THEN <<>> ELSE <<Nested(Where)>>) \o Mapped("SelectRows")
    [] op = "get" -> Timeout("db.QueryTimeoutLow") \o <<Psql("Select"), Where>> \o Mapped("SelectOne")
    [] op = "update" -> Timeout("db.QueryTimeoutLow") \o <<Psql("Update"), St(<<"sq", "Expr">>, <<<<"now()">>>>), Where>>
                        \o Mapped("UpdateReturning")
    [] OTHER -> Timeout("db.QueryTimeoutLow")
                \o <<Psql("Delete"), Where, St(<<"dblib", "Delete">>, <<<<"ctx">>, <<"r", "db">>, <<"del">>>>),
                     Nested(ReturnErr), St(<<"commandTag", "RowsAffected">>, <<>>),
                     [Nested(St(<<>>, <<>>)) EXCEPT !.returns = "pgx.ErrNoRows"]>>

ListFilters(r) == SelectSeq(r.fields, LAMBDA f : f.go \in r.filters)
FilterParams(r) == [i \in DOMAIN ListFilters(r) |-> Param(ListFilters(r)[i].go[1], "*" \o ListFilters(r)[i].type)]
repositoryParams(r, op) ==
  <<Param("ctx", "context.Context")>>
  \o (CASE op = "create" -> CreateParams(r)
        [] op = "list" -> (IF UseListParams(r) THEN <<Param("skip", "uint64"), Param("limit", "uint64")>> ELSE <<>>)
                          \o FilterParams(r)
        [] op = "update" -> <<Param("id", "int64")>> \o UpdateParams(r)
        [] OTHER -> <<Param("id", "int64")>>)
repositoryTmpl(r) ==
  LET method(op) == Func(RepoMethod(r, op), Repository(r), repositoryParams(r, op),
                         IF op = "delete" THEN <<ErrResult>> ELSE <<Result(FALSE, <<"domain">> \o r.name), ErrResult>>,
                         repositoryBody(r, op))
      ctor == Func(<<"New">> \o Repository(r), <<>>, <<Param("db", "*dblib.DB"), Param("cfg", "*config.Config")>>,
                   <<Result(TRUE, Repository(r))>>, <<>>)
  IN  GoFile("repo",
             {Imp("", "context"), Imp("", "pisapi/core/domain"), Imp("config", "api-config"), Imp("dblib", "n-api-db")}
             \cup (IF NeedsTimeInRepo(r) THEN {Imp("", "time")} ELSE {})
             \cup (IF NeedsSquirrel(r) THEN {Imp("sq", Squirrel)} ELSE {})
             \cup (IF NeedsPgx(r) THEN {Imp("", Pgx)} ELSE {}),
             {Struct(Repository(r), {Field(<<"db">>, <<"*dblib", "DB">>, {}, {}),
                                     Field(<<"cfg">>, <<"*config", "Config">>, {}, {})})},
             {ctor} \cup {method(op) : op \in r.ops})

(* ------------------------- responses and requests -------------------------- *)
responseTmpl(r) ==
  LET status == Embedded(<<"port", "StatusCodeAndMessage">>, {"json", "inline"})
      data == Field(<<"Data">>, ItemResp(r), {"json"}, {})
      of(op) == CASE op = "delete" -> {status}
                  [] op = "list" -> {status, data, Embedded(<<"port", "MetaDataResponse">>, {"json", "inline"})}
                  [] OTHER -> {status, data}
      converts(name, from, to) == Func(name, <<>>, <<Param("d", from)>>, <<Result(FALSE, to)>>, <<>>)
  IN  GoFile("response", {Imp("", "pisapi/core/domain"), Imp("", Port)},
             {Struct(ItemResp(r), Stamps(<<"string">>, {"json"}) \cup
                {Field(f.go, RespType(f), {TagOf("json", f.json)}, {}) : f \in ToSet(r.fields)})}
             \cup {Struct(Envelope(r, op), of(op)) : op \in r.ops},
             {converts(NewItemResp(r), "domain", ItemResp(r)), converts(NewItemsResp(r), "[]domain", <<"[]">>)})

requestTmpl(r) ==
  LET id == Field(<<"ID">>, <<"int">>, {"uri", "validate"}, {"required"})
      carried(rules(_)) == {Field(f.go, GoType(f.type), {TagOf("json", f.json), "validate"}, rules(f)) : f \in ToSet(r.fields)}
      filtered == {Field(f.go, GoType(f.type), {"form", "validate"}, {"omitempty"}) :
                     f \in ToSet(ListFilters(r))}
  IN  (IF Has(r, "create") THEN {Struct(CreateReq(r), carried(CreateValidate))} ELSE {})
      \cup (IF Has(r, "update") THEN {Struct(UpdateReq(r), {id} \cup carried(UpdateValidate))} ELSE {})
      \cup (IF NeedsIDUri(r) THEN {Struct(IDUri(r), {id})} ELSE {})
      \cup (IF Has(r, "list") THEN {Struct(ListParams(r), {Embedded(<<"port", "MetadataRequest">>, {})} \cup filtered)} ELSE {})
manualValidate(r) ==
  IF NeedsManualListValidate(r) THEN {Func(<<"Validate">>, ListParams(r), <<>>, <<ErrResult>>, <<>>)} ELSE {}

(* ------------------------------- the handler ------------------------------- *)
success(op) == <<"port", CASE op = "create" -> "CreateSuccess" [] op = "list" -> "ListSuccess" [] op = "get" -> "FetchSuccess"
                           [] op = "update" -> "UpdateSuccess" [] OTHER -> "DeleteSuccess">>
verb(op) == CASE op = "create" -> "POST" [] op = "update" -> "PUT" [] op = "delete" -> "DELETE" [] OTHER -> "GET"

(* An update and a filtered list declare an optional local for each field; every    *)
(* failure is logged where it is answered.                                          *)
optionalLocals(r, op) ==
  LET fields == CASE op = "update" -> r.fields [] op = "list" -> ListFilters(r) [] OTHER -> <<>>
  IN  [i \in DOMAIN fields |-> St(<<"var", fields[i].type>>, <<>>)]
handlerBody(r, op) ==
  optionalLocals(r, op)
  \o <<St(<<"h", "svc", op>>, <<<<"sctx", "Ctx">>>>), St(<<"if">>, <<<<"<">>>>),
       Nested(St(<<"log", "Error">>, <<<<"sctx", "Ctx">>, <<"err">>>>)), Nested(ReturnErr)>>
  \o (IF op = "create" THEN <<St(<<"log", "Info">>, <<<<"sctx", "Ctx">>, r.name \o <<"ID">>>>)>> ELSE <<>>)
  \o <<St(<<"=", "StatusCodeAndMessage">>, <<success(op)>>)>>
requestParam(r, op) ==
  CASE op = "create" -> "request.Create" [] op = "update" -> "request.Update"
    [] op = "list" -> (IF UseListParams(r) THEN "request.List" ELSE "struct{}") [] OTHER -> "request.IDUri"

handlerTmpl(r) ==
  LET served == SelectSeq(validOperations, LAMBDA op : op \in r.ops)
      routes == Func(<<"Routes">>, HandlerType(r), <<>>, <<Result(FALSE, <<"[]serverRoute", "Route">>)>>,
                     [i \in DOMAIN served |->
                        [St(<<"serverRoute", verb(served[i])>>, <<HandlerMethod(r, served[i])>>) EXCEPT !.chain = <<"Name">>]])
      base == [St(<<"serverHandler", "New">>, <<>>) EXCEPT !.chain = <<"SetPrefix", "AddPrefix">>]
      ctor == Func(<<"New">> \o HandlerType(r), <<>>, <<Param("svc", "*repo." \o r.name[1])>>,
                   <<Result(TRUE, HandlerType(r))>>, <<base>>)
      method(op) == Func(HandlerMethod(r, op), HandlerType(r),
                         <<Param("sctx", "*serverRoute.Context"), Param("req", requestParam(r, op))>>,
                         <<Result(TRUE, <<"resp">> \o Envelope(r, op)), ErrResult>>, handlerBody(r, op))
  IN  GoFile("handler",
             {Imp("", Port), Imp("request", "pisapi/handler/request"), Imp("resp", "pisapi/handler/response"),
              Imp("repo", RepoPkg), Imp("log", "n-api-log"), Imp("serverHandler", Server),
              Imp("serverRoute", "n-api-server/route")}
             \cup (IF NeedsTimeInHandler(r) THEN {Imp("", "time")} ELSE {}),
             {Struct(HandlerType(r), {Embedded(<<"*serverHandler", "Base">>, {}),
                                      Field(<<"svc">>, <<"*repo">> \o Repository(r), {}, {})})},
             {ctor, routes} \cup {method(op) : op \in r.ops})

(* ------------------------------- the service ------------------------------- *)
mainTmpl ==
  GoFile("main", {Imp("", "context"), Imp("", "pisapi/bootstrap"), Imp("bootstrapper", "n-api-bootstrapper")}, {},
         {Func(<<"main">>, <<>>, <<>>, <<>>, <<St(<<"app", "WithContext">>, <<<<"context", "Background">>>>)>>)})

bootstrapperTmpl(r) ==
  [GoFile("bootstrap", {Imp("handler", HandlerPkg), Imp("repo", RepoPkg), Imp("serverHandler", Server), Imp("", Fx)}, {}, {})
     EXCEPT !.fx = [FxRepo |-> <<{plainEntry("repo", <<"New">> \o Repository(r))}>>,
                    FxHandler |-> <<{handlerEntry("handler", "serverHandler", <<"New">> \o HandlerType(r))}>>]]

portRequestTmpl ==
  GoFile("port", {}, {Struct(<<"Metadata", "Request">>, {Field(<<"Skip">>, <<"int">>, {"form", "validate"}, {"omitempty"})})}, {})
portResponseTmpl ==
  GoFile("port", {Imp("", "io")}, {Struct(<<"StatusCodeAndMessage">>, {Field(<<"Message">>, <<"string">>, {"json"}, {})})}, {})

(* Every credential is blank; the two timeouts and the swagger mode are not. *)
configTmpl(env) ==
  [eol |-> "LF", hand |-> {}, env |-> env, parsed |-> TRUE,
   keys |-> [key \in ConfigKeys \ {"pfms.url"} |-> IF isCredentialKey(key) THEN "blank" ELSE "value"]]
=============================================================================
