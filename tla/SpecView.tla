------------------------------ MODULE SpecView ------------------------------
(***************************************************************************)
(* The specification of a resource: how it is corrected and refused, and   *)
(* the names and import decisions the templates take from it.              *)
(*                                                                         *)
(* A spec is [name, plural, ops, fields, filters, paginate]; a name is the *)
(* sequence of its words, of which Pascal, Snake and Camel are spellings.  *)
(* A field is [go, type, json, db, validate]; what is left out is the      *)
(* empty sequence or set.  A filter is the name of the field it is on.     *)
(***************************************************************************)
EXTENDS LintRun

(* --------------------------------- the sets -------------------------------- *)
validOperations == <<"create", "list", "get", "update", "delete">>
goTypes == {"string", "int", "int64", "float64", "bool", "time.Time"}
rejectedTypes == {"decimal.Decimal", "uuid.UUID", "sql.NullString"}
typeAliases == [t \in {"integer", "number", "date"} |->
                  CASE t = "integer" -> "int" [] t = "number" -> "float64" [] OTHER -> "time.Time"]
synonyms == [o \in {"read", "index", "add", "edit", "remove"} |->
               CASE o = "read" -> "get" [] o = "index" -> "list" [] o = "add" -> "create"
                 [] o = "edit" -> "update" [] OTHER -> "delete"]
reservedFields == {<<"ID">>, <<"CreatedAt">>, <<"UpdatedAt">>}
reservedIdents == {<<"Port">>, <<"Data">>, <<"Repo">>}
Keywords == {<<"Type">>}
IsIdent(words) == \A i \in DOMAIN words : words[i] \notin {"9th", "a-b"}
snakeRe(words) == IsIdent(words) /\ \A i \in DOMAIN words : words[i] \notin {"ppoNumber"}

uncountable == {"Staff", "News"}
pluraliseWord(w) == IF w \in uncountable THEN w ELSE w \o "s"
Plural(words) == IF words = <<>> THEN <<>> ELSE [words EXCEPT ![Len(words)] = pluraliseWord(@)]

(* A bound on every type that has a size: required alone lets anything in. *)
defaultValidate(type) ==
  CASE type = "string" -> {"required", "max"}
    [] type \in {"int", "int64"} -> {"required", "min", "max"}
    [] type = "float64" -> {"required", "min"}
    [] OTHER -> {"required"}

(* ------------------------------- normalising ------------------------------- *)
(* Each part answers what is kept and the issues; a spec is used without any.  *)
normaliseOperations(ops) ==
  LET Canonical(o) == IF o \in DOMAIN synonyms THEN synonyms[o] ELSE o
      known == {Canonical(o) : o \in ops} \cap ToSet(validOperations)
  IN  [kept |-> IF ops = {} THEN ToSet(validOperations) ELSE known,
       issues |-> {"operation" : o \in {o \in ops : Canonical(o) \notin ToSet(validOperations)}}]

(* A field with a bad name or type is dropped; one with a bad tag is kept, and its *)
(* tags are taken, so that every issue is told at once.                            *)
Taken(fields, f) == {g \in ToSet(fields) : g.go = f.go} # {}
normaliseField(f, kept) ==
  LET type == IF f.type \in DOMAIN typeAliases THEN typeAliases[f.type] ELSE f.type
      json == IF f.json = <<>> THEN f.go ELSE f.json
      db == IF f.db = <<>> THEN f.go ELSE f.db
      name == IF f.go = <<>> \/ ~IsIdent(f.go) THEN "name"
              ELSE IF f.go \in reservedFields THEN "reserved" ELSE IF Taken(kept, f) THEN "duplicate" ELSE ""
      tags == {t \in {"json", "db"} : ~snakeRe(IF t = "json" THEN json ELSE db)}
      used == {"json used" : g \in {g \in ToSet(kept) : g.json = json}}
              \cup {"db used" : g \in {g \in ToSet(kept) : g.db = db}}
  IN  IF name # "" THEN [kept |-> kept, issues |-> {name}]
      ELSE IF type \notin goTypes THEN [kept |-> kept, issues |-> {"type"}]
      ELSE [kept |-> Append(kept, [go |-> f.go, type |-> type, json |-> json, db |-> db,
                                   validate |-> IF f.validate = {} THEN defaultValidate(type) ELSE f.validate]),
            issues |-> tags \cup used]
normaliseFields(fields) ==
  LET Add(acc, f) == LET one == normaliseField(f, acc.kept)
                     IN  [kept |-> one.kept, issues |-> acc.issues \cup one.issues]
  IN  FoldLeft(Add, [kept |-> <<>>, issues |-> {}], fields)

FieldNamed(fields, name) == CHOOSE f \in ToSet(fields) : f.go = name
normaliseFilters(filters, fields, ops) ==
  LET declared == {name \in filters : \E f \in ToSet(fields) : f.go = name}
      flags == {name \in declared : FieldNamed(fields, name).type = "bool"}
  IN  [kept |-> declared \ flags,
       issues |-> {"filter" : name \in filters \ (declared \ flags)}
                  \cup (IF filters # {} /\ "list" \notin ops THEN {"filter without list"} ELSE {})]

Normalise(r) ==
  LET plural == IF r.plural = <<>> THEN Plural(r.name) ELSE r.plural
      ops == normaliseOperations(r.ops)
      fields == normaliseFields(r.fields)
      filters == normaliseFilters(r.filters, fields.kept, ops.kept)
      name == IF r.name = <<>> \/ ~IsIdent(r.name) \/ r.name \in Keywords \cup reservedIdents THEN {"name"} ELSE {}
      rest == (IF IsIdent(plural) THEN {} ELSE {"plural"}) \cup (IF r.fields = <<>> THEN {"fields"} ELSE {})
  IN  [spec |-> [name |-> r.name, plural |-> plural, ops |-> ops.kept, fields |-> fields.kept,
                 filters |-> filters.kept, paginate |-> r.paginate],
       issues |-> name \cup rest \cup ops.issues \cup fields.issues \cup filters.issues]

(* ------------------------------ derived names ------------------------------ *)
Has(r, op) == op \in r.ops
FileStem(r) == r.name[1]
TableFileStem(r) == r.plural[1]
Repository(r) == r.name \o <<"Repository">>
HandlerType(r) == r.name \o <<"Handler">>
CreateReq(r) == <<"Create">> \o r.name \o <<"Request">>
UpdateReq(r) == <<"Update">> \o r.name \o <<"Request">>
IDUri(r) == r.name \o <<"ID", "Uri">>
ListParams(r) == <<"List">> \o r.plural \o <<"Params">>
ItemResp(r) == r.name \o <<"Response">>
NewItemResp(r) == <<"New">> \o r.name \o <<"Response">>
NewItemsResp(r) == <<"New">> \o r.plural \o <<"Response">>
Envelope(r, op) ==
  CASE op = "create" -> r.name \o <<"Create", "Response">> [] op = "get" -> r.name \o <<"Fetch", "Response">>
    [] op = "update" -> r.name \o <<"Update", "Response">> [] op = "delete" -> r.name \o <<"Delete", "Response">>
    [] OTHER -> r.plural \o <<"List", "Response">>
HandlerMethod(r, op) ==
  CASE op = "create" -> <<"Create">> \o r.name [] op = "list" -> <<"List">> \o r.plural
    [] op = "get" -> <<"Get">> \o r.name \o <<"By", "ID">> [] op = "update" -> <<"Update">> \o r.name \o <<"By", "ID">>
    [] OTHER -> <<"Delete">> \o r.name \o <<"By", "ID">>
RepoMethod(r, op) == IF op = "list" THEN <<"Get", "All">> \o r.plural ELSE HandlerMethod(r, op)

(* ---------------------------- what a spec needs ---------------------------- *)
UseListParams(r) == Has(r, "list") /\ (r.filters # {} \/ r.paginate)
NeedsManualListValidate(r) == Has(r, "list") /\ r.filters = {}
NeedsIDUri(r) == Has(r, "get") \/ Has(r, "delete")
NeedsSquirrel(r) == r.ops \cap {"get", "update", "delete"} # {} \/ r.filters # {}
NeedsPgx(r) == r.ops # {}
HasTimeField(r) == \E f \in ToSet(r.fields) : f.type = "time.Time"
NeedsTimeInRequest(r) == HasTimeField(r) /\ r.ops \cap {"create", "update"} # {}
NeedsTimeInRepo(r) == HasTimeField(r) /\ r.ops \cap {"create", "update"} # {}
NeedsTimeInHandler(r) == HasTimeField(r) /\ Has(r, "update")
CreateValidate(f) == f.validate
UpdateValidate(f) == {"omitempty"} \cup (f.validate \ {"required"})
GoType(type) ==
  CASE type = "string" -> <<"string">> [] type \in {"int", "int64"} -> <<"int">>
    [] type = "float64" -> <<"float">> [] type = "bool" -> <<"bool">> [] OTHER -> <<"time", "Time">>
(* Times are formatted by the response: its fields are strings. *)
RespType(f) == IF f.type = "time.Time" THEN <<"string">> ELSE GoType(f.type)
CreateParams(r) == [i \in DOMAIN r.fields |-> Param(r.fields[i].go[1], r.fields[i].type)]
UpdateParams(r) == [i \in DOMAIN r.fields |-> Param(r.fields[i].go[1], "*" \o r.fields[i].type)]
=============================================================================
