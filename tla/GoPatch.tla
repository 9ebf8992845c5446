------------------------------- MODULE GoPatch -------------------------------
(***************************************************************************)
(* How the Go tools edit a source file they did not write: at the byte     *)
(* offsets the parser found, leaving the rest of the file as it is.        *)
(*                                                                         *)
(* An import block is [block, specs]: whether it is parenthesised, and the *)
(* sequence of its specs [alias, path].  A path is one of those the tools  *)
(* and the services they edit name; PathOrder lists them as strings sort.  *)
(***************************************************************************)
EXTENDS Integers, Sequences, SequencesExt

Fx == "go.uber.org/fx"
Server == "n-api-server/handler"
Legacy == "api-server/handler"
Pgx == "github.com/jackc/pgx/v5"
Squirrel == "github.com/Masterminds/squirrel"
Gin == "github.com/gin-gonic/gin"
Port == "pisapi/core/port"
HandlerPkg == "pisapi/handler"
RepoPkg == "pisapi/repo/postgres"

PathOrder ==
  <<"context", "database/sql", "fmt", Squirrel, Gin, "github.com/go-playground/validator", Pgx,
    "github.com/swaggo/gin-swagger", "github.com/unheard/of", "api-config", Legacy, "n-api-bootstrapper",
    "n-api-db", "n-api-log", Server, "n-api-server/route", Fx, "io", "net/http", "pisapi/bootstrap",
    "pisapi/core/domain", Port, HandlerPkg, "pisapi/handler/request", "pisapi/handler/response",
    RepoPkg, "time">>
StandardPaths == {"context", "database/sql", "fmt", "io", "net/http", "time"}
ModulePaths == {"pisapi/bootstrap", "pisapi/core/domain", Port, HandlerPkg, "pisapi/handler/request",
                "pisapi/handler/response", RepoPkg}

Rank(path) == CHOOSE i \in DOMAIN PathOrder : PathOrder[i] = path
Precedes(p, q) == Rank(p) < Rank(q)

(* The groups of an import block, in their order: 0 the standard library, 1 the    *)
(* module, 2 the rest.  The module is looked at first: its path has no dot either. *)
ClassifyImport(path) ==
  IF path \in ModulePaths THEN 1 ELSE IF path \in StandardPaths THEN 0 ELSE 2

NoImports == [block |-> FALSE, specs |-> <<>>]
PathsOf(imports) == {imports.specs[i].path : i \in DOMAIN imports.specs}

(* Where a new spec goes: in order inside the first run of its group, or, without  *)
(* one, in front of the first later group, or at the end.                          *)
insertPoint(specs, path) ==
  LET Group(i) == ClassifyImport(specs[i].path)
      want == ClassifyImport(path)
      same == {i \in DOMAIN specs : Group(i) = want}
      first == CHOOSE i \in same : \A j \in same : i <= j
      run == {i \in same : \A j \in first .. i : j \in same}
      above == {i \in run : Precedes(path, specs[i].path)}
      later == {i \in DOMAIN specs : Group(i) > want}
      Least(S) == CHOOSE i \in S : \A j \in S : i <= j
      Most(S) == CHOOSE i \in S : \A j \in S : i >= j
  IN  IF above # {} THEN Least(above)
      ELSE IF same # {} THEN Most(run) + 1
      ELSE IF later # {} THEN Least(later) ELSE Len(specs) + 1

(* A path that is imported, under whatever name, is left alone; no imports become  *)
(* a block; a single import becomes a block of two, which the formatter sorts by   *)
(* their paths, whatever their groups.                                             *)
EnsureImport(imports, alias, path) ==
  LET new == [alias |-> alias, path |-> path]
      specs == imports.specs
  IN  IF path \in PathsOf(imports) THEN imports
      ELSE IF specs = <<>> THEN [block |-> TRUE, specs |-> <<new>>]
      ELSE IF ~imports.block THEN
        [block |-> TRUE,
         specs |-> IF Precedes(path, specs[1].path) THEN <<new>> \o specs ELSE Append(specs, new)]
      ELSE [imports EXCEPT !.specs = InsertAt(specs, insertPoint(specs, path), new)]

(* The block a template gets: each group sorted, the groups in their order. *)
renderImports(needed) ==
  LET Before(a, b) == \/ ClassifyImport(a.path) < ClassifyImport(b.path)
                      \/ ClassifyImport(a.path) = ClassifyImport(b.path) /\ Precedes(a.path, b.path)
      specs == [i \in 1 .. Cardinality(needed) |->
                  CHOOSE spec \in needed : Cardinality({s \in needed : Before(s, spec)}) = i - 1]
  IN  [block |-> Len(specs) > 1, specs |-> specs]

(* Line endings: a file has one, and an edit keeps it. *)
DetectEOL(file) == file.eol
ApplyEOL(file, eol) == [file EXCEPT !.eol = eol]

(* Top-level declarations: a new one is added at the end; none is replaced. *)
HasDecl(file, name) ==
  (\E s \in file.structs : s.name = name) \/ (\E fn \in file.funcs : fn.recv = <<>> /\ fn.name = name)
AppendDecls(file, structs, funcs) == [file EXCEPT !.structs = @ \cup structs, !.funcs = @ \cup funcs]
===============================================================================
