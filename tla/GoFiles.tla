------------------------------- MODULE GoFiles -------------------------------
(***************************************************************************)
(* A service's source tree as the Go tools read it.                        *)
(*                                                                         *)
(* A path is <<directory, stem, extension>>.  An identifier is the         *)
(* sequence of its words; a call's name the sequence of its selectors.     *)
(* A Go file is a record [eol, gen, pkg, lines, imports, structs, funcs,   *)
(* fx, hand]: hand is the set of hand-made edits the file still carries,   *)
(* and fx gives, for each fx.Module variable a bootstrap file declares,    *)
(* its fx.Provide calls in their order, each a set of entries.  A          *)
(* function's body is the sequence of its statements; depth is how deeply  *)
(* a statement is nested, loop whether it is in the body of a loop.        *)
(***************************************************************************)
EXTENDS GoPatch, FiniteSets, Functions

GoMod == <<".", "go", ".mod">>
MainGo == <<".", "main", ".go">>
Bootstrapper == <<"bootstrap", "bootstrapper", ".go">>
RequestFile == <<"handler/request", "request", ".go">>
Go(dir, stem) == <<dir, stem, ".go">>

(* The layer of a file, from its path alone. *)
classify(path) ==
  IF path[3] = "_test.go" THEN "test"
  ELSE IF path = MainGo THEN "main"
  ELSE CASE path[1] = "core/domain" -> "domain"
         [] path[1] = "core/port" -> "port"
         [] path[1] = "repo/postgres" -> "repo"
         [] path[1] = "handler/response" -> "response"
         [] path[1] \in {"handler", "handler/request"} -> "handler"
         [] path[1] = "bootstrap" -> "bootstrap"
         [] path[1] = "routes" -> "routes"
         [] OTHER -> "other"

PrunedDirs == {"vendor", "testdata", "dist", ".dakcoder"}
ConfigDir == "configs"

isGenerated(file) == file.gen

(* What an analysis sees: the parsed Go files, without the generated ones and the  *)
(* tests unless it asks for them, the configuration files, the module's path.      *)
Load(disk, generated, tests) ==
  LET seen(path) == /\ path[1] \notin PrunedDirs
                    /\ path[3] = ".go" \/ (tests /\ path[3] = "_test.go")
                    /\ generated \/ ~isGenerated(disk[path])
  IN  [files |-> {path \in DOMAIN disk : seen(path)},
       disk |-> disk,
       module |-> GoMod \in DOMAIN disk]

FilesIn(ws, layers) == {path \in ws.files : classify(path) \in layers}

(* ------------------------------ configuration ------------------------------ *)
(* A configuration file is [eol, hand, env, parsed, keys]: each key it declares    *)
(* holds a value, a blank or a placeholder.                                        *)
Configs(ws) == {path \in DOMAIN ws.disk : path[1] = ConfigDir /\ path[3] = ".yaml"}
BaseConfig(ws) == {path \in Configs(ws) : ws.disk[path].env = ""}
HasKey(config, key) == config.parsed /\ key \in DOMAIN config.keys
HasRealValue(config, key) == HasKey(config, key) /\ config.keys[key] = "value"

(* ---------------------------- reading the syntax ---------------------------- *)
St(name, args) == [call |-> name, args |-> args, chain |-> <<>>, loop |-> FALSE, depth |-> 0, returns |-> ""]
ReturnErr == [St(<<>>, <<>>) EXCEPT !.returns = "err"]
InLoop(st) == [st EXCEPT !.loop = TRUE]
Nested(st) == [st EXCEPT !.depth = 1]
Func(name, recv, params, results, body) ==
  [name |-> name, recv |-> recv, params |-> params, results |-> results, body |-> body]
Param(name, type) == [name |-> name, type |-> type]
Result(ptr, type) == [ptr |-> ptr, type |-> type]
Field(name, type, tags, rules) == [name |-> name, type |-> type, tags |-> tags, rules |-> rules]

(* The names of the packages, as strings sort. *)
PackageRank(pkg) ==
  CHOOSE i \in 1 .. 11 :
    <<"Handler", "bootstrap", "claim_repo", "domain", "handler", "handlers", "main", "port", "repo", "request",
      "response">>[i] = pkg

Suffix(words, w) == Len(words) > 0 /\ words[Len(words)] = w
Prefix(words, w) == Len(words) > 0 /\ words[1] = w
LowerWords == {"build", "health", "notify", "routes"}
IsExported(name) == name[1] \notin LowerWords

ImportsOf(ws, path) == PathsOf(ws.disk[path].imports)
ImportsAny(ws, path, paths) == ImportsOf(ws, path) \cap paths # {}
funcsIn(ws, path) == ws.disk[path].funcs
structsIn(ws, path) == ws.disk[path].structs
isEmbedded(field) == field.name = <<>>
isMethod(fn) == fn.recv # <<>>
receiverType(fn) == fn.recv
params(fn) == {fn.params[i].type : i \in DOMAIN fn.params}

Statements(fn) == ToSet(fn.body)
methodNamed(name, methods) == Len(name) > 0 /\ name[Len(name)] \in methods
anyCall(fn, names) == \E st \in Statements(fn) : st.call \in names
callsMatching(fn, words) == \E st \in Statements(fn) : ToSet(st.call) \cap words # {}
countCalls(fn, Match(_)) == Cardinality({i \in DOMAIN fn.body : Match(fn.body[i])})
callsInLoops(fn, Match(_)) == {st \in Statements(fn) : st.loop /\ Match(st)}

(* The string literals of a file, each with the place it stands at.  One is told    *)
(* from an identifier by its spelling: no identifier is spelt like these.          *)
ConfigKeys == {"db.QueryTimeoutLow", "db.QueryTimeoutMed", "db.password", "swagger.generation.mode", "pfms.url"}
Capitalised == {"Read failed", "PFMS failed"}
Punctuated == {"read failed."}
Wrapping == {"read: %w"}
Literals == {"*", "select *", "call close_month", "now()", "https://pfms.gov.in", "10.1.2.3:443",
             "Pending", "read: %v"} \cup ConfigKeys \cup Capitalised \cup Punctuated \cup Wrapping
isLit(arg) == Len(arg) = 1 /\ arg[1] \in Literals
stringLitsIn(ws, path) ==
  UNION {UNION {{[value |-> fn.body[i].args[j][1], func |-> fn.name, at |-> <<i, j>>] :
                   j \in {j \in DOMAIN fn.body[i].args : isLit(fn.body[i].args[j])}}
                : i \in DOMAIN fn.body} : fn \in funcsIn(ws, path)}
HasLit(ws, path, values) == \E lit \in stringLitsIn(ws, path) : lit.value \in values
===============================================================================
