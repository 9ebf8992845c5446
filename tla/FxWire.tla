------------------------------- MODULE FxWire -------------------------------
(***************************************************************************)
(* Registering a constructor in the composition root of a service.         *)
(*                                                                         *)
(* An entry of an fx.Provide is [ctor, pkg, annotated, as, tags]: pkg is   *)
(* the alias the constructor is written with.  Without its annotation a    *)
(* handler is built, and none of its routes is served.                     *)
(***************************************************************************)
EXTENDS SpecView

Registration(kind, ctor) == [kind |-> kind, ctor |-> ctor]
ModuleVar(kind) == IF kind = "handler" THEN "FxHandler" ELSE "FxRepo"

validCtor(ctor) == Prefix(ctor, "New") /\ IsIdent(ctor)

(* The template's file whenever it is there; else the one of the directory that    *)
(* names a module variable (the services here split it into one other file).       *)
findBootstrapFile(disk) ==
  IF Bootstrapper \in DOMAIN disk THEN {Bootstrapper}
  ELSE {path \in DOMAIN disk : /\ path[1] = "bootstrap" /\ path[3] = ".go"
                               /\ DOMAIN disk[path].fx \cap {"FxRepo", "FxHandler"} # {}}

(* Only the first fx.Provide of the variable is looked at. *)
findProvide(file, var) == IF var \in DOMAIN file.fx /\ file.fx[var] # <<>> THEN {file.fx[var][1]} ELSE {}
registered(provide, ctor) == \E entry \in provide : entry.ctor = ctor
insertArg(file, var, entry) == [file EXCEPT !.fx[var][1] = @ \cup {entry}]

packagePath(kind) == IF kind = "handler" THEN HandlerPkg ELSE RepoPkg
ensureImports(imports, kind) ==
  LET needed == <<[alias |-> kind, path |-> packagePath(kind)], [alias |-> "", path |-> Fx]>>
                \o (IF kind = "handler" THEN <<[alias |-> "serverHandler", path |-> Server]>> ELSE <<>>)
      Ensure(acc, i) == EnsureImport(acc, i.alias, i.path)
  IN  FoldLeft(Ensure, imports, needed)

packageAlias(imports, kind) ==
  LET here == {i \in DOMAIN imports.specs : imports.specs[i].path = packagePath(kind)}
      alias == imports.specs[CHOOSE i \in here : \A j \in here : i <= j].alias
  IN  IF here = {} \/ alias = "" THEN (IF kind = "handler" THEN "handler" ELSE "repo") ELSE alias

(* The alias the annotation names the server's handler package by: the first import *)
(* of either generation of it.                                                      *)
serverHandlerAlias(imports) ==
  LET here == {i \in DOMAIN imports.specs : imports.specs[i].path \in {Server, Legacy}}
      alias == imports.specs[CHOOSE i \in here : \A j \in here : i <= j].alias
  IN  IF here = {} THEN "serverHandler" ELSE IF alias = "" THEN "handler" ELSE alias

plainEntry(pkg, ctor) == [ctor |-> ctor, pkg |-> pkg, annotated |-> FALSE, as |-> "", tags |-> ""]
(* Mutant of handlerEntry: the annotation names no group. *)
handlerEntryUngrouped(pkg, server, ctor) == [ctor |-> ctor, pkg |-> pkg, annotated |-> TRUE, as |-> server, tags |-> ""]
handlerEntry(pkg, server, ctor) == [ctor |-> ctor, pkg |-> pkg, annotated |-> TRUE, as |-> server, tags |-> server]

(* One registration: [error, file].  Whatever mentions the constructor already      *)
(* counts, annotated or not; the imports come first, for the entry uses their names. *)
entryFor(imports, reg) ==
  IF reg.kind = "handler" THEN handlerEntry(packageAlias(imports, "handler"), serverHandlerAlias(imports), reg.ctor)
  ELSE plainEntry(packageAlias(imports, reg.kind), reg.ctor)
Inserted(file, imports, reg) ==
  ApplyEOL(insertArg([file EXCEPT !.imports = imports], ModuleVar(reg.kind), entryFor(imports, reg)), DetectEOL(file))
wireOne(file, reg) ==
  LET provide == findProvide(file, ModuleVar(reg.kind))
  IN  [error |-> provide = {},
       file |-> IF provide = {} \/ \E p \in provide : registered(p, reg.ctor) THEN file
                ELSE Inserted(file, ensureImports(file.imports, reg.kind), reg)]

(* What a wiring would write: nothing on an error, the whole file otherwise. *)
Written(path, old, wired) ==
  [error |-> wired.error,
   files |-> IF wired.error \/ wired.file = old THEN <<>>
             ELSE <<[path |-> path, action |-> "modify", content |-> wired.file]>>]
PlanWiring(disk, regs) ==
  LET path == CHOOSE p \in findBootstrapFile(disk) : TRUE
      Wire(acc, reg) == IF acc.error THEN acc ELSE wireOne(acc.file, reg)
  IN  IF (\E i \in DOMAIN regs : ~validCtor(regs[i].ctor)) \/ findBootstrapFile(disk) = {}
      THEN [error |-> TRUE, files |-> <<>>]
      ELSE Written(path, disk[path], FoldLeft(Wire, [error |-> FALSE, file |-> disk[path]], regs))
=============================================================================
