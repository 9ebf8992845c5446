------------------------------ MODULE Scaffold ------------------------------
(***************************************************************************)
(* The scaffolding tools at work on a source tree that people edit too.    *)
(*                                                                         *)
(* A call reads the tree and plans whole files; then it looks for clashes; *)
(* then it writes the files one by one, the ones it modifies as it planned *)
(* them.  Nothing is locked: a person may save a file between any two of   *)
(* these steps, and any write may fail and end the call where it is.       *)
(***************************************************************************)
EXTENDS Templates

CONSTANTS Seed,       \* the spec a new service is seeded with
          Specs,      \* the specs resources are scaffolded from
          Edits,      \* what people do to a file (see HandEdit)
          Racing,     \* the edits of Edits that are made while a call runs
          Trees,      \* the trees the tools are started on
          Settings,   \* the settings a repository may have
          MaxTurns,   \* bound: calls and edits together
          MaxFaults   \* bound: failed writes

VARIABLES disk,    \* the tree: path -> file
          call,    \* the call in progress, or NoCall
          turns, faults,  \* what is left of the bounds
          racing,  \* the edits made while a call ran
          lost,    \* the edits a call has written over
          told     \* the resources whose call has answered ok

vars == <<disk, call, turns, faults, racing, lost, told>>

NoCall == [plan |-> <<>>, next |-> 0, eol |-> "", for |-> {}]
Idle == call = NoCall
Create(path, file) == [path |-> path, action |-> "create", content |-> file]
Modify(path, file) == [path |-> path, action |-> "modify", content |-> file]
Refused == [error |-> TRUE, files |-> <<>>]
Planned(files) == [error |-> FALSE, files |-> files]
ModulePath(tree) == GoMod \in DOMAIN tree
Registrations(r) == <<Registration("repo", <<"New">> \o Repository(r)), Registration("handler", <<"New">> \o HandlerType(r))>>

(* -------------------------------- the plans -------------------------------- *)
declaredTypeNames(r) == {s.name : s \in requestTmpl(r)}

(* The request types go at the end of the one file that holds all of them, unless   *)
(* it declares one of them already.                                                 *)
patchRequestFile(tree, r) ==
  LET port == IF Has(r, "list") THEN <<Port>> ELSE <<>>
      needed == port \o (IF NeedsTimeInRequest(r) THEN <<"time">> ELSE <<>>)
      old == tree[RequestFile]
      Import(imports, path) == EnsureImport(imports, "", path)
  IN  IF RequestFile \notin DOMAIN tree
      THEN Planned(<<Create(RequestFile, GoFile("request", {Imp("", path) : path \in ToSet(needed)},
                                                requestTmpl(r), manualValidate(r)))>>)
      ELSE IF \E name \in declaredTypeNames(r) : HasDecl(old, name) THEN Refused
      ELSE Planned(<<Modify(RequestFile, AppendDecls([old EXCEPT !.imports = FoldLeft(Import, @, needed)],
                                                     requestTmpl(r), manualValidate(r)))>>)

(* The files of a resource that are its own. *)
ownFiles(r) ==
  <<Create(Go("core/domain", FileStem(r)), domainTmpl(r)),
    Create(<<"db", TableFileStem(r), ".sql">>, Other),
    Create(Go("repo/postgres", FileStem(r)), repositoryTmpl(r)),
    Create(Go("handler/response", FileStem(r)), responseTmpl(r)),
    Create(Go("handler", FileStem(r)), handlerTmpl(r))>>
Joined(own, request, wiring) ==
  IF request.error \/ wiring.error THEN Refused ELSE Planned(own \o request.files \o wiring.files)
resourceOf(tree, r, seeding) ==
  Joined(ownFiles(r), patchRequestFile(tree, r),
         IF seeding THEN Planned(<<>>) ELSE PlanWiring(tree, Registrations(r)))

(* A resource of a service; of a new one (seeding), whose module is not on disk and *)
(* whose registrations are in the file it is created with.                          *)
Accepted(tree, normal, seeding) ==
  IF normal.issues # {} \/ (~seeding /\ ~ModulePath(tree)) THEN Refused ELSE resourceOf(tree, normal.spec, seeding)
Resource(tree, spec, seeding) == Accepted(tree, Normalise(spec), seeding)

assertEmptyEnough(tree) == GoMod \notin DOMAIN tree
ConfigFile(env) == <<ConfigDir, IF env = "" THEN "config" ELSE "config." \o env, ".yaml">>

(* The two port files come in the order of a map: either.  Of the settings, the base *)
(* and one environment for the six, which differ in the name only.                  *)
serviceFiles(bootstrapper, ports, seed) ==
  LET asNew(f) == Create(f.path, f.content)
      shared == [request |-> Create(Go("core/port", "request"), portRequestTmpl),
                 response |-> Create(Go("core/port", "response"), portResponseTmpl)]
  IN  <<Create(GoMod, Other), Create(MainGo, mainTmpl), Create(Bootstrapper, bootstrapper),
        shared[ports[1]], shared[ports[2]],
        Create(ConfigFile(""), configTmpl("")), Create(ConfigFile("dev"), configTmpl("dev"))>>
      \o [i \in DOMAIN seed |-> asNew(seed[i])]
      \o <<Create(<<".", "gitignore", "">>, Other), Create(<<".", "golangci", ".yml">>, Other),
           Create(<<".", "README", ".md">>, Other)>>
Seeded(tree, bootstrapper, ports, seed) ==
  IF seed.error \/ ~assertEmptyEnough(tree) THEN Refused ELSE Planned(serviceFiles(bootstrapper, ports, seed.files))
NewProject(tree, spec, ports) ==
  Seeded(tree, bootstrapperTmpl(Normalise(spec).spec), ports, Resource(tree, spec, TRUE))

(* Whichever line ending most lines of the Go files have; an empty tree gets LF. *)
RepoEOL(tree) ==
  LET sampled(path) == path[3] \in {".go", "_test.go"} /\ path[1] \notin {"vendor", "testdata"}
      go(eol) == {path \in DOMAIN tree : sampled(path) /\ tree[path].eol = eol}
      weigh(path) == tree[path].lines
  IN  IF MapThenSumSet(weigh, go("CRLF")) > MapThenSumSet(weigh, go("LF")) THEN "CRLF" ELSE "LF"

(* ------------------------------- the actions ------------------------------- *)
Start(planned, for) ==
  /\ Idle /\ turns > 0 /\ turns' = turns - 1
  /\ call' = IF planned.error THEN NoCall ELSE [plan |-> planned.files, next |-> 0, eol |-> "", for |-> for]
  /\ UNCHANGED <<disk, faults, racing, lost, told>>

projectScaffoldHandler ==
  \E ports \in {<<"request", "response">>, <<"response", "request">>} :
    Start(NewProject(disk, Seed, ports), {Seed.name})
resourceScaffoldHandler == \E spec \in Specs : Start(Resource(disk, spec, FALSE), {spec.name})
(* Wiring by itself: the constructors of a spec, one at a time. *)
fxWireHandler ==
  \E spec \in Specs : \E i \in {1, 2} :
    /\ ModulePath(disk)
    /\ Start(PlanWiring(disk, <<Registrations(Normalise(spec).spec)[i]>>), {})

(* Mutant of Clashes: the first file is passed over. *)
ClashesAfterFirst == {f \in ToSet(SubSeq(call.plan, 2, Len(call.plan))) : f.action = "create" /\ f.path \in DOMAIN disk}
Clashes == {f \in ToSet(call.plan) : f.action = "create" /\ f.path \in DOMAIN disk}
(* All the clashes before the first write: a refusal has changed nothing. *)
Apply ==
  /\ ~Idle /\ call.next = 0
  /\ call' = IF Clashes # {} THEN NoCall ELSE [call EXCEPT !.next = 1, !.eol = RepoEOL(disk)]
  /\ UNCHANGED <<disk, turns, faults, racing, lost, told>>

WriteFile ==
  /\ ~Idle /\ call.next \in DOMAIN call.plan
  /\ LET f == call.plan[call.next]
         file == IF f.action = "create" THEN ApplyEOL(f.content, call.eol) ELSE f.content
     IN  /\ disk' = (f.path :> file) @@ disk
         /\ lost' = lost \cup (IF f.path \in DOMAIN disk THEN disk[f.path].hand \ f.content.hand ELSE {})
  /\ call' = [call EXCEPT !.next = @ + 1]
  /\ UNCHANGED <<turns, faults, racing, told>>

(* A directory or a file that cannot be opened: the call ends there. *)
WriteFails ==
  /\ ~Idle /\ call.next \in DOMAIN call.plan /\ faults > 0
  /\ faults' = faults - 1 /\ call' = NoCall
  /\ UNCHANGED <<disk, turns, racing, lost, told>>

finishScaffold ==
  /\ ~Idle /\ call.next > Len(call.plan)
  /\ call' = NoCall /\ told' = told \cup call.for
  /\ UNCHANGED <<disk, turns, faults, racing, lost>>

(* A person adds declarations, imports, a setting or a file, or changes how a       *)
(* constructor is registered.  rules is what the edit is known to be reported for,  *)
(* needs the files it is made beside.                                               *)
Edited(e) ==
  LET old == disk[e.path]
      fresh == [GoFile(e.pkg, {}, {}, {}) EXCEPT !.eol = RepoEOL(disk)]
      base == IF e.path \in DOMAIN disk THEN old ELSE IF e.pkg = "" THEN Other ELSE fresh
      Import(acc, path) == EnsureImport(acc, "", path)
  IN  CASE e.kind = "go" ->
             [AppendDecls(base, e.structs, e.funcs) EXCEPT !.hand = @ \cup {e.name}, !.lines = IF e.lines = 0 THEN @ ELSE e.lines,
                                                           !.imports = FoldLeft(Import, @, e.imports)]
        [] e.kind = "config" -> [base EXCEPT !.hand = @ \cup {e.name}, !.keys = e.keys @@ [k \in DOMAIN @ \ e.dropped |-> @[k]]]
        [] e.kind = "fx" -> [base EXCEPT !.hand = @ \cup {e.name},
                                         !.fx.FxHandler = <<{x \in @[1] : x.ctor # e.ctor} \cup e.entries>>]
        [] OTHER -> [base EXCEPT !.hand = @ \cup {e.name}]
HandEdit ==
  \E e \in Edits :
    /\ turns > 0 /\ turns' = turns - 1
    /\ Idle \/ e \in Racing
    /\ e.needs \subseteq DOMAIN disk /\ (e.kind \in {"config", "fx"} => e.path \in DOMAIN disk)
    /\ e.path \in DOMAIN disk => e.name \notin disk[e.path].hand
    /\ disk' = (e.path :> Edited(e)) @@ disk
    /\ racing' = IF Idle THEN racing ELSE racing \cup {e.name}
    /\ UNCHANGED <<call, faults, lost, told>>

Init ==
  /\ disk \in Trees
  /\ call = NoCall /\ turns = MaxTurns /\ faults = MaxFaults
  /\ racing = {} /\ lost = {} /\ told = {}

Next == \/ projectScaffoldHandler \/ resourceScaffoldHandler \/ fxWireHandler
        \/ Apply \/ WriteFile \/ WriteFails \/ finishScaffold \/ HandEdit
Spec == Init /\ [][Next]_vars

(* ------------------------------- what is asked ------------------------------ *)
Carried(path) == {e \in Edits : e.name \in disk[path].hand}
CarriedAnywhere == UNION {Carried(path) : path \in DOMAIN disk}

(* A file a person edited is never written over by a call that was planned after    *)
(* the edit: only an edit saved while a call ran can be lost (Apply refuses every   *)
(* clash, and a modified file is the one that was read, and more).  And the tree    *)
(* keeps one line ending, whichever tool or person adds to it, and no file imports  *)
(* a path twice.                                                                    *)
TreeIsKept ==
  LET go == {path \in DOMAIN disk : path[3] = ".go"}
      specs(path) == disk[path].imports.specs
  IN  /\ lost \subseteq racing
      /\ Cardinality({disk[path].eol : path \in go}) <= 1
      /\ \A path \in go : Cardinality(PathsOf(disk[path].imports)) = Len(specs(path))

(* A resource whose scaffolding answered ok is served: its handler is annotated,    *)
(* with its interface and its group, unless a person had a hand in registering it.  *)
ScaffoldedServes ==
  LET scan == ScanFX(Load(disk, FALSE, FALSE))
      ctor(name) == <<"New">> \o name \o <<"Handler">>
      byHand(name) == \E e \in CarriedAnywhere : e.kind = "fx" /\ e.ctor = ctor(name)
  IN  \A name \in told :
        byHand(name) \/ ctor(name) \in Names(scan, "handler") \ (Unwired(scan) \cup Misregistered(scan))

(* The findings the check below is about: some rules read several files at once,   *)
(* two warnings are a scaffolded file's own.                                        *)
ReadsOtherFiles == {"fx-registration", "config-key-exists", "swagger-visible"}
OwnWarnings(path) ==
  LET file == disk[path]
      unbounded == path = RequestFile /\ \E s \in file.structs : Suffix(s.name, "Uri") \/ Prefix(s.name, "Update")
      now == path[1] = "repo/postgres" /\ \E fn \in file.funcs : fn.name[1] = "Update"
  IN  (IF unbounded THEN {"request-validate-depth"} ELSE {}) \cup (IF now THEN {"repo-sql-now"} ELSE {})
Found(answer) == {<<v.rule, v.path>> : v \in answer.violations \cup answer.warnings}
(* The thresholds of the round trips decide what that rule reports of an edit.      *)
HeldTo(cfg) == {rule.id : rule \in Default} \ (ReadsOtherFiles \cup IF cfg.notice = 2 THEN {} ELSE {"repo-multi-roundtrip"})
Owed ==
  LET by(path) == OwnWarnings(path) \cup UNION {e.rules : e \in Carried(path)}
  IN  UNION {{<<rule, path>> : rule \in by(path)} : path \in DOMAIN disk}
AreTheEdits(over, cfg, all, blocking) ==
  LET secrets == {f \in all : f[1] = "secrets-in-config" /\ ~HasSeverityOverride(cfg, f[1])}
      of(findings, ids) == {f \in findings : f[1] \in ids}
  IN  /\ of(all, HeldTo(cfg)) = of(Owed, HeldTo(cfg) \ cfg.disabled)
      /\ \A id \in UNION {e.rules : e \in CarriedAnywhere} :
           Found(lintHandler(disk, over, {}, FALSE, {id}))
             = IF Disabled(cfg, id) THEN of(Owed, {id}) ELSE of(all, {id})
      /\ \A path \in {path \in DOMAIN disk : Carried(path) # {}} :
           cmdLint(disk, over, {path}, FALSE, {}) = "findings" <=> \E f \in blocking \cup secrets : f[2] = path
Judged(over, full, legacy) ==
  AreTheEdits(over, LoadConfig(over), Found(full) \cup Found(legacy), {<<v.rule, v.path>> : v \in full.violations})
(* What a rule says of a file is what was put into that file: the rules report      *)
(* every defect a person adds and nothing else, whatever the rest of the tree holds *)
(* and however much of a scaffold is written.  Of a scaffolded file two warnings    *)
(* are its own: a path parameter without a bound, the database's clock.  The rules  *)
(* that read several files at once are not held to this.  Whatever the settings: a  *)
(* rule they give another severity reports the same places, one they disable        *)
(* reports none.  And a rule asked for by itself says what it says in a full run,   *)
(* which reads more files, or would say were it not disabled; a run over the edited *)
(* file alone blocks on what the full run would, and on a credential whose severity *)
(* is left as it is.                                                                *)
FindingsAreTheEdits ==
  \A over \in Settings : Judged(over, lintHandler(disk, over, {}, FALSE, {}), lintHandler(disk, over, {}, TRUE, {}))

(* The fields the validation audit judges; one that cannot be filled from a         *)
(* request; one with an empty tag of a type no bound is asked of.                   *)
RequestFields(ws) == UNION {ownFields(s) : s \in {s \in structsIn(ws, RequestFile) : isRequestStruct(s.name)}}
Unbindable(f) == ~hasAnyTag(f, {"json", "uri", "form"})
Blank(f) == "validate" \in f.tags /\ validateRules(f) = {} /\ boundFor(f.type) = {}
RoundTripsAgree(ws, cfg, condemned(_)) ==
  LET least == IF cfg.notice <= cfg.recommend THEN cfg.notice ELSE cfg.recommend
      advised == RepoMultiRoundTrip(ws, cfg)
  IN  /\ least <= 2 => condemned({"a batch may be possible"}) \subseteq advised
      /\ least <= 3 => condemned({"batch these"}) \subseteq advised
      /\ least >= 2 => advised \subseteq condemned({"N+1", "batch these", "a batch may be possible"})
RequestsAgree(ws, loose, reported) ==
  /\ loose \ {f.name : f \in {f \in RequestFields(ws) : Blank(f)}} # {} => reported
  /\ reported => loose # {} \/ \E f \in RequestFields(ws) : Unbindable(f)
(* What the audits condemn the rules report: a query in a loop, a transaction       *)
(* without a use, and, as far as the settings leave the thresholds at or below the  *)
(* audit's own 2 and 3, the round trips; and no round trip is advised on that the   *)
(* audit finds fine.  A request file with a field the validation audit finds        *)
(* unbounded or unvalidated is reported, but for an empty tag of a type no bound is *)
(* asked of; and it is reported only then, or for a field no request can fill,      *)
(* which the audit does not look at.  A call without a timeout that a rule reports  *)
(* is one the audit of outward calls lists; the audit lists the bounded ones too.   *)
AuditsAgree ==
  LET ws == auditWorkspace(disk)
      condemned(verdicts) == {m.row.path : m \in {m \in roundTripHandler(disk) : m.verdict \in verdicts}}
      loose == {f.field : f \in {f \in validationHandler(disk) : f.path = RequestFile}}
  IN  /\ condemned({"N+1"}) \subseteq RepoBatchInLoop(ws)
      /\ condemned({"drop the transaction", "transaction without a batch"}) \subseteq RepoTransactionScope(ws)
      /\ \A over \in Settings : RoundTripsAgree(ws, LoadConfig(over), condemned)
      /\ ExternalCallTimeout(ws) \subseteq
           {site.path : site \in {site \in temporalHandler(disk) : site.kind = "outbound service call"}}
      /\ RequestFile \in ws.files =>
           RequestsAgree(ws, loose, RequestFile \in RequestValidateDepth(ws) \cup RequestDTO(ws))

(* internal/spec/view.go: the handler names time.Time in the update path only.  A   *)
(* scaffolded file that names it imports it.                                        *)
NamesTime(file) ==
  \/ \E s \in file.structs : \E f \in s.fields : f.type = <<"time", "Time">>
  \/ \E fn \in file.funcs : params(fn) \cap {"time.Time", "*time.Time"} # {}
                             \/ \E st \in Statements(fn) : st.call = <<"var", "time.Time">>
TimeIsImportedWhereItIsNamed ==
  \A path \in DOMAIN disk : path[3] = ".go" /\ NamesTime(disk[path]) => "time" \in PathsOf(disk[path].imports)
=============================================================================
