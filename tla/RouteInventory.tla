--------------------------- MODULE RouteInventory ---------------------------
(***************************************************************************)
(* The inventory of a service's routes, saved before a conversion and      *)
(* compared with what the converted service declares.                      *)
(*                                                                         *)
(* A service is [main, helper, given, handlers].  main and helper are the  *)
(* statements of two legacy functions, group assignments and               *)
(* registrations in their order; helper gets a group as its parameter g,   *)
(* the one called given in main.  handlers maps a template handler to its  *)
(* prefix chain, its routes, and whether its constructor is in a file of   *)
(* its own (apart).  A path is the sequence of its segments; names that    *)
(* differ in their case alone are one name.  A registration is [recv,      *)
(* verb, path, literal, handler], its handler <<receiver, method>>.        *)
(***************************************************************************)
EXTENDS Integers, Sequences, FiniteSets, SequencesExt

CONSTANTS Services,     \* the legacy services a conversion starts from
          Conversions(_),  \* the services one step of it may make of a service
          MaxSteps, MaxSaves

VARIABLES svc,     \* the service's source, as it stands
          saving,  \* the inventory a save is writing, or None
          tmp,     \* the temporary file beside the saved inventory
          file,    \* the saved inventory
          asSaved, \* the service that inventory was taken of
          answer,  \* what the last comparison said
          steps, saves

vars == <<svc, saving, tmp, file, asSaved, answer, steps, saves>>

None == [kind |-> "none"]
Torn == [kind |-> "torn"]
Params == {":id", ":award-id"}

(* ------------------------------- the reading ------------------------------- *)
join(prefix, suffix) == prefix \o suffix
method(handler) == handler[2]
Key(r) == <<r.verb, [i \in DOMAIN r.path |-> IF r.path[i] \in Params THEN ":p" ELSE r.path[i]]>>

(* SetPrefix replaces, AddPrefix appends; two pieces appended keep both their       *)
(* slashes, an empty segment between them.                                          *)
prefixChain(h) ==
  LET Glue(acc, lit) == IF acc = <<>> THEN lit ELSE acc \o <<"">> \o lit
  IN  join(h.set, FoldLeft(Glue, <<>>, h.adds))
(* Only a constructor in the same file is found. *)
constructorPrefixes(h) == IF h.apart THEN <<>> ELSE prefixChain(h)

(* One pass through a function: the prefixes its group variables stand for so far,  *)
(* the routes, and the registrations whose path is not a literal.                   *)
recordGroup(acc, st) ==
  LET parent == IF st.parent \in DOMAIN acc.prefixes THEN acc.prefixes[st.parent] ELSE <<>>
  IN  [acc EXCEPT !.prefixes = [v \in DOMAIN @ \cup {st.var} |-> IF v = st.var THEN join(parent, st.lit) ELSE @[v]]]
ginRoute(acc, st) ==
  LET prefix == IF st.recv \in DOMAIN acc.prefixes THEN acc.prefixes[st.recv] ELSE <<>>
  IN  [acc EXCEPT !.routes = Append(@, [verb |-> st.verb, path |-> join(prefix, st.path), handler |-> st.handler, style |-> "gin"])]
ginUnresolved(acc, st) == [acc EXCEPT !.unresolved = Append(@, st.handler)]
collectGin(body, given) ==
  LET Read(acc, st) == IF st.kind = "group" THEN recordGroup(acc, st)
                       ELSE IF st.literal THEN ginRoute(acc, st) ELSE ginUnresolved(acc, st)
  IN  FoldLeft(Read, [prefixes |-> given, routes |-> <<>>, unresolved |-> <<>>], body)

(* The first pass meets a template registration too, and notes the unreadable ones. *)
collectTemplate(h) ==
  LET literal == SelectSeq(h.routes, LAMBDA st : st.literal)
      opaque == SelectSeq(h.routes, LAMBDA st : ~st.literal)
      prefix == constructorPrefixes(h)
      handlerOf == [i \in DOMAIN opaque |-> opaque[i].handler]
  IN  [routes |-> [i \in DOMAIN literal |-> [verb |-> literal[i].verb, path |-> join(prefix, literal[i].path),
                                              handler |-> literal[i].handler, style |-> "template"]],
       unresolved |-> handlerOf \o handlerOf]

NoGroups == [v \in {} |-> <<>>]
HandlerNames == <<"Award", "Claim">>
(* Every file of the service but its tests; the order is of no account here. *)
Take(s) ==
  LET parts == <<collectGin(s.main, NoGroups), collectGin(s.helper, NoGroups)>>
               \o [i \in DOMAIN HandlerNames |-> collectTemplate(s.handlers[HandlerNames[i]])]
  IN  [kind |-> "inventory",
       routes |-> FlattenSeq([i \in DOMAIN parts |-> parts[i].routes]),
       unresolved |-> FlattenSeq([i \in DOMAIN parts |-> parts[i].unresolved])]
Counts(inv) == [style \in {"gin", "template"} |-> Len(SelectSeq(inv.routes, LAMBDA r : r.style = style))]

(* Mutant of Compare: a route is missing when its endpoint or its handler is gone. *)
CompareEither(before, after) ==
  LET have == {Key(r) : r \in ToSet(after.routes)}
      handlers == {method(r.handler) : r \in ToSet(after.routes)}
  IN  {r \in ToSet(before.routes) : Key(r) \notin have \/ method(r.handler) \notin handlers}
Compare(before, after) ==
  LET have == {Key(r) : r \in ToSet(after.routes)}
      handlers == {method(r.handler) : r \in ToSet(after.routes)}
  IN  {r \in ToSet(before.routes) : Key(r) \notin have /\ method(r.handler) \notin handlers}

(* ------------------------------- the actions ------------------------------- *)
Convert ==
  /\ steps < MaxSteps /\ steps' = steps + 1
  /\ svc' \in Conversions(svc) /\ answer' = None
  /\ UNCHANGED <<saving, tmp, file, asSaved, saves>>

(* The inventory is read first, and written beside the old one. *)
Begin ==
  /\ saving = None /\ saves < MaxSaves /\ saves' = saves + 1
  /\ saving' = [kind |-> "saving", inv |-> Take(svc), of |-> svc]
  /\ tmp' = Torn
  /\ UNCHANGED <<svc, file, asSaved, answer, steps>>
saveInventory ==
  /\ saving # None
  /\ IF tmp = Torn THEN tmp' = saving.inv /\ UNCHANGED <<saving, file, asSaved, answer>>
     ELSE /\ file' = tmp /\ asSaved' = saving.of
          /\ tmp' = None /\ saving' = None /\ answer' = None
  /\ UNCHANGED <<svc, steps, saves>>
(* A write that fails, or the end of the process, leaves what is there. *)
SaveFails ==
  /\ saving # None /\ saving' = None
  /\ UNCHANGED <<svc, tmp, file, asSaved, answer, steps, saves>>

loadInventory == file.kind = "inventory"
(* The tool answers the missing routes. *)
routeInventoryHandler ==
  /\ saving = None
  /\ answer' = IF loadInventory THEN [kind |-> "ok", missing |-> Compare(file, Take(svc)), counts |-> Counts(Take(svc))]
               ELSE [kind |-> "error", missing |-> {}, counts |-> Counts(Take(svc))]
  /\ UNCHANGED <<svc, saving, tmp, file, asSaved, steps, saves>>
(* The command exits with findings when something is missing. *)
compareRoutes(now) ==
  IF ~loadInventory THEN [kind |-> "error", missing |-> {}, counts |-> Counts(now)]
  ELSE [kind |-> IF Compare(file, now) = {} THEN "ok" ELSE "findings", missing |-> Compare(file, now), counts |-> Counts(now)]
cmdRoutes ==
  /\ saving = None
  /\ answer' = compareRoutes(Take(svc))
  /\ UNCHANGED <<svc, saving, tmp, file, asSaved, steps, saves>>

Init ==
  /\ svc \in Services
  /\ saving = None /\ tmp = None /\ file = None /\ asSaved = None /\ answer = None
  /\ steps = 0 /\ saves = 0
Next == Convert \/ Begin \/ saveInventory \/ SaveFails \/ routeInventoryHandler \/ cmdRoutes
Spec == Init /\ [][Next]_vars

(* ------------------------------- what is asked ------------------------------ *)
(* What a service serves: each registration with the path a router gives it, and    *)
(* the one an inventory reads.                                                      *)
Bodies(s) == <<[body |-> s.main, given |-> NoGroups],
               [body |-> s.helper, given |-> [v \in {"g"} |-> collectGin(s.main, NoGroups).prefixes[s.given]]]>>
Literally(body) == [i \in DOMAIN body |-> IF body[i].kind = "group" THEN body[i] ELSE [body[i] EXCEPT !.literal = TRUE]]
Unconverted(s) ==
  UNION {LET b == Bodies(s)[n]
             real == collectGin(Literally(b.body), b.given).routes
             read == collectGin(Literally(b.body), NoGroups).routes
             sts == SelectSeq(b.body, LAMBDA st : st.kind # "group")
         IN  {[key |-> Key(real[i]), read |-> Key(read[i]), method |-> method(real[i].handler), literal |-> sts[i].literal] :
                i \in DOMAIN sts} : n \in {1, 2}}
Converted(h) ==
  LET At(prefix, st) == Key([verb |-> st.verb, path |-> prefix \o st.path])
  IN  {[key |-> At(h.set \o FlattenSeq(h.adds), st), read |-> At(constructorPrefixes(h), st),
        method |-> method(st.handler), literal |-> st.literal] : st \in ToSet(h.routes)}
Registered(s) == Unconverted(s) \cup UNION {Converted(s.handlers[name]) : name \in DOMAIN s.handlers}
Misread(e) == e.key # e.read
Compared == answer # None /\ answer.kind # "error"

(* A route reported missing is missing: nothing the inventory reads rightly serves  *)
(* that endpoint any more, and no registered route's handler has its method's name. *)
MissingIsReal ==
  Compared => \A r \in answer.missing : \E e \in Registered(asSaved) :
    /\ e.read = Key(r) /\ e.method = method(r.handler)
    /\ \A now \in Registered(svc) :
          now.literal => now.method # e.method /\ (now.key = e.key => Misread(now) \/ Misread(e))

(* A comparison is possible from the first save on, whatever happened to a later    *)
(* one; and an endpoint of the saved service that is served no more is reported,    *)
(* unless it could not be read, a registered handler bears the same method name, or *)
(* a path is misread: a group that came as a parameter, a constructor in a file of  *)
(* its own, two appended prefixes.                                                  *)
LostIsReportedUnlessNamesake ==
  /\ answer # None => (answer.kind = "error" <=> asSaved = None)
  /\ Compared => \A e \in Registered(asSaved) :
       \/ ~e.literal
       \/ \E now \in Registered(svc) : now.key = e.key
       \/ \E now \in Registered(svc) : now.literal /\ now.method = e.method
       \/ \E now \in Registered(svc) : now.read = e.read /\ (Misread(now) \/ Misread(e))
       \/ \E r \in answer.missing : Key(r) = e.read

(* The comparison says which endpoints the conversion lost. *)
ComparedTruly == MissingIsReal /\ LostIsReportedUnlessNamesake
=============================================================================
