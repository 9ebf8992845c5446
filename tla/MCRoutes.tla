------------------------------ MODULE MCRoutes ------------------------------
(***************************************************************************)
(* For RouteInventory: a service of four legacy routes, one of them          *)
(* registered by a helper on a group it is given.  A step of the           *)
(* conversion moves one route to a handler, under the same path or the     *)
(* handler's own, its method renamed or not; loses one; hides one behind a *)
(* variable; gives a handler another prefix chain or file; adds a route.   *)
(***************************************************************************)
EXTENDS Integers, Sequences

Group(var, parent, lit) == [kind |-> "group", var |-> var, parent |-> parent, lit |-> lit]
Route(recv, verb, path, name) ==
  [kind |-> "route", recv |-> recv, verb |-> verb, path |-> path, literal |-> TRUE, handler |-> <<"h", name>>]
Handler(adds) == [set |-> <<"v1">>, adds |-> adds, apart |-> FALSE, routes |-> <<>>]
MCServices ==
  {[main |-> <<Group("v1", "r", <<"v1">>), Group("awards", "v1", <<"awards">>),
               Route("awards", "GET", <<":id">>, "fetch"), Route("awards", "GET", <<>>, "list"),
               Route("v1", "POST", <<"claims">>, "create")>>,
    helper |-> <<Group("lines", "g", <<"lines">>), Route("lines", "GET", <<":id">>, "list")>>,
    given |-> "awards",
    handlers |-> [Award |-> Handler(<<<<"awards">>>>), Claim |-> Handler(<<<<"claims">>>>)]]}

Without(body, i) == SubSeq(body, 1, i - 1) \o SubSeq(body, i + 1, Len(body))
(* A moved route keeps what of its path the handler's prefix does not say already. *)
Moved(st, renamed) ==
  [st EXCEPT !.path = IF @ = <<":id">> THEN <<":award-id">> ELSE IF @ = <<"claims">> THEN <<>> ELSE @,
             !.handler = <<"c", IF renamed THEN "fetch all" ELSE @[2]>>]
MCConversions(s) ==
  LET routes(body) == {i \in DOMAIN body : body[i].kind = "route"}
      In(part) == UNION {
        {[s EXCEPT ![part] = Without(@, i)], [s EXCEPT ![part][i].literal = FALSE]}
        \cup {[s EXCEPT ![part] = Without(@, i), !.handlers[h].routes = Append(@, Moved(s[part][i], renamed))] :
                h \in DOMAIN s.handlers, renamed \in BOOLEAN} : i \in routes(s[part])}
      Rebuilt(h) == {[s EXCEPT !.handlers[h].apart = TRUE], [s EXCEPT !.handlers[h].adds = Append(@, <<"all">>)],
                     [s EXCEPT !.handlers[h].routes = Append(@, Route("c", "GET", <<"lines">>, "list"))]}
  IN  In("main") \cup In("helper") \cup Rebuilt("Award")
=============================================================================
