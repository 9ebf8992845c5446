------------------------------- MODULE Lists -------------------------------
(***************************************************************************)
(* Reading a list of the PAO backend page by page, while its table         *)
(* changes.                                                                *)
(*                                                                         *)
(* Every list handler binds skip and limit, reads a limit of 0 as no       *)
(* limit, runs one query and reports the number of rows it returns; no     *)
(* answer carries a total, so a reader goes on until a page comes back     *)
(* short.  Each request is a query of its own: between two of them rows    *)
(* arrive, leave and move, and the database returns rows the query does    *)
(* not order in whatever order it likes, afresh each time.                 *)
(***************************************************************************)
EXTENDS ListShapes, Naturals, FiniteSets, Sequences

CONSTANTS Row,          \* rows the table may hold (integers)
          Limit,        \* limits a reader asks for, 0 among them
          Ten,          \* the fixed LIMIT of the search boxes
          MaxChanges,   \* bound: changes of the table during one reading
          MaxCalls      \* bound: requests of one reading

VARIABLES list,     \* the handler read, as ListShapes describes it
          unit,     \* what the reader counts skip in: "page" or "record"
          limit,    \* the limit it asks for
          table,    \* rows the request matches now
          place,    \* where the query's order puts each row
          skip,     \* what the reader asks next
          seen,     \* how often each row was shown
          calls,    \* requests made
          done,     \* the reader has met a short page
          gone,     \* rows left or moved since the reading began
          come,     \* rows arrived or moved since the reading began
          steady    \* rows that were there all the time, unmoved

listVars == <<list, unit, limit, table, place, skip, seen, calls, done, gone, come, steady>>

(* ddo_master is filled by CreateDdomasterHandler, which refuses a code it has;
   the other tables are filled by the modules that own them. *)
OfDdoMaster(l) == l.query.key = {"ddo_code"}

Min2(a, b) == IF a < b THEN a ELSE b

(* In a total order no two rows share a place. *)
Apart(l, rows, at) == Total(l.query) => \A r, s \in rows : r /= s => at[r] /= at[s]

(* Every order the database may return the rows in. *)
Orders ==
  {s \in [1 .. Cardinality(table) -> table] :
     /\ \A i, j \in DOMAIN s : i < j => s[i] /= s[j] /\ place[s[i]] <= place[s[j]]}

(* The window of the query that skip and limit select; 0 and an unbound limit are
   math.MaxInt32, which no table reaches. *)
NoLimit == Cardinality(Row) + 1
AskedFor == IF list.binds /\ limit /= 0 THEN limit ELSE NoLimit
Offset ==
  LET n == IF list.binds THEN skip ELSE 0
  IN CASE list.query.step = "page"   -> n * AskedFor
       [] list.query.step = "record" -> n
       [] OTHER                      -> 0
Take ==
  CASE list.query.step = "all" -> NoLimit
    [] list.query.step = "ten" -> Ten
    [] list.query.step = "one" -> 1
    [] OTHER                   -> AskedFor
Window(s) == {s[i] : i \in {j \in DOMAIN s : Offset < j /\ j <= Offset + Take}}

(* Rows the answer does not tell apart look like one. *)
Look(r) == IF Tells(list) THEN r ELSE CHOOSE x \in Row : TRUE

-----------------------------------------------------------------------------
Unread ==
  /\ skip = 0 /\ calls = 0 /\ done = FALSE
  /\ seen = [r \in Row |-> 0]
  /\ gone = 0 /\ come = 0
  /\ steady = table

ListsInit ==
  /\ list \in Handlers
  /\ unit \in {"page", "record"}
  /\ limit \in Limit
  /\ table \in SUBSET Row
  /\ place \in [Row -> Row]
  /\ Apart(list, Row, place)
  /\ Unread

(* No list is being read. *)
ListsAtRest ==
  /\ list = ListDDOPFMSHandler /\ unit = "page" /\ limit = 0
  /\ table = {} /\ place = [r \in Row |-> r]
  /\ Unread

(* One request: the handler answers a window of some order of the rows.  The reader
   stops at a page shorter than its limit; a search box and a lookup are one call. *)
Read ==
  /\ ~done /\ calls < MaxCalls
  /\ \E s \in Orders :
       LET page == Window(s)
           n    == Cardinality(page)
       IN /\ seen' = [r \in Row |-> seen[r] + Cardinality({x \in page : Look(x) = r})]
          /\ done' = (n < AskedFor \/ list.query.step \in {"ten", "one"})
          /\ skip' = skip + (IF unit = "page" THEN 1 ELSE n)
  /\ calls' = calls + 1
  /\ UNCHANGED <<list, unit, limit, table, place, gone, come, steady>>

Changing == ~done /\ calls > 0 /\ gone + come < MaxChanges

(* A row comes to match the request. *)
Arrive(r) ==
  /\ Changing /\ r \notin table
  /\ table' = table \cup {r}
  /\ come' = come + 1
  /\ UNCHANGED <<list, unit, limit, place, skip, seen, calls, done, gone, steady>>

(* CreateDdomasterHandler: a code the table has is a conflict, and changes nothing. *)
CreateDdomaster(r) == OfDdoMaster(list) /\ Arrive(r)
Booked(r) == ~OfDdoMaster(list) /\ Arrive(r)

(* A row stops matching: verified, submitted, closed, or no longer valid. *)
Leave(r) ==
  /\ Changing /\ r \in table
  /\ table' = table \ {r}
  /\ steady' = steady \ {r}
  /\ gone' = gone + 1
  /\ UNCHANGED <<list, unit, limit, place, skip, seen, calls, done, come>>

(* A column the query orders by is written. *)
Move(r, p) ==
  /\ Changing /\ r \in table /\ p /= place[r] /\ ~OfDdoMaster(list)
  /\ place' = [place EXCEPT ![r] = p]
  /\ Apart(list, table, place')
  /\ steady' = steady \ {r}
  /\ gone' = gone + 1 /\ come' = come + 1
  /\ UNCHANGED <<list, unit, limit, table, skip, seen, calls, done>>

ListsNext ==
  \/ Read
  \/ \E r \in Row : CreateDdomaster(r) \/ Booked(r) \/ Leave(r)
  \/ \E r, p \in Row : Move(r, p)

ListsSpec == ListsInit /\ [][ListsNext]_listVars

-----------------------------------------------------------------------------
(* The reader's way of counting is the query's, or it asks for everything. *)
Matched == unit = list.query.step \/ AskedFor = NoLimit
(* The lists that can be read in pages: their handlers' queries order the rows all
   the way down to what tells them apart, and the answers show it. *)
Settled ==
  {ListDDOHandler(pao) : pao \in {"000001", "999999"}} \cup
  { ListDDOPFMSHandler, ListDdoPfmsMonthlyHandler, ListDdoPfmsMonthlyOffHandler,
    GetCashbookReversionListHandler, FetchDdoMonthlyDetailHandler(FALSE),
    ListDdoPfmsStatusHandler, ListPfmsSubmissionStatusHandler,
    FetchPraoAccountSubStatusHandler }
Sound == list \in Settled
(* The lists whose answers leave out what tells two rows apart. *)
Blurred == {ListDdoTransferEntryReportHandler} \cup
           {ListRemunerationRateDetailHandler(type) : type \in {1, 3}}
(* The whole list in one call, whatever the order. *)
AtOnce == AskedFor = NoLimit /\ list.query.step \in {"page", "record", "all"} /\ list \notin Blurred

(* A reader that counts the way the repository does (or asks for everything) and
   meets no change is shown every row exactly once: the window, the order and the
   columns shown of these handlers fit together. *)
CompleteWhenQuiet ==
  done /\ gone + come = 0 /\ ((Sound /\ Matched) \/ AtOnce)
    => \A r \in Row : seen[r] = (IF r \in table THEN 1 ELSE 0)

(* A row that stayed where it was is passed over only when another one left or
   moved between two requests: arrivals alone push rows back, never forward. *)
MissedOnlyAfterADeparture ==
  done /\ Sound /\ Matched /\ gone = 0 => \A r \in steady : seen[r] >= 1

(* And it is shown twice only when another one arrived or moved. *)
TwiceOnlyAfterAnArrival ==
  Sound /\ Matched /\ come = 0 => \A r \in steady : seen[r] <= 1

(* What an officer may rely on who reads a list page by page. *)
ReadingIsComplete == CompleteWhenQuiet /\ MissedOnlyAfterADeparture /\ TwiceOnlyAfterAnArrival
============================================================================
