-------------------------------- MODULE Objection --------------------------------
(***************************************************************************)
(* Objections: an accounts office (PAO) raises them on a drawing office    *)
(* (DDO), a principal accounts office (PrAO) on a PAO, in two tables with  *)
(* the same operations and different statuses.  The two sides answer with  *)
(* remarks until the objection is closed or rejected.                      *)
(***************************************************************************)
EXTENDS Integers, Sequences, FiniteSets, SequencesExt

CONSTANTS
  Codes,        \* codes of offices
  Draws,        \* the random numbers an identifier is made with
  Notes,        \* the remarks, each sent once
  MaxNow,       \* bound on the seconds; each is a day of its own
  MaxRaised     \* bound on the objections

VARIABLES
  objections,   \* pao.objection and pao.objection_prao, by table and identifier
  now,
  sent,         \* remarks sent
  confirmed     \* the remarks each objection's officers were told are recorded

objVars == <<objections, now, sent, confirmed>>

Tables == {"objection", "objection_prao"}

(* status_flag_pao_enum and status_flag_prao_enum. *)
Enum(tab) ==
  {"created", "rejected", "paoupdated", "closed"} \cup
  (IF tab = "objection" THEN {"ddoupdated"} ELSE {"praoupdated"})

(* What the requests may ask for: a creation cannot ask for "praoupdated".  The *)
(* closure of a PAO's objection does not validate its status.                   *)
CreateStatus == {"created", "paoupdated", "rejected", "ddoupdated", "closed"}
CommentStatus(tab) == CreateStatus \cup (IF tab = "objection" THEN {} ELSE {"praoupdated"})
ClosureStatus(tab) == IF tab = "objection" THEN Enum(tab) ELSE CreateStatus

(* generateObjectionID: code, second, and the first four digits of a number from *)
(* 1000 to 10998.                                                                *)
GenerateObjectionID(code, draw) ==
  <<code, now, IF draw + 1000 >= 10000 THEN (draw + 1000) \div 10 ELSE draw + 1000>>

ObjInit ==
  /\ objections = [k \in {} |-> << >>]
  /\ now = 0
  /\ sent = {}
  /\ confirmed = [k \in {} |-> << >>]

Keys == DOMAIN objections
Open(k) == objections[k].status \notin {"closed", "rejected"}

(* The insert of a new objection; an identifier in use is refused by the key.  The *)
(* identifier of an objection begins with the code of the DDO or PAO it is on.     *)
Raise(tab, by, on, draw, st) ==
  LET k == <<tab, GenerateObjectionID(on, draw)>> IN
  /\ st \in Enum(tab) /\ k \notin Keys /\ Cardinality(Keys) < MaxRaised
  /\ objections' = [x \in Keys \cup {k} |->
       IF x = k THEN [by |-> by, on |-> on, day |-> now, status |-> st, remarks |-> << >>] ELSE objections[x]]
  /\ confirmed' = [x \in Keys \cup {k} |-> IF x = k THEN << >> ELSE confirmed[x]]
  /\ UNCHANGED <<now, sent>>

ObjectionCreation(by, on, draw, st) == Raise("objection", by, on, draw, st)
ObjectionCreationPrao(by, on, draw, st) == Raise("objection_prao", by, on, draw, st)

CreateObjection(by, on, draw, st) == st \in CreateStatus /\ ObjectionCreation(by, on, draw, st)
CreateObjectionPrao(by, on, draw, st) == st \in CreateStatus /\ ObjectionCreationPrao(by, on, draw, st)

(* The same from another service: any status. *)
CreateObjectionGrpc(by, on, draw, st) == ObjectionCreation(by, on, draw, st)
CreateObjectionPraoGrpc(by, on, draw, st) == ObjectionCreationPrao(by, on, draw, st)

(* The update of a row of the table: no row, a final row or a status the table has *)
(* not are errors.                                                                 *)
Comment(tab, k, note, st) ==
  /\ k[1] = tab
  /\ note \notin sent /\ sent' = sent \cup {note}
  /\ IF k \in Keys /\ Open(k) /\ st \in Enum(tab)
     THEN /\ objections' = [objections EXCEPT ![k].remarks = Append(@, note), ![k].status = st]
          /\ confirmed' = [confirmed EXCEPT ![k] = Append(@, note)]
     ELSE UNCHANGED <<objections, confirmed>>
  /\ UNCHANGED now

ObjectionUpdate(k, note, st) == Comment("objection", k, note, st)
ObjectionClosure(k, note, st) == Comment("objection", k, note, st)
ObjectionUpdatePrao(k, note, st) == Comment("objection_prao", k, note, st)
ObjectionClosurePrao(k, note, st) == Comment("objection_prao", k, note, st)

UpdateObjection(k, note, st) == st \in CommentStatus("objection") /\ ObjectionUpdate(k, note, st)
UpdateObjectionPrao(k, note, st) == st \in CommentStatus("objection_prao") /\ ObjectionUpdatePrao(k, note, st)
UpdateObjectionClosure(k, note, st) == st \in ClosureStatus("objection") /\ ObjectionClosure(k, note, st)
UpdateObjectionClosurePrao(k, note, st) ==
  st \in ClosureStatus("objection_prao") /\ ObjectionClosurePrao(k, note, st)

NextSecond == now < MaxNow /\ now' = now + 1 /\ UNCHANGED <<objections, sent, confirmed>>

Statuses == Enum("objection") \cup Enum("objection_prao")

ObjNext ==
  \/ \E by, on \in Codes, draw \in Draws, st \in Statuses :
       \/ CreateObjection(by, on, draw, st)
       \/ CreateObjectionPrao(by, on, draw, st)
       \/ CreateObjectionGrpc(by, on, draw, st)
       \/ CreateObjectionPraoGrpc(by, on, draw, st)
  \/ \E k \in Keys, note \in Notes, st \in Statuses :
       \/ UpdateObjection(k, note, st)
       \/ UpdateObjectionPrao(k, note, st)
       \/ UpdateObjectionClosure(k, note, st)
       \/ UpdateObjectionClosurePrao(k, note, st)
  \/ NextSecond

--------------------------------------------------------------------------------
(* The lists: of one office, by status; "notclosed" is what has been answered and  *)
(* is not final.                                                                   *)

(* Mutant of Asked: a rejected objection is not closed. *)
AskedNotClosed(k, st) ==
  IF st = "notclosed" THEN objections[k].status \notin {"closed", "created"} ELSE objections[k].status = st
Asked(k, st) ==
  IF st = "notclosed" THEN objections[k].status \notin {"closed", "created", "rejected"}
  ELSE objections[k].status = st

Within(k, from, to) == from <= objections[k].day /\ objections[k].day <= to
Of(tab, st) == {k \in Keys : k[1] = tab /\ Asked(k, st)}

ObjectionPaocode(code, st) == {k \in Of("objection", st) : objections[k].by = code}
ObjectionDdocode(code, st) == {k \in Of("objection", st) : objections[k].on = code}
ObjectionPraocodePrao(code, st) == {k \in Of("objection_prao", st) : objections[k].by = code}
ObjectionPaocodePrao(code, st) == {k \in Of("objection_prao", st) : objections[k].on = code}

ObjectionPaocodeRpt(code, st, from, to) ==
  {k \in Of("objection", st) : objections[k].by = code /\ Within(k, from, to)}
ObjectionDdocodeRpt(code, st, from, to) ==
  {k \in Of("objection", st) : objections[k].on = code /\ Within(k, from, to)}
ObjectionPraocodePraoRpt(code, st, from, to) ==
  {k \in Of("objection_prao", st) : objections[k].by = code /\ Within(k, from, to)}
ObjectionPaocodePraoRpt(code, st, from, to) ==
  {k \in Of("objection_prao", st) : objections[k].on = code /\ Within(k, from, to)}

ListObjectionCode(type, code, st) ==
  IF type = 1 THEN ObjectionPaocode(code, st) ELSE ObjectionDdocode(code, st)
ListObjectionPraoCode(type, code, st) ==
  IF type = 1 THEN ObjectionPraocodePrao(code, st) ELSE ObjectionPaocodePrao(code, st)
ListObjectionPaoReport(type, code, st, from, to) ==
  IF type = 1 THEN ObjectionPaocodeRpt(code, st, from, to) ELSE ObjectionDdocodeRpt(code, st, from, to)
ListObjectionPraoReport(type, code, st, from, to) ==
  IF type = 1 THEN ObjectionPraocodePraoRpt(code, st, from, to) ELSE ObjectionPaocodePraoRpt(code, st, from, to)

(* What an office finds under a status, in the table where it is on that side. *)
Finds(tab, type, code, st) ==
  IF tab = "objection" THEN ListObjectionCode(type, code, st) ELSE ListObjectionPraoCode(type, code, st)
Reports(tab, type, code, st, from, to) ==
  IF tab = "objection" THEN ListObjectionPaoReport(type, code, st, from, to)
  ELSE ListObjectionPraoReport(type, code, st, from, to)

(* One objection by its identifier; the handlers answer with an error if there is none. *)
ObjectionPaoById(id) == {k \in Keys : k[1] = "objection" /\ k[2] = id}
ObjectionPraoById(id) == {k \in Keys : k[1] = "objection_prao" /\ k[2] = id}

FetchObjectionById(id) == IF ObjectionPaoById(id) = {} THEN "no rows" ELSE "found"
FetchObjectionPraoById(id) == IF ObjectionPraoById(id) = {} THEN "no rows" ELSE "found"

--------------------------------------------------------------------------------
(* Properties *)

(* Both offices find an open objection under "created" or "notclosed", in the list  *)
(* and in the report of its day, and find no other there.  Opened by its identifier *)
(* it is found, with every remark whose sender was told that it is recorded, in the *)
(* order of the answers, whatever both sides and a closing officer send at once.    *)
OpenIsFound ==
  /\ \A k \in Keys, type \in {1, 2} :
       LET code == IF type = 1 THEN objections[k].by ELSE objections[k].on
           listed(st) == k \in Finds(k[1], type, code, st)
           reported(st) == k \in Reports(k[1], type, code, st, objections[k].day, objections[k].day)
       IN /\ Open(k) <=> listed("created") \/ listed("notclosed")
          /\ Open(k) <=> reported("created") \/ reported("notclosed")
  /\ \A k \in Keys : objections[k].remarks = confirmed[k]
  /\ \A k \in Keys : "found" = IF k[1] = "objection" THEN FetchObjectionById(k[2])
                               ELSE FetchObjectionPraoById(k[2])
================================================================================
