------------------------------- MODULE Reversion -------------------------------
(***************************************************************************)
(* Taking cash books back.  An officer reverts an office from a date: the  *)
(* sub-accounts system deletes its cash books, the PAO tables lose theirs, *)
(* and one row per day in pao.reversion remembers what PFMS still holds.   *)
(* For what PFMS has booked, the officer later posts a negative entry: the *)
(* same lines with the signs turned.                                       *)
(*                                                                         *)
(* Two older handlers take the dates from a CSV file; they leave no row    *)
(* and only name one identifier in the file they answer with.              *)
(***************************************************************************)
EXTENDS Cashbook

CONSTANT MaxReverts   \* bound on the reversions ever asked for

ASSUME ReversionAssumption == MaxReverts \in Nat

VARIABLES
  rev,      \* pao.reversion: its rows, oldest first
  named,    \* the identifiers the CSV handlers answered with
  unsaved,  \* history: what a reversion took away without leaving a trace
  crossed,  \* history: cash books a reversion deleted while they were being submitted
  reverts   \* the reversions so far

rvars == <<rev, named, unsaved, crossed, reverts>>
allvars == <<vars, rvars>>

--------------------------------------------------------------------------------
(* What a reversion will take, and what it writes down about it *)

(* GetCashbookReversionList: the received cash books the officer chooses from.  *)
CashbookReversionList(ddo, from) == {b \in DOMAIN kafka : b.ddo = ddo /\ b.day >= from}

(* GetAllDatesForReversionRepo: the days received or listed from that date on.  *)
Swept(ddo, from) == {b \in DOMAIN kafka \cup DOMAIN main : b.ddo = ddo /\ b.day >= from}

(* GetPfmsSubmissionByDateRepo: the newest cash book submission that names the  *)
(* office and is stored under this date.                                        *)
SubmissionsOf(b) ==
  {i \in DOMAIN subm : /\ subm[i].type = "cb" /\ subm[i].day = b.day
                       /\ \E j \in DOMAIN subm[i].cbs : subm[i].cbs[j].ddo = b.ddo}

(* The row RevertCashbookPostHandler prepares for one day. *)
Classify(b, from) ==
  LET none == [ddo |-> b.ddo, from |-> from, day |-> b.day, type |-> "local_only", uid |-> 0, neg |-> "",
               del |-> "", revuid |-> 0]
      s == subm[Max(SubmissionsOf(b))]
  IN  IF SubmissionsOf(b) = {} THEN none
      ELSE IF s.status = "Success" THEN [none EXCEPT !.type = "with_pfms", !.uid = s.uid, !.neg = "NO"]
      ELSE IF s.status = "Pending" THEN [none EXCEPT !.type = "with_pfms", !.uid = s.uid, !.neg = "WAIT"]
      ELSE [none EXCEPT !.uid = s.uid]

(* GetAllDatesForReversionRepo orders the days. *)
OldestFirst(books) ==
  {s \in [1..Cardinality(books) -> books] : \A i, j \in DOMAIN s : i < j => s[i].day < s[j].day}

StartReversion(t, ddo, from) ==
  /\ Free(t) /\ reverts < MaxReverts
  /\ Swept(ddo, from) # {}
  /\ \E days \in OldestFirst(Swept(ddo, from)) :
       req' = [req EXCEPT ![t] =
         [op |-> "revert", pc |-> "ask", from |-> [ddo |-> ddo, day |-> from],
          rows |-> [i \in DOMAIN days |-> Classify(days[i], from)]]]
  /\ reverts' = reverts + 1
  /\ UNCHANGED <<tables, pfms, lost, faults, rev, named, unsaved, crossed>>

CsvRow(t, op, ddo, from) ==
  /\ Free(t) /\ reverts < MaxReverts
  /\ req' = [req EXCEPT ![t] =
       [op |-> op, pc |-> "ask", from |-> [ddo |-> ddo, day |-> from], rows |-> << >>]]
  /\ reverts' = reverts + 1
  /\ UNCHANGED <<tables, pfms, lost, faults, rev, named, unsaved, crossed>>

(* RevertCashbookHandler, one row of the file... *)
StartCsvRow(t, ddo, from) == CsvRow(t, "csv", ddo, from)

(* ... and RevertResubmitCashbookHandler, which asks for the day anew afterwards. *)
StartResubmitRow(t, ddo, from) == CsvRow(t, "csv_again", ddo, from)

FromFile(t) == req[t].op \in {"csv", "csv_again"}
Reverts(t) == req[t].op = "revert" \/ FromFile(t)

(* The sub-accounts system answers: the officer's request ends unless the status *)
(* is 200, the file's row goes on after any answer.                              *)
SubaccountsDeletes(t) ==
  /\ \/ At(t, "revert", "ask") /\ (Done(t) \/ req' = [req EXCEPT ![t].pc = "kafka"])
     \/ FromFile(t) /\ req[t].pc = "ask" /\ req' = [req EXCEPT ![t].pc = "kafka"]
  /\ UNCHANGED <<tables, pfms, lost, faults, rvars>>

--------------------------------------------------------------------------------
(* RevertCashbookRepo: three statements, each of its own *)

(* Mutant of Below: the day the officer names is left out. *)
BelowAfter(t) == {b \in Books : b.ddo = req[t].from.ddo /\ b.day > req[t].from.day}

Below(t) == {b \in Books : b.ddo = req[t].from.ddo /\ b.day >= req[t].from.day}

DeleteKafka(t) ==
  /\ Reverts(t) /\ req[t].pc = "kafka"
  /\ kafka' = Restrict(kafka, DOMAIN kafka \ Below(t))
  /\ req' = [req EXCEPT ![t].pc = "detail"]
  /\ UNCHANGED <<main, detail, subm, pfms, lost, faults, rvars>>

DeleteDetail(t) ==
  /\ Reverts(t) /\ req[t].pc = "detail"
  /\ detail' = detail \ (Below(t) \cap DOMAIN main)
  /\ req' = [req EXCEPT ![t].pc = "main"]
  /\ UNCHANGED <<kafka, main, subm, pfms, lost, faults, rvars>>

(* The identifiers of the listed cash books that this statement removes. *)
Dropped(t) == {main[b].uid : b \in Below(t) \cap DOMAIN main} \ {0}

(* What the officer's request read of the submissions, before it deleted anything. *)
Classified(t) == {req[t].rows[i].uid : i \in DOMAIN req[t].rows} \ {0}

(* The CSV handlers learn the identifier of the first day alone. *)
Learned(t) == IF req[t].from \in DOMAIN main THEN {main[req[t].from].uid} \ {0} ELSE {}

DeleteMain(t) ==
  /\ Reverts(t) /\ req[t].pc = "main"
  /\ Below(t) \cap detail = {}
  /\ main' = Restrict(main, DOMAIN main \ Below(t))
  /\ crossed' = crossed \cup {b \in Below(t) : \E s \in Threads : Submits(s) /\ b \in Range(req[s].cbs)}
  /\ IF FromFile(t)
     THEN /\ named' = named \cup Learned(t)
          /\ unsaved' = unsaved \cup (Dropped(t) \ Learned(t))
          /\ IF req[t].op = "csv" THEN Done(t) ELSE req' = [req EXCEPT ![t].pc = "again"]
     ELSE /\ req' = [req EXCEPT ![t].pc = "rows",
                       ![t].rows = [i \in DOMAIN @ |-> [@[i] EXCEPT !.del = "SUCCESS"]]]
          /\ unsaved' = unsaved \cup (Dropped(t) \ Classified(t))
          /\ UNCHANGED named
  /\ UNCHANGED <<kafka, detail, subm, pfms, lost, faults, rev, reverts>>

(* A statement fails (heads were verified again in between, or the database is  *)
(* away): the officer's request goes on to its rows, the file's row is skipped. *)
DeleteFails(t) ==
  /\ Reverts(t) /\ req[t].pc \in {"kafka", "detail", "main"}
  /\ IF req[t].pc = "main" /\ Below(t) \cap detail # {}
     THEN UNCHANGED faults
     ELSE faults < MaxFaults /\ faults' = faults + 1
  /\ IF FromFile(t) THEN Done(t)
     ELSE req' = [req EXCEPT ![t].pc = "rows",
                    ![t].rows = [i \in DOMAIN @ |-> [@[i] EXCEPT !.del = "FAILED"]]]
  /\ UNCHANGED <<tables, pfms, lost, rvars>>

(* The sub-accounts system is asked whether a day before is missing, and if none *)
(* is, to approve the day again: it arrives like the first time, with whatever   *)
(* it says by then.                                                              *)
ResubmitDay(t) ==
  LET b == req[t].from
      missing == {e \in Books : e.ddo = b.ddo /\ e.day < b.day} \ DOMAIN kafka
  IN
  /\ At(t, "csv_again", "again")
  /\ \/ UNCHANGED kafka
     \/ missing = {} /\ b \notin DOMAIN kafka /\ \E c \in Contents : kafka' = Put(kafka, b, c)
  /\ Done(t)
  /\ UNCHANGED <<main, detail, subm, pfms, lost, faults, rvars>>

(* Mutant of BulkInsertReversion: the first row of the batch alone. *)
BulkInsertReversionFirst(t) == rev' = Append(rev, Head(req[t].rows))

(* BulkInsertReversionRepo: all the rows or none. *)
BulkInsertReversion(t) == rev' = rev \o req[t].rows

(* When it fails the answer is 500, after the deletion. *)
FinishReversion(t) ==
  /\ At(t, "revert", "rows")
  /\ \/ BulkInsertReversion(t) /\ UNCHANGED <<unsaved, faults>>
     \/ /\ faults < MaxFaults /\ faults' = faults + 1
        /\ unsaved' = unsaved \cup Classified(t)
        /\ UNCHANGED rev
  /\ Done(t)
  /\ UNCHANGED <<tables, pfms, lost, named, crossed, reverts>>

--------------------------------------------------------------------------------
(* The negative entry *)

(* GetReversionPendingHandler and GetReversionRecordsHandler. *)
ReversionPending == {i \in DOMAIN rev : rev[i].type = "with_pfms" /\ rev[i].neg = "NO"}
ReversionRecords(ddos) == {i \in DOMAIN rev : rev[i].ddo \in ddos}

(* GetReversionRecordsRepo: what one reversion left behind. *)
RecordsOfReversion(ddo, from) == {i \in DOMAIN rev : rev[i].ddo = ddo /\ rev[i].from = from}

(* GetReversionByPfmsUIDRepo returns any one row of the identifier. *)
RowsOf(u) == {i \in DOMAIN rev : rev[i].uid = u}

(* GetPfmsSubmissionFullByUIDRepo and GetTeNumberByUIDRepo: the stored submission *)
(* must have been answered with Success, which brings the te_number.              *)
BookedSubmission(u) == {i \in GetCbRequestData(u) : subm[i].status = "Success"}

(* PostNegativeEntryHandler up to the first call. *)
StartNegative(t, u) ==
  /\ Free(t)
  /\ \E i \in RowsOf(u) : rev[i].type = "with_pfms" /\ rev[i].neg # "YES"
  /\ BookedSubmission(u) # {}
  /\ req' = [req EXCEPT ![t] = [op |-> "negative", pc |-> "send", of |-> u, uid |-> 0]]
  /\ UNCHANGED <<tables, pfms, lost, faults, rvars>>

(* TestPostNegativeEntryHandler, routed too: no reversion row is asked for. *)
StartTest(t, u) ==
  /\ Free(t)
  /\ BookedSubmission(u) # {}
  /\ req' = [req EXCEPT ![t] = [op |-> "test", pc |-> "send", of |-> u, uid |-> 0]]
  /\ UNCHANGED <<tables, pfms, lost, faults, rvars>>

Negates(t) == req[t].op \in {"negative", "test"}

(* SubmitPayloadToPfms: the calls, the last of which carries the reversal. *)
SubmitPayloadToPfms(t) ==
  LET u == req[t].of IN
  /\ Negates(t) /\ req[t].pc = "send"
  /\ NextUid <= MaxUid
  /\ pfms' = Put(pfms, NextUid,
       [by |-> IF req[t].op = "test" THEN "test" ELSE "reversal", cbs |-> pfms[u].cbs,
        amount |-> [o \in DdoCodes |-> -pfms[u].amount[o]], of |-> u, st |-> "sent", late |-> FALSE])
  /\ req' = [req EXCEPT ![t].pc = "answer", ![t].uid = NextUid]
  /\ UNCHANGED <<tables, lost, faults, rvars>>

(* An answer that does not say isSuccess = "0" counts as accepted, one without   *)
(* the field too.                                                                *)
NegativeAnswered(t) ==
  LET st == pfms[req[t].uid].st IN
  /\ Negates(t) /\ req[t].pc = "answer"
  /\ st # "sent"
  /\ \/ /\ st # "refused" /\ req[t].op = "negative"
        /\ req' = [req EXCEPT ![t].pc = "mark"]
        /\ UNCHANGED <<lost, faults>>
     \/ /\ st = "refused" \/ req[t].op = "test"
        /\ Done(t)
        /\ UNCHANGED <<lost, faults>>
     \/ /\ st = "refused" /\ req[t].op = "negative"
        /\ faults < MaxFaults /\ faults' = faults + 1
        /\ lost' = lost \cup {req[t].uid}
        /\ req' = [req EXCEPT ![t].pc = "mark"]
  /\ UNCHANGED <<tables, pfms, rvars>>

(* Mutant of UpdateReversionAfterPfms: no condition on the identifier. *)
UpdateReversionEveryRow(u, v) == rev' = [i \in DOMAIN rev |-> [rev[i] EXCEPT !.neg = "YES", !.revuid = v]]

(* UpdateReversionAfterPfmsRepo: every row of the identifier. *)
UpdateReversionAfterPfms(u, v) ==
  rev' = [i \in DOMAIN rev |->
            IF rev[i].uid = u THEN [rev[i] EXCEPT !.neg = "YES", !.revuid = v] ELSE rev[i]]

(* InsertPfmsSubmissionNew: the reversal among the submissions. *)
InsertPfmsSubmissionNew(u, v) == subm' = Append(subm, Submission(v, "cb_reversal", pfms[u].cbs, u))

(* Both are tried, and a failure of either is only logged. *)
MarkReversed(t) ==
  /\ At(t, "negative", "mark")
  /\ \/ UpdateReversionAfterPfms(req[t].of, req[t].uid) /\ UNCHANGED <<lost, faults>>
     \/ /\ faults < MaxFaults /\ faults' = faults + 1
        /\ lost' = lost \cup {req[t].uid}
        /\ UNCHANGED rev
  /\ req' = [req EXCEPT ![t].pc = "log"]
  /\ UNCHANGED <<tables, pfms, named, unsaved, crossed, reverts>>

FinishNegative(t) ==
  /\ At(t, "negative", "log")
  /\ \/ InsertPfmsSubmissionNew(req[t].of, req[t].uid) /\ UNCHANGED faults
     \/ faults < MaxFaults /\ faults' = faults + 1 /\ UNCHANGED subm
  /\ Done(t)
  /\ UNCHANGED <<kafka, main, detail, pfms, lost, rvars>>

(* A reversal or a negative entry stops half-way. *)
StopReversion(t) ==
  /\ Reverts(t) \/ Negates(t)
  /\ faults < MaxFaults
  /\ faults' = faults + 1
  /\ lost' = IF Negates(t) /\ req[t].pc \in {"answer", "mark"} THEN lost \cup {req[t].uid} ELSE lost
  /\ unsaved' = IF Reverts(t) /\ req[t].pc \notin {"ask", "again"}
                THEN unsaved \cup Dropped(t)
                       \cup Classified(t)
                ELSE unsaved
  /\ Done(t)
  /\ UNCHANGED <<tables, pfms, rev, named, crossed, reverts>>

--------------------------------------------------------------------------------
ReversionInit == CashbookInit /\ rev = << >> /\ named = {} /\ unsaved = {} /\ crossed = {} /\ reverts = 0

Revert(t) ==
  \/ \E ddo \in {b.ddo : b \in Books}, from \in Days : 
       StartReversion(t, ddo, from) \/ StartCsvRow(t, ddo, from) \/ StartResubmitRow(t, ddo, from)
  \/ SubaccountsDeletes(t) \/ DeleteKafka(t) \/ DeleteDetail(t) \/ DeleteMain(t) \/ DeleteFails(t)
  \/ FinishReversion(t) \/ ResubmitDay(t)

Negate(t) ==
  \/ \E u \in DOMAIN pfms : StartNegative(t, u) \/ StartTest(t, u)
  \/ SubmitPayloadToPfms(t) \/ NegativeAnswered(t)
  \/ MarkReversed(t) \/ FinishNegative(t)

CashbookStep ==
  \/ Outside
  \/ \E t \in Threads : Begin(t) \/ (Serve(t) /\ ~Reverts(t) /\ ~Negates(t))

ReversionNext ==
  \/ CashbookStep /\ UNCHANGED rvars
  \/ \E t \in Threads : Revert(t) \/ Negate(t) \/ StopReversion(t)

ReversionSpec == ReversionInit /\ [][ReversionNext]_allvars

--------------------------------------------------------------------------------
(* Properties *)

Quiet == \A t \in Threads : Free(t)

(* Another entry names one of its days as well, and its request did not care that *)
(* the day has an identifier: a resubmission, which takes no lease, or a first    *)
(* submission with an outdated list.                                              *)
TakenOver(u) ==
  \E v \in DOMAIN pfms \ {u} :
    /\ pfms[v].by = "resubmit" \/ pfms[v].late
    /\ Range(pfms[v].cbs) \cap Range(pfms[u].cbs) # {}

\* A resubmission of what was no longer shown as failed; its days may not be listed at all.
Unlisted(u) == pfms[u].by = "resubmit" /\ pfms[u].late

(* No entry that was logged as a submission is forgotten: a cash book is still  *)
(* listed under its identifier, or a reversion row or a CSV answer names it.    *)
(* The exceptions are reversions that ended before they wrote their rows, wrote *)
(* none, or had read the submissions before it, cash books deleted while being  *)
(* submitted, entries over whose identifier another request may have written    *)
(* its own, and resubmissions of what nobody shows as failed.                   *)
NothingForgotten ==
  Quiet =>
    \A u \in DOMAIN pfms :
      /\ pfms[u].by \in {"submit", "resubmit"}
      /\ u \notin unsaved /\ Range(pfms[u].cbs) \cap crossed = {}
      /\ GetCbRequestData(u) # {} /\ ~TakenOver(u) /\ ~Unlisted(u)
      => \/ \E c \in DOMAIN main : InBook(u, c) /\ main[c].uid = u
         \/ \E ddo \in {b.ddo : b \in Books}, from \in Days :
              \E i \in ReversionRecords({ddo}) \cap RecordsOfReversion(ddo, from) : rev[i].uid = u
         \/ u \in named

Cancelled(u) == \E v \in DOMAIN pfms : pfms[v].by = "reversal" /\ pfms[v].of = u /\ pfms[v].st = "Success"

(* A cash book shown as booked has not been cancelled by a negative entry, unless *)
(* it went to PFMS in one entry with a later day that was reverted, or its own    *)
(* deletion failed: PostNegativeEntryHandler does not look at db_deletion_status. *)
ShownMeansBooked ==
  \A b \in DOMAIN main :
    LET u == main[b].uid IN
    main[b].flag = "Success" /\ Cancelled(u)
      => Len(pfms[u].cbs) > 1 \/ \E i \in RowsOf(u) : rev[i].del = "FAILED"

(* A row that says YES has its reversal at PFMS: never one that was not sent, and *)
(* a refused one only when the answer lacked its isSuccess field.                 *)
NegativeIsPosted ==
  \A i \in DOMAIN rev :
    rev[i].neg = "YES" =>
      LET v == rev[i].revuid
      IN  /\ v \in DOMAIN pfms /\ pfms[v].of = rev[i].uid
          /\ Alive(v) \/ v \in lost \/ pfms[v].st = "Failed"

================================================================================
