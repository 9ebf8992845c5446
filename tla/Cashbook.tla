-------------------------------- MODULE Cashbook --------------------------------
(***************************************************************************)
(* The daily cash book of a DDO in the PAO accounting back end: it arrives *)
(* from the sub-accounts system, is listed, verified against the previous  *)
(* day, submitted to PFMS (the government ledger) and followed there until *)
(* it is booked or refused.  A request is a sequence of separate database  *)
(* statements and calls to PFMS; several requests run at once, and any of  *)
(* them may stop between two steps.                                        *)
(*                                                                         *)
(* Time is counted in units of some seconds.  It matters to one thing: the *)
(* lease TryStartSubmission takes on a cash book.                          *)
(***************************************************************************)
EXTENDS Integers, Sequences, FiniteSets, SequencesExt, FiniteSetsExt, Functions, PfmsPayload

CONSTANTS
  Books,        \* cash books, records [ddo, day]
  Contents,     \* what a cash book may say: [opening, closing, lines, mapped]
  Requests,     \* the lists of cash books a submission may name
  Threads,      \* requests being served at the same time
  MaxUid,       \* bound on the transfer entries ever built
  MaxVerified,  \* bound on the successive verifications
  MaxFaults,    \* bound on lost answers, failed inserts and requests that stop
  Lease,        \* the 50 seconds of TryStartSubmission
  CallLimit,    \* the 15 seconds of CallAPI
  DbLimit,      \* how long the statements of a submission take together
  PollLimit     \* the pending entries UpdatePfmsHandler asks about

ASSUME CashbookAssumption ==
  /\ \A b \in Books : b.day \in Nat
  /\ \A c \in Contents : c.closing \in Int
       /\ c.lines \in Seq([sign : {"+", "-"}, amount : Int, side : {"T", "F"}])
  /\ {Lease, CallLimit, DbLimit, MaxUid, MaxVerified, MaxFaults} \subseteq Nat
  /\ PollLimit \in Nat \ {0}
  /\ \A cbs \in Requests : cbs \in Seq(Books) /\ cbs # << >>

VARIABLES
  kafka,   \* pao.kafka_cash_book: the cash books received, with their content
  main,    \* pao.pfms_main: one row per listed cash book
  detail,  \* pao.pfms_detail: the cash books with verified heads of account
  subm,    \* pao.pfms_submission: its rows, oldest first
  pfms,    \* the transfer entries sent to PFMS, by unique identifier
  req,     \* the request each thread serves
  lost,    \* history: the entries whose request ended before it was recorded
  faults   \* the faults so far

vars == <<kafka, main, detail, subm, pfms, req, lost, faults>>
tables == <<kafka, main, detail, subm>>

--------------------------------------------------------------------------------
(* Rows *)

Flags == {"none", "Pending", "Success", "Failed"}
NoBal == -1

Put(f, k, v) == [x \in DOMAIN f \cup {k} |-> IF x = k THEN v ELSE f[x]]
Alive(u) == u \in DOMAIN pfms /\ pfms[u].st \in {"Pending", "Success"}
InBook(u, b) == \E i \in DOMAIN pfms[u].cbs : pfms[u].cbs[i] = b

Idle == [op |-> "idle"]
Free(t) == req[t] = Idle
At(t, op, pc) == req[t].op = op /\ req[t].pc = pc
Submits(t) == req[t].op \in {"submit", "resubmit"}
Done(t) == req' = [req EXCEPT ![t] = Idle]
Goto(t, pc) == req' = [req EXCEPT ![t].pc = pc, ![t].age = 0]

--------------------------------------------------------------------------------
(* Receiving and listing *)

(* The sub-accounts system closes the days of an office in order. *)
Arrive(b, c) ==
  /\ b \notin DOMAIN kafka
  /\ \A e \in Books : e.ddo = b.ddo /\ e.day < b.day => e \in DOMAIN kafka
  /\ kafka' = Put(kafka, b, c)
  /\ UNCHANGED <<main, detail, subm, pfms, req, lost, faults>>

NewRow == [ver |-> FALSE, gen |-> FALSE, flag |-> "none", uid |-> 0,
           opening |-> NoBal, closing |-> NoBal, lease |-> 0, at |-> 0]

(* GetDDOlistupdateRepo: the received cash books of the days without a row get one. *)
GetDDOlistupdate(from, to) ==
  LET missing == {b \in DOMAIN kafka : b.day \in from..to} \ DOMAIN main
  IN  main' = [b \in DOMAIN main \cup missing |-> IF b \in DOMAIN main THEN main[b] ELSE NewRow]

UpdateDDOCashbookList(from, to) ==
  /\ GetDDOlistupdate(IF from = to THEN to - 2 ELSE from, to)
  /\ main' # main
  /\ UNCHANGED <<kafka, detail, subm, pfms, req, lost, faults>>

(* GetPfmspendingRepo: the received cash books not generated yet. *)
PfmsPending == {b \in DOMAIN kafka : b \notin DOMAIN main \/ ~main[b].gen}

(* GetPfmsSubmissionStatusListRepo with one status. *)
PfmsSubmissionStatus(flag) == {b \in DOMAIN main : main[b].gen /\ main[b].flag = flag}

--------------------------------------------------------------------------------
(* Verification *)

Earlier(b) == {e \in DOMAIN main : e.ddo = b.ddo /\ e.day < b.day}

(* CheckPreviousCashbook: the newest earlier row of the office, if any. *)
Previous(b) == CHOOSE e \in Earlier(b) : \A f \in Earlier(b) : f.day <= e.day

ToLower == [f \in Flags |->
  CASE f = "Pending" -> "pending" [] f = "Success" -> "success" [] f = "Failed" -> "failed"
    [] OTHER -> f]

(* The guards on the previous cash book, as the handlers evaluate them: the *)
(* lower-cased flag is compared with capitalised words.                     *)
PreviousAllows(b, opening) ==
  Earlier(b) # {} =>
    LET p == main[Previous(b)]
    IN  /\ p.ver
        /\ p.gen
        /\ ToLower[p.flag] \notin {"Pending", "Failed"}
        /\ p.closing # NoBal => opening = p.closing

(* FetchDDOCashbookHandler: a cash book without entries is offered as empty. *)
FetchDDOCashbook(b) == IF kafka[b].lines = << >> THEN "verify_empty" ELSE "verify"

NextAt == 1 + Max({0} \cup {main[b].at : b \in DOMAIN main})

(* What was offered is checked against the previous day; the write is a step of *)
(* its own.                                                                     *)
Enter(t, op, b) ==
  /\ Free(t)
  /\ b \in DOMAIN kafka /\ NextAt <= MaxVerified
  /\ FetchDDOCashbook(b) = op
  /\ PreviousAllows(b, kafka[b].opening)
  /\ req' = [req EXCEPT ![t] = [op |-> op, pc |-> "write", book |-> b, content |-> kafka[b]]]
  /\ UNCHANGED <<tables, pfms, lost, faults>>

(* CreatePFMSVerificationHandler: the lines come with their heads of account. *)
StartVerification(t, b) == Enter(t, "verify", b) /\ kafka[b].mapped

(* CreateEmptyPFMSVerificationHandler: there are no lines to map. *)
StartEmptyVerification(t, b) == Enter(t, "verify_empty", b)

Verified(b, c) ==
  [main[b] EXCEPT !.ver = TRUE, !.opening = c.opening, !.closing = c.closing, !.at = NextAt]

(* PostPfmsverifiedRepo, one batch: without a row the foreign key refuses the *)
(* heads ("cashbook not received"), with heads already there the primary key  *)
(* does ("cashbook already verified").                                        *)
PostPfmsverified(t) ==
  LET b == req[t].book IN
  /\ At(t, "verify", "write")
  /\ IF b \in DOMAIN main /\ b \notin detail /\ NextAt <= MaxVerified
     THEN /\ main' = [main EXCEPT ![b] = Verified(b, req[t].content)]
          /\ detail' = detail \cup {b}
     ELSE UNCHANGED <<main, detail>>
  /\ Done(t)
  /\ UNCHANGED <<kafka, subm, pfms, lost, faults>>

(* PostEmptyPfmsverifiedRepo: an update of the row alone; an office without   *)
(* any balance needs no submission.                                           *)
PostEmptyPfmsverified(t) ==
  LET b == req[t].book
      c == req[t].content
      row == [Verified(b, c) EXCEPT !.gen = @ \/ (c.opening = 0 /\ c.closing = 0)]
  IN
  /\ At(t, "verify_empty", "write")
  /\ main' = IF b \in DOMAIN main /\ NextAt <= MaxVerified THEN [main EXCEPT ![b] = row] ELSE main
  /\ Done(t)
  /\ UNCHANGED <<kafka, detail, subm, pfms, lost, faults>>

--------------------------------------------------------------------------------
(* Submission to PFMS *)

NextUid == 1 + Cardinality(DOMAIN pfms)

\* Some of these cash books are not on the pending list, or no longer.
Outdated(cbs) == ~(Range(cbs) \subseteq PfmsPending)

(* FetchPfmsHandler takes any list of cash books: it asks neither whether they   *)
(* are still pending nor whether they were verified.  History: late says that    *)
(* the list was outdated when the request came.                                  *)
StartSubmission(t, cbs) ==
  /\ Free(t)
  /\ req' = [req EXCEPT ![t] = [op |-> "submit", pc |-> "lease", cbs |-> cbs, left |-> cbs,
                                uid |-> 0, age |-> 0, late |-> Outdated(cbs)]]
  /\ UNCHANGED <<tables, pfms, lost, faults>>

(* Mutant of TryStartSubmission: the lease of another request is not looked at. *)
TryStartSubmissionAnyway(t) ==
  LET b == Head(req[t].left) IN
  /\ At(t, "submit", "lease")
  /\ main' = IF b \in DOMAIN main THEN [main EXCEPT ![b].lease = Lease] ELSE main
  /\ req' = IF Len(req[t].left) = 1
            THEN [req EXCEPT ![t].pc = "read", ![t].left = << >>]
            ELSE [req EXCEPT ![t].left = Tail(@)]
  /\ UNCHANGED <<kafka, detail, subm, pfms, lost, faults>>

(* TryStartSubmission for the next cash book of the list: a lease of 50       *)
(* seconds, or the end of the request; leases taken before it stay.           *)
TryStartSubmission(t) ==
  LET b == Head(req[t].left) IN
  /\ At(t, "submit", "lease")
  /\ IF b \in DOMAIN main /\ main[b].lease = 0
     THEN /\ main' = [main EXCEPT ![b].lease = Lease]
          /\ req' = IF Len(req[t].left) = 1
                    THEN [req EXCEPT ![t].pc = "read", ![t].left = << >>]
                    ELSE [req EXCEPT ![t].left = Tail(@)]
     ELSE UNCHANGED main /\ Done(t)
  /\ UNCHANGED <<kafka, detail, subm, pfms, lost, faults>>

(* FetchPfmsReSubmissionHandler: the cash books of an earlier submission, which  *)
(* GetCbRequestData finds by the identifier; no lease is taken.  The officer     *)
(* picks it from the failed ones, and late says that none is shown as such any   *)
(* more: the handler does not ask.                                               *)
GetCbRequestData(u) == {i \in DOMAIN subm : subm[i].uid = u /\ subm[i].type = "cb"}

StartResubmission(t, u) ==
  /\ Free(t)
  /\ \E i \in GetCbRequestData(u) :
       req' = [req EXCEPT ![t] = [op |-> "resubmit", pc |-> "read", cbs |-> subm[i].cbs,
                                  left |-> << >>, uid |-> 0, age |-> 0,
                                  late |-> \A b \in PfmsSubmissionStatus("Failed") : main[b].uid # u]]
  /\ UNCHANGED <<tables, pfms, lost, faults>>

\* The places of the list whose cash book was received.
Received(cbs) == {i \in DOMAIN cbs : cbs[i] \in DOMAIN kafka}

(* GetPfmsJsonRepo: the lines of all the cash books of the request, each with    *)
(* its office.  They are produced by a database function outside the repository. *)
GetPfmsJson(cbs) ==
  LET places == UNION {{i} \X DOMAIN kafka[cbs[i]].lines : i \in Received(cbs)}
      line(p) == kafka[cbs[p[1]]].lines[p[2]]
  IN  [p \in places |-> [ddo |-> cbs[p[1]].ddo, sign |-> line(p).sign, amount |-> line(p).amount,
                         side |-> line(p).side]]

(* GetClosingBalanceRepo as the handler keeps it, in closingBalMap: per office   *)
(* the closing balance of the last cash book of the list that was received.      *)
LastOf(cbs, o) == Max({i \in Received(cbs) : cbs[i].ddo = o})
ClosingBalance(cbs) ==
  [o \in {cbs[i].ddo : i \in Received(cbs)} |-> kafka[cbs[LastOf(cbs, o)]].closing]

DdoCodes == {b.ddo : b \in Books}

Lines(t) == ProcessAmountAndSign(GetPfmsJson(req[t].cbs))

Build(t, op, refused) ==
  LET cbs == req[t].cbs
      payload == Payload(GetPfmsJson(cbs), ClosingBalance(cbs))
  IN
  /\ At(t, op, "read")
  /\ IF refused
     THEN Done(t) /\ UNCHANGED pfms
     ELSE /\ NextUid <= MaxUid
          /\ pfms' = Put(pfms, NextUid,
                [by |-> req[t].op, cbs |-> cbs, of |-> 0, st |-> "built", late |-> req[t].late,
                 amount |-> [o \in DdoCodes |-> Net(payload, o)]])
          /\ req' = [req EXCEPT ![t].pc = "login", ![t].uid = NextUid, ![t].age = 0]
  /\ UNCHANGED <<tables, lost, faults>>

(* The payload of a first submission, refused for too large a difference of an *)
(* office...                                                                   *)
BuildPayload(t) ==
  Build(t, "submit", DOMAIN Lines(t) = {} \/ TooFarOff(Lines(t), ClosingBalance(req[t].cbs)))

(* ... and of a resubmission, which closes whatever difference there is. *)
RebuildPayload(t) == Build(t, "resubmit", DOMAIN Lines(t) = {})

(* GetAuthCode and LogIn at PFMS. *)
LogIn(t) ==
  /\ Submits(t) /\ req[t].pc = "login"
  /\ Goto(t, "post")
  /\ pfms' = [pfms EXCEPT ![req[t].uid].st = "sent"]
  /\ UNCHANGED <<tables, lost, faults>>

(* PFMS takes an entry that was sent, or refuses it; later it books it or fails it. *)
PfmsTakes(u) ==
  /\ u \in DOMAIN pfms /\ pfms[u].st = "sent"
  /\ \E s \in {"Pending", "refused"} : pfms' = [pfms EXCEPT ![u].st = s]
  /\ UNCHANGED <<tables, req, lost, faults>>

PfmsDecides(u) ==
  /\ u \in DOMAIN pfms /\ pfms[u].st = "Pending"
  /\ \E s \in {"Success", "Failed"} : pfms' = [pfms EXCEPT ![u].st = s]
  /\ UNCHANGED <<tables, req, lost, faults>>

(* The answer of ReceiveTransferEntryData. *)
AnswerOf(t, op) ==
  /\ At(t, op, "post")
  /\ pfms[req[t].uid].st \notin {"built", "sent"}
  /\ IF pfms[req[t].uid].st = "refused" THEN Done(t) ELSE Goto(t, "record")
  /\ UNCHANGED <<tables, pfms, lost, faults>>

Answered(t) == AnswerOf(t, "submit")
ReAnswered(t) == AnswerOf(t, "resubmit")

(* Mutant of Recorded: the row does not say that its day is generated. *)
RecordedUngenerated(row, u) == [row EXCEPT !.uid = u, !.flag = "Pending"]
(* Mutant of Recorded: the answer to the last submission stays. *)
RecordedKeepingFlag(row, u) == [row EXCEPT !.uid = u, !.gen = TRUE]

Recorded(row, u) == [row EXCEPT !.uid = u, !.gen = TRUE, !.flag = "Pending"]

(* GetPfmsUpdateStatusRepo: one batch over the cash books of the request; a cash *)
(* book that was taken back meanwhile has no row to update, and that is no error. *)
GetPfmsUpdateStatus(t) ==
  /\ Submits(t) /\ req[t].pc = "record"
  /\ main' = [b \in DOMAIN main |->
                IF b \in Range(req[t].cbs) THEN Recorded(main[b], req[t].uid) ELSE main[b]]
  /\ Goto(t, "log")
  /\ UNCHANGED <<kafka, detail, subm, pfms, lost, faults>>

(* InsertPfmsSubmission; its failure is only written to the log, and the answer  *)
(* gives the identifier either way.                                              *)
Submission(u, type, cbs, of) ==
  [uid |-> u, type |-> type, cbs |-> cbs, day |-> Last(cbs).day, status |-> "Pending", of |-> of]

InsertPfmsSubmission(t) == subm' = Append(subm, Submission(req[t].uid, "cb", req[t].cbs, 0))

Finish(t, op) ==
  /\ At(t, op, "log")
  /\ \/ InsertPfmsSubmission(t) /\ UNCHANGED faults
     \/ /\ faults < MaxFaults
        /\ faults' = faults + 1
        /\ UNCHANGED subm
  /\ Done(t)
  /\ UNCHANGED <<kafka, main, detail, pfms, lost>>

FinishSubmission(t) == Finish(t, "submit")
FinishResubmission(t) == Finish(t, "resubmit")

--------------------------------------------------------------------------------
(* The answer PFMS gives later *)

(* GetCashbookPfmsStatusRepo: whether an office has submitted a day, asked by the *)
(* sub-accounts system; GetCashbookPfmsStatusHandler answers no for an unlisted   *)
(* one.  Submitted is not booked.                                                 *)
GetCashbookPfmsStatus(b) == main[b].gen
CashbookPfmsStatus(b) == b \in DOMAIN main /\ GetCashbookPfmsStatus(b)

(* UpdatePfmsSubmissionStatusHandler for one identifier: an entry PFMS does not *)
(* know ends the request.                                                       *)
AskStatus(t, u) ==
  /\ Free(t)
  /\ u \in DOMAIN pfms /\ pfms[u].st \in Flags
  /\ \/ \E b \in DOMAIN main : main[b].uid = u
     \/ \E i \in DOMAIN subm : subm[i].uid = u
  /\ req' = [req EXCEPT ![t] = [op |-> "status", pc |-> "main", uid |-> u, flag |-> pfms[u].st,
                                left |-> << >>]]
  /\ UNCHANGED <<tables, pfms, lost, faults>>

(* GetPendingPfmsUniqueIdsRepo: the oldest pending rows by verification date, in *)
(* an order the query may return.                                                *)
PendingRows == {b \in DOMAIN main : main[b].flag = "Pending"}
GetPendingPfmsUniqueIds ==
  LET n == IF Cardinality(PendingRows) < PollLimit THEN Cardinality(PendingRows) ELSE PollLimit
      oldest == {s \in [1..n -> PendingRows] :
                   /\ \A i, j \in 1..n : i < j => s[i] # s[j] /\ main[s[i]].at <= main[s[j]].at
                   /\ \A i \in 1..n : \A b \in PendingRows \ Range(s) : main[s[i]].at <= main[b].at}
  IN  {[i \in 1..n |-> main[s[i]].uid] : s \in oldest}

(* UpdatePfmsHandler: the oldest pending entries one after the other. *)
StartPoll(t) ==
  /\ Free(t)
  /\ PendingRows # {}
  /\ \E uids \in GetPendingPfmsUniqueIds :
       req' = [req EXCEPT ![t] = [op |-> "poll", pc |-> "ask", uid |-> 0, flag |-> "none", left |-> uids]]
  /\ UNCHANGED <<tables, pfms, lost, faults>>

PollAsks(t) ==
  LET u == Head(req[t].left) IN
  /\ At(t, "poll", "ask")
  /\ req' = [req EXCEPT ![t] = [op |-> "poll", pc |-> "main", uid |-> u, flag |-> pfms[u].st,
                                left |-> Tail(@.left)]]
  /\ UNCHANGED <<tables, pfms, lost, faults>>

Follows(t) == req[t].op \in {"status", "poll"}

(* UpdatePfmsSubmissionStatusRepo, statement by statement. *)
UpdateStatusInMain(t) ==
  /\ Follows(t) /\ req[t].pc = "main"
  /\ main' = [b \in DOMAIN main |->
                IF main[b].uid = req[t].uid THEN [main[b] EXCEPT !.flag = req[t].flag] ELSE main[b]]
  /\ req' = [req EXCEPT ![t].pc = "submission"]
  /\ UNCHANGED <<kafka, detail, subm, pfms, lost, faults>>

UpdateStatusInSubmission(t) ==
  /\ Follows(t) /\ req[t].pc = "submission"
  /\ subm' = [i \in DOMAIN subm |->
                IF subm[i].uid = req[t].uid THEN [subm[i] EXCEPT !.status = req[t].flag] ELSE subm[i]]
  /\ req' = [req EXCEPT ![t] = IF @.left = << >> THEN Idle ELSE [@ EXCEPT !.pc = "ask"]]
  /\ UNCHANGED <<kafka, main, detail, pfms, lost, faults>>

--------------------------------------------------------------------------------
(* Faults and time *)

(* A request stops where it stands: its call to PFMS fails or times out, a      *)
(* statement fails, the client or the process goes away.  What it sent may      *)
(* still reach PFMS.                                                            *)
Unrecorded(t) == Submits(t) /\ req[t].pc \in {"post", "record"}

Stop(t) ==
  /\ ~Free(t)
  /\ faults < MaxFaults
  /\ faults' = faults + 1
  /\ lost' = IF Unrecorded(t) THEN lost \cup {req[t].uid} ELSE lost
  /\ Done(t)
  /\ UNCHANGED <<tables, pfms>>

(* How long a stage of a submission may last: the calls have their timeout, the *)
(* statements what the instance grants them.                                    *)
StageLimit(t) ==
  CASE req[t].pc = "login" -> 2 * CallLimit
    [] req[t].pc = "post" -> CallLimit
    [] OTHER -> DbLimit

Tick ==
  /\ \E b \in DOMAIN main : main[b].lease > 0
  /\ \A t \in Threads : Submits(t) => req[t].age < StageLimit(t)
  /\ main' = [b \in DOMAIN main |-> [main[b] EXCEPT !.lease = Max({0, @ - 1})]]
  /\ req' = [t \in Threads |-> IF Submits(t) THEN [req[t] EXCEPT !.age = @ + 1] ELSE req[t]]
  /\ UNCHANGED <<kafka, detail, subm, pfms, lost, faults>>

--------------------------------------------------------------------------------
Days == {b.day : b \in Books}

CashbookInit ==
  /\ kafka = << >> /\ main = << >> /\ detail = {} /\ subm = << >>
  /\ pfms = << >>
  /\ req = [t \in Threads |-> Idle]
  /\ lost = {} /\ faults = 0

Serve(t) ==
  \/ PostPfmsverified(t) \/ PostEmptyPfmsverified(t)
  \/ TryStartSubmission(t) \/ BuildPayload(t) \/ RebuildPayload(t) \/ LogIn(t)
  \/ Answered(t) \/ ReAnswered(t)
  \/ GetPfmsUpdateStatus(t) \/ FinishSubmission(t) \/ FinishResubmission(t)
  \/ PollAsks(t) \/ UpdateStatusInMain(t) \/ UpdateStatusInSubmission(t)
  \/ Stop(t)

Begin(t) ==
  \/ \E b \in Books : StartVerification(t, b) \/ StartEmptyVerification(t, b)
  \/ \E cbs \in Requests : StartSubmission(t, cbs)
  \/ \E u \in 1..MaxUid : StartResubmission(t, u) \/ AskStatus(t, u)
  \/ StartPoll(t)

Outside ==
  \/ \E b \in Books, c \in Contents : Arrive(b, c)
  \/ \E from, to \in Days : UpdateDDOCashbookList(from, to)
  \/ \E u \in 1..MaxUid : PfmsTakes(u) \/ PfmsDecides(u)
  \/ Tick

CashbookNext == Outside \/ \E t \in Threads : Begin(t) \/ Serve(t)

CashbookSpec == CashbookInit /\ [][CashbookNext]_vars

--------------------------------------------------------------------------------
(* Properties *)

(* What the answer "PFMS submission in progress for this DDO" of                *)
(* FetchPfmsHandler promises: two submissions never hold the same cash book at  *)
(* the same time.  It needs the lease to outlive the three calls and every      *)
(* statement between them.                                                      *)
InFlight(t) == At(t, "submit", "read") \/ At(t, "submit", "login")
               \/ At(t, "submit", "post") \/ At(t, "submit", "record")

OneSubmissionInFlight ==
  \A t1, t2 \in Threads :
    t1 # t2 /\ InFlight(t1) /\ InFlight(t2) => Range(req[t1].cbs) \cap Range(req[t2].cbs) = {}

(* PFMS books a cash book twice only when the first submission's outcome never  *)
(* reached pfms_main, when the second was a resubmission, which takes no lease, *)
(* or when the second came with an outdated list, of which some cash book was   *)
(* already generated: FetchPfmsHandler does not look.  Two submissions of lists *)
(* that were both pending, however close together, do not do it: there it takes *)
(* the lease to outlive a whole submission, and the record to be made before it *)
(* ends.                                                                        *)
BookedTwiceOnlyAfterALoss ==
  \A u, v \in DOMAIN pfms : \A b \in Books :
    u < v /\ Alive(u) /\ Alive(v) /\ InBook(u, b) /\ InBook(v, b)
      => u \in lost \/ pfms[v].by = "resubmit" \/ pfms[v].late

(* A final answer in pfms_main or pfms_submission is the one PFMS gave to that  *)
(* very entry, however late the statement that wrote it and whatever            *)
(* resubmission came in between; and a day the sub-accounts system is told was  *)
(* submitted is in the entry its row names, or had nothing to submit.           *)
FinalFlagsAreTrue ==
  /\ \A b \in DOMAIN main :
       main[b].flag \in {"Success", "Failed"} => pfms[main[b].uid].st = main[b].flag
  /\ \A i \in DOMAIN subm :
       subm[i].status \in {"Success", "Failed"} => pfms[subm[i].uid].st = subm[i].status
  /\ \A b \in Books :
       CashbookPfmsStatus(b) =>
         \/ main[b].uid # 0 /\ InBook(main[b].uid, b)
         \/ main[b].opening = 0 /\ main[b].closing = 0

(* The entry PFMS receives closes for every office that has a line in it, on    *)
(* its own: receipts less payments are twice the closing balance of the last    *)
(* cash book the list has of that office, whatever the signs and amounts of the *)
(* generated lines.  (An office without lines gets none, whatever its balance.) *)
EntriesBalance ==
  \A u \in DOMAIN pfms :
    LET cbs == pfms[u].cbs
    IN  pfms[u].by \in {"submit", "resubmit"} =>
          \A o \in Offices(GetPfmsJson(cbs)) : pfms[u].amount[o] = 2 * ClosingBalance(cbs)[o]
================================================================================
