----------------------------- MODULE TransferEntry -----------------------------
(***************************************************************************)
(* The transfer entries a PAO makes itself: created in one copy, verified  *)
(* against the budget or rejected, submitted to PFMS, answered, reset, and *)
(* cancelled by a negative entry.  The entry id is the PAO's code and the  *)
(* second of creation, so the model's ids are the seconds of one PAO.      *)
(***************************************************************************)
EXTENDS PfmsPayload, Sequences, FiniteSetsExt

CONSTANTS
  ExemptedHeads, \* the 22 heads of major 3201 that are not checked
  PensionHeads,  \* the two heads that begin with 801606101010500 and 801606101020500
  Batches,     \* what may be created at once: functions from heads to [type, amount]
  Threads,     \* requests being served at the same time
  MaxSecond,   \* bound on the clock, and so on the ids
  MaxUid,      \* bound on the payloads PFMS takes
  MaxFaults    \* bound on lost answers, failed statements and stopped requests

ASSUME TransferEntryAssumption ==
  /\ \A b \in Batches : IsFiniteSet(DOMAIN b)
  /\ \A b \in Batches : \A h \in DOMAIN b : b[h].type \in {"D", "C"} /\ b[h].amount \in Int
  /\ {MaxSecond, MaxUid, MaxFaults} \subseteq Nat

VARIABLES
  second,     \* time.Now in seconds
  rows,       \* pao.transfer_entry, by head and transfer_entry_id
  sub,        \* pao.pfms_submission: the rows of type te and terev, by pfms_unique_id
  reversals,  \* pao.pfms_te_reversal: [original, reversal, status]
  budget,     \* the budget service: what it consumed for each entry id
  pfms,       \* what PFMS took, in order; the position is the pfms_unique_id
  req,        \* the request each thread serves
  contested,  \* ids two officers decided on at once, that two creations share, or left half verified
  adrift,     \* ids whose PFMS posting the tables may not know, or that was reset
  faults

tables == <<rows, sub, reversals>>
outside == <<budget, pfms>>
ghosts == <<contested, adrift>>
vars == <<second, tables, outside, req, ghosts, faults>>

--------------------------------------------------------------------------------
(* What a head of account decides.  A head is <<major, rest, object>>: its first   *)
(* four digits, the digits between, and the last two, the object head.             *)

PostedMajors == {"5201", "7610", "2552", "4552"}
UncheckedObjects == {"01", "04", "05", "07", "70"}

(* shouldPostToBudget: the entry is sent to the budget service. *)
ShouldPostToBudget(h) == h[1] \in PostedMajors \cup {"3201"} \/ h \in PensionHeads

(* shouldCheckBudget: the heads a validation is planned for. *)
ShouldCheckBudget(h) ==
  IF h[1] = "3201" THEN h[3] \notin UncheckedObjects /\ h \notin ExemptedHeads
  ELSE h[1] \in PostedMajors \/ h \in PensionHeads

(* getFinancialYear: the budget names a financial year by the year of its April. *)
FinancialYear(date) == IF date.m >= 4 THEN date.y ELSE date.y - 1

(* CreatePfmsTeHandler names it by the year of its March. *)
PfmsFinYear(date) == IF date.m >= 4 THEN date.y + 1 ELSE date.y

--------------------------------------------------------------------------------
Ids == 1..MaxSecond

Put(f, k, v) == [x \in DOMAIN f \cup {k} |-> IF x = k THEN v ELSE f[x]]
RowsOf(id) == {k \in DOMAIN rows : k[2] = id}
HasStatus(id, s) == RowsOf(id) # {} /\ \A k \in RowsOf(id) : rows[k].status = s

Idle == [op |-> "idle", ids |-> {}]
Free(t) == req[t] = Idle
At(t, op, pc) == req[t].op = op /\ req[t].pc = pc
Done(t) == req' = [req EXCEPT ![t] = Idle]
Goto(t, pc) == req' = [req EXCEPT ![t].pc = pc]
Fault == faults < MaxFaults /\ faults' = faults + 1
HeldByOther(t, ids) == {id \in ids : \E u \in Threads \ {t} : id \in req[u].ids}

--------------------------------------------------------------------------------
(* Creation *)

(* The code adds debits and credits up and compares the two sums. *)
SideSum(b, type) == SumOf([h \in DOMAIN b |-> b[h].amount], {h \in DOMAIN b : b[h].type = type})
Balanced(b) == SideSum(b, "D") = SideSum(b, "C")

NewRow(line, status, by) ==
  [type |-> line.type, amount |-> line.amount, status |-> status, by |-> by,
   uid |-> 0, flag |-> "none", gen |-> FALSE]

(* One COPY: refused as a whole when a head of this id is there already. *)
Copy(b, status, by) ==
  LET new == {<<h, second>> : h \in DOMAIN b} IN
  /\ new \cap DOMAIN rows = {}
  /\ rows' = [k \in DOMAIN rows \cup new |->
                IF k \in new THEN NewRow(b[k[1]], status, by) ELSE rows[k]]

TransferentryCreation(b) == Copy(b, "created", "officer")

(* TransferentryDirectCreationRepo stores the status it is given. *)
TransferentryDirectCreation(b, status) ==
  Copy(b, status, IF status = "verified" THEN "direct" ELSE "officer")

(* The handlers compare the sums; two creations of one second share their id. *)
Created(b) ==
  /\ Balanced(b)
  /\ contested' = IF RowsOf(second) = {} THEN contested ELSE contested \cup {second}
  /\ adrift' = IF RowsOf(second) = {} THEN adrift ELSE adrift \cup {second}
  /\ UNCHANGED <<second, sub, reversals, outside, req, faults>>

CreateTransferEntry(b) == Created(b) /\ TransferentryCreation(b)
CreateTransferEntryGrpc(b) == Created(b) /\ TransferentryCreation(b)
CreateTransferEntryDirect(b) == Created(b) /\ TransferentryDirectCreation(b, "verified")
CreateTransferEntryDirectGrpc(b) == Created(b) /\ TransferentryDirectCreation(b, "verified")

(* The office id must be known to ddo_master; the model's office is. *)
CreateTransferEntryDirectBRS(b) == Created(b) /\ TransferentryDirectCreation(b, "created")

Tick ==
  /\ second < MaxSecond
  /\ second' = second + 1
  /\ UNCHANGED <<tables, outside, req, ghosts, faults>>

--------------------------------------------------------------------------------
(* Verification and rejection *)

(* Mutant of TransferentryReport: entries of every status are offered. *)
TransferentryReportEvery(status, gen) == {k \in DOMAIN rows : rows[k].gen = gen}

(* TransferentryReportRepo: the entries by status and by PFMS flags. *)
TransferentryReport(status, gen) ==
  {k \in DOMAIN rows : rows[k].status = status /\ rows[k].gen = gen}

(* An officer takes an entry from the list of created ones. *)
TakeCreated(t, op, id) ==
  /\ Free(t)
  /\ RowsOf(id) # {} /\ RowsOf(id) \subseteq TransferentryReport("created", FALSE)
  /\ req' = [req EXCEPT ![t] = [op |-> op, pc |-> "ask", ids |-> {id},
               lines |-> [h \in {k[1] : k \in RowsOf(id)} |-> rows[<<h, id>>]]]]
  /\ contested' = contested \cup HeldByOther(t, {id})
  /\ UNCHANGED <<second, tables, outside, adrift, faults>>

TakeToVerify(t, id) == TakeCreated(t, "verify", id)
TakeToReject(t, id) == TakeCreated(t, "reject", id)

TheId(t) == CHOOSE id \in req[t].ids : TRUE

(* A credit frees budget, a debit consumes it. *)
Consumed(line) == IF line.type = "C" THEN -line.amount ELSE line.amount
BudgetLines(lines) == {h \in DOMAIN lines : ShouldPostToBudget(h)}
BudgetSum(lines) == SumOf([h \in BudgetLines(lines) |-> Consumed(lines[h])], BudgetLines(lines))

(* UpdateTransferEntryVerifyHandler asks the budget service about all the rows at *)
(* once; it does not look at the status the entry has by now.                     *)
AskBudget(t) ==
  LET id == TheId(t)
      consume == budget' = [budget EXCEPT ![id] = @ + BudgetSum(req[t].lines)]
  IN
  /\ At(t, "verify", "ask")
  /\ \/ /\ BudgetLines(req[t].lines) = {}
        /\ Goto(t, "store") /\ UNCHANGED <<budget, contested, faults>>
     \/ /\ BudgetLines(req[t].lines) # {}
        /\ \/ consume /\ Goto(t, "store") /\ UNCHANGED <<contested, faults>>
           \/ Done(t) /\ UNCHANGED <<budget, contested, faults>>          \* success is false: 422
           \/ consume /\ Done(t) /\ Fault /\ contested' = contested \cup {id}  \* no answer
  /\ UNCHANGED <<second, tables, pfms, adrift>>

SetStatus(id, s) ==
  rows' = [k \in DOMAIN rows |-> IF k[2] = id THEN [rows[k] EXCEPT !.status = s] ELSE rows[k]]

(* TransferentryVerifyRepo updates by id, whatever the status was. *)
TransferentryVerify(t) ==
  /\ At(t, "verify", "store")
  /\ SetStatus(TheId(t), "verified")
  /\ Done(t)
  /\ UNCHANGED <<second, sub, reversals, outside, ghosts, faults>>

(* TransferentryRejectRepo, likewise. *)
TransferentryReject(t) ==
  /\ At(t, "reject", "ask")
  /\ SetStatus(TheId(t), "deleted")
  /\ Done(t)
  /\ UNCHANGED <<second, sub, reversals, outside, ghosts, faults>>

--------------------------------------------------------------------------------
(* Submission to PFMS *)

(* GetPfmsteRepo: a debit is a payment, a credit a receipt. *)
LineOf(row) == [sign |-> "+", amount |-> row.amount, side |-> IF row.type = "D" THEN "F" ELSE "T"]
Lines(ids) ==
  ConvertToDetailsArray(ProcessAmountAndSign([k \in {q \in DOMAIN rows : q[2] \in ids} |-> LineOf(rows[k])]))

(* The officer submits what is verified and not yet generated. *)
TakeVerified(t, ids) ==
  /\ Free(t) /\ ids # {}
  /\ \A id \in ids : RowsOf(id) # {} /\ RowsOf(id) \subseteq TransferentryReport("verified", FALSE)
  /\ req' = [req EXCEPT ![t] = [op |-> "submit", pc |-> "call", ids |-> ids, uid |-> 0]]
  /\ adrift' = adrift \cup HeldByOther(t, ids)
  /\ UNCHANGED <<second, tables, outside, contested, faults>>

Uid == Len(pfms) + 1
Take(ids, lines, of) == Uid <= MaxUid /\ pfms' = Append(pfms, [ids |-> ids, lines |-> lines, of |-> of, state |-> "taken"])

(* CreatePfmsTeHandler: two log-in calls, then ReceiveTransferEntryData. *)
CreatePfmsTe(t) ==
  /\ At(t, "submit", "call")
  /\ \/ Take(req[t].ids, Lines(req[t].ids), 0) /\ req' = [req EXCEPT ![t].pc = "mark", ![t].uid = Uid]
        /\ UNCHANGED <<adrift, faults>>
     \/ Done(t) /\ UNCHANGED <<pfms, adrift, faults>>                     \* refused, or not logged in
     \/ Take(req[t].ids, Lines(req[t].ids), 0) /\ Done(t) /\ Fault        \* the answer is lost
        /\ adrift' = adrift \cup req[t].ids
  /\ UNCHANGED <<second, tables, budget, contested>>

(* Mutant of Submitted: the entry is not marked as generated. *)
SubmittedUngenerated(row, u) == [row EXCEPT !.uid = u, !.flag = "Pending"]

Submitted(row, u) == [row EXCEPT !.uid = u, !.gen = TRUE, !.flag = "Pending"]

GetTePfmsUpdateStatus(t) ==
  /\ At(t, "submit", "mark")
  /\ rows' = [k \in DOMAIN rows |-> IF k[2] \in req[t].ids THEN Submitted(rows[k], req[t].uid) ELSE rows[k]]
  /\ Goto(t, "record")
  /\ UNCHANGED <<second, sub, reversals, outside, ghosts, faults>>

(* InsertTePfmsSubmission; its failure is only logged. *)
InsertTePfmsSubmission(t) ==
  /\ At(t, "submit", "record")
  /\ \/ /\ sub' = Put(sub, req[t].uid, [type |-> "te", ids |-> req[t].ids, status |-> "Pending", of |-> 0])
        /\ UNCHANGED <<adrift, faults>>
     \/ Fault /\ adrift' = adrift \cup req[t].ids /\ UNCHANGED sub
  /\ Done(t)
  /\ UNCHANGED <<second, rows, reversals, outside, contested>>

(* PFMS decides on what it took. *)
PfmsDecides(u, state) ==
  /\ pfms[u].state = "taken"
  /\ pfms' = [pfms EXCEPT ![u].state = state]
  /\ UNCHANGED <<second, tables, budget, req, ghosts, faults>>

(* Mutant of FlagOf: whatever PFMS decided is a success. *)
FlagOfAny(u) == "Success"

(* UpdatePfmsSubmissionStatusRepo: the entries of the uid first, then its submission. *)
FlagOf(u) == IF pfms[u].state = "ok" THEN "Success" ELSE "Failed"
UpdatePfmsSubmissionStatus(u) ==
  /\ u \in DOMAIN sub /\ sub[u].status = "Pending" /\ pfms[u].state # "taken"
  /\ rows' = [k \in DOMAIN rows |->
                IF rows[k].uid = u THEN [rows[k] EXCEPT !.flag = FlagOf(u)] ELSE rows[k]]
  /\ \/ sub' = [sub EXCEPT ![u].status = FlagOf(u)] /\ UNCHANGED faults
     \/ Fault /\ UNCHANGED sub
  /\ UNCHANGED <<second, reversals, outside, req, ghosts>>

(* ResetPFMSFlagByPfmsUniqueIdRepo asks nothing about the submission. *)
ResetPFMSFlagByPfmsUniqueId(mine) ==
  rows' = [k \in DOMAIN rows |->
             IF k \in mine THEN [rows[k] EXCEPT !.uid = 0, !.gen = FALSE, !.flag = "false"] ELSE rows[k]]

(* ResetPFMSFlagHandler: 404 when no row has the identifier. *)
ResetPFMSFlag(u) ==
  LET mine == {k \in DOMAIN rows : rows[k].uid = u} IN
  /\ mine # {}
  /\ ResetPFMSFlagByPfmsUniqueId(mine)
  /\ adrift' = IF pfms[u].state = "bad" THEN adrift ELSE adrift \cup {k[2] : k \in mine}
  /\ UNCHANGED <<second, sub, reversals, outside, req, contested, faults>>

--------------------------------------------------------------------------------
(* Negative entries *)

(* GetReversiblePfmsTe: the list the officer chooses from. *)
Reversible == {u \in DOMAIN sub : sub[u].type = "te" /\ sub[u].status = "Success"}

(* GetPfmsSubmissionByUniqueID: the submission the handler looks at again. *)
GetPfmsSubmissionByUniqueID(u) == {sub[v] : v \in {u} \cap DOMAIN sub}

(* Mutant of CheckIfAlreadyReversed: a reversal is looked for among the pending. *)
CheckIfAlreadyReversedPending(u) ==
  \E v \in DOMAIN sub : sub[v].of = u /\ sub[v].type = "terev" /\ sub[v].status = "Pending"

CheckIfAlreadyReversed(u) ==
  \E v \in DOMAIN sub : sub[v].of = u /\ sub[v].type = "terev" /\ sub[v].status = "Success"

StartNegative(t, u) ==
  /\ Free(t)
  /\ u \in Reversible
  /\ \E s \in GetPfmsSubmissionByUniqueID(u) : s.type = "te" /\ s.status = "Success"
  /\ ~CheckIfAlreadyReversed(u)
  /\ req' = [req EXCEPT ![t] = [op |-> "negative", pc |-> "call", ids |-> sub[u].ids, of |-> u,
                                uid |-> 0, status |-> "Failed"]]
  /\ adrift' = adrift \cup HeldByOther(t, sub[u].ids)
  /\ UNCHANGED <<second, tables, outside, contested, faults>>

(* FlipPayloadAmounts negates the amount and turns the sign. *)
FlipPayloadAmounts(lines) ==
  [i \in DOMAIN lines |-> [lines[i] EXCEPT !.amount = -@, !.sign = Flipped(@)]]

(* CreateNegativePfmsTeHandler, the calls.  An entry PFMS refuses is recorded too,  *)
(* as Failed; identifier 0 stands for those PFMS knows nothing of.                  *)
CreateNegativePfmsTe(t) ==
  LET u == req[t].of
      take == Take(req[t].ids, FlipPayloadAmounts(pfms[u].lines), u)
  IN
  /\ At(t, "negative", "call")
  /\ \/ take /\ req' = [req EXCEPT ![t].pc = "insert", ![t].uid = Uid, ![t].status = "Success"]
        /\ UNCHANGED <<adrift, faults>>
     \/ Goto(t, "insert") /\ UNCHANGED <<pfms, adrift, faults>>            \* refused
     \/ Done(t) /\ UNCHANGED <<pfms, adrift, faults>>                     \* not logged in
     \/ take /\ Done(t) /\ Fault /\ adrift' = adrift \cup req[t].ids
  /\ UNCHANGED <<second, tables, budget, contested>>

InsertReversalPfmsSubmission(r) ==
  sub' = Put(sub, r.uid, [type |-> "terev", ids |-> r.ids, status |-> r.status, of |-> r.of])

InsertTeReversal(r) ==
  reversals' = reversals \cup {[original |-> r.of, reversal |-> r.uid, status |-> r.status]}

(* A posting that a request ends without having recorded. *)
Unrecorded(t) == IF req[t].uid = 0 THEN adrift ELSE adrift \cup req[t].ids

(* Both are tried after the calls, and their failures are only logged. *)
RecordReversal(t) ==
  /\ At(t, "negative", "insert")
  /\ \/ InsertReversalPfmsSubmission(req[t]) /\ UNCHANGED <<adrift, faults>>
     \/ Fault /\ adrift' = Unrecorded(t) /\ UNCHANGED sub
  /\ Goto(t, "audit")
  /\ UNCHANGED <<second, rows, reversals, outside, contested>>

FinishReversal(t) ==
  /\ At(t, "negative", "audit")
  /\ \/ InsertTeReversal(req[t]) /\ UNCHANGED faults
     \/ Fault /\ UNCHANGED reversals
  /\ Done(t)
  /\ UNCHANGED <<second, rows, sub, outside, ghosts>>

(* A request ends half-way. *)
Stop(t) ==
  /\ ~Free(t) /\ Fault /\ Done(t)
  /\ contested' = IF At(t, "verify", "store") /\ BudgetLines(req[t].lines) # {}
                  THEN contested \cup req[t].ids ELSE contested
  /\ adrift' = IF req[t].op \in {"submit", "negative"} THEN Unrecorded(t) ELSE adrift
  /\ UNCHANGED <<second, tables, outside>>

--------------------------------------------------------------------------------
Init ==
  /\ second = 1 /\ rows = << >> /\ sub = << >> /\ reversals = {}
  /\ budget = [id \in Ids |-> 0] /\ pfms = << >>
  /\ req = [t \in Threads |-> Idle]
  /\ contested = {} /\ adrift = {} /\ faults = 0

Create ==
  \E b \in Batches :
    \/ CreateTransferEntry(b) \/ CreateTransferEntryGrpc(b)
    \/ CreateTransferEntryDirect(b) \/ CreateTransferEntryDirectGrpc(b)
    \/ CreateTransferEntryDirectBRS(b)

Begin(t) ==
  \/ \E id \in Ids : TakeToVerify(t, id) \/ TakeToReject(t, id)
  \/ \E ids \in SUBSET Ids : TakeVerified(t, ids)
  \/ \E u \in DOMAIN sub : StartNegative(t, u)

Serve(t) ==
  \/ AskBudget(t) \/ TransferentryVerify(t) \/ TransferentryReject(t)
  \/ CreatePfmsTe(t) \/ GetTePfmsUpdateStatus(t) \/ InsertTePfmsSubmission(t)
  \/ CreateNegativePfmsTe(t) \/ RecordReversal(t) \/ FinishReversal(t)
  \/ Stop(t)

Next ==
  \/ Tick \/ Create
  \/ \E t \in Threads : Begin(t) \/ Serve(t)
  \/ \E u \in DOMAIN pfms : (\E s \in {"ok", "bad"} : PfmsDecides(u, s)) \/ ResetPFMSFlag(u)
  \/ \E u \in DOMAIN sub : UpdatePfmsSubmissionStatus(u)

Spec == Init /\ [][Next]_vars

--------------------------------------------------------------------------------
(* Properties *)

Working(id) == \E t \in Threads : id \in req[t].ids

(* What an officer verified of an entry. *)
VerifiedLines(id) ==
  [h \in {k[1] : k \in {q \in RowsOf(id) : rows[q].status = "verified" /\ rows[q].by # "direct"}}
     |-> rows[<<h, id>>]]

(* The budget service has consumed, for every entry nobody works on, what its     *)
(* verified rows say, once, except for entries created as verified and those two  *)
(* officers decided on at once or whose verification ended half-way.              *)
BudgetFollowsVerification ==
  \A id \in Ids \ contested : ~Working(id) => budget[id] = BudgetSum(VerifiedLines(id))

(* The postings of an entry PFMS took and did not turn down, cancelled ones aside. *)
Cancelled(u) == \E v \in DOMAIN pfms : pfms[v].of = u /\ pfms[v].state # "bad"
Live(id) == {u \in DOMAIN pfms : id \in pfms[u].ids /\ pfms[u].of = 0
                                  /\ pfms[u].state # "bad" /\ ~Cancelled(u)}

(* PFMS holds two postings of one entry only after a lost answer, a record that   *)
(* was not written, a reset, or two submissions at once.                          *)
PostedTwiceOnlyWhenAdrift == \A id \in Ids \ adrift : Cardinality(Live(id)) <= 1

(* An entry shown as Success is in a posting PFMS booked, and one not shown as     *)
(* submitted is in none unless it is adrift or being submitted.                   *)
ShownMeansHeld ==
  \A k \in DOMAIN rows :
    /\ rows[k].flag = "Success" => pfms[rows[k].uid].state = "ok" /\ k[2] \in pfms[rows[k].uid].ids
    /\ ~rows[k].gen /\ k[2] \notin adrift /\ ~Working(k[2]) => Live(k[2]) = {}

(* A negative entry is posted for a booked submission only, and once, unless the  *)
(* submission's entries are adrift.                                               *)
NegativeOnceAndBooked ==
  \A v \in DOMAIN pfms : pfms[v].of # 0 =>
    /\ pfms[pfms[v].of].state = "ok" /\ pfms[pfms[v].of].of = 0
    /\ pfms[v].ids \cap adrift = {} =>
         Cardinality({w \in DOMAIN pfms : pfms[w].of = pfms[v].of /\ pfms[w].state # "bad"}) <= 1

================================================================================
