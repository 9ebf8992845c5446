------------------------------ MODULE TeWorkflow ------------------------------
(***************************************************************************)
(* The approval of a transfer entry an office (DDO) made: the handler      *)
(* stores the workflow id at the sub-accounts system and starts a durable  *)
(* workflow, which consumes the budget, tells the sub-accounts system, or  *)
(* gives the budget back, and posts the entry's rows with an activity that *)
(* is retried until it succeeds.                                           *)
(***************************************************************************)
EXTENDS Integers

CONSTANTS
  Approvals,   \* the requests to approve, each with the workflow id it draws
  Entries,     \* the transfer entries of the offices
  EntryOf,     \* the entry each request approves
  Heads,       \* the lines posted to the budget
  HeadsOf,     \* those of each entry, if any
  None,        \* no approval
  MaxFaults    \* bound on failed calls and lost answers

ASSUME TeWorkflowAssumption ==
  /\ EntryOf \in [Approvals -> Entries]
  /\ HeadsOf \in [Entries -> SUBSET Heads]
  /\ None \notin Approvals
  /\ MaxFaults \in Nat

VARIABLES
  pc,         \* where each approval is
  result,     \* what its workflow returned
  consumed,   \* the budget service: the lines consumed for this approval
  told,       \* the sub-accounts system: marked approved by it
  wid,        \* the sub-accounts system: the workflow id kept with each entry
  postedBy,   \* pao.transfer_entry: whose activity inserted the rows of an entry
  faults

vars == <<pc, result, consumed, told, wid, postedBy, faults>>

Fault == faults < MaxFaults /\ faults' = faults + 1
Goes(w, to) == pc' = [pc EXCEPT ![w] = to]
Ends(w, r) == pc' = [pc EXCEPT ![w] = "done"] /\ result' = [result EXCEPT ![w] = r]

Init ==
  /\ pc = [w \in Approvals |-> "none"]
  /\ result = [w \in Approvals |-> "none"]
  /\ consumed = [w \in Approvals |-> {}]
  /\ told = [w \in Approvals |-> FALSE]
  /\ wid = [e \in Entries |-> None]
  /\ postedBy = [e \in Entries |-> None]
  /\ faults = 0

--------------------------------------------------------------------------------
(* CreateSubaccountsTeVerifiedTempoHandler *)

(* The PATCH that stores the workflow id, before the workflow is started. *)
SaveWorkflowId(w) ==
  /\ pc[w] = "none"
  /\ \/ wid' = [wid EXCEPT ![EntryOf[w]] = w] /\ Goes(w, "saved") /\ UNCHANGED <<result, faults>>
     \/ Fault /\ Ends(w, "not started") /\ UNCHANGED wid
  /\ UNCHANGED <<consumed, told, postedBy>>

(* The requests to the budget service the handler makes of the entry's lines. *)
BudgetRequests(w) == HeadsOf[EntryOf[w]]

(* Mutant of ExecuteWorkflow: the budget is not asked for. *)
ExecuteWorkflowUnbudgeted(w) ==
  /\ pc[w] = "saved"
  /\ \/ Goes(w, "subaccounts") /\ UNCHANGED <<result, faults>>
     \/ Fault /\ Ends(w, "not started")
  /\ UNCHANGED <<consumed, told, wid, postedBy>>

(* The office lookups and the conversion of the budget requests may fail. *)
ExecuteWorkflow(w) ==
  /\ pc[w] = "saved"
  /\ \/ Goes(w, IF BudgetRequests(w) # {} THEN "budget" ELSE "subaccounts") /\ UNCHANGED <<result, faults>>
     \/ Fault /\ Ends(w, "not started")
  /\ UNCHANGED <<consumed, told, wid, postedBy>>

--------------------------------------------------------------------------------
(* TransferentryverificationWorkflow *)

(* What a failed call to the budget service has done is not known. *)
SomeConsumed(w) == \E some \in SUBSET BudgetRequests(w) : consumed' = [consumed EXCEPT ![w] = some]

(* The budget operation answers for each line.  When the funds of one do not      *)
(* suffice the workflow returns, and the lines that were consumed stay consumed.  *)
BudgetOperation(w) ==
  /\ pc[w] = "budget"
  /\ \/ /\ consumed' = [consumed EXCEPT ![w] = BudgetRequests(w)]
        /\ Goes(w, "subaccounts") /\ UNCHANGED <<result, faults>>
     \/ /\ \E lines \in (SUBSET BudgetRequests(w)) \ {BudgetRequests(w)} : consumed' = [consumed EXCEPT ![w] = lines]
        /\ Ends(w, "Insufficient funds") /\ UNCHANGED faults
     \/ Fault /\ Ends(w, "Budget Nexus call failed") /\ SomeConsumed(w)
  /\ UNCHANGED <<told, wid, postedBy>>

(* Mutant of SubaccountsOperation: the workflow goes on after an error. *)
SubaccountsOperationGoesOn(w) ==
  /\ pc[w] = "subaccounts"
  /\ \/ /\ told' = [told EXCEPT ![w] = TRUE]
        /\ Goes(w, "post") /\ UNCHANGED <<result, faults>>
     \/ Fault /\ Goes(w, "post") /\ UNCHANGED <<told, result>>
  /\ UNCHANGED <<consumed, wid, postedBy>>

(* The sub-accounts operation.  When it cannot be started the workflow fails at  *)
(* once; when it answers with an error the budget is given back, if there is any *)
(* to give back, and otherwise the workflow goes on.                             *)
SubaccountsOperation(w) ==
  /\ pc[w] = "subaccounts"
  /\ \/ /\ told' = [told EXCEPT ![w] = TRUE]
        /\ Goes(w, "post") /\ UNCHANGED <<result, faults>>
     \/ Fault /\ Ends(w, "Subaccounts Nexus Call Failed") /\ UNCHANGED told
     \/ /\ Fault
        /\ \E b \in BOOLEAN : told' = [told EXCEPT ![w] = b]
        /\ Goes(w, IF BudgetRequests(w) # {} THEN "reverse" ELSE "post") /\ UNCHANGED result
  /\ UNCHANGED <<consumed, wid, postedBy>>

(* Mutant of ReversalOperation: the lines are sent unreversed. *)
ReversalOperationConsumes(w) ==
  /\ pc[w] = "reverse"
  /\ Ends(w, "Subaccounts updation failed")
  /\ UNCHANGED <<consumed, told, wid, postedBy, faults>>

ReversalOperation(w) ==
  /\ pc[w] = "reverse"
  /\ \/ /\ consumed' = [consumed EXCEPT ![w] = {}]
        /\ Ends(w, "Subaccounts updation failed") /\ UNCHANGED faults
     \/ Fault /\ Ends(w, "Budget reversal failed") /\ SomeConsumed(w)
  /\ UNCHANGED <<told, wid, postedBy>>

(* Mutant of SubVerifiedTePosting: only the workflow whose id is stored may post. *)
SubVerifiedTePostingOfStored(w) ==
  /\ pc[w] = "post" /\ postedBy[EntryOf[w]] = None /\ wid[EntryOf[w]] = w
  /\ postedBy' = [postedBy EXCEPT ![EntryOf[w]] = w]
  /\ Ends(w, "Transfer Entry Successfully verified")
  /\ UNCHANGED <<consumed, told, wid, faults>>

(* SubVerifiedTePostingTemporalRepoNew inserts the rows in one batch; rows that   *)
(* are there already make every attempt fail, and the activity is retried without *)
(* end.  The answer of an attempt that committed may be lost.                     *)
SubVerifiedTePosting(w) ==
  /\ pc[w] = "post" /\ postedBy[EntryOf[w]] = None
  /\ postedBy' = [postedBy EXCEPT ![EntryOf[w]] = w]
  /\ \/ Ends(w, "Transfer Entry Successfully verified") /\ UNCHANGED faults
     \/ Fault /\ UNCHANGED <<pc, result>>
  /\ UNCHANGED <<consumed, told, wid>>

Handler(w) == SaveWorkflowId(w) \/ ExecuteWorkflow(w)
Workflow(w) == BudgetOperation(w) \/ SubaccountsOperation(w) \/ ReversalOperation(w) \/ SubVerifiedTePosting(w)
Next == \E w \in Approvals : Handler(w) \/ Workflow(w)

Spec == Init /\ [][Next]_vars

(* The Temporal server runs a started workflow on, across crashes of the worker. *)
FairSpec == Spec /\ \A w \in Approvals : WF_vars(Workflow(w))

--------------------------------------------------------------------------------
(* What the status page shows for an id.  The results that come with an error    *)
(* show as failed.                                                                *)
Errors == {"Budget Nexus call failed", "Subaccounts Nexus Call Failed", "Budget reversal failed"}
Started == {"budget", "subaccounts", "reverse", "post"}

(* The Temporal server's record of the workflow, which getWorkflowStatus reads. *)
getWorkflowStatus(w) ==
  IF pc[w] \in Started THEN "RUNNING" ELSE IF result[w] \in Errors THEN "FAILED" ELSE "COMPLETED"

(* GetWorkflowDetails: an id without a workflow is not found. *)
GetWorkflowDetails(w) ==
  IF pc[w] \in Started \/ (pc[w] = "done" /\ result[w] # "not started")
  THEN getWorkflowStatus(w)
  ELSE "no workflow found"

(* buildStandardizedOutput: what a completed workflow returned is its details. *)
buildStandardizedOutput(w) ==
  [status |-> GetWorkflowDetails(w),
   details |-> IF GetWorkflowDetails(w) = "COMPLETED" THEN result[w] ELSE "none"]

--------------------------------------------------------------------------------
(* Properties *)

Results == Errors \cup {"none", "not started", "Insufficient funds", "Subaccounts updation failed",
                        "Transfer Entry Successfully verified"}

(* The variables hold what the code and the services keep. *)
WorkflowTypeOK ==
  /\ pc \in [Approvals -> Started \cup {"none", "saved", "done"}]
  /\ result \in [Approvals -> Results]
  /\ consumed \in [Approvals -> SUBSET Heads]
  /\ told \in [Approvals -> BOOLEAN]
  /\ wid \in [Entries -> Approvals \cup {None}]
  /\ postedBy \in [Entries -> Approvals \cup {None}]
  /\ faults \in Nat

(* The approvals whose entry has lines posted to the budget: for the others the   *)
(* workflow goes on when the sub-accounts system fails.                           *)
Guarded == {w \in Approvals : BudgetRequests(w) # {}}

(* A workflow shown as completed leaves the ledgers agreeing with the message it   *)
(* shows: success means its rows are in the table, the budget of all its lines is  *)
(* consumed and the sub-accounts system was told; insufficient funds, that neither *)
(* the table nor the sub-accounts system has it and a line is unconsumed, though   *)
(* other lines may be; a failed update of the sub-accounts, that no row is in the  *)
(* table and no line is consumed.  No other message is shown as completed.         *)
CompletedMeansAgreed ==
  \A w \in Guarded : LET shown == buildStandardizedOutput(w) IN
    shown.status = "COMPLETED" =>
      \/ /\ shown.details = "Transfer Entry Successfully verified"
         /\ postedBy[EntryOf[w]] = w /\ consumed[w] = BudgetRequests(w) /\ told[w]
      \/ /\ shown.details = "Insufficient funds"
         /\ postedBy[EntryOf[w]] # w /\ consumed[w] # BudgetRequests(w) /\ ~told[w]
      \/ /\ shown.details = "Subaccounts updation failed"
         /\ postedBy[EntryOf[w]] # w /\ consumed[w] = {}

(* The rows of an entry come from one approval, which consumed the budget of every *)
(* line and told the sub-accounts system, whatever its workflow is shown as.            *)
PostedMeansPaid ==
  \A w \in Guarded : postedBy[EntryOf[w]] = w => consumed[w] = BudgetRequests(w) /\ told[w]

(* A started workflow ends, or its entry is in the table: an activity whose answer *)
(* was lost and an approval given twice retry for ever.                            *)
EndsOrIsPosted ==
  \A w \in Approvals :
    pc[w] \in Started ~> (pc[w] = "done" \/ postedBy[EntryOf[w]] # None)

(* The workflow implements the saga. *)
Stage(w) ==
  IF postedBy[EntryOf[w]] = w THEN "posted" ELSE
  CASE pc[w] \in {"none", "saved", "budget"} -> "open"
    [] pc[w] = "subaccounts" -> "consumed"
    [] pc[w] = "post" -> "told"
    [] pc[w] = "reverse" -> "undoing"
    [] result[w] = "Insufficient funds" -> "refused"
    [] result[w] = "Subaccounts updation failed" -> "undone"
    [] OTHER -> "left"

Saga == INSTANCE ApprovalSaga WITH
          Covered <- Guarded,
          Due <- [w \in Guarded |-> BudgetRequests(w)],
          stage <- [w \in Guarded |-> Stage(w)],
          consumed <- [w \in Guarded |-> consumed[w]],
          told <- [w \in Guarded |-> told[w]]

(* Every behaviour of the workflow is one of the saga, on the covered approvals.   *)
ImplementsSaga == Saga!Spec
================================================================================
