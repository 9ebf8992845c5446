------------------------------- MODULE Approvals -------------------------------
(***************************************************************************)
(* One run's approvals (loopback.py): the worker thread registers a        *)
(* pending approval, announces it and polls for a decision or a deadline,  *)
(* while HTTP handlers on the event-loop thread decide, extend and abort.  *)
(*                                                                         *)
(* The two threads share the PendingApproval fields without a lock, so a   *)
(* handler's statements and the worker's interleave; two handlers never    *)
(* do, because neither awaits once it has parsed its body.                 *)
(***************************************************************************)
EXTENDS Naturals, FiniteSets

CONSTANTS
  Calls,     \* tool calls of the run that need an approval
  Timeout,   \* APPROVAL_TIMEOUT in clock ticks; 0 waits indefinitely
  MaxExt     \* bound: extensions granted per approval

ASSUME ApprovalAssumption == Timeout \in Nat /\ MaxExt \in Nat

VARIABLES
  table,     \* Loopback.approvals
  age,       \* ticks since PendingApproval.at, up to the last deadline it can have
  decided,   \* PendingApproval.decided
  approved,  \* PendingApproval.approved
  edited,    \* does PendingApproval.arguments hold an edit?
  ext,       \* PendingApproval.extensions
  timedOut,  \* PendingApproval.timed_out
  worker,    \* the run's thread: where it is, and on which call
  handler,   \* the request being handled: where it is, for which call, asking what
  aborted,   \* Session.cancel
  result,    \* what became of each call
  receipts,  \* history: <<call, decision>> answered with 200
  accepted,  \* history: <<call, decision>> some handler stored an acceptance for
  promised   \* history: the age an extension's answer gave it until

pendingVars == <<table, age, decided, approved, edited, ext, timedOut>>
historyVars == <<receipts, accepted, promised>>
approvalVars == <<pendingVars, worker, handler, aborted, result, historyVars>>

Decisions == {"accept", "reject", "edit"}
Granting == {"accept", "edit"}
NoCall == "no call"
Idle == [at |-> "idle", call |-> NoCall, ask |-> "nothing"]

WorkerAt(pc) == worker.at = pc
Go(pc) == worker' = [at |-> pc, call |-> worker.call]

\* PendingApproval.deadline_in() <= 0
Deadline(n) == Timeout * (1 + n)

\* Mutant of Expired: the deadline is the one the wait started with.
ExpiredAtFirst(c) == Timeout > 0 /\ age[c] >= Deadline(0)

Expired(c) == Timeout > 0 /\ age[c] >= Deadline(ext[c])

-----------------------------------------------------------------------------
(* The worker thread: loop._dispatch around Loopback._await_decision *)

\* The loop looks for a cancellation before each call ...
Reach(c) ==
  /\ WorkerAt("running") /\ ~aborted
  /\ result[c] = "none"
  /\ worker' = [at |-> "announcing", call |-> c]
  /\ UNCHANGED <<pendingVars, handler, aborted, result, historyVars>>

\* ... and not again before register() and the wait: the approval is in the
\* table before the event that announces it.
Register ==
  /\ WorkerAt("announcing") /\ Go("waiting")
  /\ table' = table \cup {worker.call}
  /\ UNCHANGED <<age, decided, approved, edited, ext, timedOut, handler, aborted, result,
                 historyVars>>

\* wait() returns because a decision was set.
WakeDecided ==
  /\ WorkerAt("waiting") /\ decided[worker.call]
  /\ Go("woken")
  /\ UNCHANGED <<pendingVars, handler, aborted, result, historyVars>>

\* Mutant of WakeExpired: an extended wait has no deadline at all.
WakeExpiredUnextended ==
  /\ WorkerAt("waiting") /\ ~decided[worker.call] /\ Expired(worker.call)
  /\ ext[worker.call] = 0
  /\ Go("expired")
  /\ UNCHANGED <<pendingVars, handler, aborted, result, historyVars>>

\* wait() times out and the deadline, read again, has passed.
WakeExpired ==
  /\ WorkerAt("waiting") /\ ~decided[worker.call] /\ Expired(worker.call)
  /\ Go("expired")
  /\ UNCHANGED <<pendingVars, handler, aborted, result, historyVars>>

Pop ==
  /\ \/ WorkerAt("expired") /\ Go("giving up")
     \/ WorkerAt("woken") /\ Go("reading")
  /\ table' = table \ {worker.call}
  /\ UNCHANGED <<age, decided, approved, edited, ext, timedOut, handler, aborted, result,
                 historyVars>>

\* Mutant of GiveUp: a timeout is an approval.
GiveUpApproving ==
  /\ WorkerAt("giving up") /\ Go("running")
  /\ timedOut' = [timedOut EXCEPT ![worker.call] = TRUE]
  /\ result' = [result EXCEPT ![worker.call] = "ran asked"]
  /\ UNCHANGED <<table, age, decided, approved, edited, ext, handler, aborted, historyVars>>

\* A timeout is a refusal, not an approval.
GiveUp ==
  /\ WorkerAt("giving up") /\ Go("running")
  /\ timedOut' = [timedOut EXCEPT ![worker.call] = TRUE]
  /\ result' = [result EXCEPT ![worker.call] = "refused"]
  /\ UNCHANGED <<table, age, decided, approved, edited, ext, handler, aborted, historyVars>>

\* The first read of `approved` decides whether the edited arguments apply, the
\* second whether the call runs.
ReadArguments ==
  /\ WorkerAt("reading")
  /\ Go(IF approved[worker.call] /\ edited[worker.call] THEN "run edited" ELSE "run asked")
  /\ UNCHANGED <<pendingVars, handler, aborted, result, historyVars>>

ReadApproved ==
  /\ worker.at \in {"run edited", "run asked"} /\ Go("running")
  /\ result' = [result EXCEPT ![worker.call] =
       IF ~approved[worker.call] THEN "refused"
       ELSE IF WorkerAt("run edited") THEN "ran edited" ELSE "ran asked"]
  /\ UNCHANGED <<pendingVars, handler, aborted, historyVars>>

\* The run ends, and releases what it was waiting on.
EndRun ==
  /\ WorkerAt("running") /\ Go("over")
  /\ approved' = [c \in Calls |-> IF c \in table THEN FALSE ELSE approved[c]]
  /\ decided' = [c \in Calls |-> c \in table \/ decided[c]]
  /\ UNCHANGED <<table, age, edited, ext, timedOut, handler, aborted, result, historyVars>>

Worker == Register \/ WakeDecided \/ WakeExpired \/ Pop \/ GiveUp \/ ReadArguments \/ ReadApproved \/ EndRun

-----------------------------------------------------------------------------
(* The event-loop thread: POST /v1/approvals/{id} *)

HandlerAt(pc) == handler.at = pc
Handle(pc) == handler' = [at |-> pc, call |-> handler.call, ask |-> handler.ask]

\* An approval that is not in the table is answered 410 and nothing changes.
DecideFind(c, d) ==
  /\ handler = Idle /\ c \in table
  /\ handler' = [at |-> "found", call |-> c, ask |-> d]
  /\ edited' = [edited EXCEPT ![c] = @ \/ d = "edit"]
  /\ UNCHANGED <<table, age, decided, approved, ext, timedOut, worker, aborted, result,
                 historyVars>>

\* The late answer is told so; otherwise the handler goes on to store it.
DecideCheck ==
  /\ HandlerAt("found")
  /\ IF timedOut[handler.call] \/ Expired(handler.call) THEN handler' = Idle
                                                       ELSE Handle("in time")
  /\ UNCHANGED <<pendingVars, worker, aborted, result, historyVars>>

DecideStore ==
  /\ HandlerAt("in time") /\ Handle("stored")
  /\ approved' = [approved EXCEPT ![handler.call] = handler.ask \in Granting]
  /\ accepted' = IF handler.ask \in Granting
                 THEN accepted \cup {<<handler.call, handler.ask>>} ELSE accepted
  /\ UNCHANGED <<table, age, decided, edited, ext, timedOut, worker, aborted, result,
                 receipts, promised>>

\* `decided.set()`, by a decision (which is then answered 200) or a release.
DecideSet ==
  /\ HandlerAt("stored") /\ handler' = Idle
  /\ decided' = [decided EXCEPT ![handler.call] = TRUE]
  /\ receipts' = receipts \cup {<<handler.call, d>> : d \in Decisions \cap {handler.ask}}
  /\ UNCHANGED <<table, age, approved, edited, ext, timedOut, worker, aborted, result,
                 accepted, promised>>

-----------------------------------------------------------------------------
(* POST /v1/approvals/{id}/extend and POST /v1/sessions/{id}/abort *)

ExtendFind(c) ==
  /\ handler = Idle /\ c \in table /\ ext[c] < MaxExt
  /\ handler' = [at |-> "extending", call |-> c, ask |-> "extend"]
  /\ UNCHANGED <<pendingVars, worker, aborted, result, historyVars>>

ExtendGrant ==
  /\ HandlerAt("extending") /\ handler' = Idle
  /\ ext' = [ext EXCEPT ![handler.call] = @ + 1]
  /\ promised' = [promised EXCEPT ![handler.call] = Deadline(ext'[handler.call])]
  /\ UNCHANGED <<table, age, decided, approved, edited, timedOut, worker, aborted, result,
                 receipts, accepted>>

\* cancel.set(), then _release refuses the approval the table holds: the run has
\* one thread, so there is at most one.
Abort ==
  /\ handler = Idle /\ ~aborted /\ ~WorkerAt("over")
  /\ aborted' = TRUE
  /\ handler' = [at |-> "aborting", call |-> NoCall, ask |-> "abort"]
  /\ UNCHANGED <<pendingVars, worker, result, historyVars>>

Release ==
  /\ HandlerAt("aborting")
  /\ \/ table = {} /\ handler' = Idle
     \/ \E c \in table : handler' = [at |-> "releasing", call |-> c, ask |-> "abort"]
  /\ UNCHANGED <<pendingVars, worker, aborted, result, historyVars>>

ReleaseRefuse ==
  /\ HandlerAt("releasing") /\ Handle("stored")
  /\ approved' = [approved EXCEPT ![handler.call] = FALSE]
  /\ UNCHANGED <<table, age, decided, edited, ext, timedOut, worker, aborted, result,
                 historyVars>>

Handler == DecideCheck \/ DecideStore \/ DecideSet \/ ExtendGrant \/ Release \/ ReleaseRefuse

\* Time passes for the approvals somebody can still ask about.
Held == table \cup (Calls \cap {handler.call})

Tick ==
  /\ \E c \in Held : age[c] < Deadline(MaxExt)
  /\ age' = [c \in Calls |-> IF c \in Held /\ age[c] < Deadline(MaxExt)
                            THEN age[c] + 1 ELSE age[c]]
  /\ UNCHANGED <<table, decided, approved, edited, ext, timedOut, worker, handler, aborted,
                 result, historyVars>>

-----------------------------------------------------------------------------
Init ==
  /\ table = {}
  /\ age = [c \in Calls |-> 0] /\ ext = [c \in Calls |-> 0]
  /\ decided = [c \in Calls |-> FALSE] /\ approved = [c \in Calls |-> FALSE]
  /\ edited = [c \in Calls |-> FALSE] /\ timedOut = [c \in Calls |-> FALSE]
  /\ worker = [at |-> "running", call |-> NoCall]
  /\ handler = Idle /\ aborted = FALSE
  /\ result = [c \in Calls |-> "none"]
  /\ receipts = {} /\ accepted = {} /\ promised = [c \in Calls |-> 0]

Next ==
  \/ Worker \/ Handler \/ Abort \/ Tick
  \/ \E c \in Calls : Reach(c) \/ ExtendFind(c) \/ \E d \in Decisions : DecideFind(c, d)

Spec == Init /\ [][Next]_approvalVars

\* The worker thread runs, a request being handled is finished, time passes.
\* Nobody has to decide anything.
FairSpec == Spec /\ WF_approvalVars(Worker) /\ WF_approvalVars(Handler) /\ WF_approvalVars(Tick)

-----------------------------------------------------------------------------
(* Properties *)

WorkerPlaces == {"running", "announcing", "waiting", "woken", "expired", "giving up", "reading",
                 "run edited", "run asked", "over"}
HandlerPlaces == {"idle", "found", "in time", "stored", "extending",
                  "aborting", "releasing"}
Results == {"none", "refused", "ran asked", "ran edited"}

ApprovalTypeOK ==
  /\ age \in [Calls -> 0 .. Deadline(MaxExt)] /\ ext \in [Calls -> 0 .. MaxExt]
  /\ decided \in [Calls -> BOOLEAN] /\ approved \in [Calls -> BOOLEAN]
  /\ edited \in [Calls -> BOOLEAN] /\ timedOut \in [Calls -> BOOLEAN]

ThreadTypeOK ==
  /\ table \subseteq Calls \cap {worker.call}
  /\ worker \in [at : WorkerPlaces, call : Calls \cup {NoCall}]
  /\ handler \in [at : HandlerPlaces, call : Calls \cup {NoCall},
                  ask : Decisions \cup {"nothing", "extend", "abort"}]
  /\ aborted \in BOOLEAN
  /\ result \in [Calls -> Results]

HistoryTypeOK ==
  /\ receipts \subseteq Calls \X Decisions
  /\ accepted \subseteq Calls \X Granting
  /\ promised \in [Calls -> 0 .. Deadline(MaxExt)]

\* Only the call the one worker thread waits on is in the table, and only
\* while it waits.
OnlyWhileWaiting == table # {} => worker.at \in {"waiting", "woken", "expired"}

\* Every field has its type; the table holds at most the call the worker waits on.
TypeOK == ApprovalTypeOK /\ ThreadTypeOK /\ HistoryTypeOK /\ OnlyWhileWaiting

Ran(c) == result[c] \in {"ran asked", "ran edited"}

\* Nobody looked, so nobody agreed (_await_decision): a call that ran was
\* accepted, by somebody, before it ran; no timeout, abort or end of the run
\* lets one through.
OnlyAnAcceptanceRuns ==
  \A c \in Calls : Ran(c) => \E d \in Granting : <<c, d>> \in accepted

\* A reject that is stored and about to be answered.
RejectStored(c) == handler = [at |-> "stored", call |-> c, ask |-> "reject"]

\* What is left of that: an acceptance the run did not honour met a second
\* decision, an abort or the deadline.  Nothing else refuses a call, whatever
\* the two threads interleave.
RefusalHasACause ==
  \A c \in Calls :
    result[c] = "refused"
      => <<c, "reject">> \in receipts \/ RejectStored(c) \/ aborted \/ timedOut[c]

\* The deadline is re-read at every poll, so an extension is honoured whenever
\* it was granted before the worker looked (BUG EXT-1).
NoRefusalBeforeThePromise ==
  [][worker.at = "waiting" /\ worker'.at = "expired" => age[worker.call] >= promised[worker.call]]_approvalVars

\* "POST /v1/sessions/{id}/abort  stop it" (loopback.py, the endpoint table): an
\* abort that came between the loop's look at `cancelled` and the registration
\* releases nothing, and the run still stops, at the deadline.
AbortStopsTheRun == Timeout > 0 => aborted ~> WorkerAt("over")
================================================================================
