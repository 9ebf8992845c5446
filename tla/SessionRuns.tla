------------------------------ MODULE SessionRuns ------------------------------
(***************************************************************************)
(* The runs of one session (loopback.py, session.py): each run has a       *)
(* worker thread; messages, aborts and deletions arrive on the event-loop  *)
(* thread, which also executes, first in first out, what the workers hand  *)
(* it with call_soon_threadsafe.  A message posted while a run is alive is *)
(* a correction the run reads before its next turn; posted after, it       *)
(* starts the next run.                                                    *)
(*                                                                         *)
(* A handler never awaits between reading the session and acting on it, so *)
(* one handler or callback is one step; the worker's end of run is not.    *)
(***************************************************************************)
EXTENDS Naturals, Sequences, FiniteSets

CONSTANTS
  Messages,     \* messages the developer sends, each at most once
  MaxResumes    \* bound: uses of POST /v1/sessions/{id}/resume

ASSUME SessionRunsAssumption == IsFiniteSet(Messages) /\ MaxResumes \in Nat

VARIABLES
  inStore,      \* does the SessionStore hold the session?
  status,       \* Session.status: "running" or not ("idle")
  open,         \* ~ Session._steer_closed
  place,        \* where each message is; the "queued" ones are Session._steer
  run,          \* the number of runs started
  worker,       \* worker thread of each run started
  soon,         \* callbacks the event loop has not executed yet
  ended,        \* runs whose END event is in the transcript
  resumes,      \* resumes used
  overtaken     \* history: a run was started before the last one's worker was gone,
                \* or before what that worker rescued was delivered

vars == <<inStore, status, open, place, run, worker, soon, ended, resumes, overtaken>>

RunIds == 1 .. Cardinality(Messages) + MaxResumes + 1
In(p) == {m \in Messages : place[m] = p}
Move(S, p) == place' = [m \in Messages |-> IF m \in S THEN p ELSE place[m]]
Put(callback) == soon' = Append(soon, callback)

-----------------------------------------------------------------------------
(* The event-loop thread *)

\* follow_up or resume, on an idle session: status, then _spawn reopens the
\* queue and starts the worker.
Begin(callbacks) ==
  /\ status' = "running" /\ open' = TRUE
  /\ run' = run + 1
  /\ worker' = [worker EXCEPT ![run + 1] = "running"]
  /\ overtaken' = \/ overtaken
                  \/ worker[run] # "gone"
                  \/ \E i \in DOMAIN callbacks : callbacks[i].do = "deliver"

\* A run that is taking corrections queues the message.
Steer(m) ==
  /\ inStore /\ place[m] = "unsent"
  /\ status = "running" /\ open
  /\ Move({m}, "queued")
  /\ UNCHANGED <<inStore, status, open, run, worker, soon, ended, resumes, overtaken>>

\* A finished run does not: the message is the next one in the conversation.
FollowUp(m) ==
  /\ inStore /\ place[m] = "unsent"
  /\ status = "idle"
  /\ Move({m}, "began a run")
  /\ Begin(soon)
  /\ UNCHANGED <<inStore, soon, ended, resumes>>

\* 409: the status says running, the queue is closed.  The client may send the
\* message again.
Refuse(m) ==
  /\ inStore /\ place[m] = "unsent"
  /\ status = "running" /\ ~open
  /\ UNCHANGED vars

Resume ==
  /\ inStore /\ status = "idle" /\ resumes < MaxResumes
  /\ resumes' = resumes + 1
  /\ Begin(soon)
  /\ UNCHANGED <<inStore, place, soon, ended>>

\* DELETE, or the store trimming itself to its limit: never a running session.
Forget ==
  /\ inStore /\ status = "idle"
  /\ inStore' = FALSE
  /\ UNCHANGED <<status, open, place, run, worker, soon, ended, resumes, overtaken>>

\* The developer decides what the run asked (Approvals has the detail).
Decide(r) ==
  /\ worker[r] = "asking"
  /\ worker' = [worker EXCEPT ![r] = "running"]
  /\ UNCHANGED <<inStore, status, open, place, run, soon, ended, resumes, overtaken>>

Requests ==
  \/ \E m \in Messages : Steer(m) \/ FollowUp(m) \/ Refuse(m)
  \/ Resume \/ Forget
  \/ \E r \in RunIds : Decide(r)

Next1 == Head(soon)   \* the callback at the head

\* The END event joins the transcript.
RecordEnd ==
  /\ soon # <<>> /\ Next1.do = "end"
  /\ soon' = Tail(soon)
  /\ ended' = ended \cup {Next1.run}
  /\ UNCHANGED <<inStore, status, open, place, run, worker, resumes, overtaken>>

\* session.finish, or failed_status
SettleStatus ==
  /\ soon # <<>> /\ Next1.do = "settle"
  /\ soon' = Tail(soon)
  /\ status' = "idle"
  /\ UNCHANGED <<inStore, open, place, run, worker, ended, resumes, overtaken>>

\* What is rescued joins the run that is live by now; if that run takes no
\* corrections it is dropped.
DeliverToLiveRun ==
  /\ soon # <<>> /\ Next1.do = "deliver" /\ status = "running"
  /\ soon' = Tail(soon)
  /\ Move(Next1.msgs, IF open THEN "queued" ELSE "lost")
  /\ UNCHANGED <<inStore, status, open, run, worker, ended, resumes, overtaken>>

\* Otherwise it is the next message, whether or not the store holds the session.
DeliverAsFollowUp ==
  /\ soon # <<>> /\ Next1.do = "deliver" /\ status = "idle"
  /\ soon' = Tail(soon)
  /\ Move(Next1.msgs, "began a run")
  /\ Begin(Tail(soon))
  /\ UNCHANGED <<inStore, ended, resumes>>

Callback == RecordEnd \/ SettleStatus \/ DeliverToLiveRun \/ DeliverAsFollowUp

-----------------------------------------------------------------------------
(* The worker thread of run r *)

To(r, pc) == worker' = [worker EXCEPT ![r] = pc]

\* drain_steer, at the top of a turn
Turn(r) ==
  /\ worker[r] = "running" /\ In("queued") # {}
  /\ Move(In("queued"), "read")
  /\ UNCHANGED <<inStore, status, open, run, worker, soon, ended, resumes, overtaken>>

Ask(r) ==
  /\ worker[r] = "running" /\ To(r, "asking")
  /\ UNCHANGED <<inStore, status, open, place, run, soon, ended, resumes, overtaken>>

\* The run is over, or raised: its last event ...
EmitEnd(r) ==
  /\ worker[r] = "running" /\ To(r, "settling")
  /\ Put([do |-> "end", run |-> r, msgs |-> {}])
  /\ UNCHANGED <<inStore, status, open, place, run, ended, resumes, overtaken>>

\* Mutant of Settle: a run without a result leaves the status as it is.
SettleNothing(r) ==
  /\ worker[r] = "settling" /\ To(r, "releasing")
  /\ UNCHANGED <<inStore, status, open, place, run, soon, ended, resumes, overtaken>>

\* ... then its status, behind the event ...
Settle(r) ==
  /\ worker[r] = "settling" /\ To(r, "releasing")
  /\ Put([do |-> "settle", run |-> r, msgs |-> {}])
  /\ UNCHANGED <<inStore, status, open, place, run, ended, resumes, overtaken>>

\* ... then _release(session.id) refuses what the SESSION is waiting on ...
Release(r) ==
  /\ worker[r] = "releasing"
  /\ worker' = [q \in RunIds |-> IF q = r THEN "closing"
                                 ELSE IF worker[q] = "asking" THEN "running" ELSE worker[q]]
  /\ UNCHANGED <<inStore, status, open, place, run, soon, ended, resumes, overtaken>>

\* Mutant of CloseSteer: what is taken is not handed over.
CloseSteerDrops(r) ==
  /\ worker[r] = "closing" /\ To(r, "gone")
  /\ open' = FALSE
  /\ Move(In("queued"), "rescued")
  /\ UNCHANGED <<inStore, status, run, soon, ended, resumes, overtaken>>

\* ... and close_steer takes what the queue still holds.
CloseSteer(r) ==
  /\ worker[r] = "closing" /\ To(r, "gone")
  /\ open' = FALSE
  /\ Move(In("queued"), "rescued")
  /\ IF In("queued") = {} THEN soon' = soon
                          ELSE Put([do |-> "deliver", run |-> r, msgs |-> In("queued")])
  /\ UNCHANGED <<inStore, status, run, ended, resumes, overtaken>>

Worker(r) ==
  Turn(r) \/ Ask(r) \/ EmitEnd(r) \/ Settle(r) \/ Release(r) \/ CloseSteer(r)

-----------------------------------------------------------------------------
\* start(): the first run, which the task began.
Init ==
  /\ inStore = TRUE /\ status = "running" /\ open = TRUE
  /\ place = [m \in Messages |-> "unsent"]
  /\ run = 1 /\ worker = [r \in RunIds |-> IF r = 1 THEN "running" ELSE "none"]
  /\ soon = <<>> /\ ended = {}
  /\ resumes = 0 /\ overtaken = FALSE

Next == Requests \/ Callback \/ \E r \in RunIds : Worker(r)

Spec == Init /\ [][Next]_vars

\* The event loop executes its callbacks, a worker goes on to the end of its
\* run, takes a turn while it runs, and its questions are answered.
Fairness ==
  /\ WF_vars(Callback)
  /\ \A r \in RunIds :
       /\ WF_vars(Settle(r)) /\ WF_vars(Release(r)) /\ WF_vars(CloseSteer(r))
       /\ WF_vars(Decide(r)) /\ SF_vars(EmitEnd(r))

FairSpec == Spec /\ Fairness

-----------------------------------------------------------------------------
(* Properties *)

\* The window that is left: a message is lost only when a new run was started
\* before the old run's worker had closed the queue and handed it over.  Otherwise a
\* correction in the queue has a run that will read it or a worker that will rescue
\* it, and one in between has its callback (BUG L-9, _rescue_steers).
LostOnlyWhenOvertaken ==
  /\ In("lost") # {} => overtaken
  /\ In("queued") # {} => \E r \in RunIds : worker[r] \notin {"none", "gone"}
  /\ In("rescued") = UNION {soon[i].msgs : i \in DOMAIN soon}

\* Every message that was accepted ends up in a run.
EveryMessageIsRead ==
  \A m \in Messages :
    place[m] = "queued" ~> place[m] \in {"read", "began a run", "lost"}

================================================================================
