------------------------------- MODULE Metering -------------------------------
(***************************************************************************)
(* The gateway's metering of model calls: QuotaPolicy.reserve, reconcile   *)
(* and release over the Redis store (quota/policy.py, quota/store.py), and *)
(* ModelProxy.stream with the settlement and release tasks it schedules    *)
(* (proxy.py), for one subject.                                            *)
(*                                                                         *)
(* Every await is a point where other coroutines run, where the store may  *)
(* be down and, in the coroutine of the request, where the caller may go   *)
(* away.  Time stands still: windows and sliding series do not roll.  The  *)
(* ledger is the PostgresLedger (ledger.py); a failed write is swallowed.  *)
(***************************************************************************)
EXTENDS Integers, Sequences, FiniteSets, SequencesExt, Sums

CONSTANTS
  Turns,       \* deliveries of requests for a model call
  Key,         \* Key[t]: the idempotency key of delivery t
  NoKey,       \* what a delivery without one has
  Series,      \* the token series, in the order the policy charges them
  Limit,       \* Limit[s]: the ceiling of series s; 0 counts and never refuses
  Estimate,    \* tokens a reservation takes
  Bills,       \* what an endpoint may report a call to have cost
  MaxSettled,  \* policy.MAX_SETTLED_IDS
  Degrade,     \* is DAKCODER_QUOTA_DEGRADE_SECONDS set?
  MaxOutages   \* bound: store and ledger calls that fail

SeriesSet == Range(Series)
NoTurn == "no turn"

ASSUME MeteringAssumption ==
  /\ IsFiniteSet(Turns) /\ NoTurn \notin Turns
  /\ Series \in Seq(SeriesSet) /\ Series # <<>>
  /\ \A i, j \in DOMAIN Series : Series[i] = Series[j] => i = j
  /\ Limit \in [SeriesSet -> Nat]
  /\ Estimate \in Nat /\ Bills \subseteq Nat
  /\ MaxSettled \in Nat \ {0} /\ Degrade \in BOOLEAN /\ MaxOutages \in Nat

VARIABLES
  charge,    \* charge[r][s]: the amounts in series s recorded for reservation r
  claim,     \* the store's idempotency records
  open,      \* QuotaPolicy._open
  settled,   \* QuotaPolicy._settled, oldest first
  pc,        \* the coroutine of each request
  resv,      \* the reservation it holds
  job,       \* its settlement or release: what, and how far
  bill,      \* what the endpoint reported to it
  ledger,    \* by delivery: the rows the ledger holds and the writes that failed
  outages,   \* store and ledger calls that failed
  torn,      \* history: cut off or degraded between two store calls
  shared     \* history: reservations handed to a second delivery

quotaVars == <<charge, claim, open, settled>>
vars == <<quotaVars, pc, resv, job, bill, ledger, outages, torn, shared>>

Keys == {Key[t] : t \in Turns} \ {NoKey}
NoJob == [do |-> "nothing", at |-> 0]
Unwritten == [rows |-> 0, dropped |-> 0]
InAll(amount) == SumOf(amount, Turns)
Max0(n) == IF n < 0 THEN 0 ELSE n

\* The script's total of a series.
Used(s) == Max0(InAll([r \in Turns |-> charge[r][s]]))

Goto(t, place) == pc' = [pc EXCEPT ![t] = place]
Outage == outages < MaxOutages /\ outages' = outages + 1

\* What follows a store call that failed: within the grace window the policy
\* goes on, otherwise it raises.  Whether it is still within is left open.
Grace == Degrade

-----------------------------------------------------------------------------
(* QuotaPolicy.reserve, in the request's coroutine *)

\* `remember`: SET NX GET.  A delivery that finds its key claimed gets the
\* reservation the claim names, if that is open.
Claim(t) ==
  /\ pc[t] = "new"
  /\ LET first == IF Key[t] = NoKey THEN NoTurn ELSE claim[Key[t]]
     IN /\ claim' = IF Key[t] # NoKey /\ first = NoTurn
                    THEN [claim EXCEPT ![Key[t]] = t] ELSE claim
        /\ IF first \in open
             THEN /\ Goto(t, "calling") /\ resv' = [resv EXCEPT ![t] = first]
                  /\ shared' = shared \cup {first}
             ELSE /\ Goto(t, "claimed") /\ UNCHANGED <<resv, shared>>
  /\ UNCHANGED <<charge, open, settled, job, bill, ledger, outages, torn>>

ClaimFails(t) ==
  /\ pc[t] = "new" /\ Key[t] # NoKey /\ Outage
  /\ Goto(t, "gone")
  /\ UNCHANGED <<quotaVars, resv, job, bill, ledger, torn, shared>>

\* Mutant of Fits: room is looked for before the estimate is added.
FitsBefore(s) == Limit[s] > 0 => Used(s) < Limit[s]

Fits(s) == Limit[s] > 0 => Used(s) + Estimate <= Limit[s]

\* The Lua script: every series is charged or none is.
Apply(t) ==
  /\ pc[t] = "claimed"
  /\ IF \A s \in SeriesSet : Fits(s)
       THEN /\ charge' = [charge EXCEPT ![t] = [s \in SeriesSet |-> @[s] + Estimate]]
            /\ Goto(t, "charged")
       ELSE /\ UNCHANGED charge
            /\ Goto(t, "refused")
  /\ UNCHANGED <<claim, open, settled, resv, job, bill, ledger, outages, torn, shared>>

Reserved(t) ==
  /\ Goto(t, "calling")
  /\ resv' = [resv EXCEPT ![t] = t]
  /\ open' = open \cup {t}

\* The script answered; `apply` still reads the window and the resets.
ReserveReturns(t) ==
  /\ \/ pc[t] = "charged" /\ Reserved(t)
     \/ pc[t] = "refused" /\ Goto(t, "gone") /\ UNCHANGED <<resv, open>>
  /\ UNCHANGED <<charge, claim, settled, job, bill, ledger, outages, torn, shared>>

\* StoreUnavailable, from the script or from the reads behind it: served as
\* degraded, or refused with whatever was charged left behind.
ReserveFails(t) ==
  /\ pc[t] \in {"claimed", "charged", "refused"} /\ Outage
  /\ \/ Grace /\ Reserved(t) /\ torn' = torn \cup {t}
     \/ /\ Goto(t, "gone") /\ UNCHANGED <<resv, open>>
        /\ torn' = IF pc[t] = "charged" THEN torn \cup {t} ELSE torn
  /\ UNCHANGED <<charge, claim, settled, job, bill, ledger, shared>>

-----------------------------------------------------------------------------
(* ModelProxy.stream *)

Schedule(t, what) == job' = [job EXCEPT ![t] = [do |-> what, at |-> 0]]

FirstByte(t) ==
  /\ pc[t] = "calling" /\ Goto(t, "streaming")
  /\ UNCHANGED <<quotaVars, resv, job, bill, ledger, outages, torn, shared>>

\* The upstream cannot be reached or answers 4xx: the release is awaited.
UpstreamFails(t) ==
  /\ pc[t] = "calling" /\ Goto(t, "releasing")
  /\ Schedule(t, "release")
  /\ UNCHANGED <<quotaVars, resv, bill, ledger, outages, torn, shared>>

\* The usage chunk passes; its settlement is scheduled at once.
UsageChunk(t) ==
  /\ pc[t] = "streaming" /\ Goto(t, "metered")
  /\ \E b \in Bills : bill' = [bill EXCEPT ![t] = b]
  /\ Schedule(t, "settle")
  /\ UNCHANGED <<quotaVars, resv, ledger, outages, torn, shared>>

\* The stream ends, or breaks, or the caller goes away: the `finally`.
StreamEnds(t) ==
  /\ pc[t] \in {"streaming", "metered"} /\ Goto(t, "gone")
  /\ IF pc[t] = "streaming" THEN Schedule(t, "settle") ELSE UNCHANGED job
  /\ UNCHANGED <<quotaVars, resv, bill, ledger, outages, torn, shared>>

\* Mutant of CallerLeaves: a cancelled request releases nothing (BUG GW-2).
CallerLeavesHolding(t) ==
  /\ pc[t] \in {"claimed", "charged", "refused", "calling", "releasing"} /\ Goto(t, "gone")
  /\ job' = [job EXCEPT ![t] = NoJob]
  /\ torn' = IF pc[t] = "charged" \/ (pc[t] = "releasing" /\ job[t].at > 1)
             THEN torn \cup {t} ELSE torn
  /\ UNCHANGED <<quotaVars, resv, bill, ledger, outages, shared>>

\* The caller goes away while the request's coroutine awaits something before
\* the first byte.  Nothing is scheduled until the reservation is in hand; an
\* awaited release that is cut off is started again.
CallerLeaves(t) ==
  /\ pc[t] \in {"claimed", "charged", "refused", "calling", "releasing"} /\ Goto(t, "gone")
  /\ IF pc[t] \in {"calling", "releasing"} THEN Schedule(t, "release") ELSE UNCHANGED job
  /\ torn' = IF pc[t] = "charged" \/ (pc[t] = "releasing" /\ job[t].at > 1)
             THEN torn \cup {t} ELSE torn
  /\ UNCHANGED <<quotaVars, resv, bill, ledger, outages, shared>>

-----------------------------------------------------------------------------
(* QuotaPolicy.reconcile and release, in the task or the awaiting coroutine *)

IsSettled(r) == r \in Range(settled)
Over(t) == IF pc[t] = "releasing" THEN Goto(t, "gone") ELSE UNCHANGED pc
Done(t) == job' = [job EXCEPT ![t] = NoJob]
Step(t) == job' = [job EXCEPT ![t].at = @ + 1]

Working(t) == job[t] # NoJob
Amount(t) == IF job[t].do = "release" THEN - Estimate ELSE bill[t] - Estimate

\* Already settled: reconcile raises (and is logged), release returns.
Begin(t) ==
  /\ Working(t) /\ job[t].at = 0
  /\ IF IsSettled(resv[t]) THEN Done(t) /\ Over(t) ELSE Step(t) /\ UNCHANGED pc
  /\ UNCHANGED <<quotaVars, resv, bill, ledger, outages, torn, shared>>

\* One series at a time, each its own store call.
Adjust(t) ==
  /\ job[t].at \in DOMAIN Series
  /\ charge' = [charge EXCEPT ![resv[t]][Series[job[t].at]] = @ + Amount(t)]
  /\ Step(t)
  /\ UNCHANGED <<claim, open, settled, pc, resv, bill, ledger, outages, torn, shared>>

\* The newest MAX_SETTLED_IDS are remembered.
Remember(r) ==
  settled' = LET s == IF IsSettled(r) THEN settled ELSE Append(settled, r)
             IN IF Len(s) > MaxSettled THEN Tail(s) ELSE s

\* Where a settlement stands once reconcile has returned.
Recording == Len(Series) + 2

\* A release is over; a settlement goes on to the ledger.
Close(t) ==
  /\ open' = open \ {resv[t]}
  /\ Remember(resv[t])
  /\ IF job[t].do = "settle" THEN UNCHANGED pc /\ job' = [job EXCEPT ![t].at = Recording]
                             ELSE Done(t) /\ Over(t)

Finish(t) ==
  /\ job[t].at = Len(Series) + 1
  /\ Close(t)
  /\ UNCHANGED <<charge, claim, resv, bill, ledger, outages, torn, shared>>

\* A store call that failed: within grace the loop is left and the reservation
\* closed; otherwise the error ends a task, and makes the awaiting coroutine
\* schedule its release a second time.
AdjustFails(t) ==
  /\ job[t].at \in DOMAIN Series /\ Outage
  /\ torn' = torn \cup {t, resv[t]}
  /\ \/ Grace /\ Close(t)
     \/ /\ UNCHANGED <<open, settled>>
        /\ IF pc[t] = "releasing" THEN Schedule(t, "release") /\ Goto(t, "gone")
                                  ELSE Done(t) /\ UNCHANGED pc
  /\ UNCHANGED <<charge, claim, resv, bill, ledger, shared>>

(* PostgresLedger.record, the last await of ModelProxy._settle *)

\* What a write leaves behind: a row, a count of it as dropped, or both.
Written(t, row, failed) == [ledger EXCEPT ![t].rows = @ + row, ![t].dropped = @ + failed]

Record(t) ==
  /\ job[t].at = Recording
  /\ ledger' = Written(t, 1, 0)
  /\ Done(t)
  /\ UNCHANGED <<quotaVars, pc, resv, bill, outages, torn, shared>>

\* The exception is logged, counted and swallowed; the row is there all the same
\* when only the answer was lost.
RecordFails(t) ==
  /\ job[t].at = Recording /\ Outage
  /\ \E row \in {0, 1} : ledger' = Written(t, row, 1)
  /\ Done(t)
  /\ UNCHANGED <<quotaVars, pc, resv, bill, torn, shared>>

-----------------------------------------------------------------------------
Init ==
  /\ charge = [r \in Turns |-> [s \in SeriesSet |-> 0]]
  /\ claim = [k \in Keys |-> NoTurn]
  /\ open = {} /\ settled = <<>>
  /\ pc = [t \in Turns |-> "new"]
  /\ resv = [t \in Turns |-> t]
  /\ job = [t \in Turns |-> NoJob]
  /\ bill = [t \in Turns |-> Estimate]
  /\ ledger = [t \in Turns |-> Unwritten]
  /\ outages = 0 /\ torn = {} /\ shared = {}

Settlement(t) == Begin(t) \/ Adjust(t) \/ Finish(t) \/ Record(t)

Next == \E t \in Turns :
  \/ Claim(t) \/ ClaimFails(t) \/ Apply(t) \/ ReserveReturns(t) \/ ReserveFails(t)
  \/ FirstByte(t) \/ UpstreamFails(t) \/ UsageChunk(t) \/ StreamEnds(t) \/ CallerLeaves(t)
  \/ Settlement(t) \/ AdjustFails(t) \/ RecordFails(t)

Spec == Init /\ [][Next]_vars

-----------------------------------------------------------------------------
(* Properties *)

\* Nothing of delivery t is under way any more.
Quiet(t) == pc[t] = "gone" /\ ~Working(t)
\* Its reservation is its own, and no step of it was cut off half way.
Whole(t) == t \notin torn /\ resv[t] \notin torn /\ resv[t] \notin shared

\* The ledger was told of delivery t: it holds the row or counted it as dropped.
Reckoned(t) == ledger[t] # Unwritten

\* A call is charged what the endpoint reported, on every series, and the ledger
\* was told of it once: it holds one row of it, or counted one write of it as
\* dropped (it may have done both); or the call is charged nothing at all and the
\* ledger knows nothing of it (ModelProxy.stream: reserve, relay, tee, settle;
\* PostgresLedger.record swallows a failed write, and the counters stand; a
\* reservation is never left at its estimate, BUG GW-2).  Once it is over it holds
\* nothing back from the next call.
SettledExactly ==
  /\ \A t \in Turns : Quiet(t) /\ Whole(t) =>
       /\ ledger[t].rows \in {0, 1} /\ ledger[t].dropped \in {0, 1}
       /\ \A s \in SeriesSet : charge[t][s] = IF Reckoned(t) THEN bill[t] ELSE 0
  /\ \A r \in open : r \in torn \/ r \in shared \/ ~Quiet(r)

\* What was really spent or may still be: the estimate until the endpoint says,
\* then the bill; nothing for a call that never reached the model.
Spends(t) == Reckoned(t) \/ job[t].do = "settle"
Exposure(t) ==
  IF Spends(t) THEN bill[t]
  ELSE IF pc[t] \in {"charged", "calling", "streaming"} THEN Estimate ELSE 0
Overshoot(t) == IF Spends(t) THEN Max0(bill[t] - Estimate) ELSE 0

\* The ceilings hold for what is really spent, not only for the counters: calls
\* in flight together with calls paid for go past one by what settlements
\* exceeded their estimates and by nothing else (QuotaPolicy.reconcile).
SpendIsWithinLimits ==
  torn = {} /\ shared = {} =>
    \A s \in SeriesSet : Limit[s] > 0 =>
      InAll([t \in Turns |-> Exposure(t)]) <= Limit[s] + InAll([t \in Turns |-> Overshoot(t)])

================================================================================
