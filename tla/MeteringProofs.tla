---------------------------- MODULE MeteringProofs ----------------------------
(***************************************************************************)
(* For every set of deliveries and keys, every list of series and any      *)
(* ceilings: a call whose steps were not cut off is charged what the       *)
(* endpoint reported, on every series, or nothing; and what is spent or    *)
(* may still be stays within every ceiling, overshoot aside.               *)
(*                                                                         *)
(* SettledExactly speaks of deliveries at rest only.  The invariant says   *)
(* where a delivery stands on the way there: what its series hold at each  *)
(* place of its coroutine, how far its settlement is, and that nobody else *)
(* settles its reservation.  From it follows that the counters cover what  *)
(* the estimates do, and so that the script's look at them is enough.      *)
(***************************************************************************)
EXTENDS Metering, SequenceTheorems, TLAPS

Stages == {"new", "claimed", "charged", "refused", "calling", "streaming", "metered",
           "releasing", "gone"}

\* The types of what the gateway keeps.
Typed ==
  /\ charge \in [Turns -> [SeriesSet -> Int]]
  /\ claim \in [Keys -> Turns \cup {NoTurn}]
  /\ open \subseteq Turns
  /\ settled \in Seq(Turns)
  /\ pc \in [Turns -> Stages]
  /\ resv \in [Turns -> Turns]
  /\ job \in [Turns -> [do : {"nothing", "settle", "release"}, at : Nat]]
  /\ bill \in [Turns -> Nat]
  /\ ledger \in [Turns -> [rows : Nat, dropped : Nat]]

\* A delivery holds its own reservation or one that it shares.
Own(t) ==
  /\ resv[t] # t => resv[t] \in shared
  /\ pc[t] \in {"new", "claimed", "charged", "refused"} => resv[t] = t /\ t \notin open
  /\ t \in open => resv[t] = t

\* Every series stands at n for reservation t.
StandsAt(t, n) == \A s \in SeriesSet : charge[t][s] = n

\* Nothing is under way for it, or it holds a reservation not settled yet.
Idle(t) == ~Working(t) /\ t \notin open
Held(t) == t \in open /\ ~IsSettled(t) /\ ~Reckoned(t)
\* A settlement has adjusted the series before the one it is at.
PartWay(t) ==
  /\ job[t].do \in {"settle", "release"} /\ job[t].at \in 0 .. Len(Series) + 1
  /\ \A i \in DOMAIN Series :
       charge[t][Series[i]] = IF i < job[t].at THEN Estimate + Amount(t) ELSE Estimate

\* Where a delivery that is whole stands, by the place of its coroutine.
Before(t) == Idle(t) /\ ~IsSettled(t) /\ ~Reckoned(t)
Settling(t) == Held(t) /\ Working(t) /\ PartWay(t)
\* Closed at its bill, and about to be told to the ledger.
Owing(t) ==
  /\ t \notin open /\ ~Reckoned(t) /\ StandsAt(t, bill[t])
  /\ job[t].do = "settle" /\ job[t].at = Recording
Ended(t) ==
  /\ Idle(t) /\ ledger[t].rows \in {0, 1} /\ ledger[t].dropped \in {0, 1}
  /\ StandsAt(t, IF Reckoned(t) THEN bill[t] ELSE 0)

Stage(t) ==
  /\ pc[t] \in {"new", "claimed", "refused"} => Before(t) /\ StandsAt(t, 0)
  /\ pc[t] = "charged" => Before(t) /\ StandsAt(t, Estimate)
  /\ pc[t] \in {"calling", "streaming"} => Held(t) /\ ~Working(t) /\ StandsAt(t, Estimate)
  /\ pc[t] = "releasing" => Settling(t) /\ job[t].do = "release"
  /\ pc[t] \in {"metered", "gone"} => Settling(t) \/ Owing(t) \/ Ended(t)

\* The inductive invariant.
MeterInv == Typed /\ (\A t \in Turns : Own(t)) /\ (\A t \in Turns : Whole(t) => Stage(t))

-----------------------------------------------------------------------------
(* The request's coroutine *)

(* Remembering a reservation as settled makes no other one settled, and may forget one. *)
LEMMA RememberDoes ==
  ASSUME NEW r \in Turns, settled \in Seq(Turns), Remember(r)
  PROVE  settled' \in Seq(Turns) /\ \A x : IsSettled(x)' => IsSettled(x) \/ x = r
<1> DEFINE s == IF IsSettled(r) THEN settled ELSE Append(settled, r)
<1>1. s \in Seq(Turns) /\ \A x : x \in Range(s) => IsSettled(x) \/ x = r
  <2>1. Append(settled, r) \in Seq(Turns)
    OBVIOUS
  <2>2. \A i \in DOMAIN Append(settled, r) :
          Append(settled, r)[i] = r \/ (i \in DOMAIN settled /\ Append(settled, r)[i] = settled[i])
    OBVIOUS
  <2> QED  BY <2>1, <2>2 DEF IsSettled, Range
<1>2. settled' = IF Len(s) > MaxSettled THEN Tail(s) ELSE s
  BY DEF Remember
<1>3. CASE settled' = s
  BY <1>1, <1>3 DEF IsSettled, Range
<1>4. CASE settled' = Tail(s) /\ Len(s) > MaxSettled
  <2> HIDE DEF s
  <2>1. s # << >>
    <3>1. MaxSettled \in Nat \ {0}
      BY MeteringAssumption DEF MeteringAssumption
    <3> QED  BY <3>1, <1>4, <1>1
  <2>2. Tail(s) \in Seq(Turns) /\ \A i \in DOMAIN Tail(s) : i + 1 \in DOMAIN s /\ Tail(s)[i] = s[i + 1]
    BY <1>1, <2>1
  <2> QED  BY <1>1, <1>4, <2>2 DEF IsSettled, Range
<1> QED  BY <1>2, <1>3, <1>4

\* Nothing that delivery t's stage speaks of is touched.
Untouched(t) ==
  /\ pc'[t] = pc[t] /\ job'[t] = job[t] /\ bill'[t] = bill[t] /\ ledger'[t] = ledger[t]
  /\ charge'[t] = charge[t]
  /\ t \in open' <=> t \in open
  /\ IsSettled(t)' => IsSettled(t)

(* A delivery nothing of which is touched stays at its stage. *)
LEMMA StageStands ==
  ASSUME NEW t \in Turns, Stage(t), Untouched(t)
  PROVE  Stage(t)'
<1>1. (Before(t) => Before(t)') /\ (Held(t) => Held(t)') /\ (Working(t)' <=> Working(t))
  BY DEF Untouched, Before, Held, Idle, Working, NoJob, Reckoned
<1>2. PartWay(t) => PartWay(t)'
  BY DEF Untouched, PartWay, Amount
<1>3. StandsAt(t, 0) => StandsAt(t, 0)'
  BY DEF Untouched, StandsAt
<1>4. StandsAt(t, Estimate) => StandsAt(t, Estimate)'
  BY DEF Untouched, StandsAt
<1>5. (Ended(t) => Ended(t)') /\ (Owing(t) => Owing(t)')
  BY <1>1 DEF Untouched, Ended, Owing, StandsAt, Idle, Reckoned
<1>6. Settling(t) => Settling(t)'
  BY <1>1, <1>2 DEF Settling
<1> QED  BY <1>1, <1>3, <1>4, <1>5, <1>6 DEF Stage, Untouched

(* A step of delivery t keeps the invariant when it keeps the types and the ownership, *)
(* does not touch the stage of another whole delivery, and leaves t at a stage.        *)
LEMMA StepKeeps ==
  ASSUME MeterInv, NEW t \in Turns,
         Typed', \A x \in Turns : Own(x)',
         torn \subseteq torn', shared \subseteq shared',
         \A x \in Turns : x # t /\ Whole(x)' => resv'[x] = resv[x] /\ (Whole(x) => Untouched(x)),
         Whole(t)' => Stage(t)'
  PROVE  MeterInv'
<1>1. ASSUME NEW x \in Turns, Whole(x)', x # t
      PROVE  Stage(x)'
  <2>1. resv'[x] = resv[x]
    BY <1>1
  <2>2. Whole(x)
    BY <1>1, <2>1 DEF Whole
  <2>3. Untouched(x) /\ Stage(x)
    BY <1>1, <2>2 DEF MeterInv
  <2> QED  BY <2>3, StageStands
<1> QED  BY <1>1 DEF MeterInv

\* Nobody settles the reservation of another delivery that is whole.
LEMMA WorksOnItsOwn ==
  ASSUME MeterInv, NEW t \in Turns, NEW x \in Turns, x # t, Whole(x)
  PROVE  resv[x] = x /\ resv[t] # x
BY DEF MeterInv, Own, Whole

(* A delivery that finds its key claimed by an open reservation shares it from then on; *)
(* the others go on to the script.                                                      *)
LEMMA ClaimKeeps ==
  ASSUME MeterInv, NEW t \in Turns, Claim(t)
  PROVE  MeterInv'
<1> USE DEF Claim, Goto
<1>1. PICK first \in Turns \cup {NoTurn} :
         /\ first = IF Key[t] = NoKey THEN NoTurn ELSE claim[Key[t]]
         /\ claim' = IF Key[t] # NoKey /\ first = NoTurn
                     THEN [claim EXCEPT ![Key[t]] = t] ELSE claim
         /\ IF first \in open
              THEN /\ pc' = [pc EXCEPT ![t] = "calling"] /\ resv' = [resv EXCEPT ![t] = first]
                   /\ shared' = shared \cup {first}
              ELSE /\ pc' = [pc EXCEPT ![t] = "claimed"] /\ UNCHANGED <<resv, shared>>
  <2>1. Key[t] # NoKey => claim[Key[t]] \in Turns \cup {NoTurn}
    BY DEF MeterInv, Typed, Keys
  <2> QED  BY <2>1
<1>2. Typed'
  <2>1. claim' \in [Keys -> Turns \cup {NoTurn}]
    BY <1>1 DEF MeterInv, Typed
  <2>2. pc' \in [Turns -> Stages] /\ resv' \in [Turns -> Turns]
    <3>1. CASE first \in open
      <4>1. pc' = [pc EXCEPT ![t] = "calling"] /\ resv' = [resv EXCEPT ![t] = first] /\ first \in Turns
        BY <1>1, <3>1 DEF MeterInv, Typed
      <4> QED  BY <4>1 DEF MeterInv, Typed, Stages
    <3>2. CASE first \notin open
      BY <1>1, <3>2 DEF MeterInv, Typed, Stages
    <3> QED  BY <3>1, <3>2
  <2> QED  BY <2>1, <2>2 DEF MeterInv, Typed
<1>3. ASSUME NEW x \in Turns PROVE Own(x)'
  <2>0. pc[t] = "new" /\ Typed /\ Own(x) /\ open' = open
    BY DEF MeterInv
  <2>1. CASE first \in open
    <3>1. pc' = [pc EXCEPT ![t] = "calling"] /\ resv' = [resv EXCEPT ![t] = first]
           /\ shared' = shared \cup {first}
      BY <1>1, <2>1
    <3>2. CASE x = t
      BY <2>0, <3>1, <3>2, <2>1 DEF Typed, Own
    <3>3. CASE x # t
      BY <2>0, <3>1, <3>3 DEF Typed, Own
    <3> QED  BY <3>2, <3>3
  <2>2. CASE first \notin open
    BY <2>0, <1>1, <2>2 DEF Typed, Own
  <2> QED  BY <2>1, <2>2
<1>4. \A x \in Turns : x # t => resv'[x] = resv[x] /\ Untouched(x)
  BY <1>1 DEF MeterInv, Typed, Untouched, IsSettled
<1>5. ASSUME Whole(t)' PROVE Stage(t)'
  <2>1. UNCHANGED <<resv, shared, torn>> /\ pc' = [pc EXCEPT ![t] = "claimed"]
    BY <1>1, <1>5 DEF MeterInv, Typed, Whole
  <2>2. Whole(t) /\ Stage(t)
    BY <2>1, <1>5 DEF Whole, MeterInv
  <2>3. pc'[t] = "claimed" /\ Before(t) /\ StandsAt(t, 0)
    BY <2>1, <2>2 DEF Stage, MeterInv, Typed
  <2>4. Before(t)' /\ StandsAt(t, 0)'
    BY <2>3 DEF Before, Idle, Working, StandsAt, NoJob, IsSettled, Reckoned
  <2> QED  BY <2>3, <2>4 DEF Stage
<1>6. torn' = torn /\ shared \subseteq shared'
  BY <1>1
<1> QED  BY <1>2, <1>3, <1>4, <1>5, <1>6, StepKeeps

(* A delivery whose claim fails was charged nothing. *)
LEMMA ClaimFailsKeeps ==
  ASSUME MeterInv, NEW t \in Turns, ClaimFails(t)
  PROVE  MeterInv'
<1>1. /\ pc[t] = "new" /\ pc' = [pc EXCEPT ![t] = "gone"]
      /\ UNCHANGED <<quotaVars, resv, job, bill, ledger, torn, shared>>
  BY DEF ClaimFails, Goto
<1>2. Typed' /\ \A x \in Turns : Own(x)'
  BY <1>1 DEF MeterInv, Typed, Stages, Own, quotaVars
<1>3. \A x \in Turns : x # t => resv'[x] = resv[x] /\ Untouched(x)
  BY <1>1 DEF MeterInv, Typed, Untouched, IsSettled, quotaVars
<1>4. ASSUME Whole(t)' PROVE Stage(t)'
  <2>1. Before(t) /\ StandsAt(t, 0)
    BY <1>1, <1>4 DEF Whole, MeterInv, Stage
  <2>2. Ended(t)'
    BY <1>1, <2>1 DEF Before, Ended, Idle, Working, StandsAt, NoJob, quotaVars, Reckoned, Unwritten
  <2> QED  BY <1>1, <2>2 DEF Stage, MeterInv, Typed
<1> QED  BY <1>1, <1>2, <1>3, <1>4, StepKeeps

(* The script charges every series the estimate, or none. *)
LEMMA ApplyKeeps ==
  ASSUME MeterInv, NEW t \in Turns, Apply(t)
  PROVE  MeterInv'
<1>1. /\ pc[t] = "claimed"
      /\ \/ /\ charge' = [charge EXCEPT ![t] = [s \in SeriesSet |-> charge[t][s] + Estimate]]
            /\ pc' = [pc EXCEPT ![t] = "charged"]
         \/ charge' = charge /\ pc' = [pc EXCEPT ![t] = "refused"]
      /\ UNCHANGED <<claim, open, settled, resv, job, bill, ledger, torn, shared>>
  BY DEF Apply, Goto
<1>2. Estimate \in Nat
  BY MeteringAssumption DEF MeteringAssumption
<1>3. Typed'
  <2>1. charge' \in [Turns -> [SeriesSet -> Int]]
    <3>1. charge \in [Turns -> [SeriesSet -> Int]]
      BY DEF MeterInv, Typed
    <3>2. [s \in SeriesSet |-> charge[t][s] + Estimate] \in [SeriesSet -> Int]
      BY <3>1, <1>2
    <3> QED  BY <1>1, <3>1, <3>2
  <2>2. pc' \in [Turns -> Stages]
    BY <1>1 DEF MeterInv, Typed, Stages
  <2> QED  BY <1>1, <2>1, <2>2 DEF MeterInv, Typed
<1>4. \A x \in Turns : Own(x)'
  BY <1>1 DEF MeterInv, Typed, Own
<1>5. \A x \in Turns : x # t => resv'[x] = resv[x] /\ Untouched(x)
  BY <1>1 DEF MeterInv, Typed, Untouched, IsSettled
<1>6. ASSUME Whole(t)' PROVE Stage(t)'
  <2>1. Before(t) /\ StandsAt(t, 0)
    BY <1>1, <1>6 DEF Whole, MeterInv, Stage
  <2>2. Before(t)'
    BY <1>1, <2>1 DEF Before, Idle, Working, NoJob, IsSettled, Reckoned
  <2>3. CASE charge' = charge /\ pc'[t] = "refused"
    BY <2>1, <2>2, <2>3 DEF Stage, StandsAt
  <2>4. CASE charge'[t] = [s \in SeriesSet |-> charge[t][s] + Estimate] /\ pc'[t] = "charged"
    BY <2>1, <2>2, <2>4, <1>2 DEF Stage, StandsAt
  <2> QED  BY <1>1, <2>3, <2>4 DEF MeterInv, Typed
<1> QED  BY <1>1, <1>3, <1>4, <1>5, <1>6, StepKeeps

(* The reservation is opened when it was charged; a refusal leaves nothing charged. *)
LEMMA ReserveReturnsKeeps ==
  ASSUME MeterInv, NEW t \in Turns, ReserveReturns(t)
  PROVE  MeterInv'
<1>1. /\ \/ /\ pc[t] = "charged" /\ pc' = [pc EXCEPT ![t] = "calling"]
            /\ resv' = [resv EXCEPT ![t] = t] /\ open' = open \cup {t}
         \/ /\ pc[t] = "refused" /\ pc' = [pc EXCEPT ![t] = "gone"]
            /\ UNCHANGED <<resv, open>>
      /\ UNCHANGED <<charge, claim, settled, job, bill, ledger, torn, shared>>
  BY DEF ReserveReturns, Reserved, Goto
<1>2. Typed'
  <2>1. pc' \in [Turns -> Stages]
    BY <1>1 DEF MeterInv, Typed, Stages
  <2>2. open' \subseteq Turns
    BY <1>1 DEF MeterInv, Typed
  <2>3. resv' \in [Turns -> Turns]
    BY <1>1 DEF MeterInv, Typed
  <2> QED  BY <1>1, <2>1, <2>2, <2>3 DEF MeterInv, Typed
<1>3. resv[t] = t /\ t \notin open /\ resv' = resv
  BY <1>1 DEF MeterInv, Typed, Own
<1>4. \A x \in Turns : Own(x)'
  BY <1>1, <1>3 DEF MeterInv, Typed, Own
<1>5. \A x \in Turns : x # t => resv'[x] = resv[x] /\ Untouched(x)
  BY <1>1, <1>3 DEF MeterInv, Typed, Untouched, IsSettled
<1>6. ASSUME Whole(t)' PROVE Stage(t)'
  <2>1. Whole(t) /\ Before(t) /\ (pc[t] = "charged" => StandsAt(t, Estimate))
                 /\ (pc[t] = "refused" => StandsAt(t, 0))
    BY <1>1, <1>3, <1>6 DEF Whole, MeterInv, Stage
  <2>2. CASE pc[t] = "charged" /\ pc'[t] = "calling" /\ t \in open'
    <3>1. Held(t)' /\ ~Working(t)' /\ StandsAt(t, Estimate)'
      BY <1>1, <2>1, <2>2 DEF Before, Held, Idle, Working, NoJob, IsSettled, StandsAt, Reckoned
    <3> QED  BY <2>2, <3>1 DEF Stage
  <2>3. CASE pc[t] = "refused" /\ pc'[t] = "gone" /\ open' = open
    <3>1. Ended(t)'
      BY <1>1, <2>1, <2>3 DEF Before, Ended, Idle, Working, NoJob, StandsAt, Reckoned, Unwritten
    <3> QED  BY <2>3, <3>1 DEF Stage
  <2> QED  BY <1>1, <2>2, <2>3 DEF MeterInv, Typed
<1> QED  BY <1>1, <1>2, <1>4, <1>5, <1>6, StepKeeps

(* A store call that fails after the charge tears the delivery; one before it charged nothing. *)
LEMMA ReserveFailsKeeps ==
  ASSUME MeterInv, NEW t \in Turns, ReserveFails(t)
  PROVE  MeterInv'
<1>1. /\ pc[t] \in {"claimed", "charged", "refused"}
      /\ \/ /\ pc' = [pc EXCEPT ![t] = "calling"] /\ resv' = [resv EXCEPT ![t] = t]
            /\ open' = open \cup {t} /\ torn' = torn \cup {t}
         \/ /\ pc' = [pc EXCEPT ![t] = "gone"] /\ UNCHANGED <<resv, open>>
            /\ torn' = IF pc[t] = "charged" THEN torn \cup {t} ELSE torn
      /\ UNCHANGED <<charge, claim, settled, job, bill, ledger, shared>>
  BY DEF ReserveFails, Reserved, Goto
<1>2. Typed'
  <2>1. pc' \in [Turns -> Stages]
    BY <1>1 DEF MeterInv, Typed, Stages
  <2>2. open' \subseteq Turns
    BY <1>1 DEF MeterInv, Typed
  <2>3. resv' \in [Turns -> Turns]
    BY <1>1 DEF MeterInv, Typed
  <2> QED  BY <1>1, <2>1, <2>2, <2>3 DEF MeterInv, Typed
<1>3. resv[t] = t /\ t \notin open /\ resv' = resv
  BY <1>1 DEF MeterInv, Typed, Own
<1>4. \A x \in Turns : Own(x)'
  BY <1>1, <1>3 DEF MeterInv, Typed, Own
<1>5. \A x \in Turns : x # t => resv'[x] = resv[x] /\ Untouched(x)
  BY <1>1, <1>3 DEF MeterInv, Typed, Untouched, IsSettled
<1>6. ASSUME Whole(t)' PROVE Stage(t)'
  <2>1. /\ pc[t] \in {"claimed", "refused"} /\ torn' = torn /\ open' = open
        /\ pc'[t] = "gone"
    BY <1>1, <1>6 DEF Whole, MeterInv, Typed
  <2>2. Before(t) /\ StandsAt(t, 0)
    BY <1>1, <1>3, <1>6, <2>1 DEF Whole, MeterInv, Stage
  <2>3. Ended(t)'
    BY <1>1, <2>1, <2>2 DEF Before, Ended, Idle, Working, NoJob, StandsAt, Reckoned, Unwritten
  <2> QED  BY <2>1, <2>3 DEF Stage
<1>7. torn \subseteq torn'
  BY <1>1
<1> QED  BY <1>1, <1>2, <1>4, <1>5, <1>6, <1>7, StepKeeps

\* Every stage a scheduled settlement may start from leaves it before the first series.
LEMMA ScheduleDoes ==
  ASSUME NEW t \in Turns, job \in [Turns -> [do : {"nothing", "settle", "release"}, at : Nat]],
         NEW what \in {"settle", "release"}, Schedule(t, what)
  PROVE  /\ job' \in [Turns -> [do : {"nothing", "settle", "release"}, at : Nat]]
         /\ \A x \in Turns : x # t => job'[x] = job[x]
         /\ job'[t] = [do |-> what, at |-> 0] /\ Working(t)'
BY DEF Schedule, Working, NoJob

(* A settlement starts with every series at the estimate. *)
LEMMA StartsBefore ==
  ASSUME NEW t \in Turns, job'[t].do \in {"settle", "release"}, job'[t].at = 0, Working(t)',
         Held(t), StandsAt(t, Estimate), UNCHANGED <<charge, open, settled>>, ledger'[t] = ledger[t]
  PROVE  Settling(t)'
<1>1. Held(t)'
  BY DEF Held, IsSettled, Reckoned
<1>2. \A i \in DOMAIN Series : Series[i] \in SeriesSet /\ ~(i < 0)
  BY MeteringAssumption DEF MeteringAssumption, SeriesSet, Range
<1>3. Len(Series) \in Nat
  BY MeteringAssumption DEF MeteringAssumption
<1>4. PartWay(t)'
  BY <1>2, <1>3 DEF PartWay, StandsAt
<1> QED  BY <1>1, <1>4 DEF Settling

(* The first byte changes no counter. *)
LEMMA FirstByteKeeps ==
  ASSUME MeterInv, NEW t \in Turns, FirstByte(t)
  PROVE  MeterInv'
<1>1. /\ pc[t] = "calling" /\ pc' = [pc EXCEPT ![t] = "streaming"]
      /\ UNCHANGED <<charge, claim, open, settled, resv, job, bill, ledger, torn, shared>>
  BY DEF FirstByte, Goto, quotaVars
<1>2. Typed' /\ \A x \in Turns : Own(x)'
  BY <1>1 DEF MeterInv, Typed, Stages, Own
<1>3. \A x \in Turns : x # t => resv'[x] = resv[x] /\ Untouched(x)
  BY <1>1 DEF MeterInv, Typed, Untouched, IsSettled
<1>4. ASSUME Whole(t)' PROVE Stage(t)'
  <2>1. Held(t) /\ ~Working(t) /\ StandsAt(t, Estimate)
    BY <1>1, <1>4 DEF Whole, MeterInv, Stage
  <2>2. Held(t)' /\ ~Working(t)' /\ StandsAt(t, Estimate)'
    BY <1>1, <2>1 DEF Held, Working, NoJob, StandsAt, IsSettled, Reckoned
  <2> QED  BY <1>1, <2>2 DEF Stage, MeterInv, Typed
<1> QED  BY <1>1, <1>2, <1>3, <1>4, StepKeeps

(* A failing upstream has the whole reservation released. *)
LEMMA UpstreamFailsKeeps ==
  ASSUME MeterInv, NEW t \in Turns, UpstreamFails(t)
  PROVE  MeterInv'
<1>1. /\ pc[t] = "calling" /\ pc' = [pc EXCEPT ![t] = "releasing"] /\ Schedule(t, "release")
      /\ UNCHANGED <<charge, claim, open, settled, resv, bill, ledger, torn, shared>>
  BY DEF UpstreamFails, Goto, quotaVars
<1>2. Typed /\ job \in [Turns -> [do : {"nothing", "settle", "release"}, at : Nat]]
  BY DEF MeterInv, Typed
<1>3. /\ job' \in [Turns -> [do : {"nothing", "settle", "release"}, at : Nat]]
      /\ \A x \in Turns : x # t => job'[x] = job[x]
      /\ job'[t] = [do |-> "release", at |-> 0] /\ Working(t)'
  BY <1>1, <1>2, ScheduleDoes
<1>4. Typed' /\ \A x \in Turns : Own(x)'
  BY <1>1, <1>2, <1>3 DEF MeterInv, Typed, Stages, Own
<1>5. \A x \in Turns : x # t => resv'[x] = resv[x] /\ Untouched(x)
  BY <1>1, <1>2, <1>3 DEF Typed, Untouched, IsSettled
<1>6. ASSUME Whole(t)' PROVE Stage(t)'
  <2>1. Held(t) /\ StandsAt(t, Estimate)
    BY <1>1, <1>6 DEF Whole, MeterInv, Stage
  <2>2. Settling(t)'
    BY <1>1, <1>3, <2>1, StartsBefore
  <2> QED  BY <1>1, <1>2, <1>3, <2>2 DEF Stage, Typed
<1> QED  BY <1>1, <1>4, <1>5, <1>6, StepKeeps

(* The usage chunk has the reservation settled at the bill. *)
LEMMA UsageChunkKeeps ==
  ASSUME MeterInv, NEW t \in Turns, UsageChunk(t)
  PROVE  MeterInv'
<1>1. PICK b \in Bills :
        /\ pc[t] = "streaming" /\ pc' = [pc EXCEPT ![t] = "metered"] /\ Schedule(t, "settle")
        /\ bill' = [bill EXCEPT ![t] = b]
        /\ UNCHANGED <<charge, claim, open, settled, resv, ledger, torn, shared>>
  BY DEF UsageChunk, Goto, quotaVars
<1>2. Typed /\ job \in [Turns -> [do : {"nothing", "settle", "release"}, at : Nat]]
  BY DEF MeterInv, Typed
<1>3. /\ job' \in [Turns -> [do : {"nothing", "settle", "release"}, at : Nat]]
      /\ \A x \in Turns : x # t => job'[x] = job[x]
      /\ job'[t] = [do |-> "settle", at |-> 0] /\ Working(t)'
  BY <1>1, <1>2, ScheduleDoes
<1>4. Typed' /\ \A x \in Turns : Own(x)'
  <2>1. b \in Nat
    BY MeteringAssumption DEF MeteringAssumption
  <2> QED  BY <1>1, <1>2, <1>3, <2>1 DEF MeterInv, Typed, Stages, Own
<1>5. \A x \in Turns : x # t => resv'[x] = resv[x] /\ Untouched(x)
  BY <1>1, <1>2, <1>3 DEF Typed, Untouched, IsSettled
<1>6. ASSUME Whole(t)' PROVE Stage(t)'
  <2>1. Held(t) /\ StandsAt(t, Estimate)
    BY <1>1, <1>6 DEF Whole, MeterInv, Stage
  <2>2. Settling(t)'
    BY <1>1, <1>3, <2>1, StartsBefore
  <2> QED  BY <1>1, <1>2, <1>3, <2>2 DEF Stage, Typed
<1> QED  BY <1>1, <1>4, <1>5, <1>6, StepKeeps

(* A stream that ends without a usage chunk is settled at the estimate; one that had it *)
(* is being settled already, or is.                                                     *)
LEMMA StreamEndsKeeps ==
  ASSUME MeterInv, NEW t \in Turns, StreamEnds(t)
  PROVE  MeterInv'
<1>1. /\ pc[t] \in {"streaming", "metered"} /\ pc' = [pc EXCEPT ![t] = "gone"]
      /\ IF pc[t] = "streaming" THEN Schedule(t, "settle") ELSE job' = job
      /\ UNCHANGED <<charge, claim, open, settled, resv, bill, ledger, torn, shared>>
  BY DEF StreamEnds, Goto, quotaVars
<1>2. Typed /\ job \in [Turns -> [do : {"nothing", "settle", "release"}, at : Nat]]
  BY DEF MeterInv, Typed
<1>3. /\ job' \in [Turns -> [do : {"nothing", "settle", "release"}, at : Nat]]
      /\ \A x \in Turns : x # t => job'[x] = job[x]
      /\ pc[t] = "streaming" => job'[t] = [do |-> "settle", at |-> 0] /\ Working(t)'
  BY <1>1, <1>2, ScheduleDoes
<1>4. Typed' /\ \A x \in Turns : Own(x)'
  BY <1>1, <1>2, <1>3 DEF MeterInv, Typed, Stages, Own
<1>5. \A x \in Turns : x # t => resv'[x] = resv[x] /\ Untouched(x)
  BY <1>1, <1>2, <1>3 DEF Typed, Untouched, IsSettled
<1>6. ASSUME Whole(t)' PROVE Stage(t)'
  <2>1. Whole(t) /\ Stage(t) /\ pc'[t] = "gone"
    BY <1>1, <1>2, <1>6 DEF Whole, MeterInv, Typed
  <2>2. CASE pc[t] = "streaming"
    <3>1. Settling(t)'
      BY <1>1, <1>3, <2>1, <2>2, StartsBefore DEF Stage
    <3> QED  BY <2>1, <3>1 DEF Stage
  <2>3. CASE pc[t] = "metered"
    <3>1. Settling(t) \/ Owing(t) \/ Ended(t)
      BY <2>1, <2>3 DEF Stage
    <3>2. job' = job
      BY <1>1, <2>3
    <3>3. Settling(t) => Settling(t)'
      BY <1>1, <3>2 DEF Settling, Held, Working, NoJob, PartWay, Amount, IsSettled, Reckoned
    <3>4. (Ended(t) => Ended(t)') /\ (Owing(t) => Owing(t)')
      BY <1>1, <3>2 DEF Ended, Owing, Idle, Working, NoJob, StandsAt, Reckoned
    <3> QED  BY <2>1, <3>1, <3>3, <3>4 DEF Stage
  <2> QED  BY <1>1, <2>2, <2>3
<1> QED  BY <1>1, <1>4, <1>5, <1>6, StepKeeps

(* A caller that leaves with the reservation in hand has it released, from the start; *)
(* a release that had adjusted a series by then tears the delivery.                   *)
LEMMA CallerLeavesKeeps ==
  ASSUME MeterInv, NEW t \in Turns, CallerLeaves(t)
  PROVE  MeterInv'
<1>1. /\ pc[t] \in {"claimed", "charged", "refused", "calling", "releasing"}
      /\ pc' = [pc EXCEPT ![t] = "gone"]
      /\ IF pc[t] \in {"calling", "releasing"} THEN Schedule(t, "release") ELSE job' = job
      /\ torn' = IF pc[t] = "charged" \/ (pc[t] = "releasing" /\ job[t].at > 1)
                 THEN torn \cup {t} ELSE torn
      /\ UNCHANGED <<charge, claim, open, settled, resv, bill, ledger, shared>>
  BY DEF CallerLeaves, Goto, quotaVars
<1>2. Typed /\ job \in [Turns -> [do : {"nothing", "settle", "release"}, at : Nat]]
  BY DEF MeterInv, Typed
<1>3. /\ job' \in [Turns -> [do : {"nothing", "settle", "release"}, at : Nat]]
      /\ \A x \in Turns : x # t => job'[x] = job[x]
      /\ pc[t] \in {"calling", "releasing"} => job'[t] = [do |-> "release", at |-> 0] /\ Working(t)'
  BY <1>1, <1>2, ScheduleDoes
<1>4. Typed' /\ \A x \in Turns : Own(x)'
  BY <1>1, <1>2, <1>3 DEF MeterInv, Typed, Stages, Own
<1>5. \A x \in Turns : x # t => resv'[x] = resv[x] /\ Untouched(x)
  BY <1>1, <1>2, <1>3 DEF Typed, Untouched, IsSettled
<1>6. ASSUME Whole(t)' PROVE Stage(t)'
  <2>1. Whole(t) /\ Stage(t) /\ pc'[t] = "gone" /\ ~(pc[t] = "charged")
                 /\ ~(pc[t] = "releasing" /\ job[t].at > 1)
    BY <1>1, <1>2, <1>6 DEF Whole, MeterInv, Typed
  <2>2. CASE pc[t] \in {"claimed", "refused"}
    <3>1. Before(t) /\ StandsAt(t, 0) /\ job' = job
      BY <1>1, <2>1, <2>2 DEF Stage
    <3>2. Ended(t)'
      BY <1>1, <3>1 DEF Before, Ended, Idle, Working, NoJob, StandsAt, Reckoned, Unwritten
    <3> QED  BY <2>1, <3>2 DEF Stage
  <2>3. CASE pc[t] \in {"calling", "releasing"}
    <3>1. Held(t)
      BY <2>1, <2>3 DEF Stage, Settling
    <3>2. StandsAt(t, Estimate)
      <4>1. CASE pc[t] = "calling"
        BY <2>1, <4>1 DEF Stage
      <4>2. CASE pc[t] = "releasing"
        <5>1. PartWay(t) /\ job[t].at \in Nat /\ ~(job[t].at > 1)
          BY <1>2, <2>1, <4>2 DEF Stage, Settling
        <5>2. \A i \in DOMAIN Series : i \in Nat /\ i >= 1
          BY MeteringAssumption DEF MeteringAssumption
        <5>3. \A i \in DOMAIN Series : charge[t][Series[i]] = Estimate
          BY <5>1, <5>2 DEF PartWay
        <5> QED  BY <5>3 DEF StandsAt, SeriesSet, Range
      <4> QED  BY <2>3, <4>1, <4>2
    <3>3. Settling(t)'
      BY <1>1, <1>3, <2>3, <3>1, <3>2, StartsBefore
    <3> QED  BY <2>1, <3>3 DEF Stage
  <2> QED  BY <1>1, <2>1, <2>2, <2>3
<1>7. torn \subseteq torn'
  BY <1>1
<1> QED  BY <1>1, <1>4, <1>5, <1>6, <1>7, StepKeeps

-----------------------------------------------------------------------------
(* The settlement *)

\* A delivery that is at work and whole is settling what it holds, or is at the ledger.
LEMMA WorkIsSettling ==
  ASSUME MeterInv, NEW t \in Turns, Whole(t), Working(t)
  PROVE  /\ resv[t] = t /\ pc[t] \in {"releasing", "metered", "gone"}
         /\ Settling(t) \/ (Owing(t) /\ pc[t] # "releasing")
<1>1. Stage(t) /\ pc[t] \in Stages /\ resv[t] = t
  BY DEF MeterInv, Typed, Own, Whole
<1> QED  BY <1>1 DEF Stage, Before, Idle, Ended, Stages, Reckoned, Unwritten

\* Up to the closing of its reservation it is settling.
LEMMA BeforeTheLedger ==
  ASSUME MeterInv, NEW t \in Turns, Whole(t), Working(t), job[t].at \in 0 .. Len(Series) + 1
  PROVE  Settling(t)
<1>1. Len(Series) \in Nat
  BY MeteringAssumption DEF MeteringAssumption
<1> QED  BY <1>1, WorkIsSettling DEF Owing, Recording

(* The settlement of a whole delivery finds its reservation not settled yet. *)
LEMMA BeginKeeps ==
  ASSUME MeterInv, NEW t \in Turns, Begin(t)
  PROVE  MeterInv'
<1>1. /\ Working(t) /\ job[t].at = 0
      /\ IF IsSettled(resv[t]) THEN job' = [job EXCEPT ![t] = NoJob] /\ Over(t)
         ELSE job' = [job EXCEPT ![t].at = @ + 1] /\ UNCHANGED pc
      /\ UNCHANGED <<charge, claim, open, settled, resv, bill, ledger, torn, shared>>
  BY DEF Begin, Done, Step, quotaVars
<1>2. Typed /\ job \in [Turns -> [do : {"nothing", "settle", "release"}, at : Nat]]
  BY DEF MeterInv, Typed
<1>3. pc' \in [Turns -> Stages] /\ \A x \in Turns :
        (x # t => pc'[x] = pc[x]) /\ (pc'[x] = pc[x] \/ pc'[x] = "gone")
  BY <1>1, <1>2 DEF Typed, Over, Goto, Stages
<1>4. /\ job' \in [Turns -> [do : {"nothing", "settle", "release"}, at : Nat]]
      /\ \A x \in Turns : x # t => job'[x] = job[x]
  BY <1>1, <1>2 DEF NoJob
<1>5. Typed' /\ \A x \in Turns : Own(x)'
  BY <1>1, <1>2, <1>3, <1>4 DEF MeterInv, Typed, Own
<1>6. \A x \in Turns : x # t => resv'[x] = resv[x] /\ Untouched(x)
  BY <1>1, <1>3, <1>4 DEF Untouched, IsSettled
<1>7. ASSUME Whole(t)' PROVE Stage(t)'
  <2>1. Whole(t)
    BY <1>1, <1>7 DEF Whole
  <2>2. Settling(t) /\ resv[t] = t /\ Stage(t)
    BY <1>1, <2>1, BeforeTheLedger, WorkIsSettling DEF MeterInv
  <2>3. ~IsSettled(resv[t])
    BY <2>2 DEF Settling, Held, Reckoned
  <2>4. job'[t].do = job[t].do /\ job'[t].at = 1 /\ pc' = pc
    BY <1>1, <1>2, <2>3
  <2>5. \A i \in DOMAIN Series : ~(i < 0) /\ ~(i < 1)
    BY MeteringAssumption DEF MeteringAssumption
  <2>6. Len(Series) \in Nat
    BY MeteringAssumption DEF MeteringAssumption
  <2>7. PartWay(t)'
    BY <1>1, <2>2, <2>4, <2>5, <2>6 DEF Settling, PartWay
  <2>8. Held(t)' /\ Working(t)'
    BY <1>1, <2>2, <2>4 DEF Settling, Held, Working, NoJob, IsSettled, Reckoned
  <2>9. pc[t] \in {"releasing", "metered", "gone"} /\ (pc[t] = "releasing" => job[t].do = "release")
    BY <1>1, <2>1, <2>2, WorkIsSettling DEF Stage
  <2> QED  BY <2>4, <2>7, <2>8, <2>9 DEF Stage, Settling
<1> QED  BY <1>1, <1>5, <1>6, <1>7, StepKeeps

(* The series the settlement is at is adjusted, and it goes on to the next one. *)
LEMMA AdjustKeeps ==
  ASSUME MeterInv, NEW t \in Turns, Adjust(t)
  PROVE  MeterInv'
<1>1. PICK i \in DOMAIN Series :
        /\ i = job[t].at
        /\ charge' = [charge EXCEPT ![resv[t]][Series[i]] = @ + Amount(t)]
        /\ job' = [job EXCEPT ![t].at = @ + 1]
        /\ UNCHANGED <<claim, open, settled, pc, resv, bill, ledger, torn, shared>>
  BY DEF Adjust, Step
<1>2. Typed /\ job \in [Turns -> [do : {"nothing", "settle", "release"}, at : Nat]]
  BY DEF MeterInv, Typed
<1>3. PICK r \in Turns : r = resv[t]
  BY <1>2 DEF Typed
<1>4. PICK n \in Int : n = Amount(t)
  <2>1. bill[t] \in Nat /\ Estimate \in Nat
    BY <1>2, MeteringAssumption DEF Typed, MeteringAssumption
  <2> QED  BY <2>1 DEF Amount
<1>5. Series[i] \in SeriesSet
  BY DEF SeriesSet, Range
<1>6. /\ charge' \in [Turns -> [SeriesSet -> Int]]
      /\ \A x \in Turns : x # r => charge'[x] = charge[x]
      /\ \A s \in SeriesSet : charge'[r][s] = IF s = Series[i] THEN charge[r][s] + n ELSE charge[r][s]
  <2>1. charge \in [Turns -> [SeriesSet -> Int]]
    BY <1>2 DEF Typed
  <2>2. charge' = [charge EXCEPT ![r] = [charge[r] EXCEPT ![Series[i]] = charge[r][Series[i]] + n]]
    BY <1>1, <1>3, <1>4, <2>1
  <2>3. [charge[r] EXCEPT ![Series[i]] = charge[r][Series[i]] + n] \in [SeriesSet -> Int]
    BY <2>1, <1>5
  <2> QED  BY <2>1, <2>2, <2>3, <1>5
<1>7. /\ job' \in [Turns -> [do : {"nothing", "settle", "release"}, at : Nat]]
      /\ \A x \in Turns : x # t => job'[x] = job[x]
      /\ job'[t].do = job[t].do /\ job'[t].at = i + 1
  BY <1>1, <1>2
<1>8. Typed' /\ \A x \in Turns : Own(x)'
  BY <1>1, <1>2, <1>6, <1>7 DEF MeterInv, Typed, Own
<1>9. ASSUME NEW x \in Turns, x # t, Whole(x)'
      PROVE  resv'[x] = resv[x] /\ (Whole(x) => Untouched(x))
  <2>1. Whole(x)
    BY <1>1, <1>9 DEF Whole
  <2>2. r # x
    BY <1>3, <1>9, <2>1, WorksOnItsOwn
  <2> QED  BY <1>1, <1>6, <1>7, <1>9, <2>2 DEF Untouched, IsSettled
<1>10. Working(t) /\ i \in 1 .. Len(Series) /\ Len(Series) \in Nat
  <2>1. i \in 1 .. Len(Series) /\ Len(Series) \in Nat
    BY MeteringAssumption DEF MeteringAssumption
  <2> QED  BY <1>1, <2>1 DEF Working, NoJob
<1>11. ASSUME Whole(t)' PROVE Stage(t)'
  <2>1. Whole(t) /\ Stage(t)
    BY <1>1, <1>11 DEF Whole, MeterInv
  <2>2. Settling(t) /\ r = t /\ pc[t] \in {"releasing", "metered", "gone"}
                    /\ (pc[t] = "releasing" => job[t].do = "release")
    BY <1>1, <1>3, <1>10, <2>1, BeforeTheLedger, WorkIsSettling DEF Stage
  <2>3. Held(t)' /\ Working(t)'
    BY <1>1, <1>7, <1>10, <2>2 DEF Settling, Held, Working, NoJob, IsSettled, Reckoned
  <2>4. Amount(t)' = n
    BY <1>1, <1>4, <1>7 DEF Amount
  <2>5. ASSUME NEW j \in DOMAIN Series
        PROVE  charge'[t][Series[j]] = IF j < i + 1 THEN Estimate + n ELSE Estimate
    <3>1. charge[t][Series[j]] = IF j < i THEN Estimate + n ELSE Estimate
      BY <1>1, <1>4, <2>2 DEF Settling, PartWay
    <3>2. Series[j] \in SeriesSet /\ (Series[j] = Series[i] <=> j = i)
      BY MeteringAssumption DEF MeteringAssumption, SeriesSet, Range
    <3>3. i \in Nat /\ j \in Nat
      BY MeteringAssumption DEF MeteringAssumption
    <3>4. charge'[t][Series[j]] = IF j = i THEN charge[t][Series[j]] + n ELSE charge[t][Series[j]]
      BY <1>6, <2>2, <3>2
    <3> QED  BY <3>1, <3>3, <3>4
  <2>6. PartWay(t)'
    <3>1. job'[t].do \in {"settle", "release"} /\ job'[t].at \in 0 .. Len(Series) + 1
      BY <1>7, <1>10, <2>2 DEF Settling, PartWay
    <3> QED  BY <3>1, <2>4, <2>5, <1>7 DEF PartWay
  <2> QED  BY <1>1, <1>7, <2>2, <2>3, <2>6 DEF Stage, Settling
<1> QED  BY <1>1, <1>8, <1>9, <1>11, StepKeeps

\* What closing a reservation leaves of it, and of the others.
LEMMA CloseDoes ==
  ASSUME MeterInv, NEW t \in Turns, NEW r \in Turns, r = resv[t], Close(t)
  PROVE  /\ open' = open \ {r} /\ settled' \in Seq(Turns)
         /\ \A x : IsSettled(x)' => IsSettled(x) \/ x = r
         /\ pc' \in [Turns -> Stages]
         /\ \A x \in Turns : (x # t => pc'[x] = pc[x]) /\ (pc'[x] = pc[x] \/ pc'[x] = "gone")
         /\ pc[t] = "releasing" /\ job[t].do = "release" => pc'[t] = "gone"
         /\ job' \in [Turns -> [do : {"nothing", "settle", "release"}, at : Nat]]
         /\ \A x \in Turns : x # t => job'[x] = job[x]
         /\ IF job[t].do = "settle" THEN job'[t].do = "settle" /\ job'[t].at = Recording
                                    ELSE job'[t] = NoJob
<1>1. Typed
  BY DEF MeterInv
<1>2. settled' \in Seq(Turns) /\ \A x : IsSettled(x)' => IsSettled(x) \/ x = r
  BY <1>1, RememberDoes DEF Close, Typed
<1>3. CASE job[t].do = "settle"
  <2>1. pc' = pc /\ job' = [job EXCEPT ![t].at = Recording] /\ Recording \in Nat
    BY <1>3, MeteringAssumption DEF Close, Recording, MeteringAssumption
  <2>2. /\ job' \in [Turns -> [do : {"nothing", "settle", "release"}, at : Nat]]
        /\ \A x \in Turns : x # t => job'[x] = job[x]
        /\ job'[t].do = "settle" /\ job'[t].at = Recording
    BY <1>1, <1>3, <2>1 DEF Typed
  <2> QED  BY <1>1, <1>2, <1>3, <2>1, <2>2 DEF Close, Typed
<1>4. CASE job[t].do # "settle"
  <2>1. /\ pc' \in [Turns -> Stages] /\ (pc[t] = "releasing" => pc'[t] = "gone")
        /\ \A x \in Turns : (x # t => pc'[x] = pc[x]) /\ (pc'[x] = pc[x] \/ pc'[x] = "gone")
    BY <1>1, <1>4 DEF Close, Over, Goto, Typed, Stages
  <2>2. /\ job' \in [Turns -> [do : {"nothing", "settle", "release"}, at : Nat]]
        /\ job'[t] = NoJob /\ \A x \in Turns : x # t => job'[x] = job[x]
    <3>1. job' = [job EXCEPT ![t] = NoJob] /\ NoJob \in [do : {"nothing", "settle", "release"}, at : Nat]
      BY <1>4 DEF Close, Done, NoJob
    <3> QED  BY <1>1, <3>1 DEF Typed
  <2> QED  BY <1>2, <1>4, <2>1, <2>2 DEF Close
<1> QED  BY <1>3, <1>4

\* Another delivery that is whole does not notice a reservation being closed.
LEMMA CloseKeepsOthers ==
  ASSUME MeterInv, NEW t \in Turns, Close(t), UNCHANGED <<charge, resv, bill, ledger>>,
         NEW x \in Turns, x # t, Whole(x)
  PROVE  Untouched(x)
<1>1. PICK r \in Turns : r = resv[t]
  BY DEF MeterInv, Typed
<1>2. r # x
  BY <1>1, WorksOnItsOwn
<1> QED  BY <1>1, <1>2, CloseDoes DEF Untouched

(* Behind the last series the charge is the bill, or nothing after a release. *)
LEMMA FinishKeeps ==
  ASSUME MeterInv, NEW t \in Turns, Finish(t)
  PROVE  MeterInv'
<1>1. /\ job[t].at = Len(Series) + 1 /\ Close(t)
      /\ UNCHANGED <<charge, claim, resv, bill, ledger, torn, shared>>
  BY DEF Finish
<1>2. PICK r \in Turns : r = resv[t]
  BY DEF MeterInv, Typed
<1>3. Typed'
  BY <1>1, <1>2, CloseDoes DEF MeterInv, Typed
<1>4. ASSUME NEW x \in Turns PROVE Own(x)'
  <2>1. open' = open \ {r} /\ (pc'[x] = pc[x] \/ pc'[x] = "gone")
    BY <1>1, <1>2, CloseDoes
  <2> QED  BY <1>1, <2>1 DEF MeterInv, Own
<1>5. \A x \in Turns : x # t /\ Whole(x)' => resv'[x] = resv[x] /\ (Whole(x) => Untouched(x))
  BY <1>1, CloseKeepsOthers
<1>6. ASSUME Whole(t)' PROVE Stage(t)'
  <2>1. Len(Series) \in Nat /\ \A i \in DOMAIN Series : i \in Nat /\ i < Len(Series) + 1
    BY MeteringAssumption DEF MeteringAssumption
  <2>2. Whole(t) /\ Stage(t) /\ Working(t)
    BY <1>1, <1>6, <2>1 DEF Whole, MeterInv, Working, NoJob
  <2>3. Settling(t) /\ r = t /\ pc[t] \in {"releasing", "metered", "gone"}
                    /\ (pc[t] = "releasing" => job[t].do = "release")
    BY <1>1, <1>2, <2>1, <2>2, BeforeTheLedger, WorkIsSettling DEF Stage
  <2>4. /\ open' = open \ {t} /\ (pc'[t] = pc[t] \/ pc'[t] = "gone")
        /\ pc[t] = "releasing" /\ job[t].do = "release" => pc'[t] = "gone"
        /\ IF job[t].do = "settle" THEN job'[t].do = "settle" /\ job'[t].at = Recording
                                   ELSE job'[t] = NoJob
    BY <1>1, <1>2, <2>3, CloseDoes
  <2>5. PICK n : n = Amount(t)
    OBVIOUS
  <2>6. \A i \in DOMAIN Series : charge[t][Series[i]] = Estimate + n
    BY <1>1, <2>1, <2>3, <2>5 DEF Settling, PartWay
  <2>7. \A s \in SeriesSet : charge[t][s] = Estimate + n
    BY <2>6 DEF SeriesSet, Range
  <2>8. job[t].do \in {"settle", "release"} /\ bill[t] \in Nat /\ Estimate \in Nat
    BY <2>3, MeteringAssumption DEF Settling, PartWay, MeteringAssumption, MeterInv, Typed
  <2>9. ~Reckoned(t) /\ ~Reckoned(t)' /\ t \notin open' /\ ledger'[t] = Unwritten
    BY <1>1, <2>3, <2>4 DEF Settling, Held, Reckoned
  <2>10. pc'[t] \in {"metered", "gone"}
    BY <2>3, <2>4
  <2>11. CASE job[t].do = "settle"
    <3>1. Estimate + n = bill[t]
      BY <2>5, <2>8, <2>11 DEF Amount
    <3>2. Owing(t)'
      BY <1>1, <2>4, <2>7, <2>9, <2>11, <3>1 DEF Owing, StandsAt, Recording
    <3> QED  BY <2>10, <3>2 DEF Stage
  <2>12. CASE job[t].do = "release"
    <3>1. Estimate + n = 0
      BY <2>5, <2>8, <2>12 DEF Amount
    <3>2. Ended(t)'
      BY <1>1, <2>4, <2>7, <2>9, <2>12, <3>1 DEF Ended, Idle, Working, StandsAt, Unwritten, Reckoned
    <3> QED  BY <2>10, <3>2 DEF Stage
  <2> QED  BY <2>8, <2>11, <2>12
<1> QED  BY <1>1, <1>3, <1>4, <1>5, <1>6, StepKeeps

\* What the ledger made of a call: one row, or one write that failed, or both.
ToldOnce(t) ==
  \E row, failed \in {0, 1} : ledger' = Written(t, row, failed) /\ row + failed # 0

(* The ledger is told once, whether it writes the row or drops it. *)
LEMMA RecordKeeps ==
  ASSUME MeterInv, NEW t \in Turns, Record(t) \/ RecordFails(t)
  PROVE  MeterInv'
<1>1. /\ job[t].at = Recording /\ job' = [job EXCEPT ![t] = NoJob] /\ ToldOnce(t)
      /\ UNCHANGED <<charge, claim, open, settled, pc, resv, bill, torn, shared>>
  <2>1. CASE Record(t)
    <3>1. ledger' = Written(t, 1, 0)
      BY <2>1 DEF Record
    <3>2. ToldOnce(t)
      BY <3>1 DEF ToldOnce
    <3> QED  BY <2>1, <3>2 DEF Record, Done, quotaVars
  <2>2. CASE RecordFails(t)
    <3>1. PICK row \in {0, 1} : ledger' = Written(t, row, 1)
      BY <2>2 DEF RecordFails
    <3>2. ToldOnce(t)
      <4>1. row + 1 # 0
        OBVIOUS
      <4> QED  BY <3>1, <4>1 DEF ToldOnce
    <3> QED  BY <2>2, <3>2 DEF RecordFails, Done, quotaVars
  <2> QED  BY <2>1, <2>2
<1>2. Typed
  BY DEF MeterInv
<1>3. PICK row \in {0, 1}, failed \in {0, 1} :
        /\ ledger' = [ledger EXCEPT ![t].rows = @ + row, ![t].dropped = @ + failed]
        /\ row + failed # 0
  BY <1>1 DEF ToldOnce, Written
<1>4. /\ ledger' \in [Turns -> [rows : Nat, dropped : Nat]]
      /\ \A x \in Turns : x # t => ledger'[x] = ledger[x]
      /\ ledger'[t].rows = ledger[t].rows + row
      /\ ledger'[t].dropped = ledger[t].dropped + failed
  <2>1. PICK n : n = [ledger[t] EXCEPT !.rows = @ + row, !.dropped = @ + failed]
    OBVIOUS
  <2>2. ledger \in [Turns -> [rows : Nat, dropped : Nat]]
    BY <1>2 DEF Typed
  <2>3. n \in [rows : Nat, dropped : Nat] /\ n.rows = ledger[t].rows + row /\ n.dropped = ledger[t].dropped + failed
    <3>1. PICK old : old = ledger[t]
      OBVIOUS
    <3>2. old \in [rows : Nat, dropped : Nat] /\ row \in Nat /\ failed \in Nat
      BY <2>2, <3>1
    <3>3. n = [rows |-> old.rows + row, dropped |-> old.dropped + failed]
      BY <2>1, <3>1, <3>2
    <3> QED  BY <3>1, <3>2, <3>3
  <2>4. ledger' = [ledger EXCEPT ![t] = n]
    BY <1>3, <2>1, <2>2
  <2> QED  BY <2>2, <2>3, <2>4
<1>5. /\ job' \in [Turns -> [do : {"nothing", "settle", "release"}, at : Nat]]
      /\ \A x \in Turns : x # t => job'[x] = job[x]
      /\ job'[t] = NoJob
  BY <1>1, <1>2 DEF Typed, NoJob
<1>6. Typed' /\ \A x \in Turns : Own(x)'
  BY <1>1, <1>2, <1>4, <1>5 DEF MeterInv, Typed, Own
<1>7. \A x \in Turns : x # t => resv'[x] = resv[x] /\ Untouched(x)
  BY <1>1, <1>4, <1>5 DEF Untouched, IsSettled
<1>8. ASSUME Whole(t)' PROVE Stage(t)'
  <2>1. Whole(t) /\ Working(t) /\ Len(Series) \in Nat
    BY <1>1, <1>8, MeteringAssumption DEF Whole, Working, NoJob, Recording, MeteringAssumption
  <2>2. Owing(t) /\ pc[t] \in {"metered", "gone"}
    BY <1>1, <2>1, WorkIsSettling DEF Settling, PartWay, Recording
  <2>3. ledger[t].rows = 0 /\ ledger[t].dropped = 0
    BY <2>2 DEF Owing, Reckoned, Unwritten
  <2>4. ledger'[t].rows \in {0, 1} /\ ledger'[t].dropped \in {0, 1} /\ Reckoned(t)'
    <3>1. ledger'[t].rows = row /\ ledger'[t].dropped = failed
      BY <1>4, <2>3
    <3>2. Unwritten.rows = 0 /\ Unwritten.dropped = 0
      BY DEF Unwritten
    <3>3. ledger'[t] # Unwritten
      <4>1. row # 0 \/ failed # 0
        BY <1>3
      <4> QED  BY <3>1, <3>2, <4>1
    <3> QED  BY <3>1, <3>3 DEF Reckoned
  <2>5. Ended(t)'
    BY <1>1, <1>5, <2>2, <2>4 DEF Owing, Ended, Idle, Working, StandsAt, Reckoned
  <2> QED  BY <1>1, <2>2, <2>5 DEF Stage
<1> QED  BY <1>1, <1>6, <1>7, <1>8, StepKeeps

(* A failing adjustment tears the delivery and the one whose reservation it holds. *)
LEMMA AdjustFailsKeeps ==
  ASSUME MeterInv, NEW t \in Turns, AdjustFails(t)
  PROVE  MeterInv'
<1>1. /\ torn' = torn \cup {t, resv[t]}
      /\ \/ Close(t)
         \/ /\ UNCHANGED <<open, settled>>
            /\ IF pc[t] = "releasing" THEN Schedule(t, "release") /\ pc' = [pc EXCEPT ![t] = "gone"]
               ELSE job' = [job EXCEPT ![t] = NoJob] /\ UNCHANGED pc
      /\ UNCHANGED <<charge, claim, resv, bill, ledger, shared>>
  BY DEF AdjustFails, Goto, Done
<1>2. Typed
  BY DEF MeterInv
<1>3. PICK r \in Turns : r = resv[t]
  BY <1>2 DEF Typed
<1>4. t \in torn' /\ torn \subseteq torn'
  BY <1>1
<1>5. CASE Close(t)
  <2>1. Typed'
    BY <1>1, <1>2, <1>3, <1>5, CloseDoes DEF Typed
  <2>2. ASSUME NEW x \in Turns PROVE Own(x)'
    <3>1. open' = open \ {r} /\ (pc'[x] = pc[x] \/ pc'[x] = "gone")
      BY <1>3, <1>5, CloseDoes
    <3> QED  BY <1>1, <3>1 DEF MeterInv, Own
  <2>3. \A x \in Turns : x # t /\ Whole(x)' => resv'[x] = resv[x] /\ (Whole(x) => Untouched(x))
    BY <1>1, <1>5, CloseKeepsOthers
  <2> QED  BY <1>1, <1>4, <2>1, <2>2, <2>3, StepKeeps DEF Whole
<1>6. CASE /\ UNCHANGED <<open, settled>>
           /\ IF pc[t] = "releasing" THEN Schedule(t, "release") /\ pc' = [pc EXCEPT ![t] = "gone"]
              ELSE job' = [job EXCEPT ![t] = NoJob] /\ UNCHANGED pc
  <2>1. /\ pc' \in [Turns -> Stages]
        /\ \A x \in Turns : (x # t => pc'[x] = pc[x]) /\ (pc'[x] = pc[x] \/ pc'[x] = "gone")
    BY <1>2, <1>6 DEF Typed, Stages
  <2>2. /\ job' \in [Turns -> [do : {"nothing", "settle", "release"}, at : Nat]]
        /\ \A x \in Turns : x # t => job'[x] = job[x]
    <3>1. job' = [job EXCEPT ![t] = NoJob] \/ job' = [job EXCEPT ![t] = [do |-> "release", at |-> 0]]
      BY <1>6 DEF Schedule
    <3>2. CASE job' = [job EXCEPT ![t] = NoJob]
      BY <1>2, <3>2 DEF Typed, NoJob
    <3>3. CASE job' = [job EXCEPT ![t] = [do |-> "release", at |-> 0]]
      BY <1>2, <3>3 DEF Typed
    <3> QED  BY <3>1, <3>2, <3>3
  <2>3. Typed' /\ \A x \in Turns : Own(x)'
    BY <1>1, <1>2, <1>6, <2>1, <2>2 DEF MeterInv, Typed, Own
  <2>4. \A x \in Turns : x # t => resv'[x] = resv[x] /\ Untouched(x)
    BY <1>1, <1>6, <2>1, <2>2 DEF Untouched, IsSettled
  <2> QED  BY <1>1, <1>4, <2>3, <2>4, StepKeeps DEF Whole
<1> QED  BY <1>1, <1>5, <1>6

-----------------------------------------------------------------------------
(* The specification *)

(* Nothing is charged at first. *)
LEMMA InitMeters == Init => MeterInv
<1> SUFFICES ASSUME Init PROVE MeterInv
  OBVIOUS
<1>1. Estimate \in Nat /\ settled = << >> /\ \A x : ~IsSettled(x)
  BY MeteringAssumption DEF Init, MeteringAssumption, IsSettled, Range
<1>2. Typed
  BY <1>1 DEF Init, Typed, Stages, NoJob, Unwritten
<1>3. ASSUME NEW t \in Turns PROVE Own(t) /\ Stage(t)
  <2>1. Before(t) /\ StandsAt(t, 0) /\ pc[t] = "new" /\ resv[t] = t /\ t \notin open
    BY <1>1, <1>3 DEF Init, Before, Idle, Working, StandsAt, Reckoned
  <2> QED  BY <2>1 DEF Own, Stage
<1> QED  BY <1>2, <1>3 DEF MeterInv

(* Nor does a step that changes nothing. *)
LEMMA StutterKeeps ==
  ASSUME MeterInv, UNCHANGED vars
  PROVE  MeterInv'
<1>1. Typed' /\ \A x \in Turns : Own(x)'
  BY DEF MeterInv, Typed, Own, vars, quotaVars
<1>2. ASSUME NEW x \in Turns, Whole(x)' PROVE Stage(x)'
  <2>1. Whole(x) /\ Untouched(x)
    BY <1>2 DEF Whole, Untouched, IsSettled, vars, quotaVars
  <2> QED  BY <2>1, StageStands DEF MeterInv
<1> QED  BY <1>1, <1>2 DEF MeterInv

(* Every step of the gateway keeps the invariant. *)
LEMMA NextMeters == MeterInv /\ [Next]_vars => MeterInv'
<1> SUFFICES ASSUME MeterInv, [Next]_vars PROVE MeterInv'
  OBVIOUS
<1>1. ASSUME NEW t \in Turns,
             Claim(t) \/ ClaimFails(t) \/ Apply(t) \/ ReserveReturns(t) \/ ReserveFails(t)
      PROVE  MeterInv'
  BY <1>1, ClaimKeeps, ClaimFailsKeeps, ApplyKeeps, ReserveReturnsKeeps, ReserveFailsKeeps
<1>2. ASSUME NEW t \in Turns,
             FirstByte(t) \/ UpstreamFails(t) \/ UsageChunk(t) \/ StreamEnds(t) \/ CallerLeaves(t)
      PROVE  MeterInv'
  BY <1>2, FirstByteKeeps, UpstreamFailsKeeps, UsageChunkKeeps, StreamEndsKeeps, CallerLeavesKeeps
<1>3. ASSUME NEW t \in Turns, Settlement(t) \/ AdjustFails(t) \/ RecordFails(t)
      PROVE  MeterInv'
  BY <1>3, BeginKeeps, AdjustKeeps, FinishKeeps, RecordKeeps, AdjustFailsKeeps DEF Settlement
<1> QED  BY <1>1, <1>2, <1>3, StutterKeeps DEF Next

(* What is at rest, whole and its own has ended. *)
LEMMA MeteringIsSettled == MeterInv => SettledExactly
<1> SUFFICES ASSUME MeterInv PROVE SettledExactly
  OBVIOUS
<1>1. ASSUME NEW t \in Turns, Quiet(t), Whole(t)
      PROVE  /\ ledger[t].rows \in {0, 1} /\ ledger[t].dropped \in {0, 1}
             /\ \A s \in SeriesSet : charge[t][s] = IF Reckoned(t) THEN bill[t] ELSE 0
  <2>1. Ended(t)
    BY <1>1 DEF MeterInv, Stage, Quiet, Settling, Owing, Working, NoJob
  <2> QED  BY <2>1 DEF Ended, StandsAt, Reckoned
<1>2. ASSUME NEW r \in open, r \notin torn, r \notin shared
      PROVE  ~Quiet(r)
  <2>1. r \in Turns /\ Whole(r)
    BY <1>2 DEF MeterInv, Typed, Own, Whole
  <2> QED  BY <1>2, <2>1 DEF MeterInv, Stage, Quiet, Settling, Owing, Ended, Idle, Reckoned
<1> QED  BY <1>1, <1>2 DEF SettledExactly

(* A call is charged what the endpoint reported, once, or nothing, and a closed    *)
(* call holds nothing back (QuotaPolicy.reserve, reconcile, release and            *)
(* ModelProxy.stream), whatever deliveries and failures come between.              *)
THEOREM ChargedExactly == Spec => []SettledExactly
BY InitMeters, NextMeters, MeteringIsSettled, PTL DEF Spec

-----------------------------------------------------------------------------
(* What is spent *)

\* What of a delivery's exposure its estimate covers.
Covered(t) ==
  IF Spends(t) THEN IF bill[t] <= Estimate THEN bill[t] ELSE Estimate
  ELSE IF pc[t] \in {"charged", "calling", "streaming"} THEN Estimate ELSE 0

(* The inductive invariant: what the estimates cover is within every ceiling. *)
WithinEstimates ==
  torn = {} /\ shared = {} =>
    \A s \in SeriesSet : Limit[s] > 0 => InAll([t \in Turns |-> Covered(t)]) <= Limit[s]

\* A step lets no delivery count for more, as long as none was cut off or shared.
NobodyCountsMore == torn' = {} /\ shared' = {} => \A x \in Turns : Covered(x)' <= Covered(x)

LEMMA CoveredIs ==
  ASSUME MeterInv, NEW t \in Turns
  PROVE  Covered(t) \in Nat /\ Exposure(t) = Covered(t) + Overshoot(t) /\ Overshoot(t) \in Nat
<1>1. bill[t] \in Nat /\ Estimate \in Nat
  BY MeteringAssumption DEF MeterInv, Typed, MeteringAssumption
<1> QED  BY <1>1 DEF Covered, Exposure, Overshoot, Max0

(* The counters of a whole delivery cover it. *)
LEMMA CoveredIsCharged ==
  ASSUME MeterInv, NEW t \in Turns, Whole(t), NEW s \in SeriesSet
  PROVE  Covered(t) <= charge[t][s]
<1>1. bill[t] \in Nat /\ Estimate \in Nat /\ pc[t] \in Stages /\ Stage(t)
  BY MeteringAssumption DEF MeterInv, Typed, MeteringAssumption
<1>2. CASE pc[t] \in {"new", "claimed", "refused", "charged"}
  <2>1. Before(t) /\ StandsAt(t, IF pc[t] = "charged" THEN Estimate ELSE 0)
    BY <1>1, <1>2 DEF Stage
  <2> QED  BY <1>1, <1>2, <2>1 DEF Before, Idle, Working, NoJob, StandsAt, Covered, Spends, Reckoned
<1>3. CASE pc[t] \in {"calling", "streaming"}
  <2>1. Held(t) /\ ~Working(t) /\ StandsAt(t, Estimate)
    BY <1>1, <1>3 DEF Stage
  <2> QED  BY <1>1, <1>3, <2>1 DEF Held, Working, NoJob, StandsAt, Covered, Spends, Reckoned
<1>4. CASE Settling(t) /\ pc[t] \in {"releasing", "metered", "gone"}
  <2>1. PICK i \in DOMAIN Series : Series[i] = s
    BY DEF SeriesSet, Range
  <2>2. charge[t][s] = (IF i < job[t].at THEN Estimate + Amount(t) ELSE Estimate)
    BY <1>4, <2>1 DEF Settling, PartWay
  <2>3. job[t].do \in {"settle", "release"} /\ ~Reckoned(t)
    BY <1>4 DEF Settling, Held, PartWay, Reckoned
  <2> QED  BY <1>1, <1>4, <2>2, <2>3 DEF Covered, Spends, Amount, Reckoned
<1>6. CASE Owing(t) /\ pc[t] \in {"metered", "gone"}
  <2>1. charge[t][s] = bill[t] /\ job[t].do = "settle"
    BY <1>6 DEF Owing, StandsAt
  <2> QED  BY <1>1, <1>6, <2>1 DEF Covered, Spends, Reckoned
<1>5. CASE Ended(t) /\ pc[t] \in {"metered", "gone"}
  <2>1. charge[t][s] = (IF Reckoned(t) THEN bill[t] ELSE 0) /\ job[t].do = "nothing"
    BY <1>5 DEF Ended, StandsAt, Idle, Working, NoJob, Reckoned
  <2> QED  BY <1>1, <1>5, <2>1 DEF Covered, Spends, Reckoned
<1> QED  BY <1>1, <1>2, <1>3, <1>4, <1>5, <1>6 DEF Stage, Stages

LEMMA WithinStays ==
  ASSUME MeterInv, MeterInv', WithinEstimates, torn \subseteq torn', shared \subseteq shared',
         NobodyCountsMore
  PROVE  WithinEstimates'
<1> SUFFICES ASSUME torn' = {}, shared' = {}, NEW s \in SeriesSet, Limit[s] > 0
             PROVE  InAll([t \in Turns |-> Covered(t)])' <= Limit[s]
  BY DEF WithinEstimates
<1>1. PICK c : c = [t \in Turns |-> Covered(t)]
  OBVIOUS
<1>2. PICK d : d = [t \in Turns |-> Covered(t)']
  OBVIOUS
<1>3. InAll(c) <= Limit[s]
  BY <1>1 DEF WithinEstimates
<1>4. IsFiniteSet(Turns) /\ Limit[s] \in Nat
  BY MeteringAssumption DEF MeteringAssumption
<1>5. \A t \in Turns : c[t] \in Int /\ d[t] \in Int /\ d[t] <= c[t]
  <2>1. ASSUME NEW t \in Turns PROVE Covered(t) \in Nat
    BY CoveredIs
  <2>2. ASSUME NEW t \in Turns PROVE Covered(t)' \in Nat
    BY MeteringAssumption DEF MeteringAssumption, MeterInv, Typed, Covered
  <2> QED  BY <1>1, <1>2, <2>1, <2>2 DEF NobodyCountsMore
<1>6. SumOf(d, Turns) <= SumOf(c, Turns) /\ SumOf(d, Turns) \in Int /\ SumOf(c, Turns) \in Int
  BY <1>4, <1>5, SumMono, SumInt DEF Summable
<1>7. InAll([t \in Turns |-> Covered(t)])' = SumOf(d, Turns)
  BY <1>2 DEF InAll
<1> QED  BY <1>3, <1>4, <1>6, <1>7 DEF InAll

\* A delivery that does not move counts for what it did.
LEMMA CoveredStands ==
  ASSUME NEW x \in Turns, MeterInv, pc'[x] = pc[x], job'[x].do = job[x].do, bill'[x] = bill[x], ledger'[x] = ledger[x]
  PROVE  Covered(x)' <= Covered(x)
<1>1. Covered(x)' = Covered(x)
  BY DEF Covered, Spends, Reckoned
<1> QED  BY <1>1, CoveredIs

\* What is left of showing that nobody counts more when delivery t moves alone.
LEMMA OnlyItMoves ==
  ASSUME MeterInv, NEW t \in Turns,
         \A x \in Turns : x # t => pc'[x] = pc[x] /\ job'[x] = job[x] /\ bill'[x] = bill[x] /\ ledger'[x] = ledger[x],
         torn' = {} /\ shared' = {} => Covered(t)' <= Covered(t)
  PROVE  NobodyCountsMore
<1>1. ASSUME NEW x \in Turns, x # t PROVE Covered(x)' <= Covered(x)
  BY <1>1, CoveredStands
<1> QED  BY <1>1 DEF NobodyCountsMore

(* Up to the reservation: a delivery is charged before it counts. *)
LEMMA ReservingCounts ==
  ASSUME MeterInv, NEW t \in Turns, Claim(t) \/ ClaimFails(t) \/ ReserveReturns(t) \/ ReserveFails(t)
  PROVE  NobodyCountsMore
<1>1. Typed /\ UNCHANGED <<job, bill, ledger>>
  BY DEF MeterInv, Claim, ClaimFails, ReserveReturns, ReserveFails
<1>2. PICK place : /\ pc' = [pc EXCEPT ![t] = place]
                   /\ torn' = {} /\ shared' = {} =>
                        \/ place \in {"claimed", "gone"}
                        \/ place = "calling" /\ pc[t] = "charged"
  <2>1. CASE Claim(t)
    BY <2>1 DEF Claim, Goto
  <2>2. CASE ClaimFails(t)
    BY <2>2 DEF ClaimFails, Goto
  <2>3. CASE ReserveReturns(t)
    BY <2>3 DEF ReserveReturns, Reserved, Goto
  <2>4. CASE ReserveFails(t)
    BY <2>4 DEF ReserveFails, Reserved, Goto
  <2> QED  BY <2>1, <2>2, <2>3, <2>4
<1>3. \A x \in Turns : x # t => pc'[x] = pc[x]
  BY <1>1, <1>2 DEF Typed
<1>4. ASSUME torn' = {}, shared' = {} PROVE Covered(t)' <= Covered(t)
  <2>1. pc'[t] = place
    BY <1>1, <1>2 DEF Typed
  <2>2. Estimate \in Nat /\ bill[t] \in Nat
    BY <1>1, MeteringAssumption DEF Typed, MeteringAssumption
  <2> QED  BY <1>1, <1>2, <1>4, <2>1, <2>2 DEF Covered, Spends, Reckoned
<1> QED  BY <1>1, <1>3, <1>4, OnlyItMoves

(* From the first byte to the end: the bill, as far as the estimate covers it, is not more. *)
LEMMA StreamingCounts ==
  ASSUME MeterInv, NEW t \in Turns,
         FirstByte(t) \/ UpstreamFails(t) \/ UsageChunk(t) \/ StreamEnds(t) \/ CallerLeaves(t)
  PROVE  NobodyCountsMore
<1>1. /\ Typed /\ UNCHANGED <<resv, ledger, shared>> /\ torn \subseteq torn'
      /\ bill' = bill \/ \E b \in Bills : bill' = [bill EXCEPT ![t] = b]
      /\ \E place : pc' = [pc EXCEPT ![t] = place]
      /\ job' = job \/ \E what \in {"settle", "release"} : Schedule(t, what)
  BY DEF MeterInv, FirstByte, UpstreamFails, UsageChunk, StreamEnds, CallerLeaves, Goto
<1>2. \A x \in Turns : x # t => pc'[x] = pc[x] /\ job'[x] = job[x] /\ bill'[x] = bill[x] /\ ledger'[x] = ledger[x]
  BY <1>1 DEF Typed, Schedule
<1>3. ASSUME torn' = {}, shared' = {} PROVE Covered(t)' <= Covered(t)
  <2>1. Whole(t) /\ Stage(t)
    BY <1>1, <1>3 DEF Whole, MeterInv
  <2>2. /\ Estimate \in Nat /\ bill[t] \in Nat /\ bill'[t] \in Nat /\ ledger'[t] = ledger[t]
        /\ \A b \in Bills : bill' = [bill EXCEPT ![t] = b] => bill'[t] \in Nat
    BY <1>1, MeteringAssumption DEF Typed, MeteringAssumption
  <2>3. CASE FirstByte(t)
    BY <1>1, <2>2, <2>3 DEF FirstByte, Goto, Covered, Spends, Typed, Reckoned
  <2>4. CASE UpstreamFails(t)
    <3>1. ~Reckoned(t) /\ job[t].do = "nothing"
      BY <2>1, <2>4 DEF UpstreamFails, Stage, Held, Working, NoJob, Reckoned
    <3>2. pc'[t] = "releasing" /\ job'[t].do = "release"
      BY <1>1, <2>4 DEF UpstreamFails, Goto, Schedule, Typed
    <3> QED  BY <2>2, <2>4, <3>1, <3>2 DEF UpstreamFails, Covered, Spends, Reckoned
  <2>5. CASE UsageChunk(t)
    <3>1. ~Reckoned(t) /\ job[t].do = "nothing" /\ pc[t] = "streaming"
      BY <2>1, <2>5 DEF UsageChunk, Stage, Held, Working, NoJob, Reckoned
    <3> QED  BY <2>2, <3>1 DEF Covered, Spends, Reckoned
  <2>6. CASE StreamEnds(t)
    <3>1. pc'[t] = "gone" /\ bill' = bill
      BY <1>1, <2>6 DEF StreamEnds, Goto, Typed
    <3>2. CASE pc[t] = "streaming"
      <4>1. ~Reckoned(t) /\ job[t].do = "nothing"
        BY <2>1, <3>2 DEF Stage, Held, Working, NoJob, Reckoned
      <4> QED  BY <2>2, <3>1, <3>2, <4>1 DEF Covered, Spends, Reckoned
    <3>3. CASE pc[t] = "metered"
      <4>1. job' = job
        BY <2>6, <3>3 DEF StreamEnds
      <4> QED  BY <2>2, <3>1, <3>3, <4>1 DEF Covered, Spends, Reckoned
    <3> QED  BY <2>6, <3>2, <3>3 DEF StreamEnds
  <2>7. CASE CallerLeaves(t)
    <3>1. pc'[t] = "gone" /\ bill' = bill
      BY <1>1, <2>7 DEF CallerLeaves, Goto, Typed
    <3>2. CASE pc[t] \in {"calling", "releasing"}
      <4>1. ~Reckoned(t) /\ job[t].do \in {"nothing", "release"}
        BY <2>1, <3>2 DEF Stage, Settling, Held, Working, NoJob, Reckoned
      <4>2. job'[t].do = "release"
        BY <1>1, <2>7, <3>2 DEF CallerLeaves, Schedule, Typed
      <4> QED  BY <2>2, <3>1, <3>2, <4>1, <4>2 DEF Covered, Spends, Reckoned
    <3>3. CASE pc[t] \notin {"calling", "releasing"}
      <4>1. job' = job
        BY <2>7, <3>3 DEF CallerLeaves
      <4> QED  BY <2>2, <3>1, <3>3, <4>1 DEF Covered, Spends, Reckoned
    <3> QED  BY <3>2, <3>3
  <2> QED  BY <2>3, <2>4, <2>5, <2>6, <2>7
<1> QED  BY <1>2, <1>3, OnlyItMoves

(* The settlement: a bill stays counted by its row, a release counts for nothing. *)
LEMMA SettlingCounts ==
  ASSUME MeterInv, NEW t \in Turns, Settlement(t) \/ AdjustFails(t) \/ RecordFails(t)
  PROVE  NobodyCountsMore
<1>1. Typed /\ job \in [Turns -> [do : {"nothing", "settle", "release"}, at : Nat]]
  BY DEF MeterInv, Typed
<1>2. PICK r \in Turns : r = resv[t]
  BY <1>1 DEF Typed
<1>3. CASE Begin(t)
  <2>1. UNCHANGED <<resv, bill, ledger, torn, shared>> /\ Working(t)
    BY <1>3 DEF Begin
  <2>2. \A x \in Turns : x # t => pc'[x] = pc[x] /\ job'[x] = job[x]
    BY <1>1, <1>3 DEF Begin, Done, Step, Over, Goto, Typed
  <2>3. ASSUME torn' = {}, shared' = {} PROVE Covered(t)' <= Covered(t)
    <3>1. Whole(t)
      BY <2>1, <2>3 DEF Whole
    <3>2. Settling(t) /\ resv[t] = t
      BY <1>3, <2>1, <3>1, MeteringAssumption, BeforeTheLedger, WorkIsSettling DEF Begin, MeteringAssumption
    <3>3. pc' = pc /\ job' = [job EXCEPT ![t].at = @ + 1]
      BY <1>3, <3>2 DEF Begin, Step, Settling, Held, Reckoned
    <3>4. job'[t].do = job[t].do
      BY <1>1, <3>3
    <3> QED  BY <2>1, <3>3, <3>4, CoveredStands
  <2> QED  BY <2>1, <2>2, <2>3, OnlyItMoves
<1>4. CASE Adjust(t)
  <2>1. UNCHANGED <<pc, bill, ledger>> /\ job' = [job EXCEPT ![t].at = @ + 1]
    BY <1>4 DEF Adjust, Step
  <2>2. \A x \in Turns : job'[x].do = job[x].do
    BY <1>1, <2>1
  <2>3. ASSUME NEW x \in Turns PROVE Covered(x)' <= Covered(x)
    BY <2>1, <2>2, CoveredStands
  <2> QED  BY <2>3 DEF NobodyCountsMore
<1>5. CASE Finish(t)
  <2>1. /\ Close(t) /\ job[t].at = Len(Series) + 1
        /\ UNCHANGED <<charge, resv, bill, ledger, torn, shared>>
    BY <1>5 DEF Finish
  <2>2. /\ \A x \in Turns : x # t => pc'[x] = pc[x] /\ job'[x] = job[x]
        /\ IF job[t].do = "settle" THEN job'[t].do = "settle" ELSE job'[t].do = "nothing"
        /\ (pc'[t] = pc[t] \/ pc'[t] = "gone")
    BY <1>2, <2>1, CloseDoes DEF NoJob
  <2>3. ASSUME torn' = {}, shared' = {} PROVE Covered(t)' <= Covered(t)
    <3>1. Len(Series) \in Nat /\ bill[t] \in Nat /\ Estimate \in Nat
      BY <1>1, MeteringAssumption DEF MeteringAssumption, Typed
    <3>2. Whole(t) /\ Working(t)
      BY <2>1, <2>3, <3>1 DEF Whole, Working, NoJob
    <3>3. Settling(t) /\ pc[t] \in {"releasing", "metered", "gone"}
      BY <2>1, <3>1, <3>2, BeforeTheLedger, WorkIsSettling
    <3>4. ~Reckoned(t) /\ ~Reckoned(t)'
      BY <2>1, <3>3 DEF Settling, Held, Reckoned
    <3> QED  BY <2>1, <2>2, <3>1, <3>3, <3>4 DEF Covered, Spends, Reckoned
  <2> QED  BY <2>1, <2>2, <2>3, OnlyItMoves
<1>6. CASE AdjustFails(t)
  BY <1>6 DEF AdjustFails, NobodyCountsMore
<1>7. CASE Record(t) \/ RecordFails(t)
  <2>1. UNCHANGED <<pc, resv, bill, torn, shared>> /\ job[t].at = Recording
          /\ job' = [job EXCEPT ![t] = NoJob] /\ \A x \in Turns : x # t => ledger'[x] = ledger[x]
    BY <1>1, <1>7 DEF Record, RecordFails, Done, Written, Typed
  <2>2. \A x \in Turns : x # t => job'[x] = job[x]
    BY <1>1, <2>1
  <2>3. ASSUME torn' = {}, shared' = {} PROVE Covered(t)' <= Covered(t)
    <3>1. Len(Series) \in Nat /\ bill[t] \in Nat /\ Estimate \in Nat
      BY <1>1, MeteringAssumption DEF MeteringAssumption, Typed
    <3>2. Whole(t) /\ Working(t)
      BY <2>1, <2>3, <3>1 DEF Whole, Working, NoJob, Recording
    <3>3. Owing(t) /\ pc[t] \in {"metered", "gone"}
      BY <2>1, <3>1, <3>2, WorkIsSettling DEF Settling, PartWay, Recording
    <3>4. Spends(t) /\ Covered(t) = IF bill[t] <= Estimate THEN bill[t] ELSE Estimate
      BY <3>3 DEF Owing, Spends, Covered, Reckoned
    <3> QED  BY <2>1, <3>1, <3>3, <3>4 DEF Covered
  <2> QED  BY <2>1, <2>2, <2>3, OnlyItMoves
<1> QED  BY <1>3, <1>4, <1>5, <1>6, <1>7 DEF Settlement

(* The script charges a series only while it has room, and its counters cover the others. *)
LEMMA ApplyWithin ==
  ASSUME MeterInv, MeterInv', WithinEstimates, NEW t \in Turns, Apply(t)
  PROVE  WithinEstimates'
<1>1. /\ pc[t] = "claimed" /\ UNCHANGED <<resv, job, bill, ledger, torn, shared>>
      /\ \/ (\A s \in SeriesSet : Fits(s)) /\ pc' = [pc EXCEPT ![t] = "charged"]
         \/ pc' = [pc EXCEPT ![t] = "refused"]
  BY DEF Apply, Goto
<1>2. Typed /\ IsFiniteSet(Turns) /\ Estimate \in Nat /\ Limit \in [SeriesSet -> Nat]
  BY MeteringAssumption DEF MeterInv, MeteringAssumption
<1>3. CASE pc' = [pc EXCEPT ![t] = "refused"]
  <2>1. \A x \in Turns : x # t => pc'[x] = pc[x]
    BY <1>2, <1>3 DEF Typed
  <2>2. Covered(t)' <= Covered(t)
    <3>1. bill[t] \in Nat /\ pc'[t] = "refused"
      BY <1>2, <1>3 DEF Typed
    <3> QED  BY <1>1, <1>2, <3>1 DEF Covered, Spends, Reckoned
  <2>3. NobodyCountsMore
    BY <1>1, <2>1, <2>2, OnlyItMoves
  <2> QED  BY <1>1, <2>3, WithinStays
<1>4. CASE (\A s \in SeriesSet : Fits(s)) /\ pc' = [pc EXCEPT ![t] = "charged"]
  <2> SUFFICES ASSUME torn' = {}, shared' = {}, NEW s \in SeriesSet, Limit[s] > 0
               PROVE  InAll([x \in Turns |-> Covered(x)])' <= Limit[s]
    BY DEF WithinEstimates
  <2>1. PICK c : c = [x \in Turns |-> Covered(x)]
    OBVIOUS
  <2>2. PICK d : d = [x \in Turns |-> Covered(x)']
    OBVIOUS
  <2>3. PICK u : u = [x \in Turns |-> charge[x][s]]
    OBVIOUS
  <2>4. \A x \in Turns : Whole(x)
    BY <1>1 DEF Whole
  <2>5. Whole(t) /\ Before(t)
    BY <1>1, <2>4 DEF MeterInv, Stage
  <2>6. c[t] = 0 /\ d[t] = Estimate
    <3>1. pc'[t] = "charged" /\ ~Reckoned(t) /\ job[t].do = "nothing"
      BY <1>2, <1>4, <2>5 DEF Typed, Before, Idle, Working, NoJob, Reckoned
    <3> QED  BY <1>1, <2>1, <2>2, <3>1 DEF Covered, Spends, Reckoned
  <2>7. \A x \in Turns : x # t => d[x] = c[x]
    BY <1>1, <1>2, <1>4, <2>1, <2>2 DEF Covered, Spends, Typed, Reckoned
  <2>8. \A x \in Turns : c[x] \in Int /\ d[x] \in Int /\ u[x] \in Int /\ c[x] <= u[x]
    <3>1. ASSUME NEW x \in Turns PROVE Covered(x) \in Nat /\ Covered(x) <= charge[x][s]
      BY <2>4, CoveredIs, CoveredIsCharged
    <3> QED  BY <1>2, <2>1, <2>3, <2>6, <2>7, <3>1 DEF Typed
  <2>9. SumOf(d, Turns) = SumOf(c, Turns) - c[t] + d[t]
    BY <1>2, <2>7, <2>8, SumChanges DEF Summable
  <2>10. SumOf(c, Turns) <= SumOf(u, Turns)
    BY <1>2, <2>8, SumMono DEF Summable
  <2>11. SumOf(c, Turns) \in Int /\ SumOf(u, Turns) \in Int /\ Limit[s] \in Nat
    BY <1>2, <2>8, SumInt DEF Summable
  <2>12. Max0(SumOf(u, Turns)) + Estimate <= Limit[s]
    BY <1>4, <2>3 DEF Fits, Used, InAll
  <2>13. InAll([x \in Turns |-> Covered(x)])' = SumOf(d, Turns)
    BY <2>2 DEF InAll
  <2> QED  BY <1>2, <2>6, <2>9, <2>10, <2>11, <2>12, <2>13 DEF Max0
<1> QED  BY <1>1, <1>3, <1>4

LEMMA InitWithin == Init => WithinEstimates
<1> SUFFICES ASSUME Init, NEW s \in SeriesSet, Limit[s] > 0
             PROVE  InAll([t \in Turns |-> Covered(t)]) <= Limit[s]
  BY DEF WithinEstimates
<1>1. PICK c : c = [t \in Turns |-> Covered(t)]
  OBVIOUS
<1>2. \A t \in Turns : c[t] = 0
  BY <1>1 DEF Init, Covered, Spends, NoJob, Reckoned
<1>3. IsFiniteSet(Turns) /\ Limit[s] \in Nat
  BY MeteringAssumption DEF MeteringAssumption
<1>4. SumOf(c, Turns) = 0
  BY <1>2, <1>3, SumZero
<1>5. InAll([t \in Turns |-> Covered(t)]) = 0
  BY <1>1, <1>4 DEF InAll
<1> QED  BY <1>3, <1>5

(* Every step keeps what the estimates cover within the ceilings. *)
LEMMA NextWithin == MeterInv /\ WithinEstimates /\ [Next]_vars => WithinEstimates'
<1> SUFFICES ASSUME MeterInv, WithinEstimates, [Next]_vars PROVE WithinEstimates'
  OBVIOUS
<1>1. MeterInv'
  BY NextMeters
<1>2. ASSUME NEW t \in Turns, Apply(t) PROVE WithinEstimates'
  BY <1>1, <1>2, ApplyWithin
<1>3. ASSUME NEW t \in Turns,
             Claim(t) \/ ClaimFails(t) \/ ReserveReturns(t) \/ ReserveFails(t)
      PROVE  WithinEstimates'
  <2>1. torn \subseteq torn' /\ shared \subseteq shared'
    BY <1>3 DEF Claim, ClaimFails, ReserveReturns, ReserveFails
  <2> QED  BY <1>1, <1>3, <2>1, ReservingCounts, WithinStays
<1>4. ASSUME NEW t \in Turns,
             FirstByte(t) \/ UpstreamFails(t) \/ UsageChunk(t) \/ StreamEnds(t) \/ CallerLeaves(t)
      PROVE  WithinEstimates'
  <2>1. torn \subseteq torn' /\ shared \subseteq shared'
    BY <1>4 DEF FirstByte, UpstreamFails, UsageChunk, StreamEnds, CallerLeaves
  <2> QED  BY <1>1, <1>4, <2>1, StreamingCounts, WithinStays
<1>5. ASSUME NEW t \in Turns, Settlement(t) \/ AdjustFails(t) \/ RecordFails(t)
      PROVE  WithinEstimates'
  <2>1. torn \subseteq torn' /\ shared \subseteq shared'
    BY <1>5 DEF Settlement, Begin, Adjust, Finish, Record, AdjustFails, RecordFails
  <2> QED  BY <1>1, <1>5, <2>1, SettlingCounts, WithinStays
<1>6. ASSUME UNCHANGED vars PROVE WithinEstimates'
  <2>1. ASSUME NEW x \in Turns PROVE Covered(x)' <= Covered(x)
    BY <1>6, CoveredStands DEF vars
  <2>2. NobodyCountsMore /\ torn \subseteq torn' /\ shared \subseteq shared'
    BY <1>6, <2>1 DEF NobodyCountsMore, vars
  <2> QED  BY <1>1, <2>2, WithinStays
<1> QED  BY <1>2, <1>3, <1>4, <1>5, <1>6 DEF Next

(* Exposure is what the estimates cover and what bills exceed them by. *)
LEMMA WithinIsSpend == MeterInv /\ WithinEstimates => SpendIsWithinLimits
<1> SUFFICES ASSUME MeterInv, WithinEstimates, torn = {}, shared = {}, NEW s \in SeriesSet, Limit[s] > 0
             PROVE  InAll([t \in Turns |-> Exposure(t)]) <= Limit[s] + InAll([t \in Turns |-> Overshoot(t)])
  BY DEF SpendIsWithinLimits
<1>1. PICK c : c = [t \in Turns |-> Covered(t)]
  OBVIOUS
<1>2. PICK e : e = [t \in Turns |-> Exposure(t)]
  OBVIOUS
<1>3. PICK o : o = [t \in Turns |-> Overshoot(t)]
  OBVIOUS
<1>4. \A t \in Turns : c[t] \in Int /\ o[t] \in Int /\ e[t] = c[t] + o[t]
  <2>1. ASSUME NEW t \in Turns
        PROVE  Covered(t) \in Nat /\ Exposure(t) = Covered(t) + Overshoot(t) /\ Overshoot(t) \in Nat
    BY CoveredIs
  <2> QED  BY <1>1, <1>2, <1>3, <2>1
<1>5. IsFiniteSet(Turns) /\ Limit[s] \in Nat
  BY MeteringAssumption DEF MeteringAssumption
<1>6. SumOf(e, Turns) = SumOf(c, Turns) + SumOf(o, Turns)
  BY <1>4, <1>5, SumPlus DEF Summable
<1>7. SumOf(c, Turns) \in Int /\ SumOf(o, Turns) \in Int
  BY <1>4, <1>5, SumInt DEF Summable
<1>8. SumOf(c, Turns) <= Limit[s]
  BY <1>1 DEF WithinEstimates, InAll
<1> QED  BY <1>2, <1>3, <1>5, <1>6, <1>7, <1>8 DEF InAll

(* The ceilings hold for what is really spent: calls in flight and calls paid for   *)
(* go past one by what the settlements exceeded their estimates and by nothing else *)
(* (QuotaPolicy.reserve and reconcile), whatever callers and endpoints do.          *)
THEOREM SpentWithinLimits == Spec => []SpendIsWithinLimits
<1>1. Init => MeterInv /\ WithinEstimates
  BY InitMeters, InitWithin
<1>2. MeterInv /\ WithinEstimates /\ [Next]_vars => (MeterInv /\ WithinEstimates)'
  BY NextMeters, NextWithin
<1> QED  BY <1>1, <1>2, WithinIsSpend, PTL DEF Spec

================================================================================
