--------------------------- MODULE SessionRunsProofs ---------------------------
(***************************************************************************)
(* For every set of messages and any number of resumes: a message is lost  *)
(* only when a run was started before the old run's worker had handed its  *)
(* queue over; otherwise one in the queue has a worker and one in between  *)
(* has its callback.                                                       *)
(*                                                                         *)
(* The property says nothing of why: a rescued message finds the session   *)
(* idle, because the status of its run was put in front of it in the same  *)
(* first-in-first-out queue (SettledFirst), and no other run made it       *)
(* running again (InTurn holds until one overtakes).                       *)
(***************************************************************************)
EXTENDS SessionRuns, FiniteSetTheorems, SequenceTheorems, TLAPS

Places == {"unsent", "queued", "read", "began a run", "rescued", "lost"}
Steps == {"none", "running", "asking", "settling", "releasing", "closing", "gone"}
Callbacks == [do : {"end", "settle", "deliver"}, run : Nat, msgs : SUBSET Messages]
Pending(do) == {i \in DOMAIN soon : soon[i].do = do}
Began == In("began a run")

Typed ==
  /\ status \in {"running", "idle"} /\ open \in BOOLEAN /\ overtaken \in BOOLEAN
  /\ place \in [Messages -> Places]
  /\ run \in RunIds /\ resumes \in 0 .. MaxResumes
  /\ worker \in [RunIds -> Steps]
  /\ soon \in Seq(Callbacks)

\* Every run but the first was begun by a message, or a resume.
RunsAreBegun == run <= 1 + Cardinality(Began) + resumes

\* What was rescued is carried by exactly one callback.
Carried ==
  /\ \A m \in Messages : place[m] = "rescued" <=> \E i \in DOMAIN soon : m \in soon[i].msgs
  /\ \A i, j \in DOMAIN soon : i # j => soon[i].msgs \cap soon[j].msgs = {}
  /\ \A i \in DOMAIN soon : soon[i].do = "deliver" <=> soon[i].msgs # {}

\* The queue is open while the last run's worker is there, and holds nothing when it is closed.
QueueIsServed ==
  /\ open => worker[run] \notin {"none", "gone"}
  /\ In("queued") # {} => open

\* Unless a run was overtaken: its worker is the only one; its status is behind its
\* end and in front of what it rescued.
OneWorker == \A r \in RunIds : r # run => worker[r] \in {"none", "gone"}
BeforeTheEnd ==
  worker[run] \in {"running", "asking", "settling"} =>
    status = "running" /\ Pending("settle") = {} /\ Pending("deliver") = {}
BehindTheEnd ==
  worker[run] \in {"releasing", "closing", "gone"} => status = "idle" \/ Pending("settle") # {}
SettlesOnce ==
  /\ Pending("settle") # {} => status = "running"
  /\ \A i, j \in Pending("settle") : i = j
SettledFirst ==
  \A i \in Pending("deliver") : status = "idle" \/ \E j \in Pending("settle") : j < i
InTurn == OneWorker /\ BeforeTheEnd /\ BehindTheEnd /\ SettlesOnce /\ SettledFirst

NoneLost == \A m \in Messages : place[m] # "lost"

RunsInv ==
  /\ Typed /\ RunsAreBegun /\ Carried /\ QueueIsServed
  /\ ~overtaken => InTurn /\ NoneLost

--------------------------------------------------------------------------------
(* Sets of messages are finite: there are enough run numbers for every start. *)
LEMMA RunsAreFinite ==
  /\ Cardinality(Messages) \in Nat
  /\ RunIds = 1 .. Cardinality(Messages) + MaxResumes + 1
  /\ \A S \in SUBSET Messages : /\ Cardinality(S) \in Nat /\ Cardinality(S) <= Cardinality(Messages)
                                /\ \A T \in SUBSET S : /\ Cardinality(T) <= Cardinality(S)
                                                       /\ T # S => Cardinality(T) < Cardinality(S)
<1>1. ASSUME NEW S \in SUBSET Messages
      PROVE  IsFiniteSet(S) /\ Cardinality(S) \in Nat /\ Cardinality(S) <= Cardinality(Messages)
  BY SessionRunsAssumption, FS_Subset, FS_CardinalityType
<1>2. ASSUME NEW S \in SUBSET Messages, NEW T \in SUBSET S
      PROVE  Cardinality(T) <= Cardinality(S) /\ (T # S => Cardinality(T) < Cardinality(S))
  <2>1. Cardinality(S) \in Nat /\ Cardinality(T) \in Nat
    BY <1>1
  <2>2. Cardinality(T) <= Cardinality(S) /\ (Cardinality(S) = Cardinality(T) => S = T)
    BY <1>1, FS_Subset
  <2> QED  BY <2>1, <2>2
<1> QED  BY <1>1, <1>2 DEF RunIds

(* call_soon_threadsafe appends a callback behind all others. *)
LEMMA PutDoes ==
  ASSUME soon \in Seq(Callbacks), NEW c \in Callbacks, soon' = Append(soon, c)
  PROVE  /\ soon' \in Seq(Callbacks)
         /\ \E n \in Nat : /\ DOMAIN soon' = DOMAIN soon \cup {n} /\ soon'[n] = c
                           /\ \A i \in DOMAIN soon : i \in Nat /\ i < n /\ soon'[i] = soon[i]
<1>1. /\ soon' \in Seq(Callbacks) /\ Len(soon) \in Nat /\ Len(soon') = Len(soon) + 1
      /\ DOMAIN soon = 1 .. Len(soon) /\ DOMAIN soon' = 1 .. Len(soon) + 1
      /\ \A i \in 1 .. Len(soon) : soon'[i] = soon[i]
      /\ soon'[Len(soon) + 1] = c
  OBVIOUS
<1>2. DOMAIN soon' = DOMAIN soon \cup {Len(soon) + 1}
  BY <1>1
<1> QED  BY <1>1, <1>2

(* The event loop takes the first callback; the others move up. *)
LEMMA PopDoes ==
  ASSUME soon \in Seq(Callbacks), soon # << >>, soon' = Tail(soon)
  PROVE  /\ soon' \in Seq(Callbacks) /\ 1 \in DOMAIN soon /\ Next1 = soon[1] /\ Next1 \in Callbacks
         /\ \A i \in DOMAIN soon' : i \in Nat /\ i + 1 # 1 /\ i + 1 \in DOMAIN soon /\ soon'[i] = soon[i + 1]
         /\ \A j \in DOMAIN soon : j \in Nat /\ (j # 1 => j - 1 \in DOMAIN soon' /\ soon'[j - 1] = soon[j])
<1>1. /\ Len(soon) \in Nat /\ DOMAIN soon = 1 .. Len(soon) /\ Len(soon) # 0
      /\ soon' \in Seq(Callbacks) /\ Len(soon') = Len(soon) - 1 /\ DOMAIN soon' = 1 .. Len(soon')
      /\ \A i \in 1 .. Len(soon) - 1 : soon'[i] = soon[i + 1]
      /\ Head(soon) = soon[1]
  BY HeadTailProperties
<1>2. 1 \in DOMAIN soon /\ soon[1] \in Callbacks
  BY <1>1
<1> QED  BY <1>1, <1>2 DEF Next1

--------------------------------------------------------------------------------
(* Steps that hand the event loop nothing and take nothing from it *)

(* Messages that began a run stay so. *)
LEMMA BegunStands ==
  ASSUME Typed, RunsAreBegun, place' \in [Messages -> Places], Began \subseteq Began',
         UNCHANGED <<run, resumes>>
  PROVE  RunsAreBegun'
<1>1. Began' \in SUBSET Messages /\ Began \in SUBSET Messages
  BY DEF Began, In
<1>2. Cardinality(Began) <= Cardinality(Began')
  BY <1>1, RunsAreFinite
<1>3. /\ Cardinality(Began) \in Nat /\ Cardinality(Began') \in Nat /\ run \in Nat /\ resumes \in Nat
      /\ run' = run /\ resumes' = resumes
  BY <1>1, RunsAreFinite, SessionRunsAssumption DEF Typed
<1> QED  BY <1>2, <1>3 DEF RunsAreBegun

(* A step that only moves messages keeps the invariant, when none is rescued, lost or *)
(* queued behind a closed queue.                                                      *)
LEMMA MessagesMove ==
  ASSUME RunsInv, UNCHANGED <<status, open, run, worker, soon, resumes, overtaken>>,
         place' \in [Messages -> Places],
         \A m \in Messages :
           /\ place'[m] = "rescued" <=> place[m] = "rescued"
           /\ place'[m] = "lost" => place[m] = "lost"
           /\ place[m] = "began a run" => place'[m] = "began a run"
           /\ place'[m] = "queued" => open
  PROVE  RunsInv'
<1>1. Typed' /\ RunsAreBegun'
  BY BegunStands DEF RunsInv, Typed, Began, In
<1>2. Carried' /\ QueueIsServed'
  BY DEF RunsInv, Carried, QueueIsServed, In
<1>3. ~overtaken' => InTurn' /\ NoneLost'
  <2>1. InTurn => InTurn'
    <3>1. Pending("settle")' = Pending("settle") /\ Pending("deliver")' = Pending("deliver")
      BY DEF Pending
    <3>2. /\ OneWorker => OneWorker'
          /\ BeforeTheEnd => BeforeTheEnd'
          /\ BehindTheEnd => BehindTheEnd'
      BY <3>1 DEF OneWorker, BeforeTheEnd, BehindTheEnd
    <3>3. SettlesOnce /\ SettledFirst => SettlesOnce' /\ SettledFirst'
      BY <3>1 DEF SettlesOnce, SettledFirst
    <3> QED  BY <3>2, <3>3 DEF InTurn
  <2>2. NoneLost => NoneLost'
    BY DEF NoneLost
  <2> QED  BY <2>1, <2>2 DEF RunsInv
<1> QED  BY <1>1, <1>2, <1>3 DEF RunsInv

(* So does one that only moves workers within the same part of their run. *)
LEMMA WorkersMove ==
  ASSUME RunsInv, UNCHANGED <<status, open, run, place, soon, resumes, overtaken>>,
         worker' \in [RunIds -> Steps],
         \A r \in RunIds :
           /\ worker'[r] \in {"none", "gone"} <=> worker[r] \in {"none", "gone"}
           /\ worker'[r] \in {"running", "asking", "settling"} => worker[r] \in {"running", "asking", "settling"}
           /\ worker'[r] \in {"releasing", "closing", "gone"} => worker[r] \in {"releasing", "closing", "gone"}
  PROVE  RunsInv'
<1>1. Typed' /\ RunsAreBegun'
  BY BegunStands DEF RunsInv, Typed, Began, In
<1>2. Carried' /\ QueueIsServed'
  BY DEF RunsInv, Typed, Carried, QueueIsServed, In
<1>3. ~overtaken' => InTurn' /\ NoneLost'
  BY DEF RunsInv, Typed, InTurn, OneWorker, BeforeTheEnd, BehindTheEnd, SettlesOnce, SettledFirst, Pending,
         NoneLost
<1> QED  BY <1>1, <1>2, <1>3 DEF RunsInv

(* drain_steer reads the queue. *)
LEMMA TurnKeeps ==
  ASSUME RunsInv, NEW r, Turn(r)
  PROVE  RunsInv'
BY MessagesMove DEF Turn, Move, In, RunsInv, Typed, Places

(* A correction is queued only while the queue is open. *)
LEMMA SteerKeeps ==
  ASSUME RunsInv, NEW m \in Messages, Steer(m)
  PROVE  RunsInv'
BY MessagesMove DEF Steer, Move, RunsInv, Typed, Places

(* Deleting the session from the store, and a refused message, touch none of this. *)
LEMMA ForgetKeeps ==
  ASSUME RunsInv, Forget \/ UNCHANGED vars
  PROVE  RunsInv'
BY MessagesMove DEF Forget, vars, RunsInv, Typed, QueueIsServed, In

(* A worker that asks, is answered, or releases what the session waits on, is still there. *)
LEMMA AskKeeps ==
  ASSUME RunsInv, NEW r \in RunIds, Ask(r) \/ Decide(r) \/ Release(r)
  PROVE  RunsInv'
<1>1. CASE Ask(r)
  BY <1>1, WorkersMove DEF Ask, To, RunsInv, Typed, Steps
<1>2. CASE Decide(r)
  BY <1>2, WorkersMove DEF Decide, RunsInv, Typed, Steps
<1>3. CASE Release(r)
  BY <1>3, WorkersMove DEF Release, RunsInv, Typed, Steps
<1> QED  BY <1>1, <1>2, <1>3

--------------------------------------------------------------------------------
(* The end of a run *)

(* A callback without messages leaves the deliveries as they are. *)
LEMMA EmptyPutKeeps ==
  ASSUME RunsInv, NEW c \in Callbacks, c.do # "deliver", c.msgs = {}, soon' = Append(soon, c), place' = place
  PROVE  /\ soon' \in Seq(Callbacks) /\ Carried'
         /\ Pending("deliver")' = Pending("deliver")
         /\ \A i \in Pending("settle")' : i \in Pending("settle") \/ c.do = "settle"
         /\ \A i \in Pending("settle") : i \in Pending("settle")'
<1>1. PICK n \in Nat : /\ soon' \in Seq(Callbacks) /\ DOMAIN soon' = DOMAIN soon \cup {n} /\ soon'[n] = c
                       /\ \A i \in DOMAIN soon : i \in Nat /\ i < n /\ soon'[i] = soon[i]
  BY PutDoes DEF RunsInv, Typed
<1>2. Carried'
  BY <1>1 DEF RunsInv, Carried
<1> QED  BY <1>1, <1>2 DEF Pending

(* The END event settles nothing. *)
LEMMA EmitEndKeeps ==
  ASSUME RunsInv, NEW r \in RunIds, EmitEnd(r)
  PROVE  RunsInv'
<1> DEFINE c == [do |-> "end", run |-> r, msgs |-> {}]
<1>1. c \in Callbacks /\ c.do = "end" /\ c.msgs = {}
  BY DEF Callbacks, RunIds
<1>2. /\ worker[r] = "running" /\ worker' = [worker EXCEPT ![r] = "settling"] /\ soon' = Append(soon, c)
      /\ UNCHANGED <<status, open, place, run, resumes, overtaken>>
  BY DEF EmitEnd, To, Put
<1> HIDE DEF c
<1>3. /\ soon' \in Seq(Callbacks) /\ Carried'
      /\ Pending("deliver")' = Pending("deliver") /\ Pending("settle")' = Pending("settle")
  BY <1>1, <1>2, EmptyPutKeeps
<1>4. Typed' /\ RunsAreBegun'
  BY <1>2, <1>3, BegunStands DEF RunsInv, Typed, Began, In, Steps
<1>5. QueueIsServed'
  BY <1>2 DEF RunsInv, Typed, QueueIsServed, In
<1>6. ASSUME ~overtaken PROVE InTurn' /\ NoneLost'
  <2>1. InTurn /\ NoneLost /\ run' = run /\ status' = status
    BY <1>2, <1>6 DEF RunsInv
  <2>2. worker'[r] = "settling" /\ \A q \in RunIds : q # r => worker'[q] = worker[q]
    BY <1>2 DEF RunsInv, Typed
  <2>3. OneWorker' /\ BeforeTheEnd' /\ BehindTheEnd'
    BY <1>2, <1>3, <2>1, <2>2 DEF RunsInv, Typed, InTurn, OneWorker, BeforeTheEnd, BehindTheEnd
  <2>4. SettlesOnce' /\ SettledFirst' /\ NoneLost'
    BY <1>2, <1>3, <2>1 DEF InTurn, SettlesOnce, SettledFirst, NoneLost
  <2> QED  BY <2>3, <2>4 DEF InTurn
<1> QED  BY <1>2, <1>3, <1>4, <1>5, <1>6 DEF RunsInv

(* The status is put while the run is the only one with a worker. *)
LEMMA SettleKeeps ==
  ASSUME RunsInv, NEW r \in RunIds, Settle(r)
  PROVE  RunsInv'
<1> DEFINE c == [do |-> "settle", run |-> r, msgs |-> {}]
<1>1. c \in Callbacks /\ c.do = "settle" /\ c.msgs = {}
  BY DEF Callbacks, RunIds
<1>2. /\ worker[r] = "settling" /\ worker' = [worker EXCEPT ![r] = "releasing"] /\ soon' = Append(soon, c)
      /\ UNCHANGED <<status, open, place, run, resumes, overtaken>>
  BY DEF Settle, To, Put
<1> HIDE DEF c
<1>3. soon' \in Seq(Callbacks) /\ Carried' /\ Pending("deliver")' = Pending("deliver")
  BY <1>1, <1>2, EmptyPutKeeps
<1>4. Typed' /\ RunsAreBegun'
  BY <1>2, <1>3, BegunStands DEF RunsInv, Typed, Began, In, Steps
<1>5. QueueIsServed'
  BY <1>2 DEF RunsInv, Typed, QueueIsServed, In
<1>6. ASSUME ~overtaken PROVE InTurn' /\ NoneLost'
  <2>1. InTurn /\ NoneLost /\ run' = run /\ status' = status /\ r = run
    BY <1>2, <1>6 DEF RunsInv, InTurn, OneWorker
  <2>2. worker'[r] = "releasing" /\ \A q \in RunIds : q # r => worker'[q] = worker[q]
    BY <1>2 DEF RunsInv, Typed
  <2>3. status = "running" /\ Pending("settle") = {} /\ Pending("deliver") = {}
    BY <1>2, <2>1 DEF InTurn, BeforeTheEnd
  <2>4. PICK n \in Nat : DOMAIN soon' = DOMAIN soon \cup {n} /\ soon'[n] = c
                         /\ \A i \in DOMAIN soon : soon'[i] = soon[i]
    BY <1>1, <1>2, PutDoes DEF RunsInv, Typed
  <2>5. Pending("settle")' = {n}
    BY <1>1, <2>3, <2>4 DEF Pending
  <2>6. OneWorker' /\ BeforeTheEnd' /\ BehindTheEnd'
    BY <2>1, <2>2, <2>5 DEF InTurn, OneWorker, BeforeTheEnd, BehindTheEnd
  <2>7. SettlesOnce' /\ SettledFirst' /\ NoneLost'
    BY <1>2, <1>3, <2>1, <2>3, <2>5 DEF SettlesOnce, SettledFirst, NoneLost
  <2> QED  BY <2>6, <2>7 DEF InTurn
<1> QED  BY <1>2, <1>3, <1>4, <1>5, <1>6 DEF RunsInv

(* What close_steer takes is carried by the new callback, behind the status of its run. *)
LEMMA CloseSteerKeeps ==
  ASSUME RunsInv, NEW r \in RunIds, CloseSteer(r)
  PROVE  RunsInv'
<1> DEFINE Q == In("queued")
           c == [do |-> "deliver", run |-> r, msgs |-> Q]
<1>1. /\ worker[r] = "closing" /\ worker' = [worker EXCEPT ![r] = "gone"] /\ open' = FALSE
      /\ place' = [m \in Messages |-> IF m \in Q THEN "rescued" ELSE place[m]]
      /\ IF Q = {} THEN soon' = soon ELSE soon' = Append(soon, c)
      /\ UNCHANGED <<status, run, resumes, overtaken>>
  BY DEF CloseSteer, To, Move, Put
<1>2. Typed /\ Q \subseteq Messages /\ c \in Callbacks /\ \A m \in Messages : m \in Q <=> place[m] = "queued"
  BY DEF RunsInv, In, Callbacks, RunIds
<1>3. c.do = "deliver" /\ c.msgs = Q
  OBVIOUS
<1> HIDE DEF Q, c
<1>4. place' \in [Messages -> Places] /\ worker' \in [RunIds -> Steps]
  BY <1>1, <1>2 DEF Typed, Places, Steps
<1>5. /\ \A m \in Messages : place'[m] = "rescued" <=> place[m] = "rescued" \/ m \in Q
      /\ \A m \in Q : place[m] # "rescued"
      /\ \A m \in Messages : place'[m] # "queued"
      /\ \A m \in Messages : place[m] # "lost" => place'[m] # "lost"
      /\ \A m \in Messages : place[m] = "began a run" => place'[m] = "began a run"
  BY <1>1, <1>2 DEF Typed
<1>6. RunsAreBegun'
  BY <1>1, <1>4, <1>5, BegunStands DEF RunsInv, Began, In
<1>7. QueueIsServed'
  BY <1>1, <1>5 DEF QueueIsServed, In
<1>8. OneWorker => OneWorker'
  BY <1>1, <1>2 DEF Typed, OneWorker
<1>9. ~overtaken => /\ InTurn /\ NoneLost /\ r = run /\ worker'[run] = "gone"
                    /\ (status = "idle" \/ Pending("settle") # {})
  BY <1>1, <1>2 DEF Typed, RunsInv, InTurn, OneWorker, BehindTheEnd
<1>10. CASE Q = {}
  <2>1. Typed' /\ Carried'
    <3>1. \A m \in Messages : place'[m] = "rescued" <=> place[m] = "rescued"
      BY <1>5, <1>10
    <3>2. soon' = soon /\ Carried
      BY <1>1, <1>10 DEF RunsInv
    <3> QED  BY <1>1, <1>2, <1>4, <3>1, <3>2 DEF Typed, Carried
  <2>2. Pending("settle")' = Pending("settle") /\ Pending("deliver")' = Pending("deliver")
    BY <1>1, <1>10 DEF Pending
  <2>3. ASSUME ~overtaken PROVE InTurn' /\ NoneLost'
    <3>1. BeforeTheEnd' /\ BehindTheEnd'
      BY <1>1, <1>9, <2>2, <2>3 DEF BeforeTheEnd, BehindTheEnd
    <3>2. SettlesOnce' /\ SettledFirst' /\ NoneLost'
      BY <1>1, <1>5, <1>9, <2>2, <2>3 DEF InTurn, SettlesOnce, SettledFirst, NoneLost
    <3> QED  BY <1>8, <1>9, <2>3, <3>1, <3>2 DEF InTurn
  <2> QED  BY <1>1, <1>6, <1>7, <2>1, <2>3 DEF RunsInv
<1>11. CASE Q # {}
  <2>1. PICK n \in Nat : /\ soon' \in Seq(Callbacks) /\ DOMAIN soon' = DOMAIN soon \cup {n} /\ soon'[n] = c
                         /\ \A i \in DOMAIN soon : i \in Nat /\ i < n /\ soon'[i] = soon[i]
    BY <1>1, <1>2, <1>11, PutDoes DEF Typed
  <2>2. Typed'
    BY <1>1, <1>2, <1>4, <2>1 DEF Typed
  <2>3. Carried'
    <3>1. \A i \in DOMAIN soon : soon[i].msgs \cap Q = {}
      BY <1>2, <1>5 DEF RunsInv, Carried, Typed
    <3>2. \A i \in DOMAIN soon : i # n
      BY <2>1
    <3>3. \A m \in Messages : place'[m] = "rescued" <=> \E i \in DOMAIN soon' : m \in soon'[i].msgs
      <4>1. Carried
        BY DEF RunsInv
      <4>2. ASSUME NEW m \in Messages, place'[m] = "rescued"
            PROVE  \E i \in DOMAIN soon' : m \in soon'[i].msgs
        <5>1. CASE m \in Q
          BY <1>3, <2>1, <5>1
        <5>2. CASE m \notin Q
          <6>1. PICK i \in DOMAIN soon : m \in soon[i].msgs
            BY <1>5, <4>1, <4>2, <5>2 DEF Carried
          <6> QED  BY <2>1, <6>1
        <5> QED  BY <5>1, <5>2
      <4>3. ASSUME NEW m \in Messages, NEW i \in DOMAIN soon', m \in soon'[i].msgs
            PROVE  place'[m] = "rescued"
        <5>1. CASE i = n
          BY <1>3, <1>5, <2>1, <4>3, <5>1
        <5>2. CASE i \in DOMAIN soon
          <6>1. place[m] = "rescued"
            BY <2>1, <4>1, <4>3, <5>2 DEF Carried
          <6> QED  BY <1>5, <6>1
        <5> QED  BY <2>1, <5>1, <5>2
      <4> QED  BY <4>2, <4>3
    <3>4. \A i, j \in DOMAIN soon' : i # j => soon'[i].msgs \cap soon'[j].msgs = {}
      BY <1>3, <2>1, <3>1, <3>2 DEF RunsInv, Carried
    <3>5. \A i \in DOMAIN soon' : soon'[i].do = "deliver" <=> soon'[i].msgs # {}
      BY <1>3, <1>11, <2>1 DEF RunsInv, Carried
    <3> QED  BY <3>3, <3>4, <3>5 DEF Carried
  <2>4. /\ Pending("settle")' = Pending("settle")
        /\ \A i \in Pending("deliver")' : i \in Pending("deliver") \/ i = n
        /\ \A j \in Pending("settle") : j < n
    BY <1>3, <2>1 DEF Pending
  <2>5. ASSUME ~overtaken PROVE InTurn' /\ NoneLost'
    <3>1. BeforeTheEnd' /\ BehindTheEnd'
      BY <1>1, <1>9, <2>4, <2>5 DEF BeforeTheEnd, BehindTheEnd
    <3>2. SettlesOnce' /\ NoneLost'
      BY <1>1, <1>5, <1>9, <2>4, <2>5 DEF InTurn, SettlesOnce, NoneLost
    <3>3. SettledFirst'
      BY <1>1, <1>9, <2>4, <2>5 DEF InTurn, SettledFirst
    <3> QED  BY <1>8, <1>9, <2>5, <3>1, <3>2, <3>3 DEF InTurn
  <2> QED  BY <1>1, <1>6, <1>7, <2>2, <2>3, <2>5 DEF RunsInv
<1> QED  BY <1>10, <1>11

--------------------------------------------------------------------------------
(* What the event loop executes *)

\* The callbacks behind the first one carry what it does not.
LEMMA CarriedBehind ==
  ASSUME Typed, Carried, soon # << >>, soon' = Tail(soon)
  PROVE  /\ \A m \in Messages : (\E i \in DOMAIN soon' : m \in soon'[i].msgs)
                                  <=> place[m] = "rescued" /\ m \notin Next1.msgs
         /\ \A m \in Next1.msgs : m \in Messages /\ place[m] = "rescued"
         /\ \A i, j \in DOMAIN soon' : i # j => soon'[i].msgs \cap soon'[j].msgs = {}
         /\ \A i \in DOMAIN soon' : soon'[i].do = "deliver" <=> soon'[i].msgs # {}
<1>1. /\ 1 \in DOMAIN soon /\ Next1 = soon[1] /\ Next1 \in Callbacks
      /\ \A i \in DOMAIN soon' : i \in Nat /\ i + 1 # 1 /\ i + 1 \in DOMAIN soon /\ soon'[i] = soon[i + 1]
      /\ \A j \in DOMAIN soon : j \in Nat /\ (j # 1 => j - 1 \in DOMAIN soon' /\ soon'[j - 1] = soon[j])
  BY PopDoes DEF Typed
<1>2. \A m \in Next1.msgs : m \in Messages /\ place[m] = "rescued"
  BY <1>1 DEF Carried, Callbacks
<1>3. ASSUME NEW m \in Messages, NEW i \in DOMAIN soon', m \in soon'[i].msgs
      PROVE  place[m] = "rescued" /\ m \notin Next1.msgs
  BY <1>1, <1>3 DEF Carried
<1>4. ASSUME NEW m \in Messages, place[m] = "rescued", m \notin Next1.msgs
      PROVE  \E i \in DOMAIN soon' : m \in soon'[i].msgs
  BY <1>1, <1>4 DEF Carried
<1>5. \A i, j \in DOMAIN soon' : i # j => soon'[i].msgs \cap soon'[j].msgs = {}
  <2>1. ASSUME NEW i \in DOMAIN soon', NEW j \in DOMAIN soon', i # j
        PROVE  soon'[i].msgs \cap soon'[j].msgs = {}
    <3>1. i + 1 # j + 1
      BY <1>1, <2>1
    <3> QED  BY <1>1, <3>1 DEF Carried
  <2> QED  BY <2>1
<1>6. \A i \in DOMAIN soon' : soon'[i].do = "deliver" <=> soon'[i].msgs # {}
  BY <1>1 DEF Carried
<1> QED  BY <1>2, <1>3, <1>4, <1>5, <1>6

\* The order behind the first callback.
LEMMA TurnBehind ==
  ASSUME Typed, soon # << >>, soon' = Tail(soon)
  PROVE  /\ \A do : \A i \in Pending(do)' : i + 1 \in Pending(do) /\ i + 1 # 1 /\ i \in Nat
         /\ \A do : \A j \in Pending(do) : j \in Nat /\ (j # 1 => j - 1 \in Pending(do)')
         /\ \A do : 1 \in Pending(do) <=> Next1.do = do
BY PopDoes DEF Typed, Pending

(* The END event joins the transcript, nothing else changes. *)
LEMMA RecordEndKeeps ==
  ASSUME RunsInv, RecordEnd
  PROVE  RunsInv'
<1>1. /\ soon # << >> /\ Next1.do = "end" /\ soon' = Tail(soon)
      /\ UNCHANGED <<status, open, place, run, worker, resumes, overtaken>>
  BY DEF RecordEnd
<1>2. Typed /\ Carried /\ soon' \in Seq(Callbacks) /\ Next1 = soon[1] /\ 1 \in DOMAIN soon
  BY <1>1, PopDoes DEF RunsInv, Typed
<1>3. Typed' /\ RunsAreBegun'
  BY <1>1, <1>2, BegunStands DEF RunsInv, Typed, Began, In
<1>4. Carried' /\ QueueIsServed'
  <2>1. Next1.msgs = {}
    BY <1>1, <1>2 DEF Carried
  <2> QED  BY <1>1, <1>2, <2>1, CarriedBehind DEF RunsInv, Carried, QueueIsServed, In
<1>5. ASSUME ~overtaken PROVE InTurn' /\ NoneLost'
  <2>1. InTurn /\ NoneLost
    BY <1>5 DEF RunsInv
  <2>2. /\ \A do \in {"settle", "deliver"} : \A i \in Pending(do)' : i + 1 \in Pending(do) /\ i \in Nat
        /\ \A do \in {"settle", "deliver"} : \A j \in Pending(do) : j \in Nat /\ j - 1 \in Pending(do)'
    BY <1>1, <1>2, TurnBehind
  <2>3. OneWorker' /\ BeforeTheEnd' /\ BehindTheEnd' /\ NoneLost'
    BY <1>1, <2>1, <2>2 DEF InTurn, OneWorker, BeforeTheEnd, BehindTheEnd, NoneLost
  <2>4. SettlesOnce'
    <3>1. Pending("settle")' # {} => status' = "running"
      BY <1>1, <2>1, <2>2 DEF InTurn, SettlesOnce
    <3>2. ASSUME NEW i \in Pending("settle")', NEW j \in Pending("settle")' PROVE i = j
      <4>1. i + 1 \in Pending("settle") /\ j + 1 \in Pending("settle") /\ i \in Nat /\ j \in Nat
        BY <2>2, <3>2
      <4>2. i + 1 = j + 1
        BY <2>1, <4>1 DEF InTurn, SettlesOnce
      <4> QED  BY <4>1, <4>2
    <3> QED  BY <3>1, <3>2 DEF SettlesOnce
  <2>5. SettledFirst'
    <3>1. ASSUME NEW i \in Pending("deliver")', status' # "idle"
          PROVE  \E j \in Pending("settle")' : j < i
      <4>1. i + 1 \in Pending("deliver") /\ i \in Nat
        BY <2>2, <3>1
      <4>2. PICK j \in Pending("settle") : j < i + 1
        BY <1>1, <2>1, <3>1, <4>1 DEF InTurn, SettledFirst
      <4>3. j \in Nat /\ j - 1 \in Pending("settle")'
        BY <2>2, <4>2
      <4>4. j - 1 < i
        BY <4>1, <4>2, <4>3
      <4> QED  BY <4>3, <4>4
    <3> QED  BY <3>1 DEF SettledFirst
  <2> QED  BY <2>3, <2>4, <2>5 DEF InTurn
<1> QED  BY <1>1, <1>3, <1>4, <1>5 DEF RunsInv

(* session.finish is executed once for a run. *)
LEMMA SettleStatusKeeps ==
  ASSUME RunsInv, SettleStatus
  PROVE  RunsInv'
<1>1. /\ soon # << >> /\ Next1.do = "settle" /\ soon' = Tail(soon) /\ status' = "idle"
      /\ UNCHANGED <<open, place, run, worker, resumes, overtaken>>
  BY DEF SettleStatus
<1>2. Typed /\ Carried /\ soon' \in Seq(Callbacks) /\ Next1 = soon[1] /\ 1 \in DOMAIN soon
  BY <1>1, PopDoes DEF RunsInv, Typed
<1>3. Typed' /\ RunsAreBegun'
  BY <1>1, <1>2, BegunStands DEF RunsInv, Typed, Began, In
<1>4. Carried' /\ QueueIsServed'
  <2>1. Next1.msgs = {}
    BY <1>1, <1>2 DEF Carried
  <2> QED  BY <1>1, <1>2, <2>1, CarriedBehind DEF RunsInv, Carried, QueueIsServed, In
<1>5. ASSUME ~overtaken PROVE InTurn' /\ NoneLost'
  <2>1. InTurn /\ NoneLost
    BY <1>5 DEF RunsInv
  <2>2. 1 \in Pending("settle")
    BY <1>1, <1>2, TurnBehind
  <2>3. Pending("settle")' = {}
    <3>1. ASSUME NEW i \in Pending("settle")' PROVE FALSE
      <4>1. i + 1 \in Pending("settle") /\ i + 1 # 1
        BY <1>1, <1>2, <3>1, TurnBehind
      <4> QED  BY <2>1, <2>2, <4>1 DEF InTurn, SettlesOnce
    <3> QED  BY <3>1
  <2>4. worker[run] \notin {"running", "asking", "settling"}
    BY <2>1, <2>2 DEF InTurn, BeforeTheEnd
  <2>5. OneWorker' /\ BeforeTheEnd' /\ BehindTheEnd' /\ NoneLost'
    BY <1>1, <2>1, <2>4 DEF InTurn, OneWorker, BeforeTheEnd, BehindTheEnd, NoneLost
  <2>6. SettlesOnce' /\ SettledFirst'
    BY <1>1, <2>3 DEF SettlesOnce, SettledFirst
  <2> QED  BY <2>5, <2>6 DEF InTurn
<1> QED  BY <1>1, <1>3, <1>4, <1>5 DEF RunsInv

--------------------------------------------------------------------------------
(* The next run *)

(* follow_up and resume reopen the queue with a new worker; unless that overtakes, the last *)
(* worker is gone and nothing is waiting to be delivered.                                   *)
LEMMA BeginDoes ==
  ASSUME Typed, NEW callbacks, Begin(callbacks), run + 1 \in RunIds
  PROVE  /\ status' = "running" /\ open' = TRUE /\ run' = run + 1 /\ run' \in RunIds /\ run' # run
         /\ worker' \in [RunIds -> Steps] /\ worker'[run'] = "running"
         /\ \A r \in RunIds : r # run' => worker'[r] = worker[r]
         /\ overtaken' \in BOOLEAN
         /\ ~overtaken' => /\ ~overtaken /\ worker[run] = "gone"
                           /\ \A i \in DOMAIN callbacks : callbacks[i].do # "deliver"
<1>1. run \in Nat
  BY DEF Typed, RunIds
<1>2. overtaken' \in BOOLEAN
  BY DEF Begin, Typed
<1> QED  BY <1>1, <1>2 DEF Begin, Typed, Steps

(* There is a number for the next run. *)
LEMMA BegunGrows ==
  ASSUME Typed, RunsAreBegun, run' = run + 1, resumes' \in 0 .. MaxResumes,
         place' \in [Messages -> Places], Began \subseteq Began',
         \/ Began' # Began /\ resumes' = resumes
         \/ resumes' = resumes + 1
  PROVE  RunsAreBegun' /\ run + 1 \in RunIds
<1>1. Began' \in SUBSET Messages /\ Began \in SUBSET Began'
  BY DEF Began, In
<1>2. /\ Cardinality(Began') \in Nat /\ Cardinality(Began) \in Nat
      /\ Cardinality(Began') <= Cardinality(Messages)
      /\ Cardinality(Began) <= Cardinality(Began')
      /\ Began' # Began => Cardinality(Began) < Cardinality(Began')
  <2>1. Began \in SUBSET Messages
    BY <1>1
  <2> QED  BY <1>1, <2>1, RunsAreFinite
<1>3. /\ run \in Nat /\ resumes \in Nat /\ resumes' <= MaxResumes /\ MaxResumes \in Nat /\ resumes' \in Nat
      /\ Cardinality(Messages) \in Nat
  BY RunsAreFinite, SessionRunsAssumption DEF Typed
<1>4. run <= 1 + Cardinality(Began) + resumes
  BY DEF RunsAreBegun
<1>5. run + 1 <= 1 + Cardinality(Began') + resumes'
  BY <1>2, <1>3, <1>4
<1>6. run + 1 \in RunIds
  BY <1>2, <1>3, <1>5, RunsAreFinite
<1> QED  BY <1>5, <1>6 DEF RunsAreBegun

\* The order of things once a new run has begun, from what the callbacks left behind hold.
LEMMA BeginKeepsTurn ==
  ASSUME RunsInv, NEW callbacks, Begin(callbacks), run + 1 \in RunIds, ~overtaken',
         Pending("settle")' = {}, Pending("deliver")' = {}
  PROVE  InTurn'
<1>1. /\ status' = "running" /\ run' = run + 1 /\ worker'[run'] = "running" /\ ~overtaken
      /\ \A r \in RunIds : r # run' => worker'[r] = worker[r]
      /\ worker[run] = "gone"
  BY BeginDoes DEF RunsInv
<1>2. OneWorker'
  BY <1>1 DEF RunsInv, InTurn, OneWorker
<1> QED  BY <1>1, <1>2 DEF InTurn, BeforeTheEnd, BehindTheEnd, SettlesOnce, SettledFirst

\* A run that a request begins.
LEMMA RequestBegins ==
  ASSUME RunsInv, Begin(soon), status = "idle", soon' = soon,
         resumes' \in 0 .. MaxResumes, place' \in [Messages -> Places],
         \A m \in Messages : place'[m] = place[m] \/ (place[m] = "unsent" /\ place'[m] = "began a run"),
         \/ resumes' = resumes /\ \E m \in Messages : place'[m] # place[m]
         \/ resumes' = resumes + 1
  PROVE  RunsInv'
<1>1. Typed /\ RunsAreBegun /\ run' = run + 1
  BY DEF RunsInv, Begin
<1>2. Began \subseteq Began' /\ ((\E m \in Messages : place'[m] # place[m]) => Began' # Began)
  BY DEF Began, In
<1>3. RunsAreBegun' /\ run + 1 \in RunIds
  BY <1>1, <1>2, BegunGrows
<1>4. /\ status' = "running" /\ open' = TRUE /\ run' \in RunIds
      /\ worker' \in [RunIds -> Steps] /\ worker'[run'] = "running"
      /\ overtaken' \in BOOLEAN
      /\ ~overtaken' => ~overtaken /\ \A i \in DOMAIN soon : soon[i].do # "deliver"
  BY <1>1, <1>3, BeginDoes
<1>5. Typed' /\ QueueIsServed'
  BY <1>1, <1>4 DEF Typed, QueueIsServed
<1>6. Carried'
  BY DEF RunsInv, Carried
<1>7. ASSUME ~overtaken' PROVE InTurn' /\ NoneLost'
  <2>1. InTurn /\ NoneLost
    BY <1>4, <1>7 DEF RunsInv
  <2>2. Pending("settle")' = {} /\ Pending("deliver")' = {}
    <3>1. Pending("settle") = {} /\ Pending("deliver") = {}
      BY <1>4, <1>7, <2>1 DEF InTurn, SettlesOnce, Pending
    <3> QED  BY <3>1 DEF Pending
  <2> QED  BY <1>3, <1>7, <2>1, <2>2, BeginKeepsTurn DEF NoneLost
<1> QED  BY <1>3, <1>5, <1>6, <1>7 DEF RunsInv

(* FollowUp begins a run with its message. *)
LEMMA FollowUpKeeps ==
  ASSUME RunsInv, NEW m \in Messages, FollowUp(m)
  PROVE  RunsInv'
<1>1. /\ place[m] = "unsent" /\ status = "idle" /\ Begin(soon) /\ UNCHANGED <<soon, resumes>>
      /\ place' = [x \in Messages |-> IF x \in {m} THEN "began a run" ELSE place[x]]
  BY DEF FollowUp, Move
<1>2. /\ place' \in [Messages -> Places] /\ place'[m] # place[m] /\ resumes' \in 0 .. MaxResumes
      /\ \A x \in Messages : place'[x] = place[x] \/ (place[x] = "unsent" /\ place'[x] = "began a run")
  BY <1>1 DEF RunsInv, Typed, Places
<1> QED  BY <1>1, <1>2, RequestBegins

(* Resume begins a run without one. *)
LEMMA ResumeKeeps ==
  ASSUME RunsInv, Resume
  PROVE  RunsInv'
<1>1. /\ status = "idle" /\ resumes < MaxResumes /\ resumes' = resumes + 1 /\ Begin(soon)
      /\ UNCHANGED <<place, soon>>
  BY DEF Resume
<1>2. resumes' \in 0 .. MaxResumes /\ place' \in [Messages -> Places]
  BY <1>1, SessionRunsAssumption DEF RunsInv, Typed
<1> QED  BY <1>1, <1>2, RequestBegins

(* _rescue_steers begins a run with what was rescued. *)
LEMMA DeliverAsFollowUpKeeps ==
  ASSUME RunsInv, DeliverAsFollowUp
  PROVE  RunsInv'
<1> DEFINE M == Next1.msgs
<1>1. /\ soon # << >> /\ Next1.do = "deliver" /\ soon' = Tail(soon) /\ status = "idle"
      /\ place' = [m \in Messages |-> IF m \in M THEN "began a run" ELSE place[m]]
      /\ Begin(Tail(soon)) /\ UNCHANGED resumes
  BY DEF DeliverAsFollowUp, Move
<1>2. Typed /\ Carried /\ RunsAreBegun /\ run' = run + 1 /\ resumes' \in 0 .. MaxResumes
  BY <1>1 DEF RunsInv, Begin, Typed
<1>3. soon' \in Seq(Callbacks) /\ Next1 = soon[1] /\ 1 \in DOMAIN soon
  BY <1>1, <1>2, PopDoes DEF Typed
<1>4. M # {} /\ \A m \in M : m \in Messages /\ place[m] = "rescued"
  BY <1>1, <1>2, <1>3, CarriedBehind DEF Carried
<1>5. /\ \A m \in Messages : (\E i \in DOMAIN soon' : m \in soon'[i].msgs) <=> place[m] = "rescued" /\ m \notin M
      /\ \A i, j \in DOMAIN soon' : i # j => soon'[i].msgs \cap soon'[j].msgs = {}
      /\ \A i \in DOMAIN soon' : soon'[i].do = "deliver" <=> soon'[i].msgs # {}
  BY <1>1, <1>2, CarriedBehind
<1> HIDE DEF M
<1>6. /\ place' \in [Messages -> Places]
      /\ \A m \in Messages : IF m \in M THEN place'[m] = "began a run" ELSE place'[m] = place[m]
  BY <1>1, <1>2 DEF Typed, Places
<1>7. Began \subseteq Began' /\ Began' # Began
  BY <1>4, <1>6 DEF Began, In
<1>8. RunsAreBegun' /\ run + 1 \in RunIds
  BY <1>2, <1>6, <1>7, <1>1, BegunGrows
<1>9. /\ status' = "running" /\ open' = TRUE /\ run' \in RunIds
      /\ worker' \in [RunIds -> Steps] /\ worker'[run'] = "running"
      /\ overtaken' \in BOOLEAN
      /\ ~overtaken' => ~overtaken /\ \A i \in DOMAIN soon' : soon'[i].do # "deliver"
  <2>1. Begin(soon')
    BY <1>1
  <2> QED  BY <1>1, <1>2, <1>8, BeginDoes
<1>10. Typed' /\ QueueIsServed'
  BY <1>2, <1>3, <1>6, <1>9 DEF Typed, QueueIsServed
<1>11. Carried'
  <2>1. \A m \in Messages : place'[m] = "rescued" <=> place[m] = "rescued" /\ m \notin M
    BY <1>6
  <2> QED  BY <1>5, <2>1 DEF Carried
<1>12. ASSUME ~overtaken' PROVE InTurn' /\ NoneLost'
  <2>1. InTurn /\ NoneLost
    BY <1>9, <1>12 DEF RunsInv
  <2>2. Pending("settle") = {}
    BY <1>1, <2>1 DEF InTurn, SettlesOnce
  <2>3. Pending("settle")' = {} /\ Pending("deliver")' = {}
    <3>1. Pending("settle")' = {}
      BY <1>1, <1>2, <2>2, TurnBehind
    <3>2. Pending("deliver")' = {}
      BY <1>9, <1>12 DEF Pending
    <3> QED  BY <3>1, <3>2
  <2>4. NoneLost'
    BY <1>6, <2>1 DEF NoneLost
  <2> QED  BY <1>1, <1>8, <1>12, <2>3, <2>4, BeginKeepsTurn
<1> QED  BY <1>8, <1>10, <1>11, <1>12 DEF RunsInv

(* _rescue_steers finds a live run only when that run overtook the old one's hand-over. *)
LEMMA DeliverToLiveRunKeeps ==
  ASSUME RunsInv, DeliverToLiveRun
  PROVE  RunsInv'
<1> DEFINE M == Next1.msgs
<1>1. /\ soon # << >> /\ Next1.do = "deliver" /\ soon' = Tail(soon) /\ status = "running"
      /\ place' = [m \in Messages |-> IF m \in M THEN (IF open THEN "queued" ELSE "lost") ELSE place[m]]
      /\ UNCHANGED <<status, open, run, worker, resumes, overtaken>>
  BY DEF DeliverToLiveRun, Move
<1>2. Typed /\ Carried /\ soon' \in Seq(Callbacks)
  BY <1>1, PopDoes DEF RunsInv, Typed
<1>3. /\ \A m \in M : m \in Messages /\ place[m] = "rescued"
      /\ \A m \in Messages : (\E i \in DOMAIN soon' : m \in soon'[i].msgs) <=> place[m] = "rescued" /\ m \notin M
      /\ \A i, j \in DOMAIN soon' : i # j => soon'[i].msgs \cap soon'[j].msgs = {}
      /\ \A i \in DOMAIN soon' : soon'[i].do = "deliver" <=> soon'[i].msgs # {}
  BY <1>1, <1>2, CarriedBehind
<1> HIDE DEF M
<1>4. /\ place' \in [Messages -> Places]
      /\ \A m \in Messages : place'[m] = IF m \in M THEN (IF open THEN "queued" ELSE "lost") ELSE place[m]
  BY <1>1, <1>2 DEF Typed, Places
<1>5. Typed' /\ RunsAreBegun'
  BY <1>1, <1>2, <1>3, <1>4, BegunStands DEF RunsInv, Typed, Began, In
<1>6. QueueIsServed'
  BY <1>1, <1>4 DEF RunsInv, QueueIsServed, In
<1>7. Carried'
  <2>1. \A m \in Messages : place'[m] = "rescued" <=> place[m] = "rescued" /\ m \notin M
    BY <1>4
  <2> QED  BY <1>3, <2>1 DEF Carried
<1>8. overtaken
  <2>1. SUFFICES ASSUME InTurn PROVE FALSE
    BY DEF RunsInv
  <2>2. 1 \in Pending("deliver")
    BY <1>1, <1>2, TurnBehind
  <2>3. PICK j \in Pending("settle") : j < 1
    BY <1>1, <2>1, <2>2 DEF InTurn, SettledFirst
  <2>4. j \in Nat /\ j # 0
    BY <1>2, <2>3 DEF Pending, Typed
  <2> QED  BY <2>3, <2>4
<1> QED  BY <1>1, <1>5, <1>6, <1>7, <1>8 DEF RunsInv

--------------------------------------------------------------------------------
(* The invariant *)

(* The task began the first run, nothing is queued. *)
LEMMA InitHolds ==
  ASSUME Init
  PROVE  RunsInv
<1>1. soon = << >> /\ DOMAIN soon = {} /\ soon \in Seq(Callbacks)
  BY EmptySeq DEF Init
<1>2. 1 \in RunIds /\ run = 1 /\ resumes = 0 /\ resumes \in 0 .. MaxResumes
  BY RunsAreFinite, SessionRunsAssumption DEF Init
<1>3. Typed
  BY <1>1, <1>2 DEF Init, Typed, Places, Steps
<1>4. RunsAreBegun
  <2>1. Began = {}
    BY DEF Init, Began, In
  <2> QED  BY <1>2, <2>1, FS_EmptySet DEF RunsAreBegun
<1>5. Carried /\ QueueIsServed
  BY <1>1, <1>2 DEF Init, Carried, QueueIsServed, In
<1>6. InTurn /\ NoneLost
  <2>1. Pending("settle") = {} /\ Pending("deliver") = {}
    BY <1>1 DEF Pending
  <2> QED  BY <1>2, <2>1 DEF Init, InTurn, OneWorker, BeforeTheEnd, BehindTheEnd, SettlesOnce, SettledFirst,
                           NoneLost
<1> QED  BY <1>3, <1>4, <1>5, <1>6 DEF RunsInv

(* Every step keeps the invariant. *)
LEMMA NextKeeps ==
  ASSUME RunsInv, [Next]_vars
  PROVE  RunsInv'
<1>1. CASE UNCHANGED vars
  BY <1>1, ForgetKeeps
<1>2. CASE Requests
  <2>1. ASSUME NEW m \in Messages, Refuse(m) PROVE RunsInv'
    BY <2>1, ForgetKeeps DEF Refuse
  <2> QED  BY <1>2, <2>1, SteerKeeps, FollowUpKeeps, ResumeKeeps, ForgetKeeps, AskKeeps DEF Requests
<1>3. CASE Callback
  BY <1>3, RecordEndKeeps, SettleStatusKeeps, DeliverToLiveRunKeeps, DeliverAsFollowUpKeeps DEF Callback
<1>4. ASSUME NEW r \in RunIds, Worker(r)
      PROVE  RunsInv'
  BY <1>4, TurnKeeps, AskKeeps, EmitEndKeeps, SettleKeeps, CloseSteerKeeps DEF Worker
<1> QED  BY <1>1, <1>2, <1>3, <1>4 DEF Next

(* The property follows. *)
LEMMA LostNone ==
  ASSUME RunsInv
  PROVE  LostOnlyWhenOvertaken
<1>1. In("lost") # {} => overtaken
  BY DEF RunsInv, NoneLost, In
<1>2. In("queued") # {} => \E r \in RunIds : worker[r] \notin {"none", "gone"}
  BY DEF RunsInv, Typed, QueueIsServed
<1>3. In("rescued") = UNION {soon[i].msgs : i \in DOMAIN soon}
  <2>1. \A i \in DOMAIN soon : soon[i].msgs \subseteq Messages
    <3>1. \A i \in DOMAIN soon : soon[i] \in Callbacks
      BY DEF RunsInv, Typed
    <3> QED  BY <3>1 DEF Callbacks
  <2> QED  BY <2>1 DEF RunsInv, Carried, In
<1> QED  BY <1>1, <1>2, <1>3 DEF LostOnlyWhenOvertaken

(* A message is lost only when a new run was started before the old run's worker had closed *)
(* the queue and handed it over (_rescue_steers).                                           *)
THEOREM NoMessageIsLost == Spec => []LostOnlyWhenOvertaken
<1>1. Init => RunsInv
  BY InitHolds
<1>2. RunsInv /\ [Next]_vars => RunsInv'
  BY NextKeeps
<1>3. RunsInv => LostOnlyWhenOvertaken
  BY LostNone
<1> QED  BY <1>1, <1>2, <1>3, PTL DEF Spec

================================================================================
