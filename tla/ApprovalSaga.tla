----------------------------- MODULE ApprovalSaga -----------------------------
(***************************************************************************)
(* What the approval of an office's transfer entry promises, seen from     *)
(* the three ledgers it touches: the budget is consumed, the sub-accounts  *)
(* system is told, the entry is posted, in this order, and an approval     *)
(* that gives up after consuming gives the budget back.  One refused for   *)
(* want of funds keeps what other lines consumed, and an approval a failed *)
(* call cut short is left to a person: nothing is promised of it.          *)
(***************************************************************************)
CONSTANTS
  Covered,     \* the approvals the promise is made for
  Due          \* the lines each consumes the budget of

VARIABLES stage, consumed, told

Init ==
  /\ stage = [w \in Covered |-> "open"]
  /\ consumed = [w \in Covered |-> {}]
  /\ told = [w \in Covered |-> FALSE]

Step(w, from, to) == stage[w] = from /\ stage' = [stage EXCEPT ![w] = to]

Takes(w, lines) == consumed' = [consumed EXCEPT ![w] = lines]

Consume(w) == Step(w, "open", "consumed") /\ Takes(w, Due[w]) /\ UNCHANGED told
Refuse(w) ==
  /\ Step(w, "open", "refused")
  /\ \E lines \in (SUBSET Due[w]) \ {Due[w]} : Takes(w, lines)
  /\ UNCHANGED told
Tell(w) == Step(w, "consumed", "told") /\ told' = [told EXCEPT ![w] = TRUE] /\ UNCHANGED consumed
Post(w) == Step(w, "told", "posted") /\ UNCHANGED <<consumed, told>>

(* The sub-accounts system answered with an error; it may have approved. *)
GiveUp(w) ==
  /\ Step(w, "consumed", "undoing")
  /\ \E b \in BOOLEAN : told' = [told EXCEPT ![w] = b]
  /\ UNCHANGED consumed

Undo(w) == Step(w, "undoing", "undone") /\ Takes(w, {}) /\ UNCHANGED told

(* A call failed: what it did is not known. *)
Leave(w) ==
  /\ stage[w] \in {"open", "consumed", "undoing"}
  /\ stage' = [stage EXCEPT ![w] = "left"]
  /\ \E lines \in SUBSET Due[w] : Takes(w, lines)
  /\ UNCHANGED told

Next == \E w \in Covered :
  Consume(w) \/ Refuse(w) \/ Tell(w) \/ Post(w) \/ GiveUp(w) \/ Undo(w) \/ Leave(w)

Spec == Init /\ [][Next]_<<stage, consumed, told>>

(* What follows from the order. *)
Promise ==
  \A w \in Covered :
    /\ stage[w] \in {"told", "posted"} => consumed[w] = Due[w] /\ told[w]
    /\ stage[w] = "refused" => consumed[w] # Due[w] /\ ~told[w]
    /\ stage[w] = "undone" => consumed[w] = {}
================================================================================
