------------------------------- MODULE MCCashbook -------------------------------
(***************************************************************************)
(* One day, amounts of a few rupees.  Two requests at a time for the cash  *)
(* book of one office, with a fault or with outdated lists; or one request *)
(* at a time, without a fault, that names the cash books of two offices.   *)
(* A unit of time is seven and a half seconds: a call takes up to two, and *)
(* the fifty seconds of the lease are seven, rounded up.  Three calls fit. *)
(***************************************************************************)
EXTENDS Cashbook

A == [ddo |-> "a", day |-> 1]
B == [ddo |-> "b", day |-> 1]
MCBooks == {A, B}
MCRequests == {<<A>>, <<A, B>>}

Line1(s, n, side) == [sign |-> s, amount |-> n, side |-> side]

(* Cash grew through a negative payment; a day without entries; a day that does *)
(* not add up; a day with an account code nobody mapped.                        *)
MCContents ==
  { [opening |-> 0, closing |-> 1, lines |-> <<Line1("+", -1, "F")>>, mapped |-> TRUE],
    [opening |-> 1, closing |-> 0, lines |-> <<Line1("+", 5, "T")>>, mapped |-> FALSE],
    [opening |-> 0, closing |-> 0, lines |-> << >>, mapped |-> TRUE] }

VARIABLE load
mcvars == <<vars, load>>

Late == \/ \E u \in DOMAIN pfms' : pfms'[u].late
        \/ \E t \in Threads : Submits(t)' /\ req'[t].late

OneOffice == /\ load = "office" /\ B \notin DOMAIN kafka' /\ (faults' = 0 \/ ~Late)
             /\ \A t \in Threads : Submits(t)' => req'[t].cbs = <<A>>
TwoOffices == /\ load = "offices" /\ faults' = 0 /\ Cardinality({t \in Threads : req'[t] # Idle}) <= 1
              /\ \A t \in Threads : Submits(t)' => req'[t].cbs = <<A, B>>

MCInit == CashbookInit /\ load \in {"office", "offices"}
MCNext == CashbookNext /\ (OneOffice \/ TwoOffices) /\ UNCHANGED load
MCSpec == MCInit /\ [][MCNext]_mcvars

Symmetry == Permutations(Threads)
================================================================================
