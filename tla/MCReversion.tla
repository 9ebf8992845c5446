------------------------------ MODULE MCReversion ------------------------------
(***************************************************************************)
(* One office.  Its requests come one at a time, with a fault, for two     *)
(* days that may go to PFMS in one entry; or so, without a fault, and a    *)
(* day comes back and is submitted again; or two requests run at once,     *)
(* without a fault, for one day.  In these only verified cash books are    *)
(* submitted, and only what the lists show.  In the fourth, one request at *)
(* a time for one day, any cash book is, from lists however old.           *)
(***************************************************************************)
EXTENDS Reversion

A1 == [ddo |-> "a", day |-> 1]
A2 == [ddo |-> "a", day |-> 2]
MCBooks == {A1, A2}
MCRequests == {<<A1>>, <<A2>>, <<A1, A2>>}

(* Cash grew through a negative payment; a day without entries. *)
MCContents ==
  { [opening |-> 0, closing |-> 1, lines |-> <<[sign |-> "+", amount |-> -1, side |-> "F"]>>,
     mapped |-> TRUE],
    [opening |-> 1, closing |-> 1, lines |-> <<[sign |-> "-", amount |-> 1, side |-> "T"]>>, mapped |-> TRUE] }

VARIABLE load
mcvars == <<allvars, load>>

Taken == Cardinality(DOMAIN pfms')
Verifications == Max({0} \cup {main'[b].at : b \in DOMAIN main'})

Single == Cardinality({t \in Threads : req'[t] # Idle}) <= 1
OneDay == DOMAIN kafka' \subseteq {A1} /\ \A b \in DOMAIN kafka' : kafka'[b].opening = 0
OneAtATime == Single /\ \A b \in DOMAIN kafka' : kafka'[b].opening = b.day - 1

InOrder == /\ \A u \in DOMAIN pfms' : ~pfms'[u].late
           /\ \A t \in Threads : Submits(t)' =>
                ~req'[t].late /\ \A b \in Range(req'[t].cbs) \cap DOMAIN main' : main'[b].ver

(* Bounds: with a fault the first day is submitted before the second arrives, or *)
(* together with it; what comes back without a fault is reverted by an officer   *)
(* and not negated.                                                              *)
Alone == load = "alone" /\ OneAtATime /\ InOrder /\ Taken <= 2 /\ Verifications <= 2
         /\ (A2 \in DOMAIN kafka' => \A u \in DOMAIN pfms' : pfms'[u].cbs # <<A1>>)
         /\ \A t \in Threads : Submits(t)' => req'[t].cbs # <<A2>>
Again == load = "again" /\ OneAtATime /\ InOrder /\ faults' = 0
         /\ \A t \in Threads : ~FromFile(t)' /\ ~Negates(t)' /\ (req'[t].op = "revert" => req'[t].from = A2)
Together == load = "together" /\ OneDay /\ InOrder /\ faults' = 0 /\ Taken <= 2 /\ Verifications <= 2
AnyList == load = "any" /\ OneDay /\ Single /\ faults' = 0 /\ Taken <= 2 /\ Verifications <= 2

MCInit == ReversionInit /\ load \in {"alone", "again", "together", "any"}
MCNext == ReversionNext /\ (Alone \/ Again \/ Together \/ AnyList) /\ UNCHANGED load
MCSpec == MCInit /\ [][MCNext]_mcvars

Symmetry == Permutations(Threads)
================================================================================
