---------------------------- MODULE MCTransferEntry ----------------------------
(***************************************************************************)
(* A batch over a budget head and a suspense head.  Either the requests    *)
(* come one at a time, over two seconds, so that two entries may go to     *)
(* PFMS in one posting; or two requests run at once in one second.         *)
(***************************************************************************)
EXTENDS TransferEntry, TLC

Line1(t) == [type |-> t, amount |-> 1]
MCBatches ==
  { (<<"3201", "0100101", "06">> :> Line1("D")) @@ (<<"8446", "0010101", "00">> :> Line1("C")) }

VARIABLE load
mcvars == <<vars, load>>

Alone == load = "alone" /\ Cardinality({t \in Threads : req'[t] # Idle}) <= 1
         /\ Len(pfms') <= 2
Together == load = "together" /\ second' = 1

MCInit == Init /\ load \in {"alone", "together"}
MCNext == Next /\ (Alone \/ Together) /\ UNCHANGED load
MCSpec == MCInit /\ [][MCNext]_mcvars

Symmetry == Permutations(Threads)
================================================================================
