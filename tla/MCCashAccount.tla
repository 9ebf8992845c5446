----------------------------- MODULE MCCashAccount -----------------------------
(***************************************************************************)
(* One PAO with two offices, one of them with two months.  Either its      *)
(* requests come one at a time, with a transfer entry and a fault, or two  *)
(* requests run at once, without either.                                   *)
(***************************************************************************)
EXTENDS CashAccount, TLC

Jan == [m |-> 1, y |-> 2025]
Feb == [m |-> 2, y |-> 2025]

MCAccounts == { [ddo |-> "a", period |-> Jan], [ddo |-> "a", period |-> Feb],
                [ddo |-> "b", period |-> Jan] }
MCPaoOf == [d \in {"a", "b"} |-> "pao"]
MCHeads == {"8446"}
MCKind == [h \in MCHeads |-> "payable"]

(* The months of office "a" have movement on a kept head, office "b" has none. *)
Moved == [opening |-> 0, closing |-> 1,
          lines |-> [h \in {"8446"} |-> [receipt |-> 2, payment |-> 1]]]
Nil == [opening |-> 0, closing |-> 0, lines |-> << >>]
MCContents == [a \in MCAccounts |-> IF a.ddo = "a" THEN {Moved} ELSE {Nil}]

VARIABLE load
mcvars == <<vars, load>>

Alone == load = "alone" /\ Cardinality({t \in Threads : req'[t] # Idle}) <= 1
Together == load = "together" /\ faults' = 0 /\ te' = te

MCInit == Init /\ load \in {"alone", "together"}
MCNext == Next /\ (Alone \/ Together) /\ UNCHANGED load
MCSpec == MCInit /\ [][MCNext]_mcvars

Symmetry == Permutations(Threads)
================================================================================
