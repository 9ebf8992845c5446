------------------------------ MODULE MCTeWorkflow ------------------------------
(* Two approvals of one entry with two budget lines, one of an entry without. *)
EXTENDS TeWorkflow

CONSTANTS w1, w2, w3
MCApprovals == {w1, w2, w3}
MCEntryOf == [w \in MCApprovals |-> IF w = w3 THEN "e2" ELSE "e1"]
MCHeadsOf == [e \in {"e1", "e2"} |-> IF e = "e1" THEN {"l1", "l2"} ELSE {}]
================================================================================
