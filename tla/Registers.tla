-------------------------------- MODULE Registers --------------------------------
(***************************************************************************)
(* The registers of the accounts office that share no table, and the lists *)
(* its officers read them and every other table by: each behaviour         *)
(* exercises one of them while the others rest.                            *)
(***************************************************************************)
EXTENDS InterPao, Objection, Remuneration, Lists

VARIABLE register

allVars == <<interVars, objVars, remVars, listVars, register>>

RegistersInit ==
  /\ InterInit /\ ObjInit /\ RemInit
  /\ \/ register \in {"entries", "objections", "remuneration"} /\ ListsAtRest
     \/ register = "lists" /\ ListsInit

RegistersNext ==
  /\ UNCHANGED register
  /\ \/ register = "entries" /\ InterNext /\ UNCHANGED <<objVars, remVars, listVars>>
     \/ register = "objections" /\ ObjNext /\ UNCHANGED <<interVars, remVars, listVars>>
     \/ register = "remuneration" /\ RemNext /\ UNCHANGED <<interVars, objVars, listVars>>
     \/ register = "lists" /\ ListsNext /\ UNCHANGED <<interVars, objVars, remVars>>

RegistersSpec == RegistersInit /\ [][RegistersNext]_allVars
================================================================================
