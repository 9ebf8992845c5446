---------------------------- MODULE MCEventStream ----------------------------
(***************************************************************************)
(* EventStream and SessionLog for TLC: a session is either watched, by one *)
(* window (windows share nothing but the log), or its daemon is killed     *)
(* with nobody watching.                                                   *)
(***************************************************************************)
EXTENDS EventStream

VARIABLE fate

sessionVars == <<vars, fate>>

(* Bound: a watched session works once and changes no file, as a stream tells *)
(* neither from any other event.                                              *)
WatchedBound == works' <= 1 /\ mutations' = {}

SessionInit ==
  /\ StreamInit
  /\ \/ fate = "watched" /\ \A c \in Clients : watching[c]
     \/ fate = "killed" /\ \A c \in Clients : ~watching[c]
WatchedNext == fate = "watched" /\ StreamNext /\ WatchedBound /\ UNCHANGED fate
KilledNext == fate = "killed" /\ LogNext /\ UNCHANGED <<streamVars, fate>>
SessionNext == WatchedNext \/ KilledNext

SessionSpec == SessionInit /\ [][SessionNext]_sessionVars /\ (fate = "watched" => StreamFairness)
==============================================================================
