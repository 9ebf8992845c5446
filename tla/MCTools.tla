------------------------------ MODULE MCTools ------------------------------
(***************************************************************************)
(* The two jobs of the Go tools that leave something on disk, each behavi- *)
(* our doing one of them: scaffolding into a tree, and keeping the routes  *)
(* of a service through its conversion.  They share no file.               *)
(***************************************************************************)
EXTENDS MCScaffold, MCRoutes

CONSTANTS MaxSteps, MaxSaves

VARIABLES job,
          svc, saving, tmp, file, asSaved, answer, steps, saves

Routes == INSTANCE RouteInventory WITH Services <- MCServices, Conversions <- MCConversions

routeVars == <<svc, saving, tmp, file, asSaved, answer, steps, saves>>
toolVars == <<vars, routeVars, job>>

ToolsInit ==
  /\ job \in {"scaffold", "routes"}
  /\ Init /\ Routes!Init
  /\ job = "routes" => disk = Empty

ToolsNext ==
  /\ UNCHANGED job
  /\ \/ job = "scaffold" /\ Next /\ UNCHANGED routeVars
     \/ job = "routes" /\ Routes!Next /\ UNCHANGED vars

ToolsSpec == ToolsInit /\ [][ToolsNext]_toolVars

(* RouteInventory's: what the comparison reports missing is missing, and what is    *)
(* served no more is reported, but for the cases named there.                       *)
ComparedTruly == Routes!ComparedTruly
=============================================================================
