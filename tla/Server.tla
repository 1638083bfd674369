------------------------------- MODULE Server -------------------------------
(***************************************************************************)
(* The production server: Startup finds the bundle and sizes the fleet,    *)
(* then ServerFleet runs with that many workers until it is told to stop   *)
(* (serve_app_until calls serve_with_workers).                             *)
(***************************************************************************)
EXTENDS ServerFleet, Startup

serverVars == <<fleetVars, startupVars>>

ServerInit == StartupInit /\ FleetInit

(***************************************************************************)
(* The call.  What was read to size the fleet is not used again.           *)
(***************************************************************************)
ServeFleet ==
  /\ stage = "sized" /\ sizing.workers = WorkerCount
  /\ stage' = "serving" /\ sizing' = None
  /\ UNCHANGED <<disk, layout, fleetVars>>

Serving(A) == stage = "serving" /\ A /\ UNCHANGED startupVars

ServerNext ==
  \/ StartupNext /\ UNCHANGED fleetVars
  \/ ServeFleet
  \/ Serving(FleetNext)

(***************************************************************************)
(* The scheduler runs every task and thread; a boot ends; a client sends   *)
(* what it owes or goes away, so a connection that is served is closed.    *)
(***************************************************************************)
ServerFairness ==
  /\ WF_serverVars(Serving(MainStep \/ LoopStep))
  /\ \A k \in FleetWorkers : WF_serverVars(Serving(WorkerStep(k)))
  /\ \A c \in Conns : WF_serverVars(Serving(CloseConn(c)))

ServerSpec == ServerInit /\ [][ServerNext]_serverVars /\ ServerFairness
=============================================================================
