-------------------------------- MODULE Host --------------------------------
(***************************************************************************)
(* What JavaScript reaches outside V8 through one isolate: addons called   *)
(* on its thread (NapiCall), addons at work on other threads (NapiWork),   *)
(* the operations behind handles (HostHandles), the files it requires      *)
(* (CommonJs) and its timers (Timers).  They share the isolate and its     *)
(* pump, and no other state: a behaviour has work of one kind.             *)
(***************************************************************************)
EXTENDS NapiCall, NapiWork, HostHandles, CommonJs, Timers

VARIABLE workload

hostVars == <<workload, napiVars, workVars, handleVars, cjsVars, timerVars>>

HostInit ==
  /\ workload \in {"calls", "work", "handles", "modules", "timers"}
  /\ NapiInit /\ WorkInit /\ HandleInit /\ CjsInit /\ TimersInit
  /\ workload # "calls" => menu = CHOOSE m \in Menus : TRUE
  /\ workload # "handles" => load = CHOOSE l \in Loads : TRUE
  /\ workload # "modules" => cdisk = EmptyDisk

HostNext ==
  \/ workload = "calls" /\ NapiNext /\ UNCHANGED <<workload, workVars, handleVars, cjsVars, timerVars>>
  \/ workload = "work" /\ WorkNext /\ UNCHANGED <<workload, napiVars, handleVars, cjsVars, timerVars>>
  \/ workload = "handles" /\ HandleNext /\ UNCHANGED <<workload, napiVars, workVars, cjsVars, timerVars>>
  \/ workload = "modules" /\ CjsNext /\ UNCHANGED <<workload, napiVars, workVars, handleVars, timerVars>>
  \/ workload = "timers" /\ TimersNext /\ UNCHANGED <<workload, napiVars, workVars, handleVars, cjsVars>>

HostSpec == HostInit /\ [][HostNext]_hostVars
=============================================================================
