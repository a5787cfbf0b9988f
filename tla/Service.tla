------------------------------- MODULE Service -------------------------------
(***************************************************************************)
(* What a session's server promises, whatever serves it: requests begin    *)
(* only while it serves, the first close (or the loss of the session's     *)
(* directory) ends that for good, at most one request is charged with the  *)
(* teardown, and a session that is closing stops, with whatever it still   *)
(* runs.  ServePool implements it.                                         *)
(***************************************************************************)
CONSTANTS Request, \* requests
          NoOne    \* no request

VARIABLES phase,   \* the session's life
          running, \* requests that act on the debugged program
          winner   \* the request charged with the teardown

serviceVars == <<phase, running, winner>>

ServiceInit == phase = "serving" /\ running = {} /\ winner = NoOne

Begin(r) ==
  /\ phase = "serving"
  /\ running' = running \cup {r}
  /\ UNCHANGED <<phase, winner>>

Finish(r) ==
  /\ running' = running \ {r}
  /\ UNCHANGED <<phase, winner>>

\* by the request r, or because the directory is lost
Close(r) ==
  /\ phase = "serving"
  /\ phase' = "closing"
  /\ winner' = r
  /\ UNCHANGED running

Stop ==
  /\ phase = "closing"
  /\ phase' = "stopped"
  /\ running' = {}
  /\ UNCHANGED winner

ServiceNext ==
  \/ \E r \in Request : Begin(r) \/ Finish(r)
  \/ \E r \in Request \cup {NoOne} : Close(r)
  \/ Stop

\* what it never does, and with it what it must do in the end
ServiceSafety == ServiceInit /\ [][ServiceNext]_serviceVars

ServiceSpec == ServiceSafety /\ WF_serviceVars(Stop)
=============================================================================
