---------------------------- MODULE TaskService ----------------------------
(***************************************************************************)
(* What the thread pool promises its callers, whatever its threads, queue  *)
(* and locks do: an accepted task runs once, a refused one never does, and *)
(* the service reports that it has stopped only when every accepted task   *)
(* has run.                                                                *)
(***************************************************************************)
CONSTANTS Tasks

VARIABLES
  accepted,  \* tasks threadpool_submit took
  refused,   \* tasks threadpool_submit turned down
  done,      \* tasks that have run
  phase      \* "open", "closing" or "closed"

serviceVars == <<accepted, refused, done, phase>>

ServiceInit ==
  /\ accepted = {} /\ refused = {} /\ done = {}
  /\ phase = "open"

Accept(t) ==
  /\ phase = "open"
  /\ t \notin accepted \cup refused
  /\ accepted' = accepted \cup {t}
  /\ UNCHANGED <<refused, done, phase>>

Refuse(t) ==
  /\ t \notin accepted \cup refused
  /\ refused' = refused \cup {t}
  /\ UNCHANGED <<accepted, done, phase>>

Perform(t) ==
  /\ t \in accepted \ done
  /\ done' = done \cup {t}
  /\ UNCHANGED <<accepted, refused, phase>>

Close ==
  /\ phase = "open"
  /\ phase' = "closing"
  /\ UNCHANGED <<accepted, refused, done>>

\* Closing an idle service may go straight to "closed".
Closed ==
  /\ accepted = done
  /\ phase' = "closed"
  /\ UNCHANGED <<accepted, refused, done>>

ServiceNext ==
  \/ \E t \in Tasks : Accept(t) \/ Refuse(t) \/ Perform(t)
  \/ Close
  \/ Closed

ServiceSpec == ServiceInit /\ [][ServiceNext]_serviceVars
============================================================================
