---------------------------- MODULE PodLifecycle ----------------------------
(***************************************************************************)
(* What the pod workers promise about one pod UID, whatever the order of   *)
(* updates, kills, worker steps and housekeeping: the UID goes through     *)
(* syncing, terminating, terminated and finished in that order, may skip   *)
(* ahead only where the pod worker has nothing to run, never goes back,    *)
(* and starts over only after housekeeping forgot a finished record.       *)
(* PodWorkers refines this specification under the mapping PhaseOf.        *)
(***************************************************************************)
CONSTANT UIDs

VARIABLE phase

Phases == {"none", "syncing", "terminating", "terminated", "finished"}

Init == phase = [u \in UIDs |-> "none"]

Move(u, from, to) == phase[u] \in from /\ phase' = [phase EXCEPT ![u] = to]

\* the first update for a UID: a pod to run, or one that must already stop
Admit(u) == Move(u, {"none"}, "syncing") \/ Move(u, {"none"}, "terminating")

\* a pod first seen in a terminal phase with nothing running is finished
\* at once
AdmitFinished(u) == Move(u, {"none"}, "finished")

\* deletion, a terminal phase, or a kill asks a syncing pod to terminate
RequestTermination(u) == Move(u, {"syncing"}, "terminating")

\* the pod's containers are stopped
Terminate(u) == Move(u, {"terminating"}, "terminated")

\* the pod's resources are cleaned up
Finish(u) == Move(u, {"terminated"}, "finished")

\* a pod with no containers of its own to clean up (an orphan known only
\* to the runtime, or a static pod that was never started) is finished as
\* soon as it is torn down
FinishUnstarted(u) == Move(u, {"terminating"}, "finished")

\* housekeeping forgets finished records, several in one pass; those UIDs
\* may start over
Forget(S) ==
  /\ S # {}
  /\ \A u \in S : phase[u] = "finished"
  /\ phase' = [u \in UIDs |-> IF u \in S THEN "none" ELSE phase[u]]

Next ==
  \/ \E u \in UIDs :
       \/ Admit(u) \/ AdmitFinished(u) \/ RequestTermination(u)
       \/ Terminate(u) \/ Finish(u) \/ FinishUnstarted(u)
  \/ \E S \in SUBSET UIDs : Forget(S)

Spec == Init /\ [][Next]_phase

TypeOK == phase \in [UIDs -> Phases]

====
