------------------------------- MODULE PodPhase -------------------------------
(***************************************************************************)
(* The pod phase computation of src/pkg/mycore/podfn.go: getPhase, the     *)
(* pure function from a pod spec and its API container statuses to a      *)
(* phase, and the phase part of generateAPIPodStatus that merges the       *)
(* computed phase with the status manager's and the API server's phases.   *)
(*                                                                         *)
(* A container status is abstracted to what getPhase reads: which of       *)
(* State.Running / Terminated / Waiting is set (or none of them, or no     *)
(* status with the container's name at all), the exit code of a            *)
(* terminated state, and LastTerminationState.Terminated's exit code.      *)
(* Exit codes are 0 or 1: getPhase only compares them with 0.              *)
(***************************************************************************)
EXTENDS Naturals, Sequences, FiniteSets

CONSTANTS
  MaxInit,     \* bound: init containers in a pod spec
  MaxCtrs      \* bound: ordinary containers in a pod spec (at least one)

ASSUME MaxInit \in Nat /\ MaxCtrs \in Nat \ {0}

Phases   == {"Pending", "Running", "Succeeded", "Failed"}
Terminal == {"Succeeded", "Failed"}
Policies == {"Always", "OnFailure", "Never"}

\* state: "missing" (GetContainerStatus finds no status), "running",
\* "terminated", "waiting" or "unset" (no state field set)
\* hasLast: LastTerminationState.Terminated is set, with exit code lastExit
CStatus == [state : {"missing", "running", "terminated", "waiting", "unset"},
            exit : {0, 1}, hasLast : BOOLEAN, lastExit : {0, 1}]

\* the statuses getPhase tells apart: exit is only read when terminated,
\* the last termination only when waiting
Statuses ==
  {c \in CStatus : /\ c.state # "terminated" => c.exit = 0
                   /\ c.state # "waiting" => ~c.hasLast
                   /\ ~c.hasLast => c.lastExit = 0}

-----------------------------------------------------------------------------
(* getPhase                                                                *)

\* the first loop: an init container is pending, failed, or neither
InitClass(c) ==
  CASE c.state \in {"missing", "running", "unset"} -> "pending"
    [] c.state = "terminated" -> IF c.exit # 0 THEN "failed" ELSE "done"
    [] c.state = "waiting" ->
         IF c.hasLast THEN (IF c.lastExit # 0 THEN "failed" ELSE "done")
         ELSE "pending"

\* the second loop: an ordinary container is unknown, running, waiting,
\* stopped, or stopped and succeeded
ContainerClass(c) ==
  CASE c.state \in {"missing", "unset"} -> "unknown"
    [] c.state = "running" -> "running"
    [] c.state = "terminated" -> IF c.exit = 0 THEN "succeeded" ELSE "stopped"
    [] c.state = "waiting" -> IF c.hasLast THEN "stopped" ELSE "waiting"

\* how many entries of a sequence fall into the given classes
CountIn(seq, Class(_), classes) == Cardinality({i \in DOMAIN seq : Class(seq[i]) \in classes})

\* the two loops of getPhase: how many containers fall into each class
Counts(init, ctrs) ==
  [pendingInitialization |-> CountIn(init, InitClass, {"pending"}),
   failedInitialization  |-> CountIn(init, InitClass, {"failed"}),
   unknown   |-> CountIn(ctrs, ContainerClass, {"unknown"}),
   running   |-> CountIn(ctrs, ContainerClass, {"running"}),
   waiting   |-> CountIn(ctrs, ContainerClass, {"waiting"}),
   stopped   |-> CountIn(ctrs, ContainerClass, {"stopped", "succeeded"}),
   succeeded |-> CountIn(ctrs, ContainerClass, {"succeeded"})]

\* mutant: a failed init container fails the pod whatever the restart policy
PhaseOfCountsInitAnyPolicy(policy, n) ==
  IF n.failedInitialization > 0 THEN "Failed"
  ELSE IF n.pendingInitialization > 0 \/ n.waiting > 0 THEN "Pending"
  ELSE IF n.running > 0 /\ n.unknown = 0 THEN "Running"
  ELSE IF n.running = 0 /\ n.stopped > 0 /\ n.unknown = 0
       THEN IF policy = "Always" THEN "Running"
            ELSE IF n.stopped = n.succeeded THEN "Succeeded"
            ELSE IF policy = "Never" THEN "Failed" ELSE "Running"
  ELSE "Pending"

\* mutant: the pod succeeds once some stopped container succeeded
PhaseOfCountsAnySucceeded(policy, n) ==
  IF n.failedInitialization > 0 /\ policy = "Never" THEN "Failed"
  ELSE IF n.pendingInitialization > 0 \/ n.waiting > 0 THEN "Pending"
  ELSE IF n.running > 0 /\ n.unknown = 0 THEN "Running"
  ELSE IF n.running = 0 /\ n.stopped > 0 /\ n.unknown = 0
       THEN IF policy = "Always" THEN "Running"
            ELSE IF n.succeeded > 0 THEN "Succeeded"
            ELSE IF policy = "Never" THEN "Failed" ELSE "Running"
  ELSE "Pending"

\* the decision of getPhase on the counts
PhaseOfCounts(policy, n) ==
  IF n.failedInitialization > 0 /\ policy = "Never" THEN "Failed"
  ELSE IF n.pendingInitialization > 0 \/ n.waiting > 0 THEN "Pending"
  ELSE IF n.running > 0 /\ n.unknown = 0 THEN "Running"
  ELSE IF n.running = 0 /\ n.stopped > 0 /\ n.unknown = 0
       THEN IF policy = "Always" THEN "Running"
            ELSE IF n.stopped = n.succeeded THEN "Succeeded"
            ELSE IF policy = "Never" THEN "Failed"
            ELSE "Running"
  ELSE "Pending"

getPhase(policy, init, ctrs) == PhaseOfCounts(policy, Counts(init, ctrs))

-----------------------------------------------------------------------------
(* generateAPIPodStatus: the three-way merge of the computed phase with    *)
(* the status manager's last phase (old) and the API server's (api).       *)

\* a computed phase that is not terminal takes a terminal phase of the
\* status manager, else of the API server
MergedPhase(computed, old, api) ==
  IF computed \notin Terminal
  THEN IF old \in Terminal THEN old ELSE IF api \in Terminal THEN api ELSE computed
  ELSE computed

\* pods are not allowed to transition out of a terminal API phase
generateAPIPodStatusPhase(computed, old, api) ==
  LET s == MergedPhase(computed, old, api)
  IN IF api \in Terminal /\ s # api THEN api ELSE s

-----------------------------------------------------------------------------
(* The phase computer as written in the specification (section 4.3), the  *)
(* reference getPhase is checked against.                                  *)

SpecInitPending(c) ==
  \/ c.state \in {"missing", "running", "unset"}
  \/ c.state = "waiting" /\ ~(c.hasLast /\ c.lastExit # 0)   \* "Waiting otherwise"
SpecInitFailed(c) ==
  \/ c.state = "terminated" /\ c.exit # 0
  \/ c.state = "waiting" /\ c.hasLast /\ c.lastExit # 0

SpecPhase(policy, init, ctrs) ==
  LET Ix == DOMAIN init
      Cx == DOMAIN ctrs
      is(i, k) == ContainerClass(ctrs[i]) = k
      stopped(i) == is(i, "stopped") \/ is(i, "succeeded")
  IN CASE (\E i \in Ix : SpecInitFailed(init[i])) /\ policy = "Never" -> "Failed"
       [] (\E i \in Ix : SpecInitPending(init[i])) \/ (\E i \in Cx : is(i, "waiting")) -> "Pending"
       [] (\E i \in Cx : is(i, "running")) /\ ~\E i \in Cx : is(i, "unknown") -> "Running"
       [] (~\E i \in Cx : is(i, "running") \/ is(i, "unknown"))
            /\ (\E i \in Cx : stopped(i)) ->
            CASE policy = "Always" -> "Running"
              [] (\A i \in Cx : stopped(i) => is(i, "succeeded")) -> "Succeeded"
              [] policy = "Never" -> "Failed"
              [] OTHER -> "Running"
       [] OTHER -> "Pending"

-----------------------------------------------------------------------------
(* Every pod spec and status set within the bounds, with the phases the   *)
(* status manager and the API server last recorded for it.                 *)

VARIABLE pod

Pods == [policy : Policies,
         init : UNION {[1..n -> Statuses] : n \in 0..MaxInit},
         ctrs : UNION {[1..n -> Statuses] : n \in 1..MaxCtrs},
         old : Phases, api : Phases]

Init == pod \in Pods
Next == UNCHANGED pod
Spec == Init /\ [][Next]_pod

Computed == getPhase(pod.policy, pod.init, pod.ctrs)
Published == generateAPIPodStatusPhase(Computed, pod.old, pod.api)

TypeOK == pod \in Pods /\ Computed \in Phases /\ Published \in Phases

\* getPhase computes the phase section 4.3 of the specification describes.
PhaseMatchesSpec == Computed = SpecPhase(pod.policy, pod.init, pod.ctrs)

\* getPhase reports Succeeded only for a pod whose restart policy is not
\* Always and whose every ordinary container terminated with exit code 0:
\* a waiting container with an earlier termination, a running or unknown
\* one, or one that failed, keeps the pod out of Succeeded.
SucceededOnlyWhenAllExitedZero ==
  Computed = "Succeeded" =>
    /\ pod.policy # "Always"
    /\ \A i \in DOMAIN pod.ctrs : pod.ctrs[i].state = "terminated" /\ pod.ctrs[i].exit = 0

\* getPhase reports Failed only under restart policy Never, and only when
\* an init container failed or an ordinary container did not exit with 0:
\* a pod that will be restarted is never declared failed.
FailedOnlyWhenNeverRestarted ==
  Computed = "Failed" =>
    /\ pod.policy = "Never"
    /\ \/ \E i \in DOMAIN pod.init : InitClass(pod.init[i]) = "failed"
       \/ \E i \in DOMAIN pod.ctrs : ContainerClass(pod.ctrs[i]) = "stopped"

====
