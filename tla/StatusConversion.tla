-------------------------- MODULE StatusConversion --------------------------
(***************************************************************************)
(* convertToAPIContainerStatuses (src/pkg/mycore/podfn.go) and             *)
(* ShouldContainerBeRestarted (src/pkg/kubelet/container/helpers.go): how  *)
(* one sync turns the runtime's container statuses and the previously      *)
(* published API statuses into the next published ones.                    *)
(*                                                                         *)
(* The function works name by name: the result for a container depends on *)
(* its old API status, the runtime statuses carrying its name, the reason  *)
(* cache entry for it, and pod-level flags.  The model computes it for one *)
(* container over every bounded input, and classifies the result the way  *)
(* getPhase (module PodPhase) does.  The final sort only orders the list   *)
(* and is not modelled.                                                    *)
(*                                                                         *)
(* Inputs follow the contract the code is written for (a CRI runtime that  *)
(* may report Created and Unknown states and several statuses per name).   *)
(* The repository's own cache writers (status.go) only produce Running and *)
(* Exited, one status per ordinary container, and nothing ever adds to the *)
(* reason cache.                                                           *)
(***************************************************************************)
EXTENDS Naturals, Sequences

CONSTANTS
  MaxRestarts,    \* bound: restart counts in the inputs
  MaxRuntime      \* bound: runtime statuses with one container name

Policies == {"Always", "OnFailure", "Never"}

\* a v1.ContainerState: which field is set, the waiting reason, the exit code
\* of a terminated state; reasons are abstracted to the ones the code compares
\* ("Other" is any reason from the runtime or an old status, "Cached" the
\* reasonCache entry)
Reasons == {"None", "ContainerCreating", "PodInitializing",
            "ContainerStatusUnknown", "Cached", "Other"}
NoState == [kind |-> "none", reason |-> "None", exit |-> 0]
Running == [kind |-> "running", reason |-> "None", exit |-> 0]
Waiting(r) == [kind |-> "waiting", reason |-> r, exit |-> 0]
Terminated(r, x) == [kind |-> "terminated", reason |-> r, exit |-> x]

\* a v1.ContainerStatus as far as the conversion and getPhase read it
APIStatus(S, L, R) == [state : S, last : L, restarts : R]

\* a kubecontainer.Status: state, exit code, the runtime's restart count and
\* the creation time the statuses are sorted by
RuntimeStatuses ==
  [state : {"running", "created", "exited", "unknown"}, exit : {0, 1},
   restarts : 0..MaxRestarts, created : {1, 2}]

-----------------------------------------------------------------------------
(* ShouldContainerBeRestarted                                              *)

\* rt is the runtime's list for the container's name in arrival order:
\* FindContainerStatusByName returns its first entry
ShouldContainerBeRestarted(policy, deleted, rt) ==
  CASE deleted -> FALSE
    [] rt = << >> -> TRUE
    [] rt[1].state = "running" -> FALSE
    [] rt[1].state \in {"unknown", "created"} -> TRUE
    [] policy = "Never" -> FALSE
    [] policy = "OnFailure" /\ rt[1].exit = 0 -> FALSE
    [] OTHER -> TRUE

-----------------------------------------------------------------------------
(* convertToAPIContainerStatuses, for one container                         *)

\* no old status with the container's name (a found status always has one
\* of its state fields set)
Absent == [state |-> NoState, last |-> NoState, restarts |-> 0]

DefaultWaiting(hasInit) ==
  Waiting(IF hasInit THEN "PodInitializing" ELSE "ContainerCreating")

\* the inner convertContainerStatus
convertContainerStatus(cs, old) ==
  CASE cs.state = "running" -> [state |-> Running, last |-> NoState, restarts |-> cs.restarts]
    [] cs.state = "created" -> [state |-> Waiting("None"), last |-> NoState, restarts |-> cs.restarts]
    [] cs.state = "exited" -> [state |-> Terminated("Other", cs.exit), last |-> NoState,
                               restarts |-> cs.restarts]
    [] cs.state = "unknown" /\ old # Absent /\ old.state.kind = "running" ->
         [state |-> Terminated("ContainerStatusUnknown", 137), last |-> NoState,
          restarts |-> old.restarts + 1]
    [] OTHER -> [state |-> Waiting("None"), last |-> NoState, restarts |-> cs.restarts]

\* the default status: a terminated old status is kept, otherwise the
\* default waiting state with the old restart count and last termination
DefaultStatus(old, hasInit) ==
  CASE old = Absent -> [state |-> DefaultWaiting(hasInit), last |-> NoState, restarts |-> 0]
    [] old.state.kind = "terminated" -> old
    [] OTHER -> [state |-> DefaultWaiting(hasInit), last |-> old.last, restarts |-> old.restarts]

\* (mutant) the default waiting state is recognised by ContainerCreating only
IsDefaultWaitingCreatingOnly(st, hasInit) ==
  st.kind = "waiting" /\ st.reason = "ContainerCreating"

IsDefaultWaiting(st, hasInit) ==
  st.kind = "waiting" /\ st.reason = DefaultWaiting(hasInit).reason

\* a container with no runtime status that was running: record that it
\* terminated, unless its status was written or already has a termination
InferDisappeared(s, old, rt, deleted, hasInit) ==
  IF /\ rt = << >>
     /\ old # Absent
     /\ old.state.kind = "running"
     /\ IsDefaultWaiting(s.state, hasInit)
     /\ s.last.kind # "terminated"
  THEN [s EXCEPT !.last = Terminated("ContainerStatusUnknown", 137),
                 !.restarts = IF deleted THEN @ ELSE @ + 1]
  ELSE s

\* sort.Reverse(SortContainerStatusesByCreationTime) on at most two
\* statuses: insertion sort, which swaps only a strictly newer second entry
NewestFirst(rt) ==
  IF Len(rt) = 2 /\ rt[1].created < rt[2].created THEN <<rt[2], rt[1]>> ELSE rt

\* the newest status gives the state, the next one the last termination
ApplyRuntime(s, old, rt) ==
  LET sorted == NewestFirst(rt) IN
  CASE Len(sorted) = 0 -> s
    [] Len(sorted) = 1 -> convertContainerStatus(sorted[1], old)
    [] OTHER -> [convertContainerStatus(sorted[1], old) EXCEPT
                   !.last = convertContainerStatus(sorted[2], old).state]

\* a container to be restarted with a cached start failure is shown waiting
\* with that reason; an init container that exited with 0 is left alone
ApplyReasonCache(s, in) ==
  IF \/ in.isInit /\ in.rt # << >> /\ in.rt[1].state = "exited" /\ in.rt[1].exit = 0
     \/ ~ShouldContainerBeRestarted(in.policy, in.deleted, in.rt)
     \/ ~in.cached
  THEN s
  ELSE [s EXCEPT !.last = IF s.state.kind = "terminated" THEN s.state ELSE @,
                 !.state = Waiting("Cached")]

\* the published status of the container
ConvertContainer(in) ==
  LET s1 == DefaultStatus(in.old, in.hasInit)
      s2 == InferDisappeared(s1, in.old, in.rt, in.deleted, in.hasInit)
      s3 == ApplyRuntime(s2, in.old, in.rt)
  IN ApplyReasonCache(s3, in)

-----------------------------------------------------------------------------
(* Every bounded input: the pod-level flags, the old API status of the     *)
(* container (or none), its runtime statuses in arrival order, and whether *)
(* the reason cache has an entry for it.                                   *)

VARIABLE input

OldStates ==
  {Running, Waiting("ContainerCreating"), Waiting("PodInitializing"), Waiting("Other"),
   Terminated("Other", 0), Terminated("Other", 1), Terminated("ContainerStatusUnknown", 137)}
OldLasts == {NoState, Running, Terminated("Other", 0), Terminated("ContainerStatusUnknown", 137)}

Inputs ==
  {in \in [policy : Policies, deleted : BOOLEAN, hasInit : BOOLEAN, isInit : BOOLEAN,
           cached : BOOLEAN,
           old : {Absent} \cup APIStatus(OldStates, OldLasts, 0..MaxRestarts),
           rt : UNION {[1..n -> {r \in RuntimeStatuses : r.state # "exited" => r.exit = 0}]
                         : n \in 0..MaxRuntime}] :
     in.isInit => in.hasInit}

Init == input \in Inputs
Next == UNCHANGED input
Spec == Init /\ [][Next]_input

Result == ConvertContainer(input)

\* the result as getPhase sees it, classified as an init or an ordinary
\* container
PP == INSTANCE PodPhase WITH pod <- input, MaxInit <- 0, MaxCtrs <- 1
PhaseView(s) ==
  [state |-> IF s.state.kind = "none" THEN "unset" ELSE s.state.kind,
   exit |-> IF s.state.exit = 0 THEN 0 ELSE 1,
   hasLast |-> s.last.kind = "terminated",
   lastExit |-> IF s.last.exit = 0 THEN 0 ELSE 1]
Class == IF input.isInit THEN PP!InitClass(PhaseView(Result))
         ELSE PP!ContainerClass(PhaseView(Result))

TypeOK ==
  Result \in APIStatus(OldStates \cup {Waiting(r) : r \in Reasons} \cup
                         {Terminated(r, x) : r \in Reasons, x \in {0, 1, 137}},
                       {NoState, Running} \cup {Waiting(r) : r \in Reasons} \cup
                         {Terminated(r, x) : r \in Reasons, x \in {0, 1, 137}},
                       0..MaxRestarts + 1)

\* the container was published running and the runtime no longer reports
\* it, or its newest status is Unknown
Vanished ==
  /\ input.old # Absent
  /\ input.old.state.kind = "running"
  /\ \/ input.rt = << >>
     \/ NewestFirst(input.rt)[1].state = "unknown"

\* A container that was running and vanished from the runtime, or whose
\* newest status cannot be classified, is published so that getPhase counts
\* it as having terminated, never as waiting to start (nor, for an init
\* container, as pending): the disappearance does not push a running pod
\* back to Pending.  This takes the default status, the inference for a
\* missing container, the Unknown case of convertContainerStatus and the
\* reason-cache override to agree.
VanishedRunningNotPending ==
  Vanished => Class \notin {"waiting", "pending", "unknown"}

====
