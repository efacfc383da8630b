------------------------------- MODULE Kubelet -------------------------------
(***************************************************************************)
(* The sample kubelet around the pod workers: the event loop of            *)
(* SampleKubelet.Start (kubelet.go), the handlers of pod_handler.go with   *)
(* the pod manager, the OnAdd callback (callbackFunc.go, context.go) that  *)
(* runs the pod's commands and writes the status cache, and, behind the    *)
(* constant Callers, the other callers the podWorkers API is written for   *)
(* but this repository does not wire: eviction kills with KillPodOptions,  *)
(* runtime-only (orphan) kills, SyncKnownPods housekeeping, a PLEG that    *)
(* refreshes the status cache, and a static pod re-added with its UID.     *)
(*                                                                         *)
(* A pod's API object is src[u]: whether the config source has it, its     *)
(* deletion timestamp and DeletionGracePeriodSeconds, and whether its      *)
(* status phase is terminal.  Every event is a snapshot of src[u].         *)
(***************************************************************************)
EXTENDS PodWorkers

CONSTANTS
  Cmds,        \* commands per pod that OnAdd runs (containers with a Command)
  Callers,     \* subset of {"evict", "orphan", "housekeeping", "pleg", "readd"}
  MaxEvents    \* bound: config events plus calls of the other callers

ASSUME /\ Cmds \in Nat
       /\ Callers \subseteq {"evict", "orphan", "housekeeping", "pleg", "readd"}
       /\ MaxEvents \in Nat

VARIABLES
  src,         \* the pod as the config source last sent it
  loop,        \* the Start goroutine: idle, in OnAdd, or between the two
               \* halves of HandlePodRemove
  events,      \* events and calls so far
  chOwner      \* CompletedCh -> UID it was passed for

envVars == <<src, loop, events, chOwner>>
vars == <<pwVars, envVars>>

Src == [state : {"absent", "present", "removed"}, deleted : BOOLEAN,
        delGrace : GraceVals \cup {Nil}, terminal : BOOLEAN]

Init ==
  /\ PWInit
  /\ src = [u \in UIDs |-> [state |-> "absent", deleted |-> FALSE,
                            delGrace |-> Nil, terminal |-> FALSE]]
  /\ loop = [pc |-> "idle", uid |-> Nil, cmds |-> 0]
  /\ events = 0
  /\ chOwner = [c \in Chs |-> Nil]

\* UpdatePodOptions carrying a snapshot p of the pod
Req(p, utype, kill) ==
  [utype |-> utype, runtime |-> FALSE, deleted |-> p.deleted,
   delGrace |-> p.delGrace, terminal |-> p.terminal, kill |-> kill]

Event == events < MaxEvents /\ events' = events + 1

-----------------------------------------------------------------------------
(* The config event loop (SampleKubelet.Start) and its handlers.           *)

\* ADD: HandlerPodAdd - PodManager.AddPod, UpdatePod(Create), then OnAdd
HandlerPodAdd(u) ==
  /\ loop.pc = "idle" /\ Event
  /\ src[u].state = "absent" \/ (src[u].state = "removed" /\ "readd" \in Callers)
  /\ \E t \in BOOLEAN :
       src' = [src EXCEPT ![u] = [state |-> "present", deleted |-> FALSE,
                                  delGrace |-> Nil, terminal |-> t]]
  /\ podMgr' = [podMgr EXCEPT ![u] = TRUE]
  /\ UpdatePod(u, Req(src'[u], "Create", Nil))
  /\ loop' = [pc |-> "onadd", uid |-> u, cmds |-> Cmds]
  /\ UNCHANGED chOwner

\* UPDATE: HandlePodUpdate - the pod may have reached a terminal phase
HandlePodUpdate(u) ==
  /\ loop.pc = "idle" /\ Event
  /\ src[u].state = "present"
  /\ \E t \in BOOLEAN : (src[u].terminal => t) /\ src' = [src EXCEPT ![u].terminal = t]
  /\ UpdatePod(u, Req(src'[u], "Update", Nil))
  /\ UNCHANGED <<podMgr, loop, chOwner>>

\* DELETE: also HandlePodUpdate; the apiserver set the deletion timestamp
\* and a grace period no longer than the one it set before
HandlePodDelete(u) ==
  /\ loop.pc = "idle" /\ Event
  /\ src[u].state = "present"
  /\ \E g \in GraceVals :
       /\ IF src[u].delGrace = Nil THEN TRUE ELSE g < src[u].delGrace
       /\ src' = [src EXCEPT ![u].deleted = TRUE, ![u].delGrace = g]
  /\ UpdatePod(u, Req(src'[u], "Update", Nil))
  /\ UNCHANGED <<podMgr, loop, chOwner>>

\* REMOVE: HandlePodRemove, first half - PodManager.DeletePod
HandlePodRemove(u) ==
  /\ loop.pc = "idle" /\ Event
  /\ src[u].state = "present"
  /\ src' = [src EXCEPT ![u].state = "removed"]
  /\ podMgr' = [podMgr EXCEPT ![u] = FALSE]
  /\ loop' = [pc |-> "remove", uid |-> u, cmds |-> 0]
  /\ UNCHANGED <<workerVars, chOwner>>

\* HandlePodRemove, second half - UpdatePod(Kill) without KillPodOptions
HandlePodRemoveKill ==
  LET u == loop.uid IN
  /\ loop.pc = "remove"
  /\ UpdatePod(u, Req(src[u], "Kill", Nil))
  /\ loop' = [pc |-> "idle", uid |-> Nil, cmds |-> 0]
  /\ UNCHANGED <<src, podMgr, events, chOwner>>

\* status.go SetContainerExit, as the cache sees its result: the container
\* is marked exited, and the sandbox not ready only in a single-container
\* pod, so the status may stay running; an empty status stays terminal
SetContainerExit(u) == IF cache[u] = "none" THEN {"terminal"} ELSE {"running", "terminal"}

\* status.go SetPodCompleted: every container exited, the sandbox not ready
SetPodCompleted == "terminal"

\* OnAdd: each command's exit is written into the cached status
\* (CallBackContext.SetContainerExit: Get, mutate, Set).  A missing entry
\* reads as an empty status, which stays terminal; otherwise the status is
\* terminal once the last running container exited.
OnAddContainerExit ==
  LET u == loop.uid IN
  /\ loop.pc = "onadd" /\ loop.cmds > 0
  /\ \E c \in SetContainerExit(u) : CacheSet(u, c)
  /\ loop' = [loop EXCEPT !.cmds = @ - 1]
  /\ UNCHANGED <<status, podUpdates, chans, nextGen, undelivered, startedStatic,
                 waitingStatic, podsSynced, retryQueue, podMgr, seq, closedChs,
                 src, events, chOwner>>

\* OnAdd, after the sleep: SetPodCompleted writes a terminal status
OnAddCompleted ==
  LET u == loop.uid IN
  /\ loop.pc = "onadd" /\ loop.cmds = 0
  /\ CacheSet(u, SetPodCompleted)
  /\ loop' = [pc |-> "idle", uid |-> Nil, cmds |-> 0]
  /\ UNCHANGED <<status, podUpdates, chans, nextGen, undelivered, startedStatic,
                 waitingStatic, podsSynced, retryQueue, podMgr, seq, closedChs,
                 src, events, chOwner>>

-----------------------------------------------------------------------------
(* Callers of the podWorkers API that this repository does not wire.       *)

FreeChs == {c \in Chs : chOwner[c] = Nil}

\* the eviction manager or a kubelet-internal kill: UpdatePod(Kill) with
\* KillPodOptions (Evict, grace override, CompletedCh)
EvictionKill(u) ==
  /\ "evict" \in Callers /\ Event
  /\ src[u].state = "present"
  /\ \E ev \in BOOLEAN, o \in GraceVals \cup {Nil}, c \in FreeChs \cup {Nil} :
       /\ UpdatePod(u, Req(src[u], "Kill", [ch |-> c, evict |-> ev, override |-> o]))
       /\ chOwner' = IF c = Nil THEN chOwner ELSE [chOwner EXCEPT ![c] = u]
  /\ UNCHANGED <<src, podMgr, loop>>

\* housekeeping kills containers the runtime still has for a pod the config
\* no longer has: UpdatePod(Kill) with RunningPod and no Pod
OrphanKill(u) ==
  /\ "orphan" \in Callers /\ Event
  /\ src[u].state = "removed"
  /\ \E o \in GraceVals \cup {Nil}, c \in FreeChs \cup {Nil} :
       /\ UpdatePod(u, [utype |-> "Kill", runtime |-> TRUE, deleted |-> FALSE,
                        delGrace |-> Nil, terminal |-> FALSE,
                        kill |-> [ch |-> c, evict |-> FALSE, override |-> o]])
       /\ chOwner' = IF c = Nil THEN chOwner ELSE [chOwner EXCEPT ![c] = u]
  /\ UNCHANGED <<src, podMgr, loop>>

\* housekeeping: SyncKnownPods with the pods of the pod manager
Housekeeping ==
  /\ "housekeeping" \in Callers /\ Event
  /\ SyncKnownPods({u \in UIDs : podMgr[u]})
  /\ UNCHANGED <<src, podMgr, loop, chOwner>>

\* the PLEG relists the runtime and writes the status cache
PlegRelist(u) ==
  /\ "pleg" \in Callers /\ Event
  /\ \E c \in {"running", "terminal"} : CacheSet(u, c)
  /\ UNCHANGED <<status, podUpdates, chans, nextGen, undelivered, startedStatic,
                 waitingStatic, podsSynced, retryQueue, podMgr, seq, closedChs,
                 src, loop, chOwner>>

\* the PLEG's periodic relist of a pod whose runtime state did not change,
\* while its worker waits in GetNewerThan: the entry is Set again with a
\* newer timestamp and the waiter returns with it.  The relist and the wake
\* are one step; a relist at another time is overtaken by the next sync's
\* lastSyncTime, or has the same effect once the worker waits.
PlegRefresh(w) ==
  /\ "pleg" \in Callers
  /\ ~wk[w].fresh
  /\ DispatchWhen(w, TRUE)
  /\ UNCHANGED envVars

-----------------------------------------------------------------------------

EnvNext ==
  \/ \E u \in UIDs : HandlerPodAdd(u) \/ HandlePodUpdate(u) \/ HandlePodDelete(u)
                     \/ HandlePodRemove(u)
  \/ HandlePodRemoveKill \/ OnAddContainerExit \/ OnAddCompleted
  \/ \E u \in UIDs : EvictionKill(u) \/ OrphanKill(u) \/ PlegRelist(u)
  \/ Housekeeping

\* a managePodLoop step leaves the kubelet's own state alone
WorkerNext ==
  \E w \in Gens :
    \/ Recv(w) /\ UNCHANGED envVars
    \/ PreStartAllowed(w) /\ UNCHANGED envVars
    \/ PreStartBlocked(w) /\ UNCHANGED envVars
    \/ PreStartNever(w) /\ UNCHANGED envVars
    \/ Dispatch(w) /\ UNCHANGED envVars
    \/ PlegRefresh(w)
    \/ Return(w) /\ UNCHANGED envVars
    \/ CompleteFailed(w) /\ UNCHANGED envVars
    \/ CompleteSyncOk(w) /\ UNCHANGED envVars
    \/ CompleteSync(w) /\ UNCHANGED envVars
    \/ CompleteTerminating(w) /\ UNCHANGED envVars
    \/ CompleteTerminatingRuntimePod(w) /\ UNCHANGED envVars
    \/ CompleteTerminated(w) /\ UNCHANGED envVars
    \/ QueueNext(w) /\ UNCHANGED envVars

Next == EnvNext \/ WorkerNext

\* Every goroutine that can take a step eventually does: the managePodLoop
\* goroutines and the Start loop (OnAdd and the second half of
\* HandlePodRemove) are ordinary goroutines the Go scheduler runs.  Events
\* and the unwired callers are not assumed to happen, except the PLEG's
\* periodic relist where a PLEG is a caller: it runs on a timer.
Fairness ==
  /\ \A w \in Gens : WF_vars((WorkerStep(w) /\ UNCHANGED envVars) \/ PlegRefresh(w))
  /\ WF_vars(HandlePodRemoveKill)
  /\ WF_vars(OnAddContainerExit \/ OnAddCompleted)

Spec == Init /\ [][Next]_vars /\ Fairness

-----------------------------------------------------------------------------
(* Properties of the composed kubelet.                                     *)

\* A pod removed from the config is eventually finished by its worker (or
\* forgotten): the pod worker does not wait forever for status that never
\* comes (spec: the wait on the status cache is bounded, about 2s).
RemovedPodsFinish ==
  \A u \in UIDs : src[u].state = "removed" ~> (status[u] = Nil \/ status[u].finished)

\* A static pod that allowPodStart turned away is retried (specification:
\* "requeue with backoff and retry") and so does not stay unstarted while
\* its full name is free: once no pod of the name is started, some pod of
\* the name starts, or the waiting pod is itself asked to terminate.  The
\* code's retry is workQueue.Enqueue (podworker.go), which nothing reads.
BlockedStaticPodRetried ==
  \A u \in StaticUIDs :
    StaticLive(u) /\ retryQueue[u] = "backoff" /\ startedStatic[FullName[u]] = Nil
      ~> (startedStatic[FullName[u]] # Nil \/ ~StaticLive(u))

\* A pod asked to terminate (deleted, evicted, killed as an orphan, or
\* found terminal) is eventually finished, or forgotten by housekeeping:
\* the termination request survives coalescing and cancellation, static
\* admission, and every completion handler, each of which hands the pod to
\* its next phase.
TerminationRequestedFinishes ==
  \A u \in UIDs : IsPodTerminationRequested(u) ~> (status[u] = Nil \/ status[u].finished)

\* KillPodOptions.CompletedCh "is never left open once
\* CouldHaveRunningContainers() returns false".
CompletedChClosed ==
  \A c \in Chs : chOwner[c] # Nil /\ ~CouldHaveRunningContainers(chOwner[c])
                   => c \in closedChs

=============================================================================
