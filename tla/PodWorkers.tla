----------------------------- MODULE PodWorkers -----------------------------
(***************************************************************************)
(* The pod worker coordinator of src/pkg/mycore/podworker.go: the state    *)
(* kept under podLock (podSyncStatuses, podUpdates, lastUndelivered-       *)
(* WorkUpdate, the static pod start maps, podsSynced), the goroutine that  *)
(* managePodLoop runs for every channel in podUpdates, the pod status      *)
(* cache the loop waits on (kubecontainer.Cache: Get, Set, GetNewerThan)   *)
(* and the retry work queue the loop writes to.                            *)
(*                                                                         *)
(* A pod is a UID; its spec is abstracted to what the coordinator reads:   *)
(* deletion timestamp, DeletionGracePeriodSeconds, a terminal status       *)
(* phase, static-ness and full name.  Time stamps become booleans: a       *)
(* status field is "set" or not, and a worker's lastSyncTime is replaced   *)
(* by "the cache was written after my last sync" (fresh).                  *)
(***************************************************************************)
EXTENDS Naturals, Sequences, FiniteSets, SequencesExt

CONSTANTS
  UIDs,           \* pod UIDs (model values)
  FullName,       \* UID -> full name, kubecontainer.GetPodFullName
  StaticUIDs,     \* UIDs of static pods, kubetypes.IsStaticPod
  DefaultGrace,   \* pod.Spec.TerminationGracePeriodSeconds of config pods
  GraceVals,      \* values DeletionGracePeriodSeconds and overrides take
  Chs,            \* KillPodOptions.CompletedCh channels callers may pass
  SyncOutcomes,   \* results the injected syncPodFn may return
  TermOutcomes,   \* results syncTerminatingPodFn / syncTerminatedPodFn return
  FnHonoursCtx,   \* the injected functions return context.Canceled once cancelled
  MaxGen,         \* bound: pod worker goroutines started per UID
  Nil

ASSUME /\ StaticUIDs \subseteq UIDs
       /\ FullName \in [UIDs -> STRING]
       /\ DefaultGrace \in Nat \ {0}
       /\ GraceVals \subseteq Nat
       /\ SyncOutcomes \subseteq {"ok", "terminal", "error", "neterror"}
       /\ TermOutcomes \subseteq {"ok", "error"}
       /\ FnHonoursCtx \in BOOLEAN
       /\ MaxGen \in Nat \ {0}

Names  == {FullName[u] : u \in UIDs}
Gens   == UIDs \X (1..MaxGen)        \* one channel and goroutine per pair
Kinds  == {"Sync", "Terminating", "Terminated"}
UTypes == {"Create", "Update", "Sync", "Kill"}
Grace  == (GraceVals \cup {DefaultGrace, 1}) \ {0}   \* computed grace periods
KillOpt == [ch : Chs \cup {Nil}, evict : BOOLEAN, override : GraceVals \cup {Nil}]

\* UpdatePodOptions with the pod snapshot it carries.  runtime means Pod is
\* nil and RunningPod is set (an orphan found only in the runtime).
Request == [utype : UTypes, runtime : BOOLEAN, deleted : BOOLEAN,
            delGrace : GraceVals \cup {Nil}, terminal : BOOLEAN,
            kill : KillOpt \cup {Nil}]

\* podWork; seq numbers the item for the ordering property.
Work == [kind : Kinds, utype : UTypes, runtime : BOOLEAN,
         grace : Grace \cup {Nil}, seq : Nat]

\* podSyncStatus; ctx is status.ctx / cancelFn.
Status == [working : BOOLEAN, termReq : BOOLEAN, startedTerm : BOOLEAN,
           deleted : BOOLEAN, evicted : BOOLEAN, terminated : BOOLEAN,
           finished : BOOLEAN, restartReq : BOOLEAN, grace : Nat,
           ctx : {"none", "live", "cancelled"}, notify : SUBSET Chs]

VARIABLES
  status,         \* podSyncStatuses
  podUpdates,     \* UID -> generation of the registered channel, 0 if none
  chans,          \* generation -> buffered channel of capacity 1
  nextGen,        \* UID -> channels created so far
  undelivered,    \* lastUndeliveredWorkUpdate
  startedStatic,  \* startedStaticPodsByFullname
  waitingStatic,  \* waitingToStartStaticPodsByFullname
  podsSynced,     \* podsSynced
  retryQueue,     \* workQueue: UID -> delay of the last Enqueue
  wk,             \* locals of each managePodLoop goroutine
  cache,          \* kubecontainer.Cache content per UID
  podMgr,         \* UID is in the pod manager (read by insertPodCache)
  seq,            \* next work item number
  closedChs       \* CompletedCh channels that have been closed

\* everything but podMgr, which the kubelet's pod manager owns
workerVars == <<status, podUpdates, chans, nextGen, undelivered, startedStatic,
                waitingStatic, podsSynced, retryQueue, wk, cache, seq, closedChs>>

pwVars == <<status, podUpdates, chans, nextGen, undelivered, startedStatic,
            waitingStatic, podsSynced, retryQueue, wk, cache, podMgr, seq,
            closedChs>>

NewStatus == [working |-> FALSE, termReq |-> FALSE, startedTerm |-> FALSE,
              deleted |-> FALSE, evicted |-> FALSE, terminated |-> FALSE,
              finished |-> FALSE, restartReq |-> FALSE, grace |-> 0,
              ctx |-> "none", notify |-> {}]

Idle == [pc |-> "idle", started |-> FALSE, item |-> Nil, outcome |-> Nil,
         fresh |-> FALSE, lastSeq |-> 0, transition |-> FALSE]

PWInit ==
  /\ status = [u \in UIDs |-> Nil]
  /\ podUpdates = [u \in UIDs |-> 0]
  /\ chans = [w \in Gens |-> [buf |-> <<>>, closed |-> FALSE]]
  /\ nextGen = [u \in UIDs |-> 0]
  /\ undelivered = [u \in UIDs |-> Nil]
  /\ startedStatic = [n \in Names |-> Nil]
  /\ waitingStatic = [n \in Names |-> <<>>]
  /\ podsSynced = FALSE
  /\ retryQueue = [u \in UIDs |-> Nil]
  /\ wk = [w \in Gens |-> Idle]
  /\ cache = [u \in UIDs |-> "none"]
  /\ podMgr = [u \in UIDs |-> FALSE]
  /\ seq = 1
  /\ closedChs = {}

-----------------------------------------------------------------------------
(* Status cache (kubecontainer.Cache).  A missing entry reads as an empty  *)
(* status, which isPodStatusCacheTerminal accepts.  Set wakes every        *)
(* GetNewerThan waiter of the UID: their lastSyncTime is now older.        *)

IsPodStatusCacheTerminal(u) == cache[u] \in {"none", "terminal"}

Refreshed(wks, u) == [w \in Gens |-> IF w[1] = u THEN [wks[w] EXCEPT !.fresh = TRUE]
                                                 ELSE wks[w]]

CacheSet(u, content) ==
  /\ cache' = [cache EXCEPT ![u] = content]
  /\ wk' = Refreshed(wk, u)

-----------------------------------------------------------------------------
(* Queries answered under podLock to other kubelet loops.                  *)

IsPodKnownTerminated(u) == status[u] # Nil /\ status[u].terminated

CouldHaveRunningContainers(u) ==
  IF status[u] # Nil THEN ~status[u].terminated ELSE ~podsSynced

ShouldPodContainersBeTerminating(u) ==
  IF status[u] # Nil THEN status[u].startedTerm ELSE podsSynced

IsPodTerminationRequested(u) == status[u] # Nil /\ status[u].termReq

ShouldPodRuntimeBeRemoved(u) ==
  IF status[u] # Nil THEN status[u].terminated ELSE podsSynced

\* the static pod started under a full name is terminating, not terminated
IsPodForMirrorPodTerminatingByFullName(n) ==
  LET u == startedStatic[n] IN
  u # Nil /\ status[u] # Nil /\ status[u].termReq /\ ~status[u].terminated

ShouldPodContentBeRemoved(u) ==
  IF status[u] # Nil THEN status[u].evicted \/ (status[u].deleted /\ status[u].terminated)
  ELSE podsSynced

-----------------------------------------------------------------------------
(* UpdatePod                                                               *)

\* the fast path for a pod first seen in a terminal phase with nothing running
FirstStatus(u, req) ==
  IF ~req.runtime /\ req.terminal /\ IsPodStatusCacheTerminal(u)
  THEN [NewStatus EXCEPT !.termReq = TRUE, !.terminated = TRUE,
                         !.startedTerm = TRUE, !.finished = TRUE]
  ELSE NewStatus

\* the request newly asks for termination
BecameTerminating(s, req) ==
  ~s.termReq /\ (req.runtime \/ req.deleted \/ req.terminal \/ req.utype = "Kill")

AfterTransition(s, req) ==
  IF BecameTerminating(s, req)
  THEN [s EXCEPT !.termReq = TRUE,
                 !.deleted = @ \/ req.runtime \/ req.deleted,
                 !.evicted = @ \/ (~req.runtime /\ ~req.deleted /\ ~req.terminal
                                   /\ req.kill # Nil /\ req.kill.evict)]
  ELSE s

\* (mutant) no final clamp to a grace period of at least 1
EffectiveGraceNoClamp(prev, req) ==
  LET api  == IF req.runtime THEN Nil ELSE req.delGrace
      ovr  == IF req.kill = Nil THEN Nil ELSE req.kill.override
      spec == IF req.runtime THEN Nil ELSE DefaultGrace
      g1 == IF api # Nil /\ (prev = 0 \/ api < prev) THEN api ELSE prev
      g2 == IF ovr # Nil /\ (g1 = 0 \/ ovr < g1) THEN ovr ELSE g1
  IN IF g2 = 0 /\ spec # Nil THEN spec ELSE g2

\* calculateEffectiveGracePeriod: the grace period may only decrease
EffectiveGrace(prev, req) ==
  LET api  == IF req.runtime THEN Nil ELSE req.delGrace
      ovr  == IF req.kill = Nil THEN Nil ELSE req.kill.override
      spec == IF req.runtime THEN Nil ELSE DefaultGrace
      g1 == IF api # Nil /\ (prev = 0 \/ api < prev) THEN api ELSE prev
      g2 == IF ovr # Nil /\ (g1 = 0 \/ ovr < g1) THEN ovr ELSE g1
      g3 == IF g2 = 0 /\ spec # Nil THEN spec ELSE g2
  IN IF g3 < 1 THEN 1 ELSE g3

\* (mutant) the terminating case tested before the terminated one
WorkKindTerminatingFirst(s) ==
  IF s.termReq THEN "Terminating" ELSE IF s.terminated THEN "Terminated" ELSE "Sync"

WorkKind(s) ==
  IF s.terminated THEN "Terminated" ELSE IF s.termReq THEN "Terminating" ELSE "Sync"

ReqCh(req) == IF req.kill = Nil THEN Nil ELSE req.kill.ch

\* create the channel and start its goroutine if the UID has none
StartWorker(u, n) ==
  /\ nextGen' = [nextGen EXCEPT ![u] = n]
  /\ waitingStatic' = IF u \in StaticUIDs
                      THEN [waitingStatic EXCEPT ![FullName[u]] = Append(@, u)]
                      ELSE waitingStatic

\* (mutant) the work is sent even while the worker is busy
DeliverAlwaysSend(u, s, work, cancel) ==
  LET newChan == podUpdates[u] = 0
      n == IF newChan THEN nextGen[u] + 1 ELSE podUpdates[u]
      w == <<u, n>>
  IN /\ newChan => nextGen[u] < MaxGen
     /\ podUpdates' = [podUpdates EXCEPT ![u] = n]
     /\ IF newChan THEN StartWorker(u, n) ELSE UNCHANGED <<nextGen, waitingStatic>>
     /\ wk' = IF newChan THEN [wk EXCEPT ![w] = [Idle EXCEPT !.pc = "recv",
                                                          !.fresh = cache[u] # "none"]]
              ELSE wk
     /\ status' = [status EXCEPT ![u] = [s EXCEPT !.working = TRUE]]
     /\ chans' = [chans EXCEPT ![w].buf = Append(@, work)]
     /\ UNCHANGED undelivered

\* (mutant) a new goroutine is started whenever the worker is idle
DeliverSpawnWhenIdle(u, s, work, cancel) ==
  LET newChan == podUpdates[u] = 0 \/ ~s.working
      n == IF newChan THEN nextGen[u] + 1 ELSE podUpdates[u]
      w == <<u, n>>
  IN /\ newChan => nextGen[u] < MaxGen
     /\ podUpdates' = [podUpdates EXCEPT ![u] = n]
     /\ IF newChan THEN StartWorker(u, n) ELSE UNCHANGED <<nextGen, waitingStatic>>
     /\ wk' = IF newChan THEN [wk EXCEPT ![w] = [Idle EXCEPT !.pc = "recv",
                                                          !.fresh = cache[u] # "none"]]
              ELSE wk
     /\ IF ~s.working
        THEN /\ status' = [status EXCEPT ![u] = [s EXCEPT !.working = TRUE]]
             /\ chans' = [chans EXCEPT ![w].buf = Append(@, work)]
             /\ UNCHANGED undelivered
        ELSE /\ undelivered' = [undelivered EXCEPT ![u] = work]
             /\ status' = [status EXCEPT ![u] =
                             IF cancel /\ s.ctx # "none" THEN [s EXCEPT !.ctx = "cancelled"]
                                                        ELSE s]
             /\ UNCHANGED chans

\* steps 6 and 7: deliver the work, or coalesce it and cancel the sync
Deliver(u, s, work, cancel) ==
  LET newChan == podUpdates[u] = 0
      n == IF newChan THEN nextGen[u] + 1 ELSE podUpdates[u]
      w == <<u, n>>
      spawned == IF newChan
                 THEN [wk EXCEPT ![w] = [Idle EXCEPT !.pc = "recv",
                                                     !.fresh = cache[u] # "none"]]
                 ELSE wk
  IN /\ newChan => nextGen[u] < MaxGen
     /\ podUpdates' = [podUpdates EXCEPT ![u] = n]
     /\ IF newChan THEN StartWorker(u, n) ELSE UNCHANGED <<nextGen, waitingStatic>>
     /\ wk' = spawned
     /\ IF ~s.working
        THEN /\ status' = [status EXCEPT ![u] = [s EXCEPT !.working = TRUE]]
             /\ chans' = [chans EXCEPT ![w].buf = Append(@, work)]
             /\ UNCHANGED undelivered
        ELSE /\ undelivered' = [undelivered EXCEPT ![u] = work]
             /\ status' = [status EXCEPT ![u] =
                             IF cancel /\ s.ctx # "none" THEN [s EXCEPT !.ctx = "cancelled"]
                                                        ELSE s]
             /\ UNCHANGED chans

\* the request is dispatched or coalesced
UpdatePodDispatch(u, req) ==
  LET s0 == IF status[u] = Nil THEN FirstStatus(u, req) ELSE status[u]
      s1 == AfterTransition(s0, req)
      kind == WorkKind(s1)
      ch == ReqCh(req)
      g == EffectiveGrace(s1.grace, req)
      shortened == kind = "Terminating" /\ s1.grace # 0 /\ s1.grace # g
      s2 == IF kind = "Terminating"
            THEN [s1 EXCEPT !.grace = g, !.notify = IF ch = Nil THEN @ ELSE @ \cup {ch}]
            ELSE s1
      work == [kind |-> kind, utype |-> req.utype, runtime |-> req.runtime,
               grace |-> IF kind = "Terminating" THEN g ELSE Nil, seq |-> seq]
  IN /\ ~(s0.termReq /\ req.utype = "Create")
     /\ ~s0.finished
     /\ ~(s1.terminated /\ req.runtime)
     /\ Deliver(u, s2, work, BecameTerminating(s0, req) \/ shortened)
     /\ closedChs' = IF kind # "Terminating" /\ ch # Nil THEN closedChs \cup {ch}
                                                        ELSE closedChs
     /\ seq' = seq + 1
     /\ UNCHANGED <<startedStatic, podsSynced, retryQueue, cache>>

\* (mutant) a Create for a UID asked to terminate resets its record in place
\* instead of waiting for SyncKnownPods to purge it
UpdatePodDroppedRestartInPlace(u, req) ==
  LET s0 == IF status[u] = Nil THEN FirstStatus(u, req) ELSE status[u]
  IN /\ \/ s0.termReq /\ req.utype = "Create"
        \/ s0.finished
        \/ s0.terminated /\ req.runtime
     /\ status' = [status EXCEPT ![u] =
                     IF s0.termReq /\ req.utype = "Create" THEN NewStatus ELSE s0]
     /\ UNCHANGED <<podUpdates, chans, nextGen, undelivered, startedStatic,
                    waitingStatic, podsSynced, retryQueue, wk, cache, seq, closedChs>>

\* the request ends before dispatch: restart requested, finished, or a
\* runtime-only kill of an already terminated pod
UpdatePodDropped(u, req) ==
  LET s0 == IF status[u] = Nil THEN FirstStatus(u, req) ELSE status[u]
  IN /\ \/ s0.termReq /\ req.utype = "Create"
        \/ s0.finished
        \/ s0.terminated /\ req.runtime
     /\ status' = [status EXCEPT ![u] =
                     IF s0.termReq /\ req.utype = "Create"
                     THEN [s0 EXCEPT !.restartReq = TRUE] ELSE s0]
     /\ UNCHANGED <<podUpdates, chans, nextGen, undelivered, startedStatic,
                    waitingStatic, podsSynced, retryQueue, wk, cache, seq, closedChs>>

\* UpdatePod; the caller states what becomes of podMgr in the same step.  A
\* runtime pod with an update type other than kill returns before taking
\* podLock; every caller of this model sends runtime pods only as kills.
UpdatePod(u, req) ==
  /\ req.runtime => req.utype = "Kill"
  /\ UpdatePodDispatch(u, req) \/ UpdatePodDropped(u, req)

-----------------------------------------------------------------------------
(* managePodLoop, one goroutine per channel generation w = <<uid, n>>      *)

Active(w) == wk[w].pc \notin {"idle", "exited"}

\* cleanupPodUpdates: close and forget the channel and any undelivered work
Cleanup(u) ==
  /\ chans' = IF podUpdates[u] = 0 THEN chans
              ELSE [chans EXCEPT ![<<u, podUpdates[u]>>].closed = TRUE]
  /\ podUpdates' = [podUpdates EXCEPT ![u] = 0]
  /\ undelivered' = [undelivered EXCEPT ![u] = Nil]

\* the static pod forgets that it started
ForgetStarted(u) ==
  startedStatic' = IF startedStatic[FullName[u]] = u
                   THEN [startedStatic EXCEPT ![FullName[u]] = Nil] ELSE startedStatic

\* the worker is finished: status finished, not working, terminated
Finish(u) ==
  status' = [status EXCEPT ![u] = IF @ = Nil THEN Nil
               ELSE [@ EXCEPT !.finished = TRUE, !.working = FALSE, !.terminated = TRUE]]

\* receive the next item from the channel
Recv(w) ==
  /\ wk[w].pc = "recv"
  /\ chans[w].buf # <<>>
  /\ LET item == Head(chans[w].buf) IN
       wk' = [wk EXCEPT ![w].pc = IF wk[w].started THEN "wait" ELSE "prestart",
                        ![w].item = item, ![w].lastSeq = item.seq]
  /\ chans' = [chans EXCEPT ![w].buf = Tail(@)]
  /\ UNCHANGED <<status, podUpdates, nextGen, undelivered, startedStatic,
                 waitingStatic, podsSynced, retryQueue, cache, podMgr, seq, closedChs>>

\* a static pod may start if none of its name started and it is the first
\* live entry of the waiting list (allowStaticPodStart)
StaticLive(v) == status[v] # Nil /\ ~status[v].termReq /\ ~status[v].terminated

\* (mutant) the started map is not consulted
AllowStaticPodStartIgnoreStarted(u) ==
  LET name == FullName[u]
      wl == waitingStatic[name]
      i == SelectInSeq(wl, StaticLive)
  IN IF i # 0 /\ wl[i] # u
     THEN [ok |-> FALSE, wl |-> SubSeq(wl, i, Len(wl)), started |-> Nil]
     ELSE [ok |-> TRUE, wl |-> IF i = 0 THEN wl ELSE SubSeq(wl, i + 1, Len(wl)),
           started |-> u]

AllowStaticPodStart(u) ==
  LET name == FullName[u]
      wl == waitingStatic[name]
      i == SelectInSeq(wl, StaticLive)
  IN IF startedStatic[name] # Nil
     THEN [ok |-> startedStatic[name] = u, wl |-> wl, started |-> startedStatic[name]]
     ELSE IF i # 0 /\ wl[i] # u
     THEN [ok |-> FALSE, wl |-> SubSeq(wl, i, Len(wl)), started |-> Nil]
     ELSE [ok |-> TRUE, wl |-> IF i = 0 THEN wl ELSE SubSeq(wl, i + 1, Len(wl)),
           started |-> u]

\* status.go SetPodStatus(pod, ContainerStateRunning): every container
\* running in a ready sandbox
SetPodStatusRunning == "running"

\* insertPodCache: a pod still in the pod manager gets a running status
\* written into the cache, which wakes the waiters of the UID
InsertPodCache(u) ==
  cache' = IF podMgr[u] THEN [cache EXCEPT ![u] = SetPodStatusRunning] ELSE cache

AfterInsert(u) == IF podMgr[u] THEN Refreshed(wk, u) ELSE wk

\* allowPodStart's "canEverStart" is false: a static pod whose status is
\* gone or already asked to terminate
NeverStart(u) == u \in StaticUIDs /\ (status[u] = Nil \/ status[u].termReq)

\* first item of a goroutine: insertPodCache, then allowPodStart admits it
PreStartAllowed(w) ==
  LET u == w[1]
      a == AllowStaticPodStart(u)
  IN /\ wk[w].pc = "prestart"
     /\ ~NeverStart(u)
     /\ u \in StaticUIDs => a.ok
     /\ InsertPodCache(u)
     /\ wk' = [AfterInsert(u) EXCEPT ![w].pc = "wait", ![w].started = TRUE]
     /\ IF u \in StaticUIDs
        THEN /\ startedStatic' = [startedStatic EXCEPT ![FullName[u]] = a.started]
             /\ waitingStatic' = [waitingStatic EXCEPT ![FullName[u]] = a.wl]
        ELSE UNCHANGED <<startedStatic, waitingStatic>>
     /\ UNCHANGED <<status, podUpdates, chans, nextGen, undelivered, podsSynced,
                    retryQueue, podMgr, seq, closedChs>>

\* an older static pod of the same name goes first: enqueue with backoff,
\* clear working and wait for the next item (the item is dropped)
PreStartBlocked(w) ==
  LET u == w[1]
      a == AllowStaticPodStart(u)
  IN /\ wk[w].pc = "prestart"
     /\ ~NeverStart(u) /\ u \in StaticUIDs /\ ~a.ok
     /\ InsertPodCache(u)
     /\ wk' = [AfterInsert(u) EXCEPT ![w].pc = "recv"]
     /\ waitingStatic' = [waitingStatic EXCEPT ![FullName[u]] = a.wl]
     /\ retryQueue' = [retryQueue EXCEPT ![u] = "backoff"]
     /\ status' = [status EXCEPT ![u].working = FALSE]
     /\ UNCHANGED <<podUpdates, chans, nextGen, undelivered, startedStatic,
                    podsSynced, podMgr, seq, closedChs>>

\* the pod can never start: completeUnstartedTerminated, the goroutine exits
PreStartNever(w) ==
  LET u == w[1] IN
  /\ wk[w].pc = "prestart"
  /\ NeverStart(u)
  /\ InsertPodCache(u)
  /\ wk' = [AfterInsert(u) EXCEPT ![w].pc = "exited"]
  /\ Cleanup(u) /\ Finish(u) /\ ForgetStarted(u)
  /\ UNCHANGED <<nextGen, waitingStatic, podsSynced, retryQueue, podMgr, seq, closedChs>>

\* contextForWorker: a missing or cancelled context is replaced by a new one
ContextForWorker(s) == [s EXCEPT !.ctx = "live"]

\* acknowledgeTerminating, called for a Terminating item only
AcknowledgeTerminating(s) == [s EXCEPT !.startedTerm = @ \/ s.termReq]

\* GetNewerThan (skipped for runtime pods), contextForWorker,
\* acknowledgeTerminating, then the sync function is called
DispatchWhen(w, newer) ==
  LET u == w[1]
      item == wk[w].item
  IN /\ wk[w].pc = "wait"
     /\ item.runtime \/ newer
     /\ status' = [status EXCEPT ![u] =
                     IF @ = Nil THEN Nil
                     ELSE IF item.kind = "Terminating" THEN AcknowledgeTerminating(ContextForWorker(@))
                     ELSE ContextForWorker(@)]
     /\ wk' = [wk EXCEPT ![w].pc = "running"]
     /\ UNCHANGED <<podUpdates, chans, nextGen, undelivered, startedStatic,
                    waitingStatic, podsSynced, retryQueue, cache, podMgr, seq, closedChs>>

\* GetNewerThan returns once the cache holds a status newer than the last
\* sync (a runtime-only pod does not wait)
Dispatch(w) == DispatchWhen(w, wk[w].fresh)

\* the sync function returns; lastSyncTime = now
Outcomes(w) ==
  (IF wk[w].item.kind = "Sync" THEN SyncOutcomes ELSE TermOutcomes)
  \cup (IF FnHonoursCtx /\ status[w[1]] # Nil /\ status[w[1]].ctx = "cancelled"
        THEN {"cancelled"} ELSE {})

Return(w) ==
  /\ wk[w].pc = "running"
  /\ \E o \in Outcomes(w) :
       wk' = [wk EXCEPT ![w].pc = "returned", ![w].outcome = o, ![w].fresh = FALSE]
  /\ UNCHANGED <<status, podUpdates, chans, nextGen, undelivered, startedStatic,
                 waitingStatic, podsSynced, retryQueue, cache, podMgr, seq, closedChs>>

\* the work item the worker queues for itself (completeSync, completeTerminating)
NextPhase(kind) == [kind |-> kind, utype |-> "Sync", runtime |-> FALSE,
                    grace |-> Nil, seq |-> seq]

\* error or cancellation: no phase change, retry
CompleteFailed(w) ==
  /\ wk[w].pc = "returned"
  /\ wk[w].outcome \in {"cancelled", "error", "neterror"}
  /\ wk' = [wk EXCEPT ![w].pc = "queuenext", ![w].transition = FALSE]
  /\ UNCHANGED <<status, podUpdates, chans, nextGen, undelivered, startedStatic,
                 waitingStatic, podsSynced, retryQueue, cache, podMgr, seq, closedChs>>

\* syncPod succeeded and the pod is not terminal
CompleteSyncOk(w) ==
  /\ wk[w].pc = "returned"
  /\ wk[w].item.kind = "Sync" /\ wk[w].outcome = "ok"
  /\ wk' = [wk EXCEPT ![w].pc = "queuenext", ![w].transition = FALSE]
  /\ UNCHANGED <<status, podUpdates, chans, nextGen, undelivered, startedStatic,
                 waitingStatic, podsSynced, retryQueue, cache, podMgr, seq, closedChs>>

\* (mutant) a pending update is not replaced by the terminating work
CompleteSyncKeepPending(w) ==
  LET u == w[1] IN
  /\ wk[w].pc = "returned"
  /\ wk[w].item.kind = "Sync" /\ wk[w].outcome = "terminal"
  /\ status' = [status EXCEPT ![u] = IF @ = Nil THEN Nil
                  ELSE [@ EXCEPT !.termReq = TRUE, !.startedTerm = TRUE]]
  /\ undelivered' = [undelivered EXCEPT ![u] = IF @ = Nil THEN NextPhase("Terminating") ELSE @]
  /\ seq' = seq + 1
  /\ wk' = [wk EXCEPT ![w].pc = "queuenext", ![w].transition = TRUE]
  /\ UNCHANGED <<podUpdates, chans, nextGen, startedStatic, waitingStatic,
                 podsSynced, retryQueue, cache, podMgr, closedChs>>

\* completeSync: syncPod reported a terminal pod
CompleteSync(w) ==
  LET u == w[1] IN
  /\ wk[w].pc = "returned"
  /\ wk[w].item.kind = "Sync" /\ wk[w].outcome = "terminal"
  /\ status' = [status EXCEPT ![u] = IF @ = Nil THEN Nil
                  ELSE [@ EXCEPT !.termReq = TRUE, !.startedTerm = TRUE]]
  /\ undelivered' = [undelivered EXCEPT ![u] = NextPhase("Terminating")]
  /\ seq' = seq + 1
  /\ wk' = [wk EXCEPT ![w].pc = "queuenext", ![w].transition = TRUE]
  /\ UNCHANGED <<podUpdates, chans, nextGen, startedStatic, waitingStatic,
                 podsSynced, retryQueue, cache, podMgr, closedChs>>

\* completeTerminating: containers stopped, release the waiters
CompleteTerminating(w) ==
  LET u == w[1] IN
  /\ wk[w].pc = "returned"
  /\ wk[w].item.kind = "Terminating" /\ wk[w].outcome = "ok"
  /\ ~wk[w].item.runtime
  /\ status' = [status EXCEPT ![u] = IF @ = Nil THEN Nil
                  ELSE [@ EXCEPT !.terminated = TRUE, !.notify = {}]]
  /\ closedChs' = IF status[u] = Nil THEN closedChs ELSE closedChs \cup status[u].notify
  /\ undelivered' = [undelivered EXCEPT ![u] = NextPhase("Terminated")]
  /\ seq' = seq + 1
  /\ wk' = [wk EXCEPT ![w].pc = "queuenext", ![w].transition = TRUE]
  /\ UNCHANGED <<podUpdates, chans, nextGen, startedStatic, waitingStatic,
                 podsSynced, retryQueue, cache, podMgr>>

\* completeTerminatingRuntimePod: an orphan is torn down, the worker exits
CompleteTerminatingRuntimePod(w) ==
  LET u == w[1] IN
  /\ wk[w].pc = "returned"
  /\ wk[w].item.kind = "Terminating" /\ wk[w].outcome = "ok"
  /\ wk[w].item.runtime
  /\ Finish(u) /\ ForgetStarted(u) /\ Cleanup(u)
  /\ wk' = [wk EXCEPT ![w].pc = "exited"]
  /\ UNCHANGED <<nextGen, waitingStatic, podsSynced, retryQueue, cache, podMgr,
                 seq, closedChs>>

\* completeTerminated: the pod is finalized, the worker exits
CompleteTerminated(w) ==
  LET u == w[1] IN
  /\ wk[w].pc = "returned"
  /\ wk[w].item.kind = "Terminated" /\ wk[w].outcome = "ok"
  /\ Cleanup(u)
  /\ status' = [status EXCEPT ![u] = IF @ = Nil THEN Nil
                  ELSE [@ EXCEPT !.finished = TRUE, !.working = FALSE]]
  /\ ForgetStarted(u)
  /\ wk' = [wk EXCEPT ![w].pc = "exited"]
  /\ UNCHANGED <<nextGen, waitingStatic, podsSynced, retryQueue, cache, podMgr,
                 seq, closedChs>>

\* completeWork: requeue after a delay chosen by the result
RetryDelay(w) ==
  CASE wk[w].transition -> "now"
    [] wk[w].outcome \in {"ok", "terminal"} -> "resync"
    [] wk[w].outcome = "neterror" -> "transient"
    [] OTHER -> "backoff"

\* (mutant) completeWorkQueueNext marks the worker idle and drops the
\* update that was coalesced while it worked
QueueNextDropPending(w) ==
  LET u == w[1] IN
  /\ wk[w].pc = "queuenext"
  /\ retryQueue' = [retryQueue EXCEPT ![u] = RetryDelay(w)]
  /\ status' = [status EXCEPT ![u].working = FALSE]
  /\ undelivered' = [undelivered EXCEPT ![u] = Nil]
  /\ wk' = [wk EXCEPT ![w].pc = "recv"]
  /\ UNCHANGED <<podUpdates, chans, nextGen, startedStatic, waitingStatic, podsSynced,
                 cache, podMgr, seq, closedChs>>

\* completeWork and completeWorkQueueNext
QueueNext(w) ==
  LET u == w[1] IN
  /\ wk[w].pc = "queuenext"
  /\ retryQueue' = [retryQueue EXCEPT ![u] = RetryDelay(w)]
  /\ IF undelivered[u] # Nil
     THEN /\ chans' = [chans EXCEPT ![<<u, podUpdates[u]>>].buf = Append(@, undelivered[u])]
          /\ undelivered' = [undelivered EXCEPT ![u] = Nil]
          /\ UNCHANGED status
     ELSE /\ status' = [status EXCEPT ![u].working = FALSE]
          /\ UNCHANGED <<chans, undelivered>>
  /\ wk' = [wk EXCEPT ![w].pc = "recv"]
  /\ UNCHANGED <<podUpdates, nextGen, startedStatic, waitingStatic, podsSynced,
                 cache, podMgr, seq, closedChs>>

WorkerStep(w) ==
  \/ Recv(w) \/ PreStartAllowed(w) \/ PreStartBlocked(w) \/ PreStartNever(w)
  \/ Dispatch(w) \/ Return(w)
  \/ CompleteFailed(w) \/ CompleteSyncOk(w) \/ CompleteSync(w)
  \/ CompleteTerminating(w) \/ CompleteTerminatingRuntimePod(w)
  \/ CompleteTerminated(w) \/ QueueNext(w)

-----------------------------------------------------------------------------
(* SyncKnownPods: purge finished pods no longer desired or recreated.      *)

SyncKnownPods(desired) ==
  LET purge == {u \in UIDs : /\ status[u] # Nil
                             /\ u \notin desired \/ status[u].restartReq
                             /\ status[u].finished}
  IN /\ podsSynced' = TRUE
     /\ status' = [u \in UIDs |-> IF u \in purge THEN Nil ELSE status[u]]
     /\ chans' = [w \in Gens |-> IF w[1] \in purge /\ podUpdates[w[1]] = w[2]
                                 THEN [chans[w] EXCEPT !.closed = TRUE] ELSE chans[w]]
     /\ podUpdates' = [u \in UIDs |-> IF u \in purge THEN 0 ELSE podUpdates[u]]
     /\ undelivered' = [u \in UIDs |-> IF u \in purge THEN Nil ELSE undelivered[u]]
     /\ startedStatic' = [n \in Names |-> IF startedStatic[n] \in purge
                                          THEN Nil ELSE startedStatic[n]]
     /\ UNCHANGED <<nextGen, waitingStatic, retryQueue, wk, cache, podMgr, seq, closedChs>>

-----------------------------------------------------------------------------
(* Properties                                                              *)

Running(w, kinds) == wk[w].pc \in {"wait", "running"} /\ wk[w].item.kind \in kinds

\* Type invariant.  Every Terminating work item carries a grace period of
\* at least one second (calculateEffectiveGracePeriod's final clamp).
TypeOK ==
  /\ status \in [UIDs -> Status \cup {Nil}]
  /\ podUpdates \in [UIDs -> 0..MaxGen]
  /\ chans \in [Gens -> [buf : Seq(Work), closed : BOOLEAN]]
  /\ undelivered \in [UIDs -> Work \cup {Nil}]
  /\ startedStatic \in [Names -> UIDs \cup {Nil}]
  /\ retryQueue \in [UIDs -> {Nil, "now", "resync", "transient", "backoff"}]
  /\ cache \in [UIDs -> {"none", "running", "terminal"}]
  /\ \A w \in Gens : wk[w].item \in Work \cup {Nil}
  /\ \A w \in Gens : wk[w].item # Nil /\ wk[w].item.kind = "Terminating"
                       => wk[w].item.grace \in Grace \cup {Nil}
  /\ closedChs \subseteq Chs

\* The channel of capacity 1 never needs a second slot: UpdatePod sends only
\* to an idle worker and coalesces otherwise, completeWorkQueueNext sends
\* only after the worker took its item, so no send ever blocks (a blocked
\* send would hold podLock forever).  A queued item only ever sits in the
\* channel registered for the UID, which is still open.
MailboxNeverBlocks ==
  \A w \in Gens :
    /\ Len(chans[w].buf) <= 1
    /\ chans[w].buf # <<>> => podUpdates[w[1]] = w[2] /\ ~chans[w].closed

\* At most one managePodLoop goroutine per UID is alive, and a live one owns
\* the registered channel and a sync status: removeTerminatedWorker and the
\* complete* functions never close the channel of a worker that still runs
\* (completeWorkQueueNext would send on a closed or nil channel).
SingleActiveWorker ==
  \A w \in Gens : Active(w) =>
     /\ podUpdates[w[1]] = w[2]
     /\ status[w[1]] # Nil
     /\ \A w2 \in Gens : Active(w2) /\ w2[1] = w[1] => w2 = w

\* Once the worker has acknowledged termination (startedTerminating, which
\* ShouldPodContainersBeTerminating reports to the rest of the kubelet), it
\* never runs syncPod again: no Sync item survives completeSync or a
\* transition to terminating in UpdatePod.
NoSyncAfterTerminationStarted ==
  \A w \in Gens : wk[w].pc = "running" /\ wk[w].item.kind = "Sync"
                    => ~ShouldPodContainersBeTerminating(w[1])

\* Once the pod worker reports that no container can run
\* (CouldHaveRunningContainers is false after completeTerminating), it never
\* again runs or waits to run syncPod or syncTerminatingPod for that UID.
ContainersStoppedOnceTerminated ==
  \A w \in Gens : Running(w, {"Sync", "Terminating"}) => CouldHaveRunningContainers(w[1])

\* Static pods with the same full name never run syncPod at the same time:
\* allowStaticPodStart admits a second UID only after the first one finished.
StaticPodsMutuallyExclusive ==
  \A w1, w2 \in Gens :
    /\ w1[1] # w2[1] /\ {w1[1], w2[1]} \subseteq StaticUIDs
    /\ FullName[w1[1]] = FullName[w2[1]]
    /\ wk[w1].started /\ wk[w2].started
    => ~(Running(w1, {"Sync"}) /\ Running(w2, {"Sync"}))

\* The grace period of a terminating pod only decreases
\* (calculateEffectiveGracePeriod), whatever the order of API deletions,
\* kills and evictions.
GraceNeverIncreases ==
  [][\A u \in UIDs : status[u] # Nil /\ status'[u] # Nil /\ status[u].grace # 0
                       => status'[u].grace <= status[u].grace]_status

\* The grace period a syncTerminatingPod call uses: a nil override means
\* the pod's TerminationGracePeriodSeconds.
CallGrace(item) == IF item.grace = Nil THEN DefaultGrace ELSE item.grace

\* When a config pod's syncTerminatingPod is called, it gets no longer a
\* grace period than the one the pod worker has already computed for the
\* pod (UpdatePod: "always set the grace period for syncTerminatingPod so
\* we don't have to recalculate"; spec: the grace period never increases).
DispatchedGraceHonoured ==
  [][\A w \in Gens :
       /\ wk[w].pc = "wait" /\ wk'[w].pc = "running"
       /\ wk[w].item.kind = "Terminating" /\ ~wk[w].item.runtime
       /\ status[w[1]] # Nil /\ status[w[1]].grace # 0
       => CallGrace(wk[w].item) <= status[w[1]].grace]_wk

\* The grace period of a terminating config pod never increases (spec:
\* "the grace period only decreases"), neither in the record the pod worker
\* keeps (calculateEffectiveGracePeriod) nor in the call it makes
\* (syncTerminatingPod gets the record's grace or a shorter one).
GracePeriodNeverIncreases == GraceNeverIncreases /\ DispatchedGraceHonoured

\* The lifecycle a UID's podSyncStatus records, read from its flags.
PhaseOf(u) ==
  CASE status[u] = Nil -> "none"
    [] status[u].finished -> "finished"
    [] status[u].terminated -> "terminated"
    [] status[u].termReq -> "terminating"
    [] OTHER -> "syncing"

Lifecycle == INSTANCE PodLifecycle WITH phase <- [u \in UIDs |-> PhaseOf(u)]

\* The pod workers implement the abstract lifecycle: for every UID,
\* syncing -> terminating -> terminated -> finished with no reverse edge,
\* whatever UpdatePod, the worker goroutines and SyncKnownPods do; a UID
\* starts over only after SyncKnownPods purged its finished record (a
\* Create for a terminating UID only sets restartRequested).
LifecycleRefined == Lifecycle!Spec

\* A worker receives updates in the order UpdatePod accepted them: the
\* sequence number of the item it takes never goes back.
DeliveredInOrder ==
  [][\A w \in Gens : wk'[w].lastSeq >= wk[w].lastSeq]_wk

=============================================================================
