# TLA+ models of my-sample-kubelet

These modules model the pod lifecycle core of the sample kubelet in `src/pkg/mycore`. That core is the pod workers (`podworker.go`), the event loop and handlers that feed them, and the phase computation of `podfn.go`. They also model the node start-up that runs before that core. TLC checks them.

## The system

- **Config events.** `SampleKubelet.Start` (`kubelet.go`) reads config events from one channel and handles them one at a time:
  - ADD → `HandlerPodAdd`;
  - UPDATE and DELETE → `HandlePodUpdate`;
  - REMOVE → `HandlePodRemove`.
- **Handlers.** They update the pod manager (`podmanager.go`) and call `podWorkers.UpdatePod`. On ADD, the `OnAdd` callback (`callbackFunc.go`, `context.go`) also runs synchronously inside the loop:
  - it runs each container command and writes the exit code into the status cache;
  - it sleeps 3s;
  - it writes a completed status.
- **Pod workers.** `podWorkers` keeps one `podSyncStatus` per UID under `podLock`, and one goroutine per UID running `managePodLoop`. That goroutine reads a channel of capacity 1.
  - `UpdatePod` decides the transition: Sync → Terminating → Terminated, with the grace period computed by `calculateEffectiveGracePeriod`.
  - It sends the work item when the worker is idle. When the worker is busy, it coalesces the item into `lastUndeliveredWorkUpdate` and cancels the running sync.
- **Worker loop.** The worker:
  1. admits static pods one per full name (`allowPodStart`);
  2. waits in `podCache.GetNewerThan` for a status newer than its last sync;
  3. calls one of the three sync functions of `PodFn`;
  4. reports back through `completeSync`, `completeTerminating`, `completeTerminatingRuntimePod`, `completeTerminated` or `completeWork`;
  5. takes the next coalesced item in `completeWorkQueueNext`.
- **Housekeeping.** `SyncKnownPods` purges finished workers.
- **Start-up.** `RunE` (`cmd/app/kubelet.go`) first runs `BootStrap` (`bootstrap.go`, `csr/csr.go`). Unless `./cert/kubelet.config` exists, it obtains a client certificate through a CertificateSigningRequest (CSR) that an administrator approves. It then registers the Node (`node/node.go`, `node/status.go`), starts the upstream lease controller and blocks in `SampleKubelet.Start`.
- **Phase.** `PodFn.generateAPIPodStatus` computes the pod phase with `getPhase`. It then merges that phase with the status manager's phase and the API server's.

## Modules

| Module | Models | Source |
|---|---|---|
| `PodWorkers` | podWorkers state (VARIABLES), `UpdatePod`, every step of `managePodLoop`, the complete* handlers, `SyncKnownPods`, the lock-protected queries, the status cache at its interface | `podworker.go`, the sync functions of `podfn.go` |
| `Kubelet` | extends `PodWorkers` with the event loop and its handlers, the OnAdd callback, and behind the constant `Callers` the callers the podWorkers API is written for but this repository does not wire (eviction kills, orphan kills, housekeeping, PLEG refresh, re-add of a static pod UID) | `kubelet.go`, `pod_handler.go`, `callbackFunc.go`, `context.go`, `podmanager.go` |
| `MC_Kubelet` | model values and definitions for the cfgs | |
| `PodPhase` | `getPhase` as a pure operator, the phase merge of `generateAPIPodStatus`, the phase computer of specification §4.3 as a reference, and an input variable ranging over every bounded pod | `podfn.go` |
| `PodLifecycle` | the abstract per-UID lifecycle the pod workers promise (none → syncing → terminating → terminated → finished, forgotten by housekeeping); `PodWorkers` refines it | specification §3–4 |
| `StatusConversion` | `convertToAPIContainerStatuses` for one container and `ShouldContainerBeRestarted`, over every bounded CRI input, classified with `PodPhase`'s container classes | `podfn.go`, `kubelet/container/helpers.go` |
| `CacheBasedManager` | reference counting of the secret/configmap object store: `RegisterPod`, `UnregisterPod`, `AddReference`, `DeleteReference` | `kubelet/util/manager/cache_based_manager.go` |
| `NodeStartup` | `RunE` up to the lease controller: `NeedRequestCSR`, key generation and save, CSR creation, the wait for approval, the certificate and kubeconfig writes, the test client, `NewForKubeletConfig`, `RegisterNode` with `setNodeStatus`; crashes, restarts and the administrator | `cmd/app/kubelet.go`, `bootstrap/bootstrap.go`, `bootstrap/csr/csr.go`, `util/common.go`, `common/client.go`, `node/node.go`, `node/status.go` |
| `MC_NodeStartup` | the symmetry set of keys | |

### Correspondence of PodWorkers

**State**
- `status[u]` is `podSyncStatuses[u]`, with these fields:
  - `working`;
  - `termReq` (terminatingAt set);
  - `startedTerm`;
  - `deleted`;
  - `evicted`;
  - `terminated` (terminatedAt set);
  - `finished`;
  - `restartReq`;
  - `grace`;
  - `ctx` (none, live or cancelled: the ctx/cancelFn pair);
  - `notify` (the CompletedCh channels).
- `podUpdates[u]` is the generation of the registered channel. `chans[g]` is each channel's buffer and closed flag.
- `undelivered` is `lastUndeliveredWorkUpdate`.
- `startedStatic` and `waitingStatic` are the static pod maps.
- `retryQueue` is the last `workQueue.Enqueue` delay.
- `wk[g]` holds the locals of each worker goroutine:
  - its program counter (recv, prestart, wait, running, returned);
  - the item;
  - the sync outcome;
  - `fresh`, meaning the cache has a status newer than `lastSyncTime`.
- `cache[u]` is the status cache content, abstracted to none, running or terminal.

**Operations.** `UpdatePod` is one atomic action: the code holds `podLock` for all of it. It is split into:
- `UpdatePodDispatch`: status creation, transition, grace, work kind, starting a worker, and send or coalesce with cancel;
- `UpdatePodDropped`: the early returns.

The worker loop is split at its lock and blocking points. Each part is one action:
- `Recv`;
- `PreStartAllowed`, `PreStartBlocked` and `PreStartNever`, the outcomes of `allowPodStart`;
- `Dispatch`: `GetNewerThan` returns, then `contextForWorker` and `acknowledgeTerminating`;
- `Return`: the sync function returns;
- one action per completion handler, each with the `completeWork` call that follows it;
- `QueueNext`.

The sync functions are modelled by their outcome. The set of outcomes is a constant, because the repository's `PodFn` always returns `(true, nil)` and ignores its context.

**Abstraction.** Pods are UIDs, and full names are model values. Grace periods range over a small set that contains 0, so that force delete is exercised. Container commands are a count.

**Refinement.** `PhaseOf(u)` maps a `podSyncStatus` to the abstract phase:
- no record → none;
- `finished` → finished;
- `terminated` → terminated;
- `termReq` → terminating;
- otherwise → syncing.

`Lifecycle == INSTANCE PodLifecycle WITH phase <- [u \in UIDs |-> PhaseOf(u)]`, and the api run checks `Lifecycle!Spec` as a property. The abstract spec allows skipping ahead only where the code does:
- a terminal pod with nothing running is finished at once (UpdatePod's fast path);
- an orphan or never-started static pod goes from terminating straight to finished (`completeTerminatingRuntimePod`, `completeUnstartedTerminated`);
- housekeeping forgets several finished UIDs in one `SyncKnownPods` pass.

### Correspondence of StatusConversion

The conversion works name by name, so one container is modelled. The input (`input`) holds:
- the pod's flags: restart policy, deletion timestamp set, has init containers, is an init container;
- the old API status or none;
- up to two runtime statuses with the name, in arrival order, each with state, exit code, restart count and creation time;
- whether the reason cache has an entry.

The result is built in the code's order:
1. `DefaultStatus`: the default waiting status, or the old one if it was terminated.
2. `InferDisappeared`: the 137 termination for a running container that vanished.
3. `ApplyRuntime`: `convertContainerStatus` on the newest status, with the second-newest as last termination (`NewestFirst` is the reverse insertion sort).
4. `ApplyReasonCache`: the reason-cache override.

The final sort only orders the list and is left out. Reasons are abstracted to the ones the code compares.

The inputs follow the CRI contract the code is written for. This repository's own cache writers (`status.go`) produce only Running and Exited, one status per ordinary container, and nothing fills the reason cache.

### Correspondence of CacheBasedManager

- `registeredPods[k]` is the set of object names the registered spec of pod key `k` references.
- `items[n]` is the `refCount` of the object's store item, or Nil when there is no item.
- Each operation runs under `cacheBasedManager.lock`, so each is one action.
- `Get` is a stub that returns nil, so cached data is left out.
- `NewCacheBasedManager` has no caller in the repository. The model checks the code as written.

### Correspondence of NodeStartup

- Files:
  - `keyFile`, `pemFile` and `config` are `./cert/kubelet.key`, `kubelet.pem` and `kubelet.config`.
  - A key or certificate is identified by its key: a model value of `Keys`, or `None`, or `Corrupt`.
  - `ecdsa.GenerateKey` picks a key no file, CSR or memory holds.
- Server objects:
  - `csr` is the CSR named after the node, with the key it was made from and its state. Its UID is identified with that key, since each attempt makes a fresh key.
  - `node` is the Node object: none, created, or with its status patched (`setNodeStatus` sets Ready True).
- `pc` is the step of `RunE` and `BootStrap`, and `mem` is what the process holds in memory.
- Errors:
  - Every error path of the code ends the process, through `RunE` returning or `klog.Fatal`. A transient API error is a nondeterministic alternative of the request.
  - `Restart` is the supervisor starting the process again.
  - `Crash` kills the process at any step. A file that `os.WriteFile` is writing is left as it was or corrupt.
- The administrator's `Approve`, `Deny` and `DeleteCsr` (or the CSR cleaner) act independently.
- The lease controller is the upstream one and is not modelled. `RegisterNode`'s patch body and the key material are abstracted.

### Correspondence of Kubelet

- `src[u]` is the pod as the config source last sent it: present or removed, the deletion timestamp, `DeletionGracePeriodSeconds`, and whether the phase is terminal.
- `loop` is the event loop goroutine: idle, inside OnAdd, or between `DeletePod` and `UpdatePod(Kill)` of REMOVE.
- Each event action takes a snapshot of `src[u]` into `UpdatePodOptions`.

## Runs

| Run | Cfg | Expect | What it shows |
|---|---|---|---|
| wired | `MC_Wired.cfg` | pass | As wired, with two pods and three config events: the mailbox never blocks, no sync after termination started, no resync of a terminated pod |
| api | `MC_Api.cfg` | pass | With every caller of the API and two worker generations: additionally at most one active worker per pod, static pods with one full name mutually exclusive, the lifecycle refinement, and, with a PLEG, every pod asked to terminate eventually finishes |
| phase | `MC_PodPhase.cfg` | pass | getPhase reports Succeeded/Failed only when the containers justify it; the published phase never leaves an upstream terminal phase |
| wired_liveness | `MC_WiredLiveness.cfg` | violation | A removed pod never finishes: `GetNewerThan` has no timeout |
| wired_grace | `MC_WiredGrace.cfg` | violation | The grace period of a terminating pod increases: a force delete raises the recorded grace, and a shorter deletion grace is lost behind completeSync's Terminating item |
| api_completed_ch | `MC_ApiCompletedCh.cfg` | violation | A CompletedCh given for a finished pod is never closed |
| static_order | `MC_StaticOrder.cfg` | violation | A blocked static pod later receives an older work item after a newer one |
| phase_spec | `MC_PodPhaseSpec.cfg` | violation | getPhase and specification §4.3 disagree on a waiting init container |
| cache_manager | `MC_CacheBasedManager.cfg` | pass | Reference counts always equal the number of registered pods referencing each object |
| status_conversion | `MC_StatusConversion.cfg` | pass | A running container that vanished, or whose newest status is Unknown, is never published as waiting to start (863,892 inputs) |
| static_retry | `MC_StaticRetry.cfg` | violation | A static pod refused by allowPodStart is never retried once its name is free |
| node_startup | `MC_NodeStartup.cfg` | pass | Through timeouts, refused CSRs, API errors, crashes with torn writes and restarts, a complete kubeconfig always names a certificate issued for the key on disk |

**Properties.**
- `MailboxNeverBlocks`: no send on a full channel, and no item in a channel that is not registered.
- `SingleActiveWorker`: no two goroutines of one UID past `Recv`.
- `NoSyncAfterTerminationStarted`: no Sync item runs once `ShouldPodContainersBeTerminating` holds.
- `ContainersStoppedOnceTerminated`: a terminated pod only gets Terminated work.
- `StaticPodsMutuallyExclusive`: two static pods of one full name never run together.
- `SucceededOnlyWhenAllExitedZero` and `FailedOnlyWhenNeverRestarted` are about `getPhase`. The phase merge of `generateAPIPodStatus` is modelled, but no property is stated about it: its terminal rule is the single guard at `podfn.go:410-416`, and a property would only restate it.
- `LifecycleRefined`: every behaviour of the pod workers, with every caller, is a behaviour of `PodLifecycle`.
- `RefCountMatchesPods`: the store has an item exactly for the objects some registered pod references, with that many references.
- `VanishedRunningNotPending`: the default status, the missing-container inference, the Unknown case of `convertContainerStatus` and the reason-cache override agree that a vanished running container counts as terminated for `getPhase`, not as waiting.
- `TerminationRequestedFinishes` (liveness, under the fairness below): a pod asked to terminate (deleted, evicted, an orphan, or found terminal) is eventually finished or forgotten. The request must survive coalescing in `lastUndeliveredWorkUpdate`, cancellation, static admission and every completion handler. In the api run a PLEG refreshes the cache, and terminating syncs succeed, as `PodFn.SyncTerminatingFn` and `SyncTerminatedFn` always return nil (`podfn.go:61-75`). A failed terminating sync would stay unretried, for the reason of finding 7.
- `GracePeriodNeverIncreases` (action property): the recorded grace of a terminating pod never increases, and `syncTerminatingPod` never gets a longer grace than the record. The code breaks both conjuncts (findings 2 and 3).
- `KubeconfigCredentialsMatch`: a complete kubeconfig names a certificate issued for the private key on disk. It must hold whichever attempts timed out, crashed or were refused before the kubeconfig was written. If it broke, `NeedRequestCSR` would skip bootstrap on every later start, and the node could never start again.
- `BlockedStaticPodRetried` (liveness, under the worker fairness below): a live static pod refused at admission does not stay unstarted while its name is free.

Every property of a passing run is broken by a mutant of the code it is about, listed in `PROJECT.json`. The mutants are:
- coalescing dropped;
- a worker started while one is idle;
- completeSync keeping the pending update;
- Terminating chosen before Terminated;
- the grace period left unclamped;
- static admission ignoring the started pod;
- the phase decision with an `any` in place of an `all`, or without its restart-policy guard;
- a Create resetting a terminating record in place instead of waiting for `SyncKnownPods` (breaks `LifecycleRefined`);
- `DeleteReference` keeping an item at count zero (breaks `RefCountMatchesPods`);
- the default-waiting test ignoring `PodInitializing` (breaks `VanishedRunningNotPending`);
- `completeWorkQueueNext` marking the worker idle and dropping the coalesced update (breaks `TerminationRequestedFinishes`);
- `CreateCSRCert` taking over an existing CSR of the node's name instead of failing with AlreadyExists, as a naive fix of the lock-out would (breaks `KubeconfigCredentialsMatch`). The old CSR's certificate is then written beside the new key.

**Bounds.**
- Two UIDs are enough for cross-pod interference: the event loop is shared, and static pods share a name.
- Three events per run allow add, delete, then remove or a second delete. With three, the wired run explores 266k states in about 10s; four take minutes.
- `MaxGen = 2` in the api run lets a UID get a second goroutine after its first exits. That is the interleaving `SingleActiveWorker` is about.
- The static_order run needs five config events to reach its trace.
- The api run takes `TermOutcomes = {ok}` (see `TerminationRequestedFinishes`); with the liveness check it takes about 2 minutes for 344k states.
- The static_retry run is the api configuration, except that terminating syncs may also fail. Three events (add u1, add u2, delete u1) are enough to reach the starved pod.
- CacheBasedManager uses three pod keys and two object names, so the same object is shared by two pods and a spec update can keep, add or drop a reference.
- StatusConversion allows at most two runtime statuses per name, which is what the code uses (`containerSeen < 2`). It takes creation times 1 and 2, so equal and out-of-order lists both occur, and restart counts 0..1.
- NodeStartup has five keys under symmetry. Keys are only compared for equality, and the run checks an invariant only, so symmetry is sound. At most four keys are in use at once (key file, certificate, CSR and the process's key), so a fresh key always exists. The state space is finite without a restart bound, since a restart only resets memory, and has 229 states.
- PodPhase enumerates every pod with at most one init container and one or two ordinary containers, over 8 distinguishable container statuses and every restart policy and upstream phase: 31,104 pods.

**Fairness.**
- Weak fairness on each worker goroutine's steps, on the second half of REMOVE, and on OnAdd. These are ordinary goroutines that the Go runtime schedules.
- Where a PLEG is a caller (the api and static_retry runs), weak fairness on its periodic relist of a pod whose worker waits in `GetNewerThan` (`PlegRefresh`): the upstream PLEG relists on a timer, which is what the comment at `podworker.go:878` relies on. The relist and the wake-up are one step; this is folded into the worker's fairness condition.
- Config events, PLEG state changes and the other unwired callers get no fairness. Nothing in the repository guarantees they happen. The wired run has no PLEG at all, and that is exactly what finding 1 turns on.

## Findings

1. **GetNewerThan has no timeout** (`podworker.go:888`). The specification bounds the wait at about 2s. Nothing refreshes the cache after OnAdd, so a removed pod's worker waits forever.
2. **A force delete increases the grace period** (`podworker.go:711-727`). A grace of 0 is adopted as shorter, then replaced by the spec default.
3. **A shorter grace is lost** (`podworker.go:1007`). The same run and property as finding 2. completeSync queues a Terminating item with the default grace. A later DELETE with a shorter grace is coalesced without preempting it. The trace the run reports is finding 2's, which is shorter. This one is reached alone by the same cfg with `GraceVals = {2}` (no force delete), checking the `DispatchedGraceHonoured` conjunct: TLC finds it violated after 3,897 states.
4. **CompletedCh left open** (`podworker.go:546`). It is left open on UpdatePod's early return for a finished pod, and in completeUnstartedTerminated and completeTerminatingRuntimePod.
5. **Stale coalesced item delivered late** (`podworker.go:759`). When allowPodStart refuses a static pod, `lastUndeliveredWorkUpdate` keeps its old item.
6. **getPhase differs from specification §4.3** (`podfn.go:477`). An init container waiting after an exit 0 counts as done in the code and as pending in the specification.
7. **A refused static pod is never retried** (`podworker.go:757`). `allowStaticPodStart` refuses it, the code calls `workQueue.Enqueue` and drops the item, and nothing reads `workQueue`. Once the pod ahead of it is deleted, the pod starts only if another update happens to arrive. The specification says it is requeued with backoff and retried.

## Latent disagreements (not reachable in this repository)

These come from `StatusConversion` over CRI inputs that this repository's runtime never produces. The first is recorded as a hazard. The second is not, because it needs a runtime that breaks the CRI's newest-first order. Neither has a run:
- **Stale last termination** (`podfn.go:237`). A running container with no runtime status whose old status already carries a `LastTerminationState.Terminated` keeps that stale termination, and its restart is not counted. Specification §4.4 says the restart count is incremented.
- **Arrival order versus creation order** (`helpers.go:58`). `ShouldContainerBeRestarted` reads the first status in arrival order, while the published state comes from the newest. With a cached reason, a container whose newest status is Running can be shown Waiting.

## Start-up lock-outs (hazards without a run)

`NodeStartup` reaches two states from which the node never starts again without an administrator:
- **A leftover CSR** (`csr.go:93`). A CSR from an attempt that timed out (`csr.go:105`, 60s against manual approval), was denied or crashed makes every later `Create` fail with AlreadyExists.
- **A torn kubeconfig** (`util/common.go:16`). `NeedRequestCSR` only tests that the file exists, so a kubeconfig cut short by a crash is never rewritten.

Neither is stated as a property. Only the administrator can clear them, and no fairness the code can claim makes that happen. `KubeconfigCredentialsMatch` checks the safety side instead: the obvious fix for the first lock-out would break it. No liveness property is stated for the start-up either. Every API request of `RunE` (Create, Get, Patch, ServerVersion) uses `context.Background()` with no client timeout. The model lets each one return or fail, so a claim that no step hangs would hold by construction.

## Not modelled, and the plan

- **`lease.go`**: `StartNode` has no caller, and `cmd/app/kubelet.go` uses the upstream lease controller. The file also calls `checkError`, which no file of package `csr` defines. `NodeStartup` models that package's CSR functions as written. Because nothing calls it, it is not listed as a hazard.
- **Rest of `helpers.go`**: env maps, port mappings, `FormatPod`, `ConvertPodStatusToRunningPod`, and the Windows/privileged checks. These only reshape data, or have no caller in the modelled paths.
- **`status.go`**: `SetPodTerminated` and `SetContainerRunning` have no caller. The other builders are modelled by the cache content they produce.
- **The retries of failed syncs** (`podworker.go:1142`): `PodFn` never fails in this repository. The missing `workQueue` reader is shown on the backoff path (finding 7), so there is no separate hazard for this line.
- **The HTTP config source** (`config/http.go`, `config/common.go`): `extractFromURL` returns nil without reading anything, and `NewSourceURL` has no caller. `applyDefaults` and `generatePodName` are reached only from that source. Pods enter through the informer callbacks, which `Kubelet` models.
- **`objectStore.Get`, `isObjectFresh`, `GetObjectTTLFromNodeFunc`, `NewObjectStore`** (`cache_based_manager.go`): `Get` is a stub that returns nil, and nothing calls the others. The TTL cache therefore holds no data. `CacheBasedManager` models the reference counts, which are the only state the code keeps.
- **`PodDeletionSafetyProviderStruct`** (`podfn.go:444-457`): both methods are `TODO` stubs returning true. They feed only the upstream status manager, which is not part of this repository.
- **Out of scope:**
  - the clients, the command line and options, the exec probe, `CmdRunner` and `ContainerCmd`, and `ExecPodCommands`: glue and process I/O, with no state of their own that a property could tell apart.
- **Below the model's level:** the data race of `SetContainerExit` on the cached status.
