------------------------------ MODULE MC_Kubelet ------------------------------
(* Model-checking instances of Kubelet: constant values that TLC cannot    *)
(* take from a .cfg file directly.                                         *)
EXTENDS Kubelet, TLC

CONSTANTS u1, u2, u3, c1

\* two pods with distinct names (config pods from the apiserver)
MCNamesDistinct == [u \in UIDs |-> IF u = u1 THEN "ns/a" ELSE IF u = u2 THEN "ns/b" ELSE "ns/c"]

\* static pods that share one full name (a manifest re-created with a new UID)
MCNamesShared == [u \in UIDs |-> "kube-system/etcd-node"]

\* the wired system: only the apiserver source, no eviction, no orphans
MCCallersWired == {}

\* every caller of the podWorkers API
MCCallersAll == {"evict", "orphan", "housekeeping", "pleg", "readd"}
=============================================================================
