-------------------------- MODULE CacheBasedManager --------------------------
(***************************************************************************)
(* cacheBasedManager and its objectStore                                   *)
(* (src/pkg/kubelet/util/manager/cache_based_manager.go): the store keeps  *)
(* one item per referenced object (secret or configmap) with a count of    *)
(* the registered pods that reference it; RegisterPod and UnregisterPod    *)
(* keep the counts in step with the pods.                                  *)
(*                                                                         *)
(* A pod is a key (namespace, name, UID); getReferencedObjects of a pod    *)
(* is the set of object names its current spec references.  Both          *)
(* operations run under cacheBasedManager.lock, so each is one step.       *)
(* Get is a stub returning nothing, so the cached data, which AddReference *)
(* invalidates, is not modelled.                                           *)
(***************************************************************************)
EXTENDS Naturals, FiniteSets

CONSTANTS
  PodKeys,     \* objectKey of each pod
  ObjNames,    \* names of objects pods may reference
  Nil

VARIABLES
  registeredPods,  \* pod key -> referenced names of the registered spec, or Nil
  items            \* object name -> refCount of its objectStoreItem, or Nil

vars == <<registeredPods, items>>

Init ==
  /\ registeredPods = [k \in PodKeys |-> Nil]
  /\ items = [n \in ObjNames |-> Nil]

\* AddReference for each name: create the item with count 0 if missing,
\* then count one more reference
AddReferences(its, names) ==
  [n \in ObjNames |-> IF n \notin names THEN its[n]
                      ELSE IF its[n] = Nil THEN 1 ELSE its[n] + 1]

\* (mutant) an item whose count drops to zero is kept
DeleteReferencesKeepZero(its, names) ==
  [n \in ObjNames |-> IF n \in names /\ its[n] # Nil THEN its[n] - 1 ELSE its[n]]

\* DeleteReference for each name: count one reference less, and delete the
\* item once nobody references it; a missing item is left alone
DeleteReferences(its, names) ==
  [n \in ObjNames |-> IF n \notin names \/ its[n] = Nil THEN its[n]
                      ELSE IF its[n] - 1 = 0 THEN Nil ELSE its[n] - 1]

\* (mutant) an update does not release the references of the previous spec
RegisterPodKeepPrev(k, names) ==
  /\ registeredPods' = [registeredPods EXCEPT ![k] = names]
  /\ items' = AddReferences(items, names)

\* RegisterPod: reference the new spec's objects, record the pod, then
\* release the objects of the spec it replaces
RegisterPod(k, names) ==
  LET prev == registeredPods[k]
      added == AddReferences(items, names)
  IN /\ registeredPods' = [registeredPods EXCEPT ![k] = names]
     /\ items' = IF prev = Nil THEN added ELSE DeleteReferences(added, prev)

\* UnregisterPod: forget the pod and release the objects it referenced
UnregisterPod(k) ==
  LET prev == registeredPods[k] IN
  /\ registeredPods' = [registeredPods EXCEPT ![k] = Nil]
  /\ items' = IF prev = Nil THEN items ELSE DeleteReferences(items, prev)

Next ==
  \E k \in PodKeys :
    \/ \E names \in SUBSET ObjNames : RegisterPod(k, names)
    \/ UnregisterPod(k)

Spec == Init /\ [][Next]_vars

-----------------------------------------------------------------------------
(* Properties                                                              *)

\* the registered pods whose spec references object n
Referrers(n) == {k \in PodKeys : registeredPods[k] # Nil /\ n \in registeredPods[k]}

TypeOK ==
  /\ registeredPods \in [PodKeys -> SUBSET ObjNames \cup {Nil}]
  /\ items \in [ObjNames -> Nat \cup {Nil}]

\* Whatever sequence of registrations, spec updates and unregistrations the
\* pods go through, the store holds an item for exactly the objects some
\* registered pod references, and its refCount is the number of those
\* pods: no object is dropped while a pod still needs it, and none is kept
\* (with a count of zero or more) after the last pod let it go.
RefCountMatchesPods ==
  \A n \in ObjNames :
    IF Referrers(n) = {} THEN items[n] = Nil ELSE items[n] = Cardinality(Referrers(n))

====
