------------------------------ MODULE Operator ------------------------------
(***************************************************************************)
(* pkg/k8s/operator/controller.go and pkg/k8s/resources: the controller    *)
(* that keeps a ConfigMap, a StatefulSet and a Service in step with one    *)
(* TailpostAgent resource.  It reads through a cache that lags behind the  *)
(* API server; a write of a stale copy is refused (resourceVersion); calls *)
(* fail, or take effect and lose their response; users edit the resource   *)
(* and others touch the children meanwhile; the operator restarts.  There  *)
(* is one Reconcile at a time (MaxConcurrentReconciles: 1).                *)
(*                                                                         *)
(* A spec has three parts: "pod" is what StatefulSetNeedsUpdate compares   *)
(* (image, replicas, resources), "account" what else goes into the pod     *)
(* (service account, pull policy), "conf" what goes into the ConfigMap.    *)
(***************************************************************************)
EXTENDS Integers, FiniteSets

CONSTANTS
  Absent,      \* an object that does not exist
  Values,      \* what a user may set a part of the spec to
  Manifests,   \* the specs the resource may be created with
  Orders,      \* the orders in which yaml() may walk its map
  MaxChanges,  \* changes by users, other controllers and kubelets
  MaxErrors    \* failed calls and restarts

Unset == "unset"
Default == "default"
Parts == {"pod", "account", "conf"}
Children == {"cm", "ss", "svc"}
Kinds == Children \cup {"cr"}

VARIABLES
  objs,       \* the API server: an object or Absent for each kind
  cache,      \* the controller's copies of them
  stale,      \* the kinds whose copy in the cache is out of date
  pc,         \* the step Reconcile is at
  inst,       \* the instance Reconcile works on
  instStale,  \* its resourceVersion is out of date
  why,        \* the step that failed, for the Degraded condition
  changes,    \* changes made by others so far
  errs        \* errors so far

vars == <<objs, cache, stale, pc, inst, instStale, why, changes, errs>>

NoReason == "none"
Reasons == Children \cup {NoReason}

\* The objects: the parts of a spec as they are set, and of each kind what the
\* controller looks at.
Settings == Values \cup {Unset, Default}
Resources == [spec : [Parts -> Settings], degraded : Reasons, available : BOOLEAN, ready : BOOLEAN]
ConfigMaps == [conf : Settings, order : Orders]
StatefulSets == [pod : Settings, account : Settings, ready : BOOLEAN]
Services == [asDesired : BOOLEAN]

ASSUME OperatorAssumption ==
  /\ Manifests \subseteq [Parts -> Settings]
  /\ Absent \notin Resources \cup ConfigMaps \cup StatefulSets \cup Services
  /\ MaxChanges \in Nat /\ MaxErrors \in Nat

Init ==
  /\ \E s \in Manifests :
        objs = [k \in Kinds |->
                  IF k = "cr" THEN [spec |-> s, degraded |-> NoReason,
                                    available |-> FALSE, ready |-> FALSE]
                              ELSE Absent]
  /\ cache = [k \in Kinds |-> Absent]
  /\ stale = {"cr"}
  /\ pc = "idle"
  /\ inst = Absent
  /\ instStale = FALSE
  /\ why = NoReason
  /\ changes = 0
  /\ errs = 0

-----------------------------------------------------------------------------
\* The API server, as the controller meets it.

\* Reconcile returns, with or without an error; it is called again by a watch
\* event, the backoff after an error, or RequeueAfter.
Return ==
  /\ pc' = "idle"
  /\ inst' = Absent
  /\ instStale' = FALSE
  /\ why' = NoReason

Error == errs < MaxErrors /\ errs' = errs + 1

\* A call that writes object k with value v, refused on a conflict.  Its
\* response is back (ok), or it fails before or after the write.
Written(k, v) ==
  /\ objs' = [objs EXCEPT ![k] = v]
  /\ stale' = stale \cup {k}

\* Mutant: the resourceVersion is not sent with the update.
MWriteOk(k, v, conflict) == Written(k, v) /\ UNCHANGED errs

WriteOk(k, v, conflict) == ~conflict /\ Written(k, v) /\ UNCHANGED errs

WriteLost(k, v, conflict) == ~conflict /\ Written(k, v) /\ Error

WriteFails(conflict) ==
  /\ \/ conflict /\ UNCHANGED errs
     \/ ~conflict /\ Error
  /\ UNCHANGED <<objs, stale>>

-----------------------------------------------------------------------------
\* r.Get of the instance; a resource that is not found ends the call.
Get ==
  /\ pc = "idle"
  /\ cache["cr"] # Absent
  /\ inst' = cache["cr"]
  /\ instStale' = ("cr" \in stale)
  /\ pc' = "defaults"
  /\ UNCHANGED <<objs, cache, stale, why, changes, errs>>

WithDefaults(spec) == [p \in Parts |-> IF spec[p] = Unset THEN Default ELSE spec[p]]

\* setDefaults writes the instance back if a default was missing; an error
\* ends the call.
SetDefaults ==
  LET new == [inst EXCEPT !.spec = WithDefaults(@)]
  IN  /\ pc = "defaults"
      /\ \/ /\ new = inst
            /\ pc' = "cm"
            /\ UNCHANGED <<objs, stale, inst, instStale, why, errs>>
         \/ /\ new # inst
            /\ WriteOk("cr", new, instStale)
            /\ inst' = new
            /\ pc' = "cm"
            /\ UNCHANGED <<instStale, why>>
         \/ /\ new # inst
            /\ WriteLost("cr", new, instStale) \/ WriteFails(instStale)
            /\ Return
      /\ UNCHANGED <<cache, changes>>

\* Get of child k, Create if it is missing, Update if needed; the failure of
\* any of them is reported in the Degraded condition.
ReconcileChild(k, want, needsUpdate, next) ==
  LET missing == cache[k] = Absent
      write == missing \/ needsUpdate
      conflict == IF missing THEN objs[k] # Absent ELSE k \in stale
      failed == pc' = "degrade" /\ why' = k
  IN  /\ pc = k
      /\ \/ /\ ~write
            /\ pc' = next
            /\ UNCHANGED <<objs, stale, why, errs>>
         \/ /\ write
            /\ WriteOk(k, want, conflict)
            /\ pc' = next
            /\ UNCHANGED why
         \/ /\ write
            /\ WriteLost(k, want, conflict)
            /\ failed
         \/ /\ WriteFails(write /\ conflict)
            /\ failed
      /\ UNCHANGED <<cache, inst, instStale, changes>>

\* yaml() walks a Go map, whose order is a new one each time, and
\* ConfigMapNeedsUpdate compares the text.
CreateConfigMap(order) == [conf |-> inst.spec["conf"], order |-> order]

ConfigMapNeedsUpdate(want) == cache["cm"] # Absent /\ cache["cm"] # want

ReconcileConfigMap ==
  \E order \in Orders :
     ReconcileChild("cm", CreateConfigMap(order),
                    ConfigMapNeedsUpdate(CreateConfigMap(order)), "ss")

\* found.Spec = statefulSet.Spec; the status (ready) is not part of it.
CreateStatefulSet ==
  [pod |-> inst.spec["pod"], account |-> inst.spec["account"],
   ready |-> cache["ss"] # Absent /\ cache["ss"].ready]

StatefulSetNeedsUpdate == cache["ss"] # Absent /\ cache["ss"].pod # inst.spec["pod"]

\* Mutants: the StatefulSet is only created, never updated; and an error is
\* logged and passed over.
MReconcileStatefulSet == ReconcileChild("ss", CreateStatefulSet, FALSE, "svc")

MGoOnToService ==
  /\ pc = "ss"
  /\ \/ ReconcileChild("ss", CreateStatefulSet, StatefulSetNeedsUpdate, "svc")
     \/ /\ pc' = "svc"
        /\ Error
        /\ UNCHANGED <<objs, cache, stale, inst, instStale, why, changes>>

ReconcileStatefulSet ==
  ReconcileChild("ss", CreateStatefulSet, StatefulSetNeedsUpdate, "svc")

\* The selector and the ports are the desired ones, or somebody changed them.
CreateService == [asDesired |-> TRUE]

ServiceNeedsUpdate == cache["svc"] # Absent /\ cache["svc"] # CreateService

ReconcileService == ReconcileChild("svc", CreateService, ServiceNeedsUpdate, "status")

\* Reconcile goes on to the next step, or returns.
GoOn(step, new, isStale) ==
  \/ /\ step = "return"
     /\ Return
  \/ /\ step # "return"
     /\ pc' = step
     /\ inst' = new
     /\ instStale' = isStale
     /\ UNCHANGED why

\* r.Status().Update of the instance as changed in memory; after a lost
\* response the instance has the old resourceVersion.
StatusUpdate(new, ok, failed) ==
  /\ \/ /\ WriteOk("cr", new, instStale)
        /\ GoOn(ok, new, instStale)
     \/ /\ WriteLost("cr", new, instStale)
        /\ GoOn(failed, new, TRUE)
     \/ /\ WriteFails(instStale)
        /\ GoOn(failed, new, instStale)
  /\ UNCHANGED <<cache, changes>>

\* updateStatus: the ready replicas of the cached StatefulSet
UpdateStatus ==
  /\ pc = "status"
  /\ StatusUpdate([inst EXCEPT !.ready = cache["ss"] # Absent /\ cache["ss"].ready],
                  "available", "return")

\* setCondition(Available); an error is only logged.
SetAvailable ==
  /\ pc = "available"
  /\ StatusUpdate([inst EXCEPT !.available = TRUE], "undegrade", "undegrade")

\* Mutant: the condition is removed in memory, and the status is not written.
MRemoveDegraded == pc = "undegrade" /\ Return /\ UNCHANGED <<objs, cache, stale, changes, errs>>

\* removeCondition(Degraded), where there is one
RemoveDegraded ==
  /\ pc = "undegrade"
  /\ \/ /\ inst.degraded # NoReason
        /\ StatusUpdate([inst EXCEPT !.degraded = NoReason], "return", "return")
     \/ /\ inst.degraded = NoReason
        /\ Return
        /\ UNCHANGED <<objs, cache, stale, changes, errs>>

\* setCondition(Degraded); the reason of a condition that is already True is
\* not replaced.
SetDegraded ==
  /\ pc = "degrade"
  /\ StatusUpdate([inst EXCEPT !.degraded = IF @ = NoReason THEN why ELSE @],
                  "return", "return")

Reconcile ==
  \/ Get
  \/ SetDefaults
  \/ ReconcileConfigMap
  \/ ReconcileStatefulSet
  \/ ReconcileService
  \/ UpdateStatus
  \/ SetAvailable
  \/ RemoveDegraded
  \/ SetDegraded

-----------------------------------------------------------------------------
\* The rest of the cluster.

\* A watch event brings the cache up to date.
Sync(k) ==
  /\ k \in stale
  /\ cache' = [cache EXCEPT ![k] = objs[k]]
  /\ stale' = stale \ {k}
  /\ UNCHANGED <<objs, pc, inst, instStale, why, changes, errs>>

\* The operator is restarted; its cache is filled before it reconciles.
Restart ==
  /\ Error
  /\ Return
  /\ cache' = objs
  /\ stale' = {}
  /\ UNCHANGED <<objs, changes>>

\* Somebody else writes object k.
Changed(k, v) ==
  /\ changes < MaxChanges
  /\ changes' = changes + 1
  /\ Written(k, v)
  /\ instStale' = (instStale \/ (k = "cr" /\ inst # Absent))
  /\ UNCHANGED <<cache, pc, inst, why, errs>>

UserEdits ==
  /\ objs["cr"] # Absent
  /\ \E p \in Parts, v \in Values \cup {Unset} :
        Changed("cr", [objs["cr"] EXCEPT !.spec[p] = v])

Deleted == \E k \in Kinds : objs[k] # Absent /\ Changed(k, Absent)

\* A child is edited behind the operator's back; pods become ready or not.
ChildEdited ==
  \/ /\ objs["cm"] # Absent
     /\ \E v \in Values : Changed("cm", [objs["cm"] EXCEPT !.conf = v])
  \/ /\ objs["ss"] # Absent
     /\ \E v \in Values : Changed("ss", [objs["ss"] EXCEPT !.pod = v])
  \/ /\ objs["svc"] # Absent
     /\ Changed("svc", [asDesired |-> FALSE])

PodsChange ==
  /\ objs["ss"] # Absent
  /\ Changed("ss", [objs["ss"] EXCEPT !.ready = ~@])

\* The garbage collector: children go with their owner (the controller
\* reference the operator sets).
Collect(k) ==
  /\ objs["cr"] = Absent
  /\ objs[k] # Absent
  /\ Written(k, Absent)
  /\ UNCHANGED <<cache, pc, inst, instStale, why, changes, errs>>

Cluster ==
  \/ \E k \in Kinds : Sync(k)
  \/ Restart
  \/ UserEdits
  \/ Deleted
  \/ ChildEdited
  \/ PodsChange
  \/ \E k \in Children : Collect(k)

Next == Reconcile \/ Cluster

Spec == Init /\ [][Next]_vars

\* Reconcile is called again and again and runs to its end, watches deliver,
\* and the garbage collector works.
Fairness ==
  /\ WF_vars(Reconcile)
  /\ \A k \in Kinds : WF_vars(Sync(k))
  /\ \A k \in Children : WF_vars(Collect(k))

FairSpec == Spec /\ Fairness

-----------------------------------------------------------------------------
\* The operator never overwrites what a user set, also when the edit falls
\* between its Get and its Update: it only fills parts that are unset.
UserSpecPreserved ==
  [][objs["cr"] # Absent /\ objs'["cr"] # Absent /\ changes' = changes =>
       \A p \in Parts : objs["cr"].spec[p] # Unset =>
                          objs'["cr"].spec[p] = objs["cr"].spec[p]]_vars

\* The resource is first reported available when its three children have
\* been created, whatever calls failed or were lost on the way.
AvailableAfterChildren ==
  changes = 0 /\ objs["cr"].available => \A k \in Children : objs[k] # Absent

\* What the children should look like for the spec of the resource, in all
\* that the operator compares.
InStep ==
  IF objs["cr"] = Absent
  THEN \A k \in Children : objs[k] = Absent
  ELSE /\ \A k \in Children : objs[k] # Absent
       /\ \A p \in Parts : objs["cr"].spec[p] # Unset
       /\ objs["cm"].conf = objs["cr"].spec["conf"]
       /\ objs["ss"].pod = objs["cr"].spec["pod"]
       /\ objs["svc"].asDesired

\* Once edits and errors stop, the defaults are filled in and the children
\* come into step with the resource and stay there, although the ConfigMap
\* is rewritten with every new order of yaml() and each rewrite can make the
\* next Reconcile fail on its stale copy, so that the Degraded condition may
\* come and go for ever.
ChildrenConverge == <>[]InStep

\* Where yaml() happens to leave the ConfigMap alone from some time on, the
\* conditions come to say so: Available is set and Degraded, which a failed
\* child or a logged and forgotten status write may have left behind, is
\* removed, although every Reconcile writes the status and so makes the copy
\* the next one reads out of date.
ConditionsSettle ==
  <>[][objs'["cm"] = objs["cm"]]_vars =>
     <>[](objs["cr"] # Absent => objs["cr"].available /\ objs["cr"].degraded = NoReason)

\* "Update StatefulSet if needed": the pods come to run with the service
\* account and the pull policy of the resource.
AccountConverges ==
  <>[](objs["cr"] # Absent =>
         objs["ss"] # Absent /\ objs["ss"].account = objs["cr"].spec["account"])
=============================================================================
