--------------------------- MODULE OperatorProofs ---------------------------
(***************************************************************************)
(* The safety properties of the controller, for any specs and edits, any   *)
(* number of changes by others, of failed calls and of restarts.           *)
(***************************************************************************)
EXTENDS Operator, TLAPS

Objects == Resources \cup ConfigMaps \cup StatefulSets \cup Services \cup {Absent}

ObjectsOf(k) ==
  {Absent} \cup CASE k = "cr" -> Resources
                  [] k = "cm" -> ConfigMaps
                  [] k = "ss" -> StatefulSets
                  [] k = "svc" -> Services

Stores == {f \in [Kinds -> Objects] : \A k \in Kinds : f[k] \in ObjectsOf(k)}

Steps == {"defaults", "cm", "ss", "svc", "status", "available", "undegrade", "degrade"}

Types ==
  /\ objs \in Stores /\ cache \in Stores
  /\ stale \subseteq Kinds
  /\ pc \in Steps \cup {"idle"}
  /\ inst \in Resources \cup {Absent}
  /\ instStale \in BOOLEAN
  /\ why \in Reasons
  /\ changes \in Nat /\ errs \in Nat
  /\ inst = Absent <=> pc = "idle"

\* What is not marked as out of date is up to date: the copies of the cache,
\* and the spec of the instance Reconcile works on.
UpToDate ==
  /\ \A k \in Kinds \ stale : cache[k] = objs[k]
  /\ inst # Absent /\ ~instStale => objs["cr"] # Absent /\ inst.spec = objs["cr"].spec

AllChildren == \A k \in Children : objs[k] # Absent

\* As long as nobody else changes anything: nothing that was seen has gone,
\* Reconcile has made the children it has passed, and a copy of the resource,
\* however old, says that it is available only if all of them are there.
Undisturbed ==
  /\ objs["cr"] # Absent
  /\ \A k \in Children : cache[k] # Absent => objs[k] # Absent
  /\ pc \in {"ss", "svc"} => objs["cm"] # Absent
  /\ pc = "svc" => objs["ss"] # Absent
  /\ pc \in {"status", "available", "undegrade"} => AllChildren
  /\ \A r \in {objs["cr"], cache["cr"], inst} : r # Absent /\ r.available => AllChildren

\* The inductive invariant.
IInv ==
  /\ Types
  /\ UpToDate
  /\ changes = 0 => Undisturbed

-----------------------------------------------------------------------------
\* The API server and the cache.

\* The objects of each kind, and that Absent is none of them.
LEMMA Kinded ==
  /\ ObjectsOf("cr") = {Absent} \cup Resources /\ Absent \notin Resources
  /\ ObjectsOf("cm") = {Absent} \cup ConfigMaps /\ Absent \notin ConfigMaps
  /\ ObjectsOf("ss") = {Absent} \cup StatefulSets /\ Absent \notin StatefulSets
  /\ ObjectsOf("svc") = {Absent} \cup Services /\ Absent \notin Services
  /\ \A k \in Kinds : ObjectsOf(k) \subseteq Objects
<1>1. /\ ObjectsOf("cr") = {Absent} \cup Resources
      /\ ObjectsOf("cm") = {Absent} \cup ConfigMaps
      /\ ObjectsOf("ss") = {Absent} \cup StatefulSets
      /\ ObjectsOf("svc") = {Absent} \cup Services
  BY DEF ObjectsOf
<1>2. Absent \notin Resources \cup ConfigMaps \cup StatefulSets \cup Services
  BY OperatorAssumption
<1>3. \A k \in Kinds : k \in {"cr", "cm", "ss", "svc"}
  BY DEF Kinds, Children
<1> QED
  BY <1>1, <1>2, <1>3 DEF Objects

\* A write of an object of the right kind, and what it leaves alone.
LEMMA Write ==
  ASSUME Types, NEW k \in Kinds, NEW v \in ObjectsOf(k), Written(k, v)
  PROVE  /\ objs' \in Stores /\ objs'[k] = v
         /\ \A j \in Kinds \ {k} : objs'[j] = objs[j]
         /\ stale' = stale \cup {k} /\ stale' \subseteq Kinds
<1>1. objs \in [Kinds -> Objects] /\ v \in Objects
  BY Kinded DEF Types, Stores
<1> QED
  BY <1>1 DEF Types, Stores, Written

\* A write of the resource by Reconcile, with an instance that is up to date,
\* or the failure of one; Reconcile goes on, or returns.
LEMMA ResourceWrite ==
  ASSUME IInv, inst # Absent, NEW new \in Resources,
         \/ ~instStale /\ Written("cr", new)
         \/ UNCHANGED <<objs, stale>>,
         \/ Return
         \/ /\ pc' \in Steps /\ inst' = new /\ why' = why /\ instStale' \in BOOLEAN
            /\ ~instStale' => ~instStale /\ new.spec = objs'["cr"].spec
            /\ changes = 0 => pc' = "cm" \/ (pc' \in {"available", "undegrade"} /\ AllChildren),
         changes = 0 /\ new.available => AllChildren,
         UNCHANGED <<cache, changes>>, errs' \in Nat
  PROVE  IInv'
<1>1. /\ new # Absent /\ new \in ObjectsOf("cr") /\ "cr" \in Kinds
      /\ Children \subseteq Kinds /\ "cr" \notin Children
  BY Kinded DEF Kinds, Children
<1>2. /\ objs' \in Stores /\ \A k \in Children : objs'[k] = objs[k]
      /\ stale \subseteq stale' /\ stale' \subseteq Kinds
      /\ objs'["cr"] = objs["cr"] \/ objs'["cr"] = new
      /\ \A k \in Kinds \ stale' : objs'[k] = objs[k]
      /\ ~instStale => objs'["cr"] # Absent
  <2>1. CASE ~instStale /\ Written("cr", new)
    BY <1>1, <2>1, Write DEF IInv
  <2>2. CASE UNCHANGED <<objs, stale>>
    BY <2>2 DEF IInv, Types, UpToDate
  <2> QED
    BY <2>1, <2>2
<1>3. Types'
  <2>1. CASE Return
    BY <1>2, <2>1, Zenon DEF IInv, Types, Return, Reasons
  <2>2. CASE pc' \in Steps /\ inst' = new /\ why' = why /\ instStale' \in BOOLEAN
    BY <1>1, <1>2, <2>2 DEF IInv, Types, Steps
  <2> QED
    BY <2>1, <2>2
<1>4. UpToDate'
  <2>1. \A k \in Kinds \ stale' : cache'[k] = objs'[k]
    BY <1>2 DEF IInv, UpToDate
  <2>2. inst' # Absent /\ ~instStale' => objs'["cr"] # Absent /\ inst'.spec = objs'["cr"].spec
    BY <1>2 DEF Return
  <2> QED
    BY <2>1, <2>2 DEF UpToDate
<1>5. ASSUME changes' = 0 PROVE Undisturbed'
  <2>1. Undisturbed /\ changes = 0 /\ UNCHANGED cache
    BY <1>5 DEF IInv
  <2>2. AllChildren' <=> AllChildren
    BY <1>2 DEF AllChildren
  <2>3. objs'["cr"] # Absent
    BY <1>1, <1>2, <2>1 DEF Undisturbed
  <2>4. \A k \in Children : cache'[k] # Absent => objs'[k] # Absent
    BY <1>2, <2>1 DEF Undisturbed
  <2>5. /\ pc' \notin {"ss", "svc", "status"}
        /\ pc' \in {"available", "undegrade"} => AllChildren'
    BY <2>1, <2>2 DEF Return
  <2>6. inst' = new \/ inst' = Absent
    BY DEF Return
  <2>7. \A r \in {objs'["cr"], cache'["cr"], inst'} : r # Absent /\ r.available => AllChildren'
    BY <1>2, <2>1, <2>2, <2>6 DEF Undisturbed
  <2> QED
    BY <2>3, <2>4, <2>5, <2>7 DEF Undisturbed
<1> QED
  BY <1>3, <1>4, <1>5 DEF IInv

\* A step of ReconcileConfigMap, ReconcileStatefulSet or ReconcileService:
\* what it writes, if it writes, and when it goes on.
LEMMA ChildWrite ==
  ASSUME IInv, NEW k \in Children, pc = k,
         NEW want \in ObjectsOf(k), want # Absent,
         NEW next, <<k, next>> \in {<<"cm", "ss">>, <<"ss", "svc">>, <<"svc", "status">>},
         Written(k, want) \/ UNCHANGED <<objs, stale>>,
         \/ pc' = next /\ why' = why /\ (cache[k] # Absent \/ Written(k, want))
         \/ pc' = "degrade" /\ why' = k,
         UNCHANGED <<cache, inst, instStale, changes>>, errs' \in Nat
  PROVE  IInv' /\ objs'["cr"] = objs["cr"]
<1>1. k \in Kinds /\ "cr" \in Kinds /\ Children \subseteq Kinds /\ "cr" # k
  BY DEF Kinds, Children
<1>2. /\ objs' \in Stores /\ stale \subseteq stale' /\ stale' \subseteq Kinds
      /\ \A j \in Kinds \ {k} : objs'[j] = objs[j]
      /\ \A j \in Kinds \ stale' : objs'[j] = objs[j]
      /\ objs[k] # Absent => objs'[k] # Absent
      /\ Written(k, want) => objs'[k] # Absent
  <2>1. CASE Written(k, want)
    BY <1>1, <2>1, Write DEF IInv
  <2>2. CASE UNCHANGED <<objs, stale>> /\ ~Written(k, want)
    BY <2>2 DEF IInv, Types
  <2> QED
    BY <2>1, <2>2
<1>3. objs'["cr"] = objs["cr"]
  BY <1>1, <1>2
<1>4. Types'
  BY <1>2 DEF IInv, Types, Steps, Reasons, Children
<1>5. UpToDate'
  BY <1>2, <1>3 DEF IInv, UpToDate
<1>6. ASSUME changes' = 0 PROVE Undisturbed'
  <2>1. Undisturbed
    BY <1>6 DEF IInv
  <2>2. \A j \in Children : objs[j] # Absent => objs'[j] # Absent
    BY <1>1, <1>2
  <2>3. AllChildren => AllChildren'
    BY <2>2 DEF AllChildren
  <2>4. pc' = next => objs'[k] # Absent
    BY <1>2, <2>1, <2>2 DEF Undisturbed, Children
  <2>5. /\ pc' \in {"ss", "svc"} => objs'["cm"] # Absent
        /\ pc' = "svc" => objs'["ss"] # Absent
        /\ pc' \in {"status", "available", "undegrade"} => AllChildren'
    <3>1. CASE pc' = "degrade"
      BY <3>1
    <3>2. CASE pc' = next
      BY <2>1, <2>2, <2>4, <3>2 DEF Undisturbed, Children, AllChildren
    <3> QED
      BY <3>1, <3>2
  <2>6. \A j \in Children : cache'[j] # Absent => objs'[j] # Absent
    BY <2>1, <2>2 DEF Undisturbed
  <2>7. \A r \in {objs'["cr"], cache'["cr"], inst'} : r # Absent /\ r.available => AllChildren'
    BY <1>3, <2>1, <2>3 DEF Undisturbed
  <2> QED
    BY <1>3, <2>1, <2>5, <2>6, <2>7 DEF Undisturbed
<1> QED
  BY <1>3, <1>4, <1>5, <1>6 DEF IInv

-----------------------------------------------------------------------------
\* What a step of the operator may do to the spec of the resource.
SpecKept ==
  objs["cr"] # Absent /\ objs'["cr"] # Absent /\ changes' = changes =>
    \A p \in Parts : objs["cr"].spec[p] # Unset => objs'["cr"].spec[p] = objs["cr"].spec[p]

\* r.Status().Update keeps the spec.
LEMMA StatusUpdateStep ==
  ASSUME IInv, inst # Absent, NEW new \in Resources, new.spec = inst.spec,
         NEW ok \in {"available", "undegrade", "return"}, NEW failed \in {"undegrade", "return"},
         StatusUpdate(new, ok, failed),
         changes = 0 /\ (ok # "return" \/ new.available) => AllChildren,
         failed = "undegrade" => ok = "undegrade"
  PROVE  IInv' /\ SpecKept
<1>1. UNCHANGED <<cache, changes>> /\ errs' \in Nat
  <2>1. UNCHANGED <<cache, changes>>
    BY DEF StatusUpdate
  <2>2. errs' = errs \/ errs' = errs + 1
    BY Zenon DEF StatusUpdate, WriteOk, WriteLost, WriteFails, Error
  <2> QED
    BY <2>1, <2>2 DEF IInv, Types
<1>2. \/ ~instStale /\ Written("cr", new)
      \/ UNCHANGED <<objs, stale>>
  BY Zenon DEF StatusUpdate, WriteOk, WriteLost, WriteFails
<1>3. ~instStale => objs'["cr"] # Absent /\ new.spec = objs'["cr"].spec
  <2>1. "cr" \in Kinds /\ new \in ObjectsOf("cr") /\ new # Absent
    BY Kinded DEF Kinds
  <2> QED
    BY <1>2, <2>1, Write DEF IInv, UpToDate
<1>4. \/ Return
      \/ /\ pc' \in {ok, failed} \ {"return"} /\ inst' = new /\ why' = why
         /\ instStale' = instStale \/ instStale' = TRUE
  BY DEF StatusUpdate, GoOn
<1>5. IInv'
  <2>1. \/ Return
        \/ /\ pc' \in Steps /\ inst' = new /\ why' = why /\ instStale' \in BOOLEAN
           /\ ~instStale' => ~instStale /\ new.spec = objs'["cr"].spec
           /\ changes = 0 => pc' = "cm" \/ (pc' \in {"available", "undegrade"} /\ AllChildren)
    <3>1. CASE Return
      BY <3>1
    <3>2. CASE /\ pc' \in {ok, failed} \ {"return"} /\ inst' = new /\ why' = why
               /\ instStale' = instStale \/ instStale' = TRUE
      <4>1. instStale' \in BOOLEAN /\ (~instStale' => ~instStale)
        <5>1. instStale \in BOOLEAN
          BY DEF IInv, Types
        <5>2. CASE instStale' = instStale
          BY <5>1, <5>2
        <5>3. CASE instStale' = TRUE
          BY <5>3
        <5> QED
          BY <3>2, <5>2, <5>3, Zenon
      <4>2. pc' \in {"available", "undegrade"} /\ (changes = 0 => AllChildren)
        BY <3>2
      <4> QED
        BY <1>3, <3>2, <4>1, <4>2 DEF Steps
    <3> QED
      BY <1>4, <3>1, <3>2, Zenon
  <2> QED
    BY <1>1, <1>2, <2>1, ResourceWrite
<1>6. SpecKept
  <2>1. CASE instStale
    BY <1>2, <2>1 DEF SpecKept
  <2>2. CASE ~instStale
    BY <1>3, <2>2 DEF SpecKept, IInv, UpToDate
  <2> QED
    BY <2>1, <2>2 DEF IInv, Types
<1> QED
  BY <1>5, <1>6

\* setDefaults keeps what is set.
LEMMA SetDefaultsStep ==
  ASSUME IInv, SetDefaults
  PROVE  IInv' /\ SpecKept
<1> DEFINE new == [inst EXCEPT !.spec = WithDefaults(@)]
<1>1. inst \in Resources /\ inst # Absent /\ pc = "defaults" /\ UNCHANGED <<cache, changes>>
  BY DEF SetDefaults, IInv, Types
<1>2. /\ new \in Resources /\ new.spec = WithDefaults(inst.spec)
      /\ new.available = inst.available
  <2>1. inst.spec \in [Parts -> Settings]
    BY <1>1 DEF Resources
  <2>2. WithDefaults(inst.spec) \in [Parts -> Settings]
    BY <2>1 DEF WithDefaults, Settings
  <2> QED
    BY <1>1, <2>2 DEF Resources
<1>3. \A p \in Parts : inst.spec[p] # Unset => new.spec[p] = inst.spec[p]
  BY <1>2 DEF WithDefaults
<1>4. /\ \/ ~instStale /\ Written("cr", new)
         \/ UNCHANGED <<objs, stale>>
      /\ \/ Return
         \/ pc' = "cm" /\ inst' = new /\ UNCHANGED <<why, instStale>>
      /\ inst' = new /\ inst' # inst => Written("cr", new)
      /\ errs' \in Nat
  <2>1. CASE new = inst /\ pc' = "cm" /\ UNCHANGED <<objs, stale, inst, instStale, why, errs>>
    BY <2>1 DEF IInv, Types
  <2>2. CASE /\ WriteOk("cr", new, instStale) /\ inst' = new /\ pc' = "cm"
             /\ UNCHANGED <<instStale, why>>
    BY <2>2 DEF WriteOk, IInv, Types
  <2>3. CASE (WriteLost("cr", new, instStale) \/ WriteFails(instStale)) /\ Return
    <3>1. errs' = errs \/ errs' = errs + 1
      BY <2>3 DEF WriteLost, WriteFails, Error
    <3>2. errs' \in Nat
      BY <3>1 DEF IInv, Types
    <3>3. inst' # new
      BY <1>2, <2>3, Kinded DEF Return
    <3> QED
      BY <2>3, <3>2, <3>3 DEF WriteLost, WriteFails
  <2> QED
    BY <2>1, <2>2, <2>3 DEF SetDefaults
<1> HIDE DEF new
<1>5. "cr" \in Kinds /\ new \in ObjectsOf("cr") /\ new # Absent
  BY <1>2, Kinded DEF Kinds
<1>6. changes = 0 /\ new.available => AllChildren
  BY <1>1, <1>2, Zenon DEF IInv, Undisturbed
<1>7. IInv'
  <2>1. CASE Return
    BY <1>1, <1>2, <1>4, <1>6, <2>1, ResourceWrite
  <2>2. CASE pc' = "cm" /\ inst' = new /\ UNCHANGED <<why, instStale>>
    <3>1. ~instStale => new.spec = objs'["cr"].spec
      <4>1. CASE Written("cr", new)
        BY <1>5, <4>1, Write DEF IInv
      <4>2. CASE ~Written("cr", new)
        BY <1>1, <1>4, <2>2, <4>2 DEF IInv, UpToDate
      <4> QED
        BY <4>1, <4>2
    <3>2. pc' \in Steps /\ instStale' \in BOOLEAN
      BY <2>2 DEF Steps, IInv, Types
    <3> QED
      BY <1>1, <1>2, <1>4, <1>6, <2>2, <3>1, <3>2, ResourceWrite
  <2> QED
    BY <1>4, <2>1, <2>2
<1>8. SpecKept
  <2>1. CASE UNCHANGED <<objs, stale>>
    BY <2>1 DEF SpecKept
  <2>2. CASE ~instStale /\ Written("cr", new)
    <3>1. objs'["cr"] = new
      BY <1>5, <2>2, Write DEF IInv
    <3>2. inst.spec = objs["cr"].spec
      BY <1>1, <2>2 DEF IInv, UpToDate
    <3> QED
      BY <1>3, <3>1, <3>2 DEF SpecKept
  <2> QED
    BY <1>4, <2>1, <2>2
<1> QED
  BY <1>7, <1>8

\* The three steps that reconcile a child.
LEMMA ChildStep ==
  ASSUME IInv, ReconcileConfigMap \/ ReconcileStatefulSet \/ ReconcileService
  PROVE  IInv' /\ objs'["cr"] = objs["cr"]
<1>0. pc \in Children => inst \in Resources /\ inst.spec \in [Parts -> Settings]
  <2>1. pc \in Children => inst \in Resources
    BY DEF IInv, Types, Children
  <2> QED
    BY <2>1 DEF Resources
<1>1. ASSUME NEW k \in Children, NEW next, NEW want \in ObjectsOf(k), want # Absent,
             NEW needsUpdate, ReconcileChild(k, want, needsUpdate, next),
             <<k, next>> \in {<<"cm", "ss">>, <<"ss", "svc">>, <<"svc", "status">>}
      PROVE  IInv' /\ objs'["cr"] = objs["cr"]
  <2>1. pc = k /\ UNCHANGED <<cache, inst, instStale, changes>>
    BY <1>1 DEF ReconcileChild
  <2>2. errs' = errs \/ errs' = errs + 1
    BY <1>1 DEF ReconcileChild, WriteOk, WriteLost, WriteFails, Error
  <2>3. errs' \in Nat
    BY <2>2 DEF IInv, Types
  <2>4. Written(k, want) \/ UNCHANGED <<objs, stale>>
    BY <1>1 DEF ReconcileChild, WriteOk, WriteLost, WriteFails
  <2>5. \/ pc' = next /\ why' = why /\ (cache[k] # Absent \/ Written(k, want))
        \/ pc' = "degrade" /\ why' = k
    BY <1>1 DEF ReconcileChild, WriteOk
  <2> QED
    BY <1>1, <2>1, <2>3, <2>4, <2>5, ChildWrite
<1>2. CASE ReconcileConfigMap
  <2>1. PICK order \in Orders :
           ReconcileChild("cm", CreateConfigMap(order),
                          ConfigMapNeedsUpdate(CreateConfigMap(order)), "ss")
    BY <1>2 DEF ReconcileConfigMap
  <2>2. CreateConfigMap(order) \in ConfigMaps
    <3>1. pc = "cm"
      BY <2>1 DEF ReconcileChild
    <3> QED
      BY <1>0, <3>1, Zenon DEF CreateConfigMap, ConfigMaps, Children, Parts
  <2> QED
    BY <1>1, <2>1, <2>2, Kinded DEF Children
<1>3. CASE ReconcileStatefulSet
  <2>1. CreateStatefulSet \in StatefulSets
    <3>1. pc = "ss"
      BY <1>3 DEF ReconcileStatefulSet, ReconcileChild
    <3> QED
      BY <1>0, <3>1 DEF CreateStatefulSet, StatefulSets, Children, Parts
  <2> QED
    BY <1>1, <1>3, <2>1, Kinded DEF ReconcileStatefulSet, Children
<1>4. CASE ReconcileService
  <2>1. CreateService \in Services
    BY DEF CreateService, Services
  <2> QED
    BY <1>1, <1>4, <2>1, Kinded DEF ReconcileService, Children
<1> QED
  BY <1>2, <1>3, <1>4

\* The steps that write the status.
LEMMA StatusStep ==
  ASSUME IInv, UpdateStatus \/ SetAvailable \/ RemoveDegraded \/ SetDegraded
  PROVE  IInv' /\ SpecKept
<1>1. inst \in Resources /\ inst # Absent
  BY DEF IInv, Types, UpdateStatus, SetAvailable, RemoveDegraded, SetDegraded
<1>2. changes = 0 /\ inst.available => AllChildren
  BY <1>1 DEF IInv, Undisturbed
<1>3. changes = 0 /\ pc \in {"status", "available", "undegrade"} => AllChildren
  BY DEF IInv, Undisturbed
<1>4. CASE UpdateStatus
  <2> DEFINE new == [inst EXCEPT !.ready = cache["ss"] # Absent /\ cache["ss"].ready]
  <2>1. new \in Resources /\ new.spec = inst.spec
    BY <1>1, Zenon DEF Resources
  <2>2. StatusUpdate(new, "available", "return") /\ pc = "status"
    BY <1>4 DEF UpdateStatus
  <2> HIDE DEF new
  <2> QED
    BY <1>1, <1>3, <2>1, <2>2, StatusUpdateStep
<1>5. CASE SetAvailable
  <2> DEFINE new == [inst EXCEPT !.available = TRUE]
  <2>1. new \in Resources /\ new.spec = inst.spec
    BY <1>1, Zenon DEF Resources
  <2>2. StatusUpdate(new, "undegrade", "undegrade") /\ pc = "available"
    BY <1>5 DEF SetAvailable
  <2> HIDE DEF new
  <2> QED
    BY <1>1, <1>3, <2>1, <2>2, StatusUpdateStep
<1>6. CASE RemoveDegraded /\ inst.degraded # NoReason
  <2> DEFINE new == [inst EXCEPT !.degraded = NoReason]
  <2>1. new \in Resources /\ new.spec = inst.spec
    BY <1>1 DEF Resources, Reasons
  <2>2. StatusUpdate(new, "return", "return") /\ pc = "undegrade"
    BY <1>6 DEF RemoveDegraded
  <2> HIDE DEF new
  <2> QED
    BY <1>1, <1>3, <2>1, <2>2, StatusUpdateStep
<1>7. CASE RemoveDegraded /\ inst.degraded = NoReason
  <2>1. Return /\ UNCHANGED <<objs, cache, stale, changes, errs>>
    BY <1>7 DEF RemoveDegraded
  <2>2. errs' \in Nat
    BY <2>1 DEF IInv, Types
  <2> QED
    BY <1>1, <1>2, <2>1, <2>2, ResourceWrite DEF SpecKept
<1>8. CASE SetDegraded
  <2> DEFINE new == [inst EXCEPT !.degraded = IF @ = NoReason THEN why ELSE @]
  <2>1. why \in Reasons /\ inst.degraded \in Reasons
    BY <1>1 DEF IInv, Types, Resources
  <2>2. new \in Resources /\ new.spec = inst.spec /\ new.available = inst.available
    BY <1>1, <2>1 DEF Resources
  <2>3. StatusUpdate(new, "return", "return")
    BY <1>8 DEF SetDegraded
  <2> HIDE DEF new
  <2> QED
    BY <1>1, <1>2, <2>2, <2>3, StatusUpdateStep
<1> QED
  BY <1>4, <1>5, <1>6, <1>7, <1>8

-----------------------------------------------------------------------------
\* The rest of the cluster.

LEMMA ChangedStep ==
  ASSUME IInv, NEW k \in Kinds, NEW v \in ObjectsOf(k), Changed(k, v)
  PROVE  IInv' /\ changes' # changes
<1>1. /\ objs' \in Stores /\ \A j \in Kinds \ {k} : objs'[j] = objs[j]
      /\ stale' = stale \cup {k} /\ stale' \subseteq Kinds
  BY Write DEF IInv, Changed
<1>2. changes' = changes + 1 /\ changes \in Nat /\ UNCHANGED <<cache, pc, inst, why, errs>>
  BY DEF Changed, IInv, Types
<1>3. /\ instStale' \in BOOLEAN
      /\ ~instStale' /\ inst # Absent => ~instStale /\ k # "cr"
  BY Zenon DEF Changed
<1>4. Types'
  BY <1>1, <1>2, <1>3 DEF IInv, Types
<1>5. UpToDate'
  <2>1. \A j \in Kinds \ stale' : cache'[j] = objs'[j]
    BY <1>1, <1>2 DEF IInv, UpToDate
  <2>2. "cr" \in Kinds
    BY DEF Kinds
  <2> QED
    BY <1>1, <1>2, <1>3, <2>1, <2>2 DEF IInv, UpToDate
<1> QED
  BY <1>2, <1>4, <1>5 DEF IInv

\* Edits, deletions and changes of the status of pods.
LEMMA OthersStep ==
  ASSUME IInv, UserEdits \/ Deleted \/ ChildEdited \/ PodsChange
  PROVE  IInv' /\ SpecKept
<1>0. /\ \A k \in Kinds : objs[k] \in ObjectsOf(k)
      /\ {"cr", "cm", "ss", "svc"} \subseteq Kinds
  BY DEF IInv, Types, Stores, Kinds, Children
<1> SUFFICES \E k \in Kinds : \E v \in ObjectsOf(k) : Changed(k, v)
  BY ChangedStep DEF SpecKept
<1>1. CASE UserEdits
  <2>1. PICK p \in Parts, v \in Values \cup {Unset} :
           objs["cr"] # Absent /\ Changed("cr", [objs["cr"] EXCEPT !.spec[p] = v])
    BY <1>1 DEF UserEdits
  <2>2. objs["cr"] \in Resources
    BY <1>0, <2>1, Kinded
  <2>3. [objs["cr"] EXCEPT !.spec[p] = v] \in Resources
    BY <2>2 DEF Resources, Settings
  <2> QED
    BY <1>0, <2>1, <2>3, Kinded
<1>2. CASE Deleted
  BY <1>2 DEF Deleted, ObjectsOf
<1>3. CASE ChildEdited
  <2>1. CASE objs["cm"] # Absent /\ \E v \in Values : Changed("cm", [objs["cm"] EXCEPT !.conf = v])
    <3>1. PICK v \in Values : Changed("cm", [objs["cm"] EXCEPT !.conf = v])
      BY <2>1
    <3>2. [objs["cm"] EXCEPT !.conf = v] \in ConfigMaps
      BY <1>0, <2>1, Kinded DEF ConfigMaps, Settings
    <3> QED
      BY <1>0, <3>1, <3>2, Kinded
  <2>2. CASE objs["ss"] # Absent /\ \E v \in Values : Changed("ss", [objs["ss"] EXCEPT !.pod = v])
    <3>1. PICK v \in Values : Changed("ss", [objs["ss"] EXCEPT !.pod = v])
      BY <2>2
    <3>2. [objs["ss"] EXCEPT !.pod = v] \in StatefulSets
      BY <1>0, <2>2, Kinded DEF StatefulSets, Settings
    <3> QED
      BY <1>0, <3>1, <3>2, Kinded
  <2>3. CASE Changed("svc", [asDesired |-> FALSE])
    <3>1. [asDesired |-> FALSE] \in Services
      BY DEF Services
    <3> QED
      BY <1>0, <2>3, <3>1, Kinded
  <2> QED
    BY <1>3, <2>1, <2>2, <2>3, Zenon DEF ChildEdited
<1>4. CASE PodsChange
  <2>1. objs["ss"] \in StatefulSets
    BY <1>0, <1>4, Kinded DEF PodsChange
  <2>2. [objs["ss"] EXCEPT !.ready = ~@] \in StatefulSets
    BY <2>1, Zenon DEF StatefulSets
  <2> QED
    BY <1>0, <1>4, <2>2, Kinded DEF PodsChange
<1> QED
  BY <1>1, <1>2, <1>3, <1>4

\* The garbage collector works only on what has lost its owner.
LEMMA CollectStep ==
  ASSUME IInv, NEW k \in Children, Collect(k)
  PROVE  IInv' /\ objs'["cr"] = objs["cr"]
<1>1. k \in Kinds /\ "cr" \in Kinds /\ "cr" # k /\ Absent \in ObjectsOf(k)
  BY DEF Kinds, Children, ObjectsOf
<1>2. /\ objs' \in Stores /\ \A j \in Kinds \ {k} : objs'[j] = objs[j]
      /\ stale' = stale \cup {k} /\ stale' \subseteq Kinds
  BY <1>1, Write DEF IInv, Collect
<1>3. objs["cr"] = Absent /\ UNCHANGED <<cache, pc, inst, instStale, why, changes, errs>>
  BY DEF Collect
<1>4. changes # 0
  BY <1>3 DEF IInv, Undisturbed
<1>5. Types'
  BY <1>2, <1>3 DEF IInv, Types
<1>6. UpToDate'
  BY <1>1, <1>2, <1>3 DEF IInv, UpToDate
<1> QED
  BY <1>1, <1>2, <1>3, <1>4, <1>5, <1>6 DEF IInv

\* Reads of the API server and of the cache.
LEMMA ReadStep ==
  ASSUME IInv, Get \/ Restart \/ \E k \in Kinds : Sync(k)
  PROVE  IInv' /\ UNCHANGED objs
<1>0. "cr" \in Kinds /\ Children \subseteq Kinds
  BY DEF Kinds
<1>1. CASE Get
  <2>1. /\ pc' = "defaults" /\ inst' = cache["cr"] /\ cache["cr"] # Absent
        /\ UNCHANGED <<objs, cache, stale, why, changes, errs>>
    BY <1>1 DEF Get
  <2>2. instStale' \in BOOLEAN /\ (~instStale' => "cr" \notin stale)
    <3>1. CASE "cr" \in stale
      BY <1>1, <3>1, Zenon DEF Get
    <3>2. CASE "cr" \notin stale
      BY <1>1, <3>2 DEF Get
    <3> QED
      BY <3>1, <3>2
  <2>3. cache["cr"] \in Resources
    BY <1>0, <2>1, Kinded DEF IInv, Types, Stores
  <2>4. Types'
    BY <2>1, <2>2, <2>3 DEF IInv, Types, Steps
  <2>5. UpToDate'
    BY <1>0, <2>1, <2>2 DEF IInv, UpToDate
  <2>6. changes = 0 => Undisturbed'
    BY <2>1 DEF IInv, Undisturbed, AllChildren
  <2> QED
    BY <2>1, <2>4, <2>5, <2>6 DEF IInv
<1>2. CASE Restart
  <2>1. /\ Return /\ cache' = objs /\ stale' = {} /\ UNCHANGED <<objs, changes>>
        /\ errs' = errs + 1
    BY <1>2 DEF Restart, Error
  <2>2. Types'
    <3>0. errs \in Nat
      BY DEF IInv, Types
    <3>1. errs' \in Nat /\ instStale' = FALSE /\ why' \in Reasons
      BY <2>1, <3>0 DEF Return, Reasons
    <3>2. pc' = "idle" /\ inst' = Absent
      BY <2>1 DEF Return
    <3> QED
      BY <2>1, <3>1, <3>2, Zenon DEF IInv, Types
  <2>3. UpToDate'
    <3>1. inst' = Absent
      BY <2>1 DEF Return
    <3> QED
      BY <2>1, <3>1 DEF UpToDate
  <2>4. changes = 0 => Undisturbed'
    BY <2>1 DEF IInv, Undisturbed, AllChildren, Return
  <2> QED
    BY <2>1, <2>2, <2>3, <2>4 DEF IInv
<1>3. ASSUME NEW k \in Kinds, Sync(k)
      PROVE  IInv' /\ UNCHANGED objs
  <2>1. /\ cache' = [cache EXCEPT ![k] = objs[k]] /\ stale' = stale \ {k}
        /\ UNCHANGED <<objs, pc, inst, instStale, why, changes, errs>>
    BY <1>3 DEF Sync
  <2>2. /\ cache' \in Stores /\ cache'[k] = objs[k]
        /\ \A j \in Kinds \ {k} : cache'[j] = cache[j]
    BY <2>1 DEF IInv, Types, Stores
  <2>3. Types'
    BY <2>1, <2>2 DEF IInv, Types
  <2>4. UpToDate'
    BY <2>1, <2>2 DEF IInv, UpToDate
  <2>5. ASSUME changes = 0 PROVE Undisturbed'
    <3>1. Undisturbed /\ (AllChildren => AllChildren')
      BY <2>1, <2>5 DEF IInv, AllChildren
    <3>2. cache'["cr"] = cache["cr"] \/ cache'["cr"] = objs["cr"]
      BY <1>0, <2>2, Zenon
    <3>3. \A j \in Children : cache'[j] # Absent => objs[j] # Absent
      BY <1>0, <2>2, <3>1 DEF Undisturbed
    <3> QED
      BY <2>1, <3>1, <3>2, <3>3 DEF Undisturbed
  <2> QED
    BY <2>1, <2>3, <2>4, <2>5 DEF IInv
<1> QED
  BY <1>1, <1>2, <1>3

\* One step of anybody.
LEMMA Step ==
  ASSUME IInv, Next
  PROVE  IInv' /\ SpecKept
<1>1. objs'["cr"] = objs["cr"] => SpecKept
  BY DEF SpecKept
<1>2. CASE Get \/ Restart \/ \E k \in Kinds : Sync(k)
  BY <1>1, <1>2, ReadStep
<1>3. CASE SetDefaults
  BY <1>3, SetDefaultsStep
<1>4. CASE ReconcileConfigMap \/ ReconcileStatefulSet \/ ReconcileService
  BY <1>1, <1>4, ChildStep
<1>5. CASE UpdateStatus \/ SetAvailable \/ RemoveDegraded \/ SetDegraded
  BY <1>5, StatusStep
<1>6. CASE UserEdits \/ Deleted \/ ChildEdited \/ PodsChange
  BY <1>6, OthersStep
<1>7. CASE \E k \in Children : Collect(k)
  BY <1>1, <1>7, CollectStep
<1> QED
  BY <1>2, <1>3, <1>4, <1>5, <1>6, <1>7 DEF Next, Reconcile, Cluster

LEMMA Invariance == Spec => []IInv
<1>1. Init => IInv
  <2> SUFFICES ASSUME Init PROVE IInv
    OBVIOUS
  <2> DEFINE CR(m) == [spec |-> m, degraded |-> NoReason, available |-> FALSE, ready |-> FALSE]
  <2>1. PICK m \in Manifests : objs = [k \in Kinds |-> IF k = "cr" THEN CR(m) ELSE Absent]
    BY Zenon DEF Init
  <2>2. CR(m) \in Resources /\ ~CR(m).available
    BY OperatorAssumption DEF Resources, Reasons
  <2> HIDE DEF CR
  <2>3. "cr" \in Kinds /\ \A k \in Children : k \in Kinds /\ k # "cr"
    BY DEF Kinds, Children
  <2>4. \A k \in Kinds : Absent \in ObjectsOf(k)
    BY DEF ObjectsOf
  <2>5. objs \in Stores /\ cache \in Stores
    <3>1. \A k \in Kinds : objs[k] \in ObjectsOf(k) /\ cache[k] \in ObjectsOf(k)
      BY <2>1, <2>2, <2>4, Kinded, Zenon DEF Init
    <3> QED
      BY <2>1, <3>1, Kinded, Zenon DEF Init, Stores
  <2>6. Types
    BY <2>3, <2>5, Zenon DEF Init, Types, Reasons
  <2>7. objs["cr"] = CR(m) /\ CR(m) # Absent /\ \A k \in Children : objs[k] = Absent
    BY <2>1, <2>2, <2>3, Kinded
  <2>8. UpToDate
    BY <2>7 DEF Init, UpToDate, Kinds
  <2>9. Undisturbed
    BY <2>2, <2>3, <2>7, Zenon DEF Init, Undisturbed
  <2> QED
    BY <2>6, <2>8, <2>9 DEF IInv
<1>2. IInv /\ [Next]_vars => IInv'
  <2>1. IInv /\ UNCHANGED vars => IInv'
    BY DEF vars, IInv, Types, UpToDate, Undisturbed, AllChildren
  <2> QED
    BY <2>1, Step
<1> QED
  BY <1>1, <1>2, PTL DEF Spec

-----------------------------------------------------------------------------
\* The resource is reported available only when its children were made, as
\* long as nobody but the operator has changed anything.
THEOREM AvailableAfterChildrenInvariant == Spec => []AvailableAfterChildren
<1>1. IInv => AvailableAfterChildren
  BY DEF IInv, Undisturbed, AllChildren, AvailableAfterChildren
<1> QED
  BY <1>1, Invariance, PTL

\* No step of the operator, whichever copy of the resource it was computed
\* from, changes a part of the spec that is set.
THEOREM UserSpecPreservedByAll == Spec => UserSpecPreserved
<1>1. IInv /\ [Next]_vars => [SpecKept]_vars
  BY Step
<1> QED
  BY <1>1, Invariance, PTL DEF Spec, UserSpecPreserved, SpecKept
=============================================================================
