------------------ MODULE CollectorGroupBindingReconciler ------------------
(***************************************************************************)
(* internal/controller/collectorgroupbinding_controller.go.                *)
(*                                                                         *)
(* One worker takes one binding at a time. It reads the binding once and   *)
(* then writes up to four counters of other objects before it writes the   *)
(* binding itself, so the steps of a reconcile are separate actions: other *)
(* controllers, users and RPC handlers act in between. A counter step (Get *)
(* from the cache, add one, Status().Update) is one action, like the       *)
(* reconciles of the other two controllers.                                *)
(*                                                                         *)
(* suspect, worker.charged and worker.released record history: nothing the *)
(* operator does depends on them. suspect holds the objects whose counter  *)
(* was left adjusted by a reconcile that did not reach its last write, was *)
(* not adjusted by a reconcile that did, or disappeared with a binding     *)
(* still counted in it.                                                    *)
(***************************************************************************)
EXTENDS KubeApi

CONSTANT CollectorTTL   \* --collector-ttl in seconds, 0 disables eviction

ASSUME CollectorTTLAssumption == CollectorTTL \in Nat

VARIABLES worker, suspect

bindingVars == <<worker, suspect>>

Idle == [step |-> "idle"]

Steps == {"validateRefs", "releasePC", "releaseCG", "chargePC", "chargeCG",
          "updateStatus", "deletePC", "deleteCG", "removeFinalizer"}

DeletionSteps == {"deletePC", "deleteCG", "removeFinalizer"}

\* binding: the copy read at the start; hash: the ContentHash of the
\* PipelineConfig read by validateRefs; charged, released: the objects whose
\* counter this reconcile has incremented or decremented so far.
Working == [step : Steps, key : Bindings, binding : BindingVersion,
            hash : Hashes, charged : SUBSET Counted,
            released : SUBSET Counted]

BindingInit ==
  /\ worker = Idle
  /\ suspect = {}

BindingTypeOK ==
  /\ worker \in {Idle} \cup Working
  /\ suspect \subseteq Counted

-----------------------------------------------------------------------------
(* Where a reconcile goes next: manageCounters and handleDeletion skip the *)
(* counters that need no change.                                           *)

PrevPC(v) == v.status.boundPipelineConfigRef
PrevCG(v) == v.status.boundCollectorGroupRef
NewPC(v) == v.spec.pipelineConfigRef
NewCG(v) == v.spec.collectorGroupRef

FromChargeCG(v) ==
  IF PrevCG(v) # NewCG(v) /\ NewCG(v) # NoRef THEN "chargeCG"
  ELSE "updateStatus"

\* Mistake: the reference is charged whether or not it changed.
FromChargePCAlways(v) == "chargePC"

FromChargePC(v) ==
  IF PrevPC(v) # NewPC(v) THEN "chargePC" ELSE FromChargeCG(v)

FromReleaseCG(v) ==
  IF PrevCG(v) # NoRef /\ PrevCG(v) # NewCG(v) THEN "releaseCG"
  ELSE FromChargePC(v)

FromReleasePC(v) ==
  IF PrevPC(v) # NoRef /\ PrevPC(v) # NewPC(v) THEN "releasePC"
  ELSE FromReleaseCG(v)

FromDeleteCG(v) ==
  IF PrevCG(v) # NoRef THEN "deleteCG" ELSE "removeFinalizer"

FromDeletePC(v) ==
  IF PrevPC(v) # NoRef THEN "deletePC" ELSE FromDeleteCG(v)

Goto(step) == worker' = [worker EXCEPT !.step = step]

Adjusted == IF worker = Idle THEN {} ELSE worker.charged \cup worker.released

\* Mistake: the error is not returned, so the request is not queued again.
FailQuietly ==
  /\ worker' = Idle
  /\ suspect' = suspect \cup Adjusted
  /\ UNCHANGED queue

\* "return err": the request is queued again, what was adjusted stays.
Fail ==
  /\ worker' = Idle
  /\ queue' = queue \cup {worker.key}
  /\ suspect' = suspect \cup Adjusted

-----------------------------------------------------------------------------
(* Fetch, deletion check, finalizer.                                       *)

Started(b, step) ==
  /\ worker' = [step |-> step, key |-> b, binding |-> cache[b],
                hash |-> NoHash, charged |-> {}, released |-> {}]
  /\ queue' = queue \ {b}
  /\ UNCHANGED <<store, watch, cache, now, suspect>>

StartReconcile(b) ==
  /\ worker = Idle /\ b \in queue
  /\ \/ /\ ~cache[b].exists
        /\ queue' = queue \ {b}
        /\ UNCHANGED <<store, watch, cache, now, bindingVars>>
     \/ /\ cache[b].exists /\ cache[b].deleting
        /\ Started(b, FromDeletePC(cache[b]))
     \/ /\ cache[b].exists /\ ~cache[b].deleting /\ ~cache[b].finalizer
        /\ ReturnUpdate(b, cache[b], WithFinalizer(b))
        /\ UNCHANGED <<cache, now, bindingVars>>
     \/ /\ cache[b].exists /\ ~cache[b].deleting /\ cache[b].finalizer
        /\ Started(b, "validateRefs")

-----------------------------------------------------------------------------
(* validateRefs and setRefsInvalid.                                        *)

\* Mistake: a phase the schema does not know.
DerivePhaseUnknown(refsValid) ==
  IF refsValid = "RefsResolved" THEN "Ready" ELSE "Degraded"

DerivePhase(refsValid) ==
  CASE refsValid = "None" -> "Pending"
    [] refsValid = "RefsResolved" -> "Active"
    [] OTHER -> "Degraded"

\* The status is written, a refusal is only logged, and the reconcile fails.
SetRefsInvalid(reason) ==
  LET b == worker.key
      v == worker.binding
      status == [v.status EXCEPT !.refsValid = reason,
                                 !.phase = DerivePhase(reason),
                                 !.observedGeneration = v.generation]
  IN /\ IF Answer(b, v) = "OK" THEN Put(b, WithStatus(b, status))
        ELSE UNCHANGED <<store, watch>>
     /\ Fail

\* Mistake: only the CollectorGroup is looked up.
RefsCheckGroupOnly(v) ==
  IF NewCG(v) # NoRef /\ ~cache[NewCG(v)].exists THEN "CollectorGroupNotFound"
  ELSE "RefsResolved"

\* The reason validateRefs gives for the references of v.
RefsCheck(v) ==
  IF ~cache[NewPC(v)].exists THEN "PipelineConfigNotFound"
  ELSE IF NewCG(v) # NoRef /\ ~cache[NewCG(v)].exists
  THEN "CollectorGroupNotFound"
  ELSE "RefsResolved"

ValidateRefs ==
  LET v == worker.binding IN
  /\ worker.step = "validateRefs"
  /\ \/ /\ RefsCheck(v) = "RefsResolved"
        /\ worker' = [worker EXCEPT
                        !.step = FromReleasePC(v),
                        !.hash = cache[NewPC(v)].status.contentHash]
        /\ UNCHANGED <<store, watch, queue, suspect>>
     \/ /\ RefsCheck(v) # "RefsResolved"
        /\ SetRefsInvalid(RefsCheck(v))
  /\ UNCHANGED <<cache, now>>

-----------------------------------------------------------------------------
(* Counters.                                                               *)

\* Mistake: the counter is written without a check of the resourceVersion.
CounterAnswerUnchecked(o) ==
  IF ~cache[o].exists \/ ~store[o].exists THEN "NotFound" ELSE "OK"

\* The error of Get followed by Status().Update on counted object o.
CounterAnswer(o) ==
  IF ~cache[o].exists THEN "NotFound" ELSE Answer(o, cache[o])

\* The counter of o as the cache has it, changed by n.
Adjust(o, n) ==
  /\ Put(o, WithStatus(o, [cache[o].status EXCEPT !.activeBindings = @ + n]))
  /\ UNCHANGED <<queue, suspect>>

Decrement(o, step) ==
  /\ Adjust(o, -1)
  /\ worker' = [worker EXCEPT !.step = step, !.released = @ \cup {o}]

Increment(o, step) ==
  /\ Adjust(o, 1)
  /\ worker' = [worker EXCEPT !.step = step, !.charged = @ \cup {o}]

\* The counter of o is left as it is and the reconcile goes on.
Skip(o, step) ==
  /\ Goto(step)
  /\ suspect' = IF store[o].exists THEN suspect \cup {o} ELSE suspect
  /\ UNCHANGED <<store, watch, queue>>

\* Decrement in manageCounters: an error is logged and dropped.
Release(o, step) ==
  \/ CounterAnswer(o) = "OK" /\ Decrement(o, step)
  \/ CounterAnswer(o) # "OK" /\ Skip(o, step)

\* Decrement in handleDeletion: NotFound is fine, other errors are returned.
ReleaseForDeletion(o, step) ==
  \/ CounterAnswer(o) = "OK" /\ Decrement(o, step)
  \/ CounterAnswer(o) = "NotFound" /\ Skip(o, step)
  \/ CounterAnswer(o) = "Conflict" /\ Fail /\ UNCHANGED <<store, watch>>

\* Increment in manageCounters: every error is returned.
Charge(o, step) ==
  \/ CounterAnswer(o) = "OK" /\ Increment(o, step)
  \/ CounterAnswer(o) # "OK" /\ Fail /\ UNCHANGED <<store, watch>>

ManageCounters ==
  LET v == worker.binding IN
  /\ \/ /\ worker.step = "releasePC"
        /\ Release(PrevPC(v), FromReleaseCG(v))
     \/ /\ worker.step = "releaseCG"
        /\ Release(PrevCG(v), FromChargePC(v))
     \/ /\ worker.step = "chargePC"
        /\ Charge(NewPC(v), FromChargeCG(v))
     \/ /\ worker.step = "chargeCG"
        /\ Charge(NewCG(v), "updateStatus")
  /\ UNCHANGED <<cache, now>>

HandleDeletion ==
  LET v == worker.binding IN
  /\ \/ /\ worker.step = "deletePC"
        /\ ReleaseForDeletion(PrevPC(v), FromDeleteCG(v))
     \/ /\ worker.step = "deleteCG"
        /\ ReleaseForDeletion(PrevCG(v), "removeFinalizer")
  /\ UNCHANGED <<cache, now>>

-----------------------------------------------------------------------------
(* The last write of a reconcile.                                          *)

\* Mistake: the TTL is not subtracted.
EvictStaleTenantsAtOnce(tenants) == {t \in tenants : t.lastSeenAt > now}

\* The entries evictStaleTenants keeps: LastSeenAt.After(now - TTL).
EvictStaleTenants(tenants) ==
  IF CollectorTTL = 0 THEN tenants
  ELSE {t \in tenants : t.lastSeenAt > now - CollectorTTL}

\* Mistake: the bound references are left as they were.
SyncedStatusUnbound(v, hash) ==
  [v.status EXCEPT !.refsValid = "RefsResolved", !.phase = "Active",
                   !.configHash = hash, !.lastSyncedAt = now,
                   !.observedGeneration = v.generation]

SyncedStatus(v, hash) ==
  [refsValid |-> "RefsResolved", phase |-> DerivePhase("RefsResolved"),
   configHash |-> hash, lastSyncedAt |-> now,
   boundPipelineConfigRef |-> NewPC(v), boundCollectorGroupRef |-> NewCG(v),
   observedGeneration |-> v.generation,
   registeredTenants |-> EvictStaleTenants(v.status.registeredTenants)]

\* Mistake: nothing is queued for the time the tenants run out.
RequeueForEvictionNever(b, tenants) == queue

\* RequeueAfter: TTL/2, while there are registered tenants.
RequeueForEviction(b, tenants) ==
  IF CollectorTTL > 0 /\ tenants # {} THEN queue \cup {b} ELSE queue

UpdateStatus ==
  LET b == worker.key
      status == SyncedStatus(worker.binding, worker.hash)
  IN
  /\ worker.step = "updateStatus"
  /\ \/ /\ Answer(b, worker.binding) = "OK"
        /\ Put(b, WithStatus(b, status))
        /\ worker' = Idle
        /\ queue' = RequeueForEviction(b, status.registeredTenants)
        /\ UNCHANGED suspect
     \/ /\ Answer(b, worker.binding) # "OK"
        /\ Fail /\ UNCHANGED <<store, watch>>
  /\ UNCHANGED <<cache, now>>

FinishDeletion ==
  LET b == worker.key IN
  /\ worker.step = "removeFinalizer"
  /\ \/ /\ Answer(b, worker.binding) = "OK"
        /\ Put(b, WithoutFinalizer(b))
        /\ worker' = Idle
        /\ UNCHANGED <<queue, suspect>>
     \/ /\ Answer(b, worker.binding) # "OK"
        /\ Fail /\ UNCHANGED <<store, watch>>
  /\ UNCHANGED <<cache, now>>

WorkerStep ==
  \/ ValidateRefs
  \/ ManageCounters
  \/ UpdateStatus
  \/ HandleDeletion
  \/ FinishDeletion

-----------------------------------------------------------------------------
(* Watches.                                                                *)

EnqueueBindingsForPipelineConfig(p) ==
  {b \in Bindings : cache[b].exists /\ cache[b].spec.pipelineConfigRef = p}

\* Mistakes: no watch on PipelineConfigs for the bindings, none but that.
RequestsOwn(o) == {o}

RequestsOfBindings(o) ==
  IF o \in PipelineConfigs THEN EnqueueBindingsForPipelineConfig(o) ELSE {o}

\* The requests an event of object o adds: its own controller's, and for a
\* PipelineConfig the bindings that refer to it. No controller watches
\* CollectorGroups for the bindings.
Requests(o) ==
  {o} \cup (IF o \in PipelineConfigs
            THEN EnqueueBindingsForPipelineConfig(o) ELSE {})
=============================================================================
