---------------------------- MODULE WriteProofs ----------------------------
(***************************************************************************)
(* What a single write may contain, as a relation between the stored       *)
(* object and the new one, and the order in which writes reach the cache.  *)
(* The statuses two controllers write and the lists of registered tenants  *)
(* are the first uses of it; FleetProofs and RestProofs are the others.    *)
(***************************************************************************)
EXTENDS StatusProofs

\* The hash in a new version v of p is none, the one p has, or that of the
\* content p has.
HashKept(p, v) ==
  v.exists =>
    \/ v.status.contentHash = NoHash
    \/ /\ store[p].exists
       /\ \/ v.status.contentHash = store[p].status.contentHash
          \/ /\ store[p].spec.content # EmptyContent
             /\ v.status.contentHash = Sha256(store[p].spec.content)

\* The tenants in a new version v of b are among those b has, or those of a
\* patch of the registry. The binding reconciler drops only stale ones.
TenantsKept(b, v) ==
  /\ \/ v.status.registeredTenants \subseteq store[b].status.registeredTenants
     \/ \E c \in Collectors : /\ rpc[c].step = "patch"
                              /\ v.status.registeredTenants = rpc[c].edited
  /\ worker' # worker /\ v.exists =>
       \A t \in store[b].status.registeredTenants :
         t \in v.status.registeredTenants \/ Stale(t)

\* A new version v of o does not undo an earlier write of the status.
StatusKept(o, v) ==
  store[o].exists /\ v.exists =>
    LET s == store[o].status
        t == v.status
    IN /\ s.observedGeneration <= t.observedGeneration
       /\ o \in Counted /\ t.activeBindings # s.activeBindings =>
            \/ t = [s EXCEPT !.activeBindings = @ + 1]
            \/ t = [s EXCEPT !.activeBindings = @ - 1]

Written(o, v) ==
  /\ v \in Version(o)
  /\ StatusKept(o, v)
  /\ o \in PipelineConfigs => HashKept(o, v)
  /\ o \in Bindings => TenantsKept(o, v)

\* A step writes nothing, or one object.
WriteStep ==
  \/ UNCHANGED <<store, watch>>
  \/ \E o \in Objects : \E v : Put(o, v) /\ Written(o, v)

\* A write that leaves the status as it is.
LEMMA SameStatusWritten ==
  ASSUME SoundInv, NEW o \in Objects, NEW v \in Version(o), store[o].exists,
         v.status = store[o].status
  PROVE  Written(o, v)
<1>1. StatusKept(o, v)
  BY StoredFields DEF StatusKept
<1>2. QED BY <1>1 DEF Written, HashKept, TenantsKept

\* An object that goes.
LEMMA GoneWritten ==
  ASSUME NEW o \in Objects, NEW rv \in Nat
  PROVE  Written(o, Gone(o, rv))
<1>1. ~Gone(o, rv).exists /\ Gone(o, rv).status = NewStatus(o)
  BY DEF Gone
<1>2. o \in Bindings => NewStatus(o).registeredTenants = {}
  BY NamesDistinct DEF NewStatus
<1>3. StatusKept(o, Gone(o, rv))
  BY <1>1 DEF StatusKept
<1>4. QED BY <1>1, <1>2, <1>3, GoneType DEF Written, HashKept, TenantsKept

\* The finalizer is added or the spec edited: the status stays.
LEMMA EditWritten ==
  ASSUME SoundInv, NEW o \in Objects, store[o].exists
  PROVE  /\ Written(o, WithFinalizer(o))
         /\ \A spec \in SpecSet(o) :
              Written(o, [store[o] EXCEPT !.spec = spec, !.generation = @ + 1])
         /\ Written(o, [store[o] EXCEPT !.deleting = TRUE, !.generation = @ + 1])
<1> DEFINE s == store[o]
<1>1. s \in Version(o) /\ s = [rv |-> s.rv, exists |-> s.exists,
        generation |-> s.generation, finalizer |-> s.finalizer,
        deleting |-> s.deleting, spec |-> s.spec, status |-> s.status]
  BY StoredFields, VersionFields
<1>2. WithFinalizer(o) \in Version(o) /\ WithFinalizer(o).status = s.status
  BY <1>1, WithTypes
     DEF SoundInv, TypeInv, TypeOK, ApiTypeOK, WithFinalizer
<1>3. ASSUME NEW spec \in SpecSet(o)
      PROVE  Written(o, [s EXCEPT !.spec = spec, !.generation = @ + 1])
  <2>1. [s EXCEPT !.spec = spec, !.generation = @ + 1].status = s.status
    BY <1>1
  <2>2. QED BY <1>1, <2>1, NewGeneration, SameStatusWritten
<1>4. [s EXCEPT !.deleting = TRUE, !.generation = @ + 1].status = s.status
  BY <1>1
<1>5. QED BY <1>1, <1>2, <1>3, <1>4, NewGeneration, SameStatusWritten

\* The counter stays, and the status is that of the generation it was made for.
LEMMA ObservedKept ==
  ASSUME SoundInv, NEW o \in Objects, NEW s,
         s.observedGeneration = store[o].generation,
         o \in Counted => s.activeBindings = store[o].status.activeBindings
  PROVE  StatusKept(o, WithStatus(o, s))
<1>1. store[o].status.observedGeneration <= store[o].generation
  BY StoredFields DEF Sound, ObjectSound
<1>2. WithStatus(o, s).status = s
  BY StatusFields
<1>3. QED BY <1>1, <1>2 DEF StatusKept

\* The finalizer is taken from a terminating object.
LEMMA ReleaseWritten ==
  ASSUME SoundInv, NEW o \in Objects, store[o].deleting
  PROVE  Written(o, WithoutFinalizer(o))
<1>1. WithoutFinalizer(o) = Gone(o, store[o].rv) /\ store[o].rv \in Nat
  BY StoredFields DEF WithoutFinalizer
<1>2. QED BY <1>1, GoneWritten

-----------------------------------------------------------------------------
(* Every step writes as it may.                                            *)

\* A reconcile of o that ends with a write of o.
LEMMA ReturnUpdateWrites ==
  ASSUME SoundInv, NEW o \in Objects, NEW w, ReturnUpdate(o, cache[o], w),
         cache[o] = store[o] /\ store[o].exists => Written(o, w)
  PROVE  WriteStep
<1>1. Answer(o, cache[o]) = "OK" => cache[o] = store[o] /\ store[o].exists
  BY CachedPast, Accepted
<1>2. QED BY <1>1 DEF ReturnUpdate, WriteStep

\* A reconcile of a PipelineConfig.
LEMMA PipelineConfigWrites ==
  ASSUME SoundInv, NEW p \in PipelineConfigs, ReconcilePipelineConfig(p)
  PROVE  WriteStep
<1> DEFINE pc == cache[p]
<1>1. p \in Objects /\ p \notin Bindings
  BY NamesDistinct DEF Objects
<1>2. CASE UNCHANGED <<store, watch>>
  BY <1>2 DEF WriteStep
<1>3. CASE pc.deleting /\ ReturnUpdate(p, pc, WithoutFinalizer(p))
  BY <1>1, <1>3, ReturnUpdateWrites, ReleaseWritten
<1>4. CASE ReturnUpdate(p, pc, WithFinalizer(p))
  BY <1>1, <1>4, ReturnUpdateWrites, EditWritten
<1>5. ASSUME NEW s \in StatusSet(p), ReturnUpdate(p, pc, WithStatus(p, s)),
             \/ s.contentHash = pc.status.contentHash
             \/ /\ pc.spec.content # EmptyContent
                /\ s.contentHash = Sha256(pc.spec.content),
             s.observedGeneration = pc.generation,
             s.activeBindings = pc.status.activeBindings
      PROVE  WriteStep
  <2>1. WithStatus(p, s) \in Version(p) /\ WithStatus(p, s).status = s
    BY <1>1, WithTypes, StatusFields DEF SoundInv, TypeInv, TypeOK, ApiTypeOK
  <2>2. pc = store[p] => StatusKept(p, WithStatus(p, s))
    BY <1>1, <1>5, ObservedKept
  <2>3. pc = store[p] /\ store[p].exists => Written(p, WithStatus(p, s))
    BY <1>1, <1>5, <2>1, <2>2 DEF Written, HashKept
  <2>4. QED BY <1>1, <1>5, <2>3, ReturnUpdateWrites
<1>6. CASE /\ pc.exists
           /\ \/ ReturnUpdate(p, pc, WithStatus(p, EmptyContentStatus(pc)))
              \/ /\ pc.spec.content # EmptyContent
                 /\ ReturnUpdate(p, pc, WithStatus(p, HashedContentStatus(pc)))
  <2>1. /\ pc.status \in PipelineConfigStatus /\ pc.generation \in Nat
        /\ pc.spec \in PipelineConfigSpec
    BY <1>1, <1>6, VersionFields
       DEF SoundInv, TypeInv, TypeOK, ApiTypeOK, CacheTypeOK, SpecSet, StatusSet
  <2>2. /\ EmptyContentStatus(pc) \in StatusSet(p)
        /\ EmptyContentStatus(pc).contentHash = pc.status.contentHash
        /\ EmptyContentStatus(pc).observedGeneration = pc.generation
        /\ EmptyContentStatus(pc).activeBindings = pc.status.activeBindings
    BY <2>1 DEF EmptyContentStatus, PipelineConfigStatus, StatusSet
  <2>3. pc.spec.content # EmptyContent => Sha256(pc.spec.content) \in Hashes
    BY <2>1 DEF PipelineConfigSpec, Hashes
  <2>4. pc.spec.content # EmptyContent =>
          /\ HashedContentStatus(pc) \in StatusSet(p)
          /\ HashedContentStatus(pc).contentHash = Sha256(pc.spec.content)
          /\ HashedContentStatus(pc).observedGeneration = pc.generation
          /\ HashedContentStatus(pc).activeBindings = pc.status.activeBindings
    BY <2>1, <2>3 DEF HashedContentStatus, PipelineConfigStatus, StatusSet
  <2>5. QED BY <1>5, <1>6, <2>2, <2>4
<1>7. QED
  BY <1>2, <1>3, <1>4, <1>6 DEF ReconcilePipelineConfig, PipelineConfigDeletion

\* A reconcile of a CollectorGroup.
LEMMA CollectorGroupWrites ==
  ASSUME SoundInv, NEW g \in CollectorGroups, ReconcileCollectorGroup(g)
  PROVE  WriteStep
<1> DEFINE cg == cache[g]
           s == [cg.status EXCEPT !.observedGeneration = cg.generation]
<1>1. g \in Objects /\ g \notin Bindings /\ g \notin PipelineConfigs
  BY NamesDistinct DEF Objects
<1>2. CASE UNCHANGED <<store, watch>>
  BY <1>2 DEF WriteStep
<1>3. CASE cg.deleting /\ ReturnUpdate(g, cg, WithoutFinalizer(g))
  BY <1>1, <1>3, ReturnUpdateWrites, ReleaseWritten
<1>4. CASE ReturnUpdate(g, cg, WithFinalizer(g))
  BY <1>1, <1>4, ReturnUpdateWrites, EditWritten
<1>5. CASE ReturnUpdate(g, cg, WithStatus(g, s))
  <2>1. cg.status \in CollectorGroupStatus /\ cg.generation \in Nat
    BY <1>1, VersionFields
       DEF SoundInv, TypeInv, TypeOK, ApiTypeOK, CacheTypeOK, StatusSet
  <2>2. /\ s \in StatusSet(g) /\ s.observedGeneration = cg.generation
        /\ s.activeBindings = cg.status.activeBindings
    BY <1>1, <2>1 DEF CollectorGroupStatus, StatusSet
  <2> HIDE DEF s
  <2>3. WithStatus(g, s) \in Version(g)
    BY <1>1, <2>2, WithTypes DEF SoundInv, TypeInv, TypeOK, ApiTypeOK
  <2>4. cg = store[g] => StatusKept(g, WithStatus(g, s))
    BY <1>1, <2>2, ObservedKept
  <2>5. cg = store[g] => Written(g, WithStatus(g, s))
    BY <1>1, <2>3, <2>4 DEF Written
  <2>6. QED BY <1>1, <1>5, <2>5, ReturnUpdateWrites
<1>6. QED
  BY <1>2, <1>3, <1>4, <1>5
     DEF ReconcileCollectorGroup, CollectorGroupDeletion

\* What users do.
LEMMA UserWrites ==
  ASSUME SoundInv, NEW o \in Objects, UNCHANGED worker,
         \/ \E spec \in SpecSet(o) : Create(o, spec) \/ EditSpec(o, spec)
         \/ Delete(o)
  PROVE  WriteStep
<1>1. store[o].rv \in Nat
  BY StoredFields
<1>2. ASSUME NEW spec \in SpecSet(o), Create(o, spec) PROVE WriteStep
  <2> DEFINE v == Fresh(o, store[o].rv, spec)
  <2>1. v \in Version(o) /\ v.status = NewStatus(o)
    BY <1>1, FreshType DEF Fresh
  <2>2. /\ o \in PipelineConfigs => NewStatus(o).contentHash = NoHash
        /\ o \in Bindings => NewStatus(o).registeredTenants = {}
    BY NamesDistinct DEF NewStatus
  <2> HIDE DEF v
  <2>3. StatusKept(o, v)
    BY <1>2 DEF Create, StatusKept
  <2>4. Written(o, v)
    BY <2>1, <2>2, <2>3 DEF Written, HashKept, TenantsKept
  <2>5. QED BY <1>2, <2>4 DEF Create, WriteStep, v
<1>3. ASSUME NEW spec \in SpecSet(o), EditSpec(o, spec) PROVE WriteStep
  BY <1>3, EditWritten DEF EditSpec, WriteStep
<1>4. ASSUME Delete(o) PROVE WriteStep
  <2>1. CASE store[o].finalizer
    BY <1>4, <2>1, EditWritten DEF Delete, WriteStep
  <2>2. CASE ~store[o].finalizer
    BY <1>1, <1>4, <2>2, GoneWritten DEF Delete, WriteStep
  <2>3. QED BY <2>1, <2>2
<1>5. QED BY <1>2, <1>3, <1>4

\* The registry's patch.
LEMMA RegistryWrites ==
  ASSUME SoundInv, NEW c \in Collectors, RegistryWork(c)
  PROVE  WriteStep
<1>1. CASE UNCHANGED <<store, watch>>
  BY <1>1 DEF WriteStep
<1>2. CASE Patch(c)
  <2> DEFINE b == rpc[c].key
             s == [store[b].status EXCEPT !.registeredTenants = rpc[c].edited]
  <2>1. rpc[c].step = "patch" /\ rpc[c] \in Patching
    BY <1>2, CallFields DEF Patch, SoundInv, TypeInv, TypeOK
  <2>2. b \in Bindings /\ rpc[c].edited \in SUBSET RegisteredTenant
    BY <2>1 DEF Patching
  <2>3. b \in Objects /\ b \notin PipelineConfigs
        /\ StatusSet(b) = CollectorGroupBindingStatus
    BY <2>2, NamesDistinct, BindingVersions
  <2>4. store[b].status \in CollectorGroupBindingStatus
    BY <2>3, StoredFields, VersionFields
  <2>5. /\ s \in StatusSet(b) /\ s.registeredTenants = rpc[c].edited
        /\ s.observedGeneration = store[b].status.observedGeneration
    BY <2>2, <2>3, <2>4 DEF CollectorGroupBindingStatus
  <2>6. UNCHANGED worker
    BY DEF RegistryWork, bindingVars
  <2>7. \/ UNCHANGED <<store, watch>>
        \/ Put(b, WithStatus(b, s))
    BY <1>2 DEF Patch, PatchTenants
  <2> HIDE DEF s, b
  <2>8. StatusKept(b, WithStatus(b, s))
    <3>1. b \notin Counted /\ store[b].status.observedGeneration \in Nat
      BY <2>2, <2>3, NamesDistinct, StoredFields DEF Counted
    <3>2. WithStatus(b, s).status = s
      BY <2>3, StatusFields
    <3>3. QED BY <2>5, <3>1, <3>2 DEF StatusKept
  <2>9. Written(b, WithStatus(b, s))
    BY <2>1, <2>3, <2>5, <2>6, <2>8, WithTypes, StatusFields
       DEF Written, TenantsKept, SoundInv, TypeInv, TypeOK, ApiTypeOK
  <2>10. QED BY <2>3, <2>7, <2>9 DEF WriteStep
<1>3. QED
  BY <1>1, <1>2 DEF RegistryWork, RegistryStep, RetryRegister, Refetch,
                    PatchConflict, apiVars

\* A counter is changed: hash and everything else stay.
LEMMA CounterMoveWrites ==
  ASSUME SoundInv, NEW o \in Counted, NEW step, CounterMove(o, step)
  PROVE  WriteStep
<1>1. ASSUME NEW n \in {1, -1}, CounterAnswer(o) = "OK", Adjust(o, n)
      PROVE  WriteStep
  <2> DEFINE s == [cache[o].status EXCEPT !.activeBindings = @ + n]
  <2>1. o \in Objects /\ Answer(o, cache[o]) = "OK" /\ o \notin Bindings
    BY <1>1, NamesDistinct DEF CounterAnswer, Counted, Objects
  <2>2. cache[o] = store[o] /\ store[o].exists
    BY <2>1, CachedPast, Accepted
  <2>3. s \in StatusSet(o)
    BY CounterStatusType DEF SoundInv, TypeInv, TypeOK, ApiTypeOK
  <2>4. /\ o \in PipelineConfigs => s.contentHash = store[o].status.contentHash
        /\ s.observedGeneration = store[o].status.observedGeneration
    <3>1. store[o].status \in StatusSet(o)
      BY <2>1, StoredFields, VersionFields
    <3>2. QED BY <2>1, <2>2, <3>1
              DEF Counted, StatusSet, PipelineConfigStatus, CollectorGroupStatus
  <2>5. Put(o, WithStatus(o, s))
    BY <1>1 DEF Adjust
  <2>6. LET t == store[o].status IN
        s = [t EXCEPT !.activeBindings = @ + 1]
          \/ s = [t EXCEPT !.activeBindings = @ - 1]
    <3>1. CASE n = 1
      BY <2>2, <3>1
    <3>2. CASE n = -1
      <4>1. store[o].status.activeBindings + n = store[o].status.activeBindings - 1
        <5>1. store[o].status.activeBindings \in Int
          BY <2>1, StoredFields, VersionFields
             DEF Counted, StatusSet, PipelineConfigStatus, CollectorGroupStatus
        <5>2. QED BY <3>2, <5>1
      <4>2. QED BY <2>2, <4>1
    <3>3. QED BY <3>1, <3>2
  <2> HIDE DEF s
  <2>7. StatusKept(o, WithStatus(o, s))
    <3>1. WithStatus(o, s).status = s
      BY <2>1, StatusFields
    <3>2. store[o].status.observedGeneration \in Nat
      BY <2>1, StoredFields
    <3>3. QED BY <2>4, <2>6, <3>1, <3>2 DEF StatusKept
  <2>8. Written(o, WithStatus(o, s))
    BY <2>1, <2>2, <2>3, <2>4, <2>7, WithTypes, StatusFields
       DEF Written, HashKept, SoundInv, TypeInv, TypeOK, ApiTypeOK
  <2>9. QED BY <2>1, <2>5, <2>8 DEF WriteStep
<1>2. CASE CounterAnswer(o) = "OK" /\ Decrement(o, step)
  BY <1>1, <1>2 DEF Decrement
<1>3. CASE CounterAnswer(o) = "OK" /\ Increment(o, step)
  BY <1>1, <1>3 DEF Increment
<1>4. CASE UNCHANGED <<store, watch>>
  BY <1>4 DEF WriteStep
<1>5. QED BY <1>2, <1>3, <1>4 DEF CounterMove, Skip

\* The list a reconcile writes back lacks only stale entries.
LEMMA EvictedAreStale ==
  ASSUME now \in Nat, NEW tenants \in SUBSET RegisteredTenant
  PROVE  /\ EvictStaleTenants(tenants) \subseteq tenants
         /\ \A t \in tenants : t \in EvictStaleTenants(tenants) \/ Stale(t)
<1>1. \A t \in tenants : t.lastSeenAt \in Nat
  BY DEF RegisteredTenant
<1>2. QED BY <1>1, CollectorTTLAssumption DEF EvictStaleTenants, Stale

\* A status of a binding is replaced by a reconcile that read the stored one.
LEMMA BindingStatusWritten ==
  ASSUME SoundInv, NEW b \in Bindings, NEW s \in CollectorGroupBindingStatus,
         s.registeredTenants \subseteq store[b].status.registeredTenants,
         \A t \in store[b].status.registeredTenants :
           t \in s.registeredTenants \/ Stale(t),
         s.observedGeneration = store[b].generation
  PROVE  Written(b, WithStatus(b, s))
<1>1. b \in Objects /\ b \notin PipelineConfigs /\ s \in StatusSet(b)
  BY NamesDistinct, BindingVersions
<1>2. WithStatus(b, s) \in Version(b) /\ WithStatus(b, s).status = s
  BY <1>1, WithTypes, StatusFields DEF SoundInv, TypeInv, TypeOK, ApiTypeOK
<1>3. StatusKept(b, WithStatus(b, s))
  <2>1. b \notin Counted
    BY NamesDistinct DEF Counted
  <2>2. QED BY <1>1, <2>1, ObservedKept
<1>4. QED BY <1>1, <1>2, <1>3 DEF Written, TenantsKept

\* The steps of a reconcile of a binding.
LEMMA WorkerWrites ==
  ASSUME SoundInv, WorkerStep
  PROVE  WriteStep
<1> DEFINE b == worker.key
           v == worker.binding
<1>1. worker # Idle
  BY DEF WorkerStep, ValidateRefs, ManageCounters, HandleDeletion,
         UpdateStatus, FinishDeletion, Idle
<1>2. StepSound(worker.step, v)
  BY <1>1 DEF SoundInv, TypeInv, WorkerSound
<1>3. CASE UNCHANGED <<store, watch>>
  BY <1>3 DEF WriteStep
<1>4. CASE ManageCounters \/ HandleDeletion
  BY <1>4, ManageCountersStep, CounterMoveWrites DEF SoundInv, TypeInv, TypeOK
<1>5. ASSUME Answer(b, v) = "OK"
      PROVE  /\ b \in Bindings /\ b \in Objects /\ store[b].exists
             /\ v = store[b] /\ v \in BindingVersion
             /\ v.status \in CollectorGroupBindingStatus /\ v.generation \in Nat
  BY <1>1, <1>5, BindingAccepted, BindingRefs
<1>6. ASSUME NEW reason \in RefsValidReasons \ {"RefsResolved"},
             SetRefsInvalid(reason)
      PROVE  WriteStep
  <2> DEFINE s == [v.status EXCEPT !.refsValid = reason,
                                   !.phase = DerivePhase(reason),
                                   !.observedGeneration = v.generation]
  <2>1. CASE Answer(b, v) = "OK"
    <3>1. DerivePhase(reason) \in CollectorGroupBindingPhase
      BY DEF DerivePhase, CollectorGroupBindingPhase
    <3>2. /\ s \in CollectorGroupBindingStatus
          /\ s.registeredTenants = v.status.registeredTenants
          /\ s.observedGeneration = v.generation
      BY <1>5, <2>1, <3>1 DEF CollectorGroupBindingStatus
    <3>3. Put(b, WithStatus(b, s))
      BY <1>6, <2>1 DEF SetRefsInvalid
    <3> HIDE DEF s
    <3>4. Written(b, WithStatus(b, s))
      BY <1>5, <2>1, <3>2, BindingStatusWritten
    <3>5. QED BY <1>5, <2>1, <3>3, <3>4 DEF WriteStep
  <2>2. CASE Answer(b, v) # "OK"
    BY <1>3, <1>6, <2>2 DEF SetRefsInvalid
  <2>3. QED BY <2>1, <2>2
<1>7. CASE ValidateRefs
  <2>1. RefsCheck(v) \in RefsValidReasons
    BY DEF RefsCheck, RefsValidReasons
  <2>2. QED BY <1>3, <1>6, <1>7, <2>1 DEF ValidateRefs
<1>8. CASE UpdateStatus /\ Answer(b, v) = "OK"
  <2> DEFINE s == SyncedStatus(v, worker.hash)
  <2>1. s \in CollectorGroupBindingStatus
    BY <1>1, <1>5, <1>8, SyncedStatusType, WorkingFields
       DEF SoundInv, TypeInv, TypeOK, ApiTypeOK
  <2>2. /\ s.registeredTenants = EvictStaleTenants(v.status.registeredTenants)
        /\ s.observedGeneration = v.generation
    BY DEF SyncedStatus
  <2>3. v.status.registeredTenants \in SUBSET RegisteredTenant
    BY <1>5, <1>8 DEF CollectorGroupBindingStatus
  <2>4. Put(b, WithStatus(b, s))
    BY <1>8 DEF UpdateStatus
  <2> HIDE DEF s
  <2>5. Written(b, WithStatus(b, s))
    BY <1>5, <1>8, <2>1, <2>2, <2>3, EvictedAreStale, BindingStatusWritten
       DEF SoundInv, TypeInv, TypeOK, ApiTypeOK
  <2>6. QED BY <1>5, <1>8, <2>4, <2>5 DEF WriteStep
<1>9. CASE FinishDeletion /\ Answer(b, v) = "OK"
  <2>1. v.deleting
    BY <1>2, <1>9 DEF FinishDeletion, StepSound, DeletionSteps
  <2>2. QED BY <1>5, <1>9, <2>1, ReleaseWritten DEF FinishDeletion, WriteStep
<1>10. QED
  BY <1>3, <1>4, <1>7, <1>8, <1>9 DEF WorkerStep, UpdateStatus, FinishDeletion

\* A worker takes a binding: the finalizer may be added.
LEMMA StartWrites ==
  ASSUME SoundInv, NEW b \in Bindings, StartReconcile(b)
  PROVE  WriteStep
<1>1. b \in Objects
  BY DEF Objects
<1>2. CASE UNCHANGED <<store, watch>>
  BY <1>2 DEF WriteStep
<1>3. CASE ReturnUpdate(b, cache[b], WithFinalizer(b))
  BY <1>1, <1>3, ReturnUpdateWrites, EditWritten
<1>4. QED BY <1>2, <1>3 DEF StartReconcile, Started

\* Only events on their way to the cache, and a restart, change the cache.
Moves ==
  \/ WriteStep /\ UNCHANGED cache
  \/ \E k \in Kinds : \E reqs : Deliver(k, reqs)
  \/ Relist

LEMMA EveryStepMoves ==
  ASSUME SoundInv, [Next]_vars
  PROVE  Moves
<1>1. CASE UNCHANGED <<store, watch, cache>>
  BY <1>1 DEF Moves, WriteStep
<1>2. ASSUME NEW p \in PipelineConfigs, PipelineConfigController(p)
      PROVE  Moves
  BY <1>2, PipelineConfigWrites
     DEF PipelineConfigController, ReconcilePipelineConfig, Moves
<1>3. ASSUME NEW g \in CollectorGroups, CollectorGroupController(g)
      PROVE  Moves
  BY <1>3, CollectorGroupWrites
     DEF CollectorGroupController, ReconcileCollectorGroup, Moves
<1>4. ASSUME NEW b \in Bindings, BindingTake(b) PROVE Moves
  BY <1>4, StartWrites DEF BindingTake, StartReconcile, Started, Moves
<1>5. CASE BindingWork
  BY <1>5, WorkerWrites
     DEF BindingWork, WorkerStep, ValidateRefs, ManageCounters, HandleDeletion,
         UpdateStatus, FinishDeletion, Moves
<1>6. ASSUME NEW c \in Collectors, RegistryWork(c) PROVE Moves
  BY <1>6, RegistryWrites
     DEF RegistryWork, RegistryStep, RetryRegister, Refetch, Patch,
         PatchConflict, apiVars, Moves
<1>7. ASSUME NEW o \in Objects, User(o) PROVE Moves
  BY <1>7, UserWrites DEF User, NoteRemoval, Moves
<1>8. ASSUME NEW k \in Kinds, Informer(k) PROVE Moves
  BY <1>8 DEF Informer, Moves
<1>9. CASE Restart
  BY <1>9 DEF Restart, Moves
<1>10. ASSUME \/ \E k \in Kinds : Resync(k)
              \/ \E c \in Collectors : RegistryCall(c)
              \/ Clock \/ UNCHANGED vars
       PROVE  UNCHANGED <<store, watch, cache>>
  BY <1>10 DEF Resync, Requeue, RegistryCall, Register, Unregister, Clock,
               Tick, vars, apiVars
<1>11. QED
  BY <1>1, <1>2, <1>3, <1>4, <1>5, <1>6, <1>7, <1>8, <1>9, <1>10 DEF Next

\* No write of a controller undoes a write of another: every one moves a
\* counter by one and leaves the rest of the status alone, or leaves the
\* counter alone, and observedGeneration never goes back. The status that is
\* written back whole comes from a copy the API server accepted as current.
THEOREM StatusWritesKept == Spec => NoLostUpdates
<1>1. ASSUME SoundInv, [Next]_vars, NEW o \in Objects,
             store[o].exists, store'[o].exists
      PROVE  LET s == store[o].status
                 t == store'[o].status
             IN /\ s.observedGeneration <= t.observedGeneration
                /\ o \in Counted /\ t.activeBindings # s.activeBindings =>
                     \/ t = [s EXCEPT !.activeBindings = @ + 1]
                     \/ t = [s EXCEPT !.activeBindings = @ - 1]
  <2>1. StoreTypeOK /\ store[o].status.observedGeneration \in Nat
    BY <1>1, StoredFields DEF SoundInv, TypeInv, TypeOK, ApiTypeOK
  <2>2. CASE store'[o].status = store[o].status
    BY <2>1, <2>2
  <2>3. ASSUME NEW x \in Objects, NEW v, Put(x, v), Written(x, v)
        PROVE  \/ store'[o] = store[o]
               \/ /\ StatusKept(o, v) /\ v.exists
                  /\ store'[o].status = v.status
    BY <1>1, <2>1, <2>3, PutStore DEF Written
  <2>4. CASE \E v : /\ StatusKept(o, v) /\ v.exists
                    /\ store'[o].status = v.status
    BY <1>1, <2>4 DEF StatusKept
  <2>5. UNCHANGED store \/ \E x \in Objects : \E v : Put(x, v) /\ Written(x, v)
    BY <1>1, EveryStepMoves DEF Moves, WriteStep, Deliver, Relist
  <2>6. QED BY <2>2, <2>3, <2>4, <2>5
<1>2. SoundInv /\ [Next]_vars =>
        [\A o \in Objects : store[o].exists /\ store'[o].exists =>
           LET s == store[o].status
               t == store'[o].status
           IN /\ s.observedGeneration <= t.observedGeneration
              /\ o \in Counted /\ t.activeBindings # s.activeBindings =>
                   \/ t = [s EXCEPT !.activeBindings = @ + 1]
                   \/ t = [s EXCEPT !.activeBindings = @ - 1]]_vars
  BY <1>1
<1>3. QED BY <1>2, SoundInit, SoundStep, PTL DEF Spec, NoLostUpdates

-----------------------------------------------------------------------------
(* Registered tenants.                                                     *)

\* What the steps do to the stored tenants of a binding.
LEMMA TenantsStep ==
  ASSUME SoundInv, Moves, NEW b \in Bindings
  PROVE  \/ store'[b] = store[b]
         \/ \E v : /\ TenantsKept(b, v) /\ store'[b].exists = v.exists
                   /\ store'[b].status = v.status
<1>1. b \in Objects /\ StoreTypeOK
  BY DEF Objects, SoundInv, TypeInv, TypeOK, ApiTypeOK
<1>2. CASE UNCHANGED store
  BY <1>2
<1>3. ASSUME NEW o \in Objects, NEW v, Put(o, v), Written(o, v)
      PROVE  \/ store'[b] = store[b]
             \/ /\ TenantsKept(b, v) /\ store'[b].exists = v.exists
                /\ store'[b].status = v.status
  BY <1>1, <1>3, PutStore DEF Written
<1>4. QED BY <1>2, <1>3 DEF Moves, WriteStep, Deliver, Relist

\* The binding reconciler drops a registered tenant only when it has not been
\* seen for the TTL (evictStaleTenants), for any number of bindings, tenants
\* and concurrent calls: the list it writes back is the stored one.
THEOREM OnlyStaleEvicted == Spec => EvictsOnlyStale
<1>1. ASSUME SoundInv, [Next]_vars, NEW b \in Bindings,
             worker # worker' /\ store'[b].exists,
             NEW t \in store[b].status.registeredTenants
      PROVE  t \in store'[b].status.registeredTenants \/ Stale(t)
  BY <1>1, EveryStepMoves, TenantsStep DEF TenantsKept
<1>2. SoundInv /\ [Next]_vars =>
        [\A b \in Bindings : worker # worker' /\ store'[b].exists =>
           \A t \in store[b].status.registeredTenants :
             \/ t \in store'[b].status.registeredTenants
             \/ Stale(t)]_vars
  BY <1>1
<1>3. QED BY <1>2, SoundInit, SoundStep, PTL DEF Spec, EvictsOnlyStale

\* The list a call of the registry is about to write is made from a copy.
LEMMA CallsKeyed ==
  ASSUME SoundInv, TenantsKeyed, [Next]_vars, NEW c \in Collectors,
         rpc'[c].step = "patch"
  PROVE  Keyed(rpc'[c].edited)
<1>0. RegistryTypeOK
  BY DEF SoundInv, TypeInv, TypeOK
<1>a. ASSUME NEW x \in Collectors, NEW call, rpc' = [rpc EXCEPT ![x] = call]
      PROVE  IF x = c THEN rpc'[c] = call ELSE rpc'[c] = rpc[c]
  BY <1>0, <1>a DEF RegistryTypeOK
<1>1. CASE rpc'[c] = rpc[c]
  BY <1>1 DEF TenantsKeyed
<1>2. ASSUME NEW b \in Bindings, NEW edited,
             edited \subseteq cache[b].status.registeredTenants
      PROVE  Keyed(edited)
  BY <1>2 DEF TenantsKeyed, Keyed
<1>b. ASSUME NEW x \in Collectors, NEW call, rpc' = [rpc EXCEPT ![x] = call],
             call.step = "patch" => Keyed(call.edited)
      PROVE  Keyed(rpc'[c].edited)
  BY <1>1, <1>a, <1>b
<1>3. ASSUME NEW x \in Collectors, NEW attempt, ReadForRegister(x, attempt)
      PROVE  Keyed(rpc'[c].edited)
  <2> DEFINE entry == [id |-> TenantOf[x], collectorId |-> x, lastSeenAt |-> now]
             call(b) == [step |-> "patch", op |-> "register",
                         attempt |-> attempt, key |-> b,
                         base |-> cache[b].status.registeredTenants,
                         edited |-> UpsertTenant(
                           cache[b].status.registeredTenants, entry)]
  <2>1. CASE Return(x)
    BY <1>b, <2>1 DEF Return, NoCall
  <2>2. ASSUME NEW b \in FindBinding(TenantOf[x], GroupOf[x]),
               rpc' = [rpc EXCEPT ![x] = call(b)]
        PROVE  Keyed(rpc'[c].edited)
    <3>1. Keyed(cache[b].status.registeredTenants)
      BY DEF FindBinding, TenantBindings, GroupBindings, TenantsKeyed
    <3>2. call(b).edited
            = UpsertTenant(cache[b].status.registeredTenants, entry)
      OBVIOUS
    <3> HIDE DEF entry, call
    <3>3. Keyed(call(b).edited)
      BY <3>1, <3>2 DEF UpsertTenant, Keyed
    <3>4. QED BY <1>b, <2>2, <3>3
  <2>3. QED BY <1>3, <2>1, <2>2 DEF ReadForRegister
<1>4. ASSUME NEW x \in Collectors, Refetch(x) PROVE Keyed(rpc'[c].edited)
  <2> DEFINE base == cache[rpc[x].key].status.registeredTenants
             call(t) == [step |-> "patch", op |-> "unregister",
                         attempt |-> rpc[x].attempt, key |-> rpc[x].key,
                         base |-> base, edited |-> base \ {t}]
  <2>1. CASE Return(x)
    BY <1>b, <2>1 DEF Return, NoCall
  <2>2. ASSUME NEW t, rpc' = [rpc EXCEPT ![x] = call(t)]
        PROVE  Keyed(rpc'[c].edited)
    <3>1. rpc[x] \in Refetching
      BY <1>0, <1>4, CallFields DEF Refetch
    <3>2. rpc[x].key \in Bindings
      BY <3>1 DEF Refetching
    <3>3. call(t).edited \subseteq cache[rpc[x].key].status.registeredTenants
      OBVIOUS
    <3> HIDE DEF base, call
    <3>4. Keyed(call(t).edited)
      BY <1>2, <3>2, <3>3
    <3>5. QED BY <1>b, <2>2, <3>4
  <2>3. QED BY <1>4, <2>1, <2>2 DEF Refetch
<1>5. ASSUME NEW x \in Collectors, Unregister(x) \/ Patch(x) \/ PatchConflict(x)
      PROVE  rpc'[c] = rpc[c]
  <2>1. ASSUME NEW call, call.step # "patch", rpc' = [rpc EXCEPT ![x] = call]
        PROVE  rpc'[c] = rpc[c]
    BY <1>a, <2>1
  <2>2. CASE Unregister(x)
    BY <2>1, <2>2 DEF Unregister
  <2>3. CASE Patch(x)
    BY <2>1, <2>3 DEF Patch, Return, NoCall
  <2>4. CASE PatchConflict(x)
    BY <2>1, <2>4 DEF PatchConflict, Return, NoCall
  <2>5. QED BY <1>5, <2>2, <2>3, <2>4
<1>6. ASSUME NEW x \in Collectors, RegistryCall(x) \/ RegistryWork(x)
      PROVE  Keyed(rpc'[c].edited)
  BY <1>1, <1>3, <1>4, <1>5, <1>6
     DEF RegistryCall, RegistryWork, Register, RegistryStep, RetryRegister
<1>7. ~Restart
  BY DEF Restart, NoCall
<1>8. ASSUME ~\E x \in Collectors : RegistryCall(x) \/ RegistryWork(x)
      PROVE  UNCHANGED rpc
  BY <1>7, <1>8 DEF Next, PipelineConfigController, CollectorGroupController,
     BindingTake, BindingWork, Informer, Resync, User, Clock, vars
<1>9. QED BY <1>1, <1>6, <1>8

\* Together: every copy of a list follows from keyed ones.
LEMMA TenantsKeyedStep ==
  ASSUME SoundInv, TenantsKeyed, [Next]_vars
  PROVE  TenantsKeyed'
<1>1. ASSUME NEW b \in Bindings PROVE Keyed(store'[b].status.registeredTenants)
  <2>1. CASE store'[b] = store[b]
    BY <2>1 DEF TenantsKeyed
  <2>2. ASSUME NEW v, TenantsKept(b, v), store'[b].status = v.status
        PROVE  Keyed(store'[b].status.registeredTenants)
    <3>1. CASE v.status.registeredTenants \subseteq store[b].status.registeredTenants
      BY <2>2, <3>1 DEF TenantsKeyed, Keyed
    <3>2. ASSUME NEW c \in Collectors, rpc[c].step = "patch",
                 v.status.registeredTenants = rpc[c].edited
          PROVE  Keyed(store'[b].status.registeredTenants)
      BY <2>2, <3>2 DEF TenantsKeyed
    <3>3. QED BY <2>2, <3>1, <3>2 DEF TenantsKept
  <2>3. QED BY <2>1, <2>2, EveryStepMoves, TenantsStep
<1>2. StepOrderly
  BY EveryStep DEF SoundInv
<1>3. ASSUME NEW b \in Bindings PROVE Keyed(cache'[b].status.registeredTenants)
  <2>1. b \in Objects
    BY DEF Objects
  <2>2. \/ cache'[b] = cache[b] \/ cache'[b] = store'[b]
        \/ \E k \in Kinds : \E i \in 1 .. Len(watch[k]) :
             watch[k][i].object = b /\ cache'[b] = watch[k][i].version
    BY <1>2, <2>1 DEF StepOrderly, CacheFollows
  <2>3. CASE cache'[b] = cache[b]
    BY <2>3 DEF TenantsKeyed
  <2>4. CASE cache'[b] = store'[b]
    BY <1>1, <2>4
  <2>5. ASSUME NEW k \in Kinds, NEW i \in 1 .. Len(watch[k]),
               watch[k][i].object = b, cache'[b] = watch[k][i].version
        PROVE  Keyed(cache'[b].status.registeredTenants)
    BY <2>5 DEF TenantsKeyed
  <2>6. QED BY <2>2, <2>3, <2>4, <2>5
<1>4. ASSUME NEW k \in Kinds, NEW i \in 1 .. Len(watch'[k]),
             watch'[k][i].object \in Bindings
      PROVE  Keyed(watch'[k][i].version.status.registeredTenants)
  <2>1. ASSUME NEW j \in 1 .. Len(watch[k]), watch'[k][i] = watch[k][j]
        PROVE  Keyed(watch'[k][i].version.status.registeredTenants)
    BY <1>4, <2>1 DEF TenantsKeyed
  <2>2. ASSUME NEW o \in Objects,
               watch'[k][i] = [object |-> o, version |-> store'[o]]
        PROVE  Keyed(watch'[k][i].version.status.registeredTenants)
    <3>1. watch'[k][i].object = o /\ watch'[k][i].version = store'[o]
      BY <2>2
    <3>2. QED BY <1>1, <1>4, <3>1
  <2>3. QED BY <1>2, <2>1, <2>2 DEF StepOrderly, Orderly, Follows
<1>5. QED BY <1>1, <1>3, <1>4, CallsKeyed DEF TenantsKeyed

\* A binding never lists a tenant twice, whatever registrations, refreshes and
\* unregistrations of however many collectors overwrite one another: the map
\* key of the schema of registeredTenants is respected by every patch.
THEOREM TenantsNeverTwice == Spec => []TenantsListedOnce
<1>1. Init => TenantsKeyed
  <2> SUFFICES ASSUME Init PROVE TenantsKeyed
    OBVIOUS
  <2>1. PICK specs \in InitialSpecs :
          /\ store = [o \in Objects |-> InitialObject(o, specs)]
          /\ cache = store /\ watch = [k \in Kinds |-> <<>>]
    BY DEF Init, ApiInit
  <2>2. ASSUME NEW b \in Bindings
        PROVE  store[b].status.registeredTenants = {}
    <3>1. b \in Objects /\ b \notin Counted /\ b \notin PipelineConfigs
          /\ b \notin CollectorGroups
      BY BindingVersions, NamesDistinct
    <3>2. NewStatus(b).registeredTenants = {}
      BY <3>1 DEF NewStatus
    <3>3. store[b].status = NewStatus(b)
      BY <2>1, <3>1, ReconciledAssumption DEF InitialObject, Gone, Fresh
    <3>4. QED BY <3>2, <3>3
  <2>3. \A c \in Collectors : rpc[c].step # "patch"
    BY DEF Init, RegistryInit, NoCall
  <2>4. \A k \in Kinds : 1 .. Len(watch[k]) = {}
    BY <2>1
  <2>5. \A b \in Bindings : /\ Keyed(store[b].status.registeredTenants)
                            /\ Keyed(cache[b].status.registeredTenants)
    BY <2>1, <2>2 DEF Keyed
  <2>6. QED BY <2>3, <2>4, <2>5 DEF TenantsKeyed
<1>2. TenantsKeyed => TenantsListedOnce
  BY DEF TenantsKeyed, TenantsListedOnce, Keyed
<1>3. SoundInv /\ TenantsKeyed /\ [Next]_vars => TenantsKeyed'
  BY TenantsKeyedStep
<1>4. QED BY <1>1, <1>2, <1>3, SoundInit, SoundStep, PTL DEF Spec

-----------------------------------------------------------------------------
(* The order of events.                                                    *)

\* A write adds the newest version at the end of the watch of its kind.
LEMMA PutInOrder ==
  ASSUME SoundInv, EventsInOrder, NEW o \in Objects, NEW v \in Version(o),
         Put(o, v), UNCHANGED cache
  PROVE  EventsInOrder'
<1> DEFINE E == [object : Objects, version : AnyVersion]
           w == [v EXCEPT !.rv = store[o].rv + 1]
           e == [object |-> o, version |-> w]
           q == KindOf(o)
<1> USE DEF SoundInv, TypeInv, TypeOK, ApiTypeOK
<1>1. CASE UNCHANGED <<store, watch>>
  BY <1>1 DEF EventsInOrder
<1>2. CASE watch' = [watch EXCEPT ![q] = Append(@, e)]
  <2>1. q \in Kinds /\ watch \in [Kinds -> Seq(E)]
    BY DEF KindOf, Kinds, WatchTypeOK
  <2>2. store[o].rv \in Nat /\ w.rv = store[o].rv + 1 /\ cache[o].rv \in Nat
    BY StoredFields, VersionFields DEF CacheTypeOK, Version, VersionOf
  <2>3. cache[o].rv <= w.rv
    BY <2>2, CachedPast DEF Past
  <2>4. e.object = o /\ e.version.rv = w.rv
    OBVIOUS
  <2> HIDE DEF E, w, e, q
  <2>5. watch[q] \in Seq(E)
    BY <2>1
  <2> DEFINE n == Len(watch[q])
  <2>6. /\ n \in Nat /\ watch'[q] = Append(watch[q], e) /\ Len(watch'[q]) = n + 1
        /\ watch'[q][n + 1] = e
        /\ \A i \in 1 .. n : watch'[q][i] = watch[q][i]
    BY <1>2, <2>1, <2>5
  <2> HIDE DEF n
  <2>7. \A k \in Kinds \ {q} : watch'[k] = watch[k]
    BY <1>2, <2>1
  <2>8. ASSUME NEW i \in 1 .. n, watch[q][i].object = o
        PROVE  watch[q][i].version.rv <= w.rv
    <3>1. i \in 1 .. Len(watch[q])
      BY DEF n
    <3>2. watch[q][i].version \in Version(o) /\ Past(o, watch[q][i].version)
      BY <2>1, <2>8, <3>1, EventFields DEF CopiesArePast
    <3>3. watch[q][i].version.rv \in Nat
      BY <3>2, VersionFields
    <3>4. watch[q][i].version.rv <= store[o].rv
      BY <3>2 DEF Past
    <3> HIDE DEF SoundInv, TypeInv, TypeOK, ApiTypeOK
    <3>5. QED BY <2>2, <3>3, <3>4
  <2> HIDE DEF SoundInv, TypeInv, TypeOK, ApiTypeOK
  <2>9. ASSUME NEW k \in Kinds, NEW i \in 1 .. Len(watch'[k])
        PROVE  /\ KindOf(watch'[k][i].object) = k
               /\ cache'[watch'[k][i].object].rv <= watch'[k][i].version.rv
               /\ \A j \in i .. Len(watch'[k]) :
                    watch'[k][j].object = watch'[k][i].object
                    => watch'[k][i].version.rv <= watch'[k][j].version.rv
    <3>1. CASE k # q
      BY <2>7, <2>9, <3>1 DEF EventsInOrder
    <3>2. CASE k = q /\ i = n + 1
      <4>1. watch'[k][i] = e /\ Len(watch'[k]) = n + 1
        BY <2>6, <3>2
      <4>2. KindOf(e.object) = k
        BY <2>4, <3>2 DEF q
      <4>3. cache'[e.object].rv <= e.version.rv
        BY <2>3, <2>4
      <4>4. ASSUME NEW j \in i .. Len(watch'[k])
            PROVE  e.version.rv <= watch'[k][j].version.rv
        <5>1. j = i
          BY <2>6, <3>2, <4>1
        <5>2. QED BY <2>2, <2>4, <4>1, <5>1
      <4>5. QED BY <4>1, <4>2, <4>3, <4>4
    <3>3. CASE k = q /\ i \in 1 .. n
      <4>1. /\ KindOf(watch[q][i].object) = q
            /\ cache[watch[q][i].object].rv <= watch[q][i].version.rv
            /\ \A j \in i .. n : watch[q][j].object = watch[q][i].object
                 => watch[q][i].version.rv <= watch[q][j].version.rv
        BY <2>1, <3>3 DEF EventsInOrder, n
      <4>2. ASSUME NEW j \in i .. n + 1,
                   watch'[q][j].object = watch[q][i].object
            PROVE  watch[q][i].version.rv <= watch'[q][j].version.rv
        <5>1. CASE j \in i .. n
          <6>1. watch'[q][j] = watch[q][j]
            BY <2>6, <3>3, <5>1
          <6>2. QED BY <4>1, <4>2, <5>1, <6>1
        <5>2. CASE j = n + 1
          <6>1. watch'[q][j].object = o /\ watch'[q][j].version.rv = w.rv
            BY <2>4, <2>6, <5>2
          <6>2. QED BY <2>8, <3>3, <4>2, <6>1
        <5>3. j \in i .. n \/ j = n + 1
          BY <2>6, <3>3
        <5>4. QED BY <5>1, <5>2, <5>3
      <4>3. QED BY <2>6, <3>3, <4>1, <4>2
    <3>4. k = q => i = n + 1 \/ i \in 1 .. n
      BY <2>6
    <3>5. QED BY <3>1, <3>2, <3>3, <3>4
  <2>10. QED BY <2>9 DEF EventsInOrder
<1>3. QED BY <1>1, <1>2 DEF Put

\* The delivery of an event.
LEMMA DeliverInOrder ==
  ASSUME SoundInv, EventsInOrder, NEW q \in Kinds, NEW reqs, Deliver(q, reqs)
  PROVE  /\ EventsInOrder'
         /\ \A o \in Objects : cache[o].rv <= cache'[o].rv
<1> DEFINE E == [object : Objects, version : AnyVersion]
           e == Head(watch[q])
           n == Len(watch[q])
<1> USE DEF SoundInv, TypeInv, TypeOK, ApiTypeOK
<1>1. /\ watch \in [Kinds -> Seq(E)] /\ watch[q] \in Seq(E) /\ watch[q] # <<>>
      /\ cache' = [cache EXCEPT ![e.object] = e.version]
      /\ watch' = [watch EXCEPT ![q] = Tail(watch[q])]
  BY DEF Deliver, WatchTypeOK
<1>2. /\ 1 \in 1 .. n /\ e = watch[q][1] /\ e.object \in Objects
      /\ e.version \in Version(e.object)
  BY <1>1, FirstEvent
<1> HIDE DEF E, e
<1>3. /\ n \in Nat /\ Len(Tail(watch[q])) = n - 1
      /\ \A i \in 1 .. n - 1 :
           i + 1 \in 1 .. n /\ Tail(watch[q])[i] = watch[q][i + 1]
  BY <1>1
<1>4. /\ watch'[q] = Tail(watch[q])
      /\ \A k \in Kinds \ {q} : watch'[k] = watch[k]
      /\ cache'[e.object] = e.version
      /\ \A o \in Objects \ {e.object} : cache'[o] = cache[o]
  BY <1>1, <1>2 DEF CacheTypeOK
<1> HIDE DEF n
<1>5. /\ KindOf(e.object) = q /\ cache[e.object].rv <= e.version.rv
      /\ \A j \in 1 .. n : watch[q][j].object = e.object
                           => e.version.rv <= watch[q][j].version.rv
  BY <1>2 DEF EventsInOrder, n
<1>6. \A o \in Objects : cache[o].rv \in Nat
  BY VersionFields DEF CacheTypeOK
<1>w. WatchTypeOK
  OBVIOUS
<1> HIDE DEF SoundInv, TypeInv, TypeOK, ApiTypeOK
<1>7. \A o \in Objects : cache[o].rv <= cache'[o].rv
  <2> SUFFICES ASSUME NEW o \in Objects PROVE cache[o].rv <= cache'[o].rv
    OBVIOUS
  <2>1. CASE o = e.object
    BY <1>4, <1>5, <2>1
  <2>2. CASE o # e.object
    <3>1. cache'[o] = cache[o] /\ cache[o].rv \in Nat
      BY <1>4, <1>6, <2>2
    <3>2. QED BY <3>1
  <2>3. QED BY <2>1, <2>2
<1>8. ASSUME NEW k \in Kinds, NEW i \in 1 .. Len(watch'[k])
      PROVE  /\ KindOf(watch'[k][i].object) = k
             /\ cache'[watch'[k][i].object].rv <= watch'[k][i].version.rv
             /\ \A j \in i .. Len(watch'[k]) :
                  watch'[k][j].object = watch'[k][i].object
                  => watch'[k][i].version.rv <= watch'[k][j].version.rv
  <2>1. CASE k # q
    <3>1. watch'[k] = watch[k] /\ watch[k][i].object \in Objects
      BY <1>4, <1>w, <1>8, <2>1, EventFields
    <3>2. /\ KindOf(watch[k][i].object) = k
          /\ cache[watch[k][i].object].rv <= watch[k][i].version.rv
          /\ \A j \in i .. Len(watch[k]) :
               watch[k][j].object = watch[k][i].object
               => watch[k][i].version.rv <= watch[k][j].version.rv
      BY <1>8, <3>1 DEF EventsInOrder
    <3>3. watch[k][i].object # e.object
      BY <1>5, <2>1, <3>2
    <3>4. QED BY <1>4, <3>1, <3>2, <3>3
  <2>2. CASE k = q
    <3>1. i \in 1 .. n - 1 /\ Len(watch'[q]) = n - 1
      BY <1>3, <1>4, <1>8, <2>2
    <3>2. /\ i + 1 \in 1 .. n /\ watch'[q][i] = watch[q][i + 1]
          /\ \A j \in i .. n - 1 : /\ j + 1 \in i + 1 .. n
                                   /\ watch'[q][j] = watch[q][j + 1]
      <4>1. /\ i + 1 \in 1 .. n
            /\ \A j \in i .. n - 1 : j \in 1 .. n - 1 /\ j + 1 \in i + 1 .. n
        BY <1>3, <3>1
      <4>2. \A j \in 1 .. n - 1 : watch'[q][j] = watch[q][j + 1]
        BY <1>3, <1>4, <3>1
      <4>3. QED BY <3>1, <4>1, <4>2
    <3>3. /\ watch[q][i + 1].object \in Objects
          /\ KindOf(watch[q][i + 1].object) = q
          /\ cache[watch[q][i + 1].object].rv <= watch[q][i + 1].version.rv
          /\ \A j \in i + 1 .. n :
               watch[q][j].object = watch[q][i + 1].object
               => watch[q][i + 1].version.rv <= watch[q][j].version.rv
      BY <1>w, <3>2, EventFields DEF EventsInOrder, n
    <3>4. cache'[watch[q][i + 1].object].rv <= watch[q][i + 1].version.rv
      BY <1>4, <1>5, <3>2, <3>3
    <3>5. QED BY <2>2, <3>1, <3>2, <3>3, <3>4
  <2>3. QED BY <2>1, <2>2
<1>9. QED BY <1>7, <1>8 DEF EventsInOrder

\* Every step.
LEMMA InOrderStep ==
  ASSUME SoundInv, EventsInOrder, [Next]_vars
  PROVE  /\ EventsInOrder'
         /\ \A o \in Objects : cache[o].rv <= cache'[o].rv
<1> USE DEF SoundInv, TypeInv, TypeOK, ApiTypeOK
<1>1. \A o \in Objects : cache[o].rv \in Nat
  BY VersionFields DEF CacheTypeOK
<1> HIDE DEF SoundInv, TypeInv, TypeOK, ApiTypeOK
<1>2. CASE WriteStep /\ UNCHANGED cache
  <2>1. CASE UNCHANGED <<store, watch>>
    <3>1. cache' = cache /\ watch' = watch
      BY <1>2, <2>1
    <3>2. EventsInOrder'
      BY <3>1 DEF EventsInOrder
    <3>3. QED BY <1>1, <3>1, <3>2
  <2>2. ASSUME NEW o \in Objects, NEW v, Put(o, v), Written(o, v)
        PROVE  EventsInOrder'
    BY <1>2, <2>2, PutInOrder DEF Written
  <2>3. EventsInOrder'
    BY <1>2, <2>1, <2>2 DEF WriteStep
  <2>4. \A o \in Objects : cache[o].rv <= cache'[o].rv
    BY <1>1, <1>2
  <2>5. QED BY <2>3, <2>4
<1>3. ASSUME NEW k \in Kinds, NEW reqs, Deliver(k, reqs)
      PROVE  /\ EventsInOrder'
             /\ \A o \in Objects : cache[o].rv <= cache'[o].rv
  BY <1>3, DeliverInOrder
<1>4. CASE Relist
  <2>1. \A k \in Kinds : 1 .. Len(watch'[k]) = {}
    BY <1>4 DEF Relist
  <2>2. EventsInOrder'
    BY <2>1 DEF EventsInOrder
  <2>3. QED BY <1>4, <2>2, CachedPast DEF Relist, Past
<1>5. QED BY <1>2, <1>3, <1>4, EveryStepMoves DEF Moves

LEMMA InOrderInit == Init => EventsInOrder
<1> SUFFICES ASSUME Init PROVE EventsInOrder
  OBVIOUS
<1>1. \A k \in Kinds : 1 .. Len(watch[k]) = {}
  BY DEF Init, ApiInit
<1>2. QED BY <1>1 DEF EventsInOrder

\* No reader of the informer cache (the reconcilers, the registry, the config
\* resolver and the metrics collector) ever sees an object go back to an older
\* version; across a restart, because Relist takes the current store.
THEOREM CacheNeverGoesBack == Spec => CacheAdvances
<1>1. SoundInv /\ EventsInOrder /\ [Next]_vars
      => [\A o \in Objects : cache[o].rv <= cache'[o].rv]_vars
  BY InOrderStep
<1>2. SoundInv /\ EventsInOrder /\ [Next]_vars => EventsInOrder'
  BY InOrderStep
<1>3. QED
  BY <1>1, <1>2, InOrderInit, SoundInit, SoundStep, PTL DEF Spec, CacheAdvances
=============================================================================
