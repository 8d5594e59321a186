--------------------------- MODULE OperatorProofs ---------------------------
(***************************************************************************)
(* Proofs about Operator for any number of objects, tenants and calls.     *)
(***************************************************************************)
EXTENDS OperatorInvariants, TLAPS, SequenceTheorems

-----------------------------------------------------------------------------
(* Versions of objects.                                                    *)

\* What membership in Version(o) says, field by field.
LEMMA VersionFields ==
  ASSUME NEW o, NEW v \in Version(o)
  PROVE  /\ v = [rv |-> v.rv, exists |-> v.exists, generation |-> v.generation,
                 finalizer |-> v.finalizer, deleting |-> v.deleting,
                 spec |-> v.spec, status |-> v.status]
         /\ v.rv \in Nat /\ v.generation \in Nat
         /\ v.exists \in BOOLEAN /\ v.finalizer \in BOOLEAN
         /\ v.deleting \in BOOLEAN
         /\ v.spec \in SpecSet(o) \cup {NoSpec}
         /\ v.exists => v.spec \in SpecSet(o)
         /\ v.status \in StatusSet(o)
BY DEF Version, VersionOf

\* A version built from fields of the right sets is a version of o.
LEMMA VersionBuilt ==
  ASSUME NEW o, NEW rv \in Nat, NEW exists \in BOOLEAN,
         NEW generation \in Nat, NEW finalizer \in BOOLEAN,
         NEW deleting \in BOOLEAN, NEW spec \in SpecSet(o) \cup {NoSpec},
         NEW status \in StatusSet(o), exists => spec \in SpecSet(o)
  PROVE  [rv |-> rv, exists |-> exists, generation |-> generation,
          finalizer |-> finalizer, deleting |-> deleting,
          spec |-> spec, status |-> status] \in Version(o)
BY DEF Version, VersionOf

\* Every version is one of the versions the type of the store allows.
LEMMA VersionIsAny ==
  ASSUME NEW o \in Objects
  PROVE  Version(o) \subseteq AnyVersion
BY DEF Version, AnyVersion, BindingVersion, SpecSet, StatusSet

\* The status a new object starts with is a status of its kind.
LEMMA NewStatusType ==
  ASSUME NEW o PROVE NewStatus(o) \in StatusSet(o)
<1>1. CASE o \in PipelineConfigs
  BY <1>1 DEF NewStatus, StatusSet, PipelineConfigStatus, Hashes
<1>2. CASE o \notin PipelineConfigs /\ o \in CollectorGroups
  BY <1>2 DEF NewStatus, StatusSet, CollectorGroupStatus
<1>3. CASE o \notin PipelineConfigs /\ o \notin CollectorGroups
  BY <1>3 DEF NewStatus, StatusSet, CollectorGroupBindingStatus, Hashes,
              RefsValidReasons, CollectorGroupBindingPhase
<1>4. QED BY <1>1, <1>2, <1>3

\* The records Gone and Fresh make are versions.
LEMMA GoneType ==
  ASSUME NEW o, NEW rv \in Nat PROVE Gone(o, rv) \in Version(o)
BY VersionBuilt, NewStatusType DEF Gone

LEMMA FreshType ==
  ASSUME NEW o, NEW rv \in Nat, NEW spec \in SpecSet(o)
  PROVE  Fresh(o, rv, spec) \in Version(o)
BY VersionBuilt, NewStatusType DEF Fresh

\* Replacing the status of a version by another status gives a version.
LEMMA StatusReplaced ==
  ASSUME NEW o, NEW v \in Version(o), NEW s \in StatusSet(o)
  PROVE  [v EXCEPT !.status = s] \in Version(o)
BY DEF Version, VersionOf

\* So does a new generation with another spec or a deletion mark.
LEMMA NewGeneration ==
  ASSUME NEW o, NEW v \in Version(o)
  PROVE  /\ \A spec \in SpecSet(o) :
              [v EXCEPT !.spec = spec, !.generation = @ + 1] \in Version(o)
         /\ [v EXCEPT !.deleting = TRUE, !.generation = @ + 1] \in Version(o)
<1>1. v.generation + 1 \in Nat
  BY VersionFields
<1>2. ASSUME NEW n \in Nat, NEW spec \in SpecSet(o)
      PROVE  [v EXCEPT !.spec = spec, !.generation = n] \in Version(o)
  BY DEF Version, VersionOf
<1>3. ASSUME NEW n \in Nat
      PROVE  [v EXCEPT !.deleting = TRUE, !.generation = n] \in Version(o)
  BY DEF Version, VersionOf
<1>4. QED BY <1>1, <1>2, <1>3

-----------------------------------------------------------------------------
(* Writes.                                                                 *)

\* The stored objects are left alone or get a new resourceVersion.
Grows ==
  \A o \in Objects : store'[o] = store[o] \/ store'[o].rv = store[o].rv + 1

\* New watch events carry stored objects.
Follows ==
  \A k \in Kinds : \A i \in 1 .. Len(watch'[k]) :
    \/ \E j \in 1 .. Len(watch[k]) : watch'[k][i] = watch[k][j]
    \/ \E o \in Objects : watch'[k][i] = [object |-> o, version |-> store'[o]]

\* What every step does to the API server's side, types included.
Orderly == StoreTypeOK' /\ WatchTypeOK' /\ Grows /\ Follows

\* A step that writes nothing is orderly.
LEMMA NoWrite ==
  ASSUME StoreTypeOK, WatchTypeOK, UNCHANGED <<store, watch>>
  PROVE  Orderly
BY DEF StoreTypeOK, WatchTypeOK, Orderly, Grows, Follows

\* The effect of a write on the store.
LEMMA PutStore ==
  ASSUME StoreTypeOK, NEW o \in Objects, NEW v \in Version(o), Put(o, v)
  PROVE  /\ store' \in [Objects -> AnyVersion]
         /\ store'[o] \in Version(o)
         /\ \A x \in Objects \ {o} : store'[x] = store[x]
         /\ store'[o].exists = v.exists /\ store'[o].generation = v.generation
         /\ store'[o].finalizer = v.finalizer /\ store'[o].deleting = v.deleting
         /\ store'[o].spec = v.spec /\ store'[o].status = v.status
         /\ store'[o] = store[o] \/ store'[o].rv = store[o].rv + 1
<1> DEFINE w == [v EXCEPT !.rv = store[o].rv + 1]
<1>1. store[o] \in Version(o) /\ store[o].rv \in Nat
  BY VersionFields DEF StoreTypeOK
<1>2. /\ w \in Version(o) /\ w.rv = store[o].rv + 1
      /\ w.exists = v.exists /\ w.generation = v.generation
      /\ w.finalizer = v.finalizer /\ w.deleting = v.deleting
      /\ w.spec = v.spec /\ w.status = v.status
  BY <1>1 DEF Version, VersionOf
<1>3. CASE v = store[o] /\ UNCHANGED <<store, watch>>
  BY <1>1, <1>3 DEF StoreTypeOK
<1>4. CASE store' = [store EXCEPT ![o] = w]
  <2>1. w \in AnyVersion
    BY <1>2, VersionIsAny
  <2>2. QED BY <1>2, <1>4, <2>1 DEF StoreTypeOK
<1>5. QED BY <1>3, <1>4 DEF Put

\* The effect of a write on the watch.
LEMMA PutWatch ==
  ASSUME StoreTypeOK, WatchTypeOK,
         NEW o \in Objects, NEW v \in Version(o), Put(o, v)
  PROVE  watch' \in [Kinds -> Seq([object : Objects, version : AnyVersion])]
         /\ Follows
<1> DEFINE w == [v EXCEPT !.rv = store[o].rv + 1]
           e == [object |-> o, version |-> w]
<1>1. CASE UNCHANGED <<store, watch>>
  BY <1>1 DEF WatchTypeOK, Follows
<1>2. CASE /\ store' = [store EXCEPT ![o] = w]
           /\ watch' = [watch EXCEPT ![KindOf(o)] = Append(@, e)]
  <2>1. KindOf(o) \in Kinds
    BY DEF KindOf, Kinds
  <2>2. store'[o] = w /\ w \in AnyVersion
    <3>1. store'[o] \in Version(o)
      BY PutStore
    <3>2. QED BY <1>2, <3>1, VersionIsAny DEF StoreTypeOK
  <2>3. e \in [object : Objects, version : AnyVersion]
    BY <2>2
  <2> HIDE DEF e, w
  <2>4. watch' \in [Kinds -> Seq([object : Objects, version : AnyVersion])]
    <3> DEFINE E == [object : Objects, version : AnyVersion]
    <3>1. watch \in [Kinds -> Seq(E)] /\ e \in E
      BY <2>3 DEF WatchTypeOK
    <3> HIDE DEF E
    <3>2. Append(watch[KindOf(o)], e) \in Seq(E)
      BY <2>1, <3>1
    <3>3. watch' \in [Kinds -> Seq(E)]
      BY <1>2, <3>1, <3>2
    <3>4. QED BY <3>3 DEF E
  <2>5. ASSUME NEW k \in Kinds, NEW i \in 1 .. Len(watch'[k])
        PROVE  \/ \E j \in 1 .. Len(watch[k]) : watch'[k][i] = watch[k][j]
               \/ watch'[k][i] = e
    <3>1. CASE k # KindOf(o)
      BY <1>2, <2>1, <3>1 DEF WatchTypeOK
    <3>2. CASE k = KindOf(o)
      <4>1. watch'[k] = Append(watch[k], e)
        BY <1>2, <3>2 DEF WatchTypeOK
      <4>2. watch[k] \in Seq([object : Objects, version : AnyVersion])
        BY DEF WatchTypeOK
      <4>3. QED BY <2>3, <4>1, <4>2
    <3>3. QED BY <3>1, <3>2
  <2>6. e = [object |-> o, version |-> store'[o]]
    BY <2>2 DEF e
  <2>7. QED BY <2>4, <2>5, <2>6 DEF Follows
<1>3. QED BY <1>1, <1>2 DEF Put

\* A write is orderly.
LEMMA PutOrderly ==
  ASSUME StoreTypeOK, WatchTypeOK,
         NEW o \in Objects, NEW v \in Version(o), Put(o, v)
  PROVE  Orderly
<1>1. StoreTypeOK' /\ Grows
  BY PutStore DEF StoreTypeOK, Grows
<1>2. Follows
  BY PutWatch
<1>3. ASSUME NEW k \in Kinds, NEW i \in 1 .. Len(watch'[k])
      PROVE  watch'[k][i].version \in Version(watch'[k][i].object)
  <2>1. ASSUME NEW j \in 1 .. Len(watch[k]), watch'[k][i] = watch[k][j]
        PROVE  watch'[k][i].version \in Version(watch'[k][i].object)
    BY <2>1 DEF WatchTypeOK
  <2>2. ASSUME NEW x \in Objects,
               watch'[k][i] = [object |-> x, version |-> store'[x]]
        PROVE  watch'[k][i].version \in Version(watch'[k][i].object)
    BY <1>1, <2>2 DEF StoreTypeOK
  <2>3. QED BY <1>2, <1>3, <2>1, <2>2 DEF Follows
<1>4. WatchTypeOK'
  BY <1>3, PutWatch DEF WatchTypeOK
<1>5. QED BY <1>1, <1>2, <1>4 DEF Orderly

\* The stored object with another status, with and without the finalizer is a
\* version with the same resourceVersion.
LEMMA WithTypes ==
  ASSUME StoreTypeOK, NEW o \in Objects
  PROVE  /\ \A s \in StatusSet(o) : WithStatus(o, s) \in Version(o)
         /\ WithFinalizer(o) \in Version(o)
         /\ WithoutFinalizer(o) \in Version(o)
<1>1. store[o] \in Version(o) /\ store[o].rv \in Nat
  BY VersionFields DEF StoreTypeOK
<1>2. \A s \in StatusSet(o) : WithStatus(o, s) \in Version(o)
  BY <1>1, StatusReplaced DEF WithStatus
<1>3. WithFinalizer(o) \in Version(o)
  BY <1>1 DEF WithFinalizer, Version, VersionOf
<1>4. [store[o] EXCEPT !.finalizer = FALSE] \in Version(o)
  BY <1>1 DEF Version, VersionOf
<1>5. QED BY <1>1, <1>2, <1>3, <1>4, GoneType DEF WithoutFinalizer

\* A reconcile that ends with a write of its own object is orderly.
LEMMA ReturnUpdateOrderly ==
  ASSUME StoreTypeOK, WatchTypeOK, queue \subseteq Objects,
         NEW o \in Objects, NEW v, NEW w \in Version(o), ReturnUpdate(o, v, w)
  PROVE  Orderly /\ queue' \subseteq Objects
BY NoWrite, PutOrderly DEF ReturnUpdate

\* What users do is orderly.
LEMMA UserOrderly ==
  ASSUME StoreTypeOK, WatchTypeOK, NEW o \in Objects,
         \/ \E spec \in SpecSet(o) : Create(o, spec) \/ EditSpec(o, spec)
         \/ Delete(o)
  PROVE  Orderly
<1>1. store[o] \in Version(o) /\ store[o].rv \in Nat
  BY VersionFields DEF StoreTypeOK
<1>2. ASSUME NEW spec \in SpecSet(o), Create(o, spec) PROVE Orderly
  BY <1>1, <1>2, FreshType, PutOrderly DEF Create
<1>3. ASSUME NEW spec \in SpecSet(o), EditSpec(o, spec) PROVE Orderly
  <2>1. [store[o] EXCEPT !.spec = spec, !.generation = @ + 1] \in Version(o)
    BY <1>1, NewGeneration
  <2>2. QED BY <1>3, <2>1, PutOrderly DEF EditSpec
<1>4. ASSUME Delete(o) PROVE Orderly
  <2>1. [store[o] EXCEPT !.deleting = TRUE, !.generation = @ + 1] \in Version(o)
    BY <1>1, NewGeneration
  <2>2. QED BY <1>1, <1>4, <2>1, GoneType, PutOrderly DEF Delete
<1>5. QED BY <1>2, <1>3, <1>4

-----------------------------------------------------------------------------
(* The controllers of PipelineConfigs and CollectorGroups.                 *)

\* A reconcile of a PipelineConfig is orderly.
LEMMA PipelineConfigOrderly ==
  ASSUME ApiTypeOK, NEW p \in PipelineConfigs, ReconcilePipelineConfig(p)
  PROVE  Orderly /\ queue' \subseteq Objects
<1> DEFINE pc == cache[p]
<1> USE DEF ApiTypeOK
<1>1. p \in Objects /\ pc \in Version(p) /\ StatusSet(p) = PipelineConfigStatus
      /\ SpecSet(p) = PipelineConfigSpec
  BY DEF Objects, CacheTypeOK, StatusSet, SpecSet
<1>2. /\ pc.status \in PipelineConfigStatus /\ pc.generation \in Nat
      /\ pc.exists => pc.spec \in PipelineConfigSpec
  BY <1>1, VersionFields
<1>3. EmptyContentStatus(pc) \in StatusSet(p)
  BY <1>1, <1>2 DEF EmptyContentStatus, PipelineConfigStatus
<1>4. ASSUME pc.exists, pc.spec.content # EmptyContent
      PROVE  HashedContentStatus(pc) \in StatusSet(p)
  <2>1. pc.spec.content \in Contents
    BY <1>2, <1>4 DEF PipelineConfigSpec
  <2>2. Sha256(pc.spec.content) \in Hashes
    BY <2>1 DEF Hashes
  <2>3. QED BY <1>1, <1>2, <2>2 DEF HashedContentStatus, PipelineConfigStatus
<1>5. CASE UNCHANGED <<store, watch>> /\ queue' \subseteq Objects
  BY <1>5, NoWrite
<1>6. CASE PipelineConfigDeletion(p)
  BY <1>1, <1>5, <1>6, WithTypes, ReturnUpdateOrderly DEF PipelineConfigDeletion
<1>7. CASE ReturnUpdate(p, pc, WithFinalizer(p))
  BY <1>1, <1>7, WithTypes, ReturnUpdateOrderly
<1>8. CASE ReturnUpdate(p, pc, WithStatus(p, EmptyContentStatus(pc)))
  BY <1>1, <1>3, <1>8, WithTypes, ReturnUpdateOrderly
<1>9. CASE /\ pc.exists /\ pc.spec.content # EmptyContent
           /\ ReturnUpdate(p, pc, WithStatus(p, HashedContentStatus(pc)))
  BY <1>1, <1>4, <1>9, WithTypes, ReturnUpdateOrderly
<1>10. QED BY <1>5, <1>6, <1>7, <1>8, <1>9 DEF ReconcilePipelineConfig

\* A reconcile of a CollectorGroup is orderly.
LEMMA CollectorGroupOrderly ==
  ASSUME ApiTypeOK, NEW g \in CollectorGroups, ReconcileCollectorGroup(g)
  PROVE  Orderly /\ queue' \subseteq Objects
<1> DEFINE cg == cache[g]
<1> USE DEF ApiTypeOK
<1>1. g \in Objects /\ cg \in Version(g) /\ StatusSet(g) = CollectorGroupStatus
  BY NamesDistinct DEF Objects, CacheTypeOK, StatusSet
<1>2. cg.status \in CollectorGroupStatus /\ cg.generation \in Nat
  BY <1>1, VersionFields
<1>3. [cg.status EXCEPT !.observedGeneration = cg.generation] \in StatusSet(g)
  BY <1>1, <1>2 DEF CollectorGroupStatus
<1>5. CASE UNCHANGED <<store, watch>> /\ queue' \subseteq Objects
  BY <1>5, NoWrite
<1>6. CASE CollectorGroupDeletion(g)
  BY <1>1, <1>5, <1>6, WithTypes, ReturnUpdateOrderly DEF CollectorGroupDeletion
<1>7. CASE ReturnUpdate(g, cg, WithFinalizer(g))
  BY <1>1, <1>7, WithTypes, ReturnUpdateOrderly
<1>8. CASE ReturnUpdate(g, cg, WithStatus(g,
             [cg.status EXCEPT !.observedGeneration = cg.generation]))
  BY <1>1, <1>3, <1>8, WithTypes, ReturnUpdateOrderly
<1>9. QED BY <1>5, <1>6, <1>7, <1>8 DEF ReconcileCollectorGroup

-----------------------------------------------------------------------------
(* The controller of CollectorGroupBindings.                               *)

\* A reconcile in progress goes on with the binding it has read, ends, or
\* begins with the cached binding.
WorkerFollows ==
  \/ worker' = Idle
  \/ /\ worker # Idle
     /\ worker'.key = worker.key /\ worker'.binding = worker.binding
  \/ /\ worker'.key \in Bindings
     /\ worker'.binding = cache[worker'.key]

WorkerOrderly == BindingTypeOK' /\ WorkerSound' /\ WorkerFollows

\* The versions of bindings and the references in them.
LEMMA BindingVersions ==
  ASSUME NEW b \in Bindings
  PROVE  /\ b \in Objects /\ b \notin Counted
         /\ Version(b) = BindingVersion
         /\ SpecSet(b) = CollectorGroupBindingSpec
         /\ StatusSet(b) = CollectorGroupBindingStatus
BY NamesDistinct DEF Objects, Counted, Version, BindingVersion, SpecSet, StatusSet

LEMMA BindingRefs ==
  ASSUME NEW v \in BindingVersion
  PROVE  /\ PrevPC(v) \in PipelineConfigs \cup {NoRef}
         /\ PrevCG(v) \in CollectorGroups \cup {NoRef}
         /\ v.exists => /\ NewPC(v) \in PipelineConfigs
                        /\ NewCG(v) \in CollectorGroups \cup {NoRef}
         /\ v.status \in CollectorGroupBindingStatus /\ v.generation \in Nat
         /\ v.rv \in Nat
<1>1. /\ v.status \in CollectorGroupBindingStatus /\ v.generation \in Nat
      /\ v.rv \in Nat
      /\ v.exists => v.spec \in CollectorGroupBindingSpec
  BY DEF BindingVersion, VersionOf
<1>2. PrevPC(v) \in PipelineConfigs \cup {NoRef}
  BY <1>1 DEF PrevPC, CollectorGroupBindingStatus
<1>3. PrevCG(v) \in CollectorGroups \cup {NoRef}
  BY <1>1 DEF PrevCG, CollectorGroupBindingStatus
<1>4. ASSUME v.exists
      PROVE  /\ NewPC(v) \in PipelineConfigs
             /\ NewCG(v) \in CollectorGroups \cup {NoRef}
  BY <1>1, <1>4 DEF NewPC, NewCG, CollectorGroupBindingSpec
<1>5. QED BY <1>1, <1>2, <1>3, <1>4

\* Wherever a reconcile goes, the step fits the binding.
LEMMA TargetsSound ==
  ASSUME NEW v, v.exists, v.deleting \in BOOLEAN
  PROVE  /\ ~v.deleting /\ v.finalizer =>
              \A step \in {"validateRefs", FromReleasePC(v), FromReleaseCG(v),
                           FromChargePC(v), FromChargeCG(v), "updateStatus"} :
                step \in Steps /\ StepSound(step, v)
         /\ v.deleting =>
              \A step \in {FromDeletePC(v), FromDeleteCG(v), "removeFinalizer"} :
                step \in Steps /\ StepSound(step, v)
BY DEF FromReleasePC, FromReleaseCG, FromChargePC, FromChargeCG, FromDeletePC,
       FromDeleteCG, Steps, StepSound, DeletionSteps

\* A reconcile that moves on to a step that fits its binding.
LEMMA MoveOrderly ==
  ASSUME BindingTypeOK, worker # Idle, suspect' \subseteq Counted,
         NEW step \in Steps, StepSound(step, worker.binding),
         NEW hash \in Hashes, NEW charged \in SUBSET Counted,
         NEW released \in SUBSET Counted,
         worker' = [step |-> step, key |-> worker.key,
                    binding |-> worker.binding, hash |-> hash,
                    charged |-> charged, released |-> released]
  PROVE  WorkerOrderly
BY DEF BindingTypeOK, Working, WorkerOrderly, WorkerSound, WorkerFollows

\* A reconcile that fails.
LEMMA FailOrderly ==
  ASSUME BindingTypeOK, queue \subseteq Objects, worker # Idle, Fail
  PROVE  WorkerOrderly /\ queue' \subseteq Objects
<1>1. worker.key \in Objects /\ Adjusted \subseteq Counted
  BY DEF BindingTypeOK, Working, Adjusted, Objects
<1>2. QED
  BY <1>1 DEF Fail, BindingTypeOK, WorkerOrderly, WorkerSound, WorkerFollows

\* What the type invariant says of a reconcile in progress.
LEMMA WorkingFields ==
  ASSUME BindingTypeOK, worker # Idle
  PROVE  /\ worker = [step |-> worker.step, key |-> worker.key,
                      binding |-> worker.binding, hash |-> worker.hash,
                      charged |-> worker.charged, released |-> worker.released]
         /\ worker.step \in Steps /\ worker.key \in Bindings
         /\ worker.binding \in BindingVersion /\ worker.hash \in Hashes
         /\ worker.charged \in SUBSET Counted
         /\ worker.released \in SUBSET Counted
BY DEF BindingTypeOK, Working

\* The first step of a reconcile: fetch, deletion check, finalizer.
LEMMA StartReconcileOrderly ==
  ASSUME ApiTypeOK, BindingTypeOK, NEW b \in Bindings, StartReconcile(b)
  PROVE  Orderly /\ WorkerOrderly /\ queue' \subseteq Objects
<1> USE DEF ApiTypeOK
<1>1. b \in Objects /\ cache[b] \in BindingVersion /\ worker = Idle
      /\ cache[b].deleting \in BOOLEAN
  BY BindingVersions, VersionFields DEF CacheTypeOK, StartReconcile
<1>2. ASSUME NEW step \in Steps, StepSound(step, cache[b]), Started(b, step)
      PROVE  Orderly /\ WorkerOrderly /\ queue' \subseteq Objects
  <2>1. worker' \in Working
    BY <1>1, <1>2 DEF Started, Working, Hashes
  <2>2. Orderly
    BY <1>2, NoWrite DEF Started
  <2>3. QED
    BY <1>2, <2>1, <2>2 DEF Started, WorkerOrderly, BindingTypeOK, WorkerSound,
                            WorkerFollows
<1>3. CASE UNCHANGED bindingVars
           /\ \/ UNCHANGED <<store, watch>> /\ queue' = queue \ {b}
              \/ ReturnUpdate(b, cache[b], WithFinalizer(b))
  <2>1. WorkerOrderly
    BY <1>1, <1>3 DEF bindingVars, WorkerOrderly, BindingTypeOK, WorkerSound,
                      WorkerFollows
  <2>2. QED BY <1>1, <1>3, <2>1, NoWrite, ReturnUpdateOrderly, WithTypes
<1>4. CASE /\ cache[b].exists /\ cache[b].deleting
           /\ Started(b, FromDeletePC(cache[b]))
  BY <1>1, <1>2, <1>4, TargetsSound
<1>5. CASE /\ cache[b].exists /\ ~cache[b].deleting /\ cache[b].finalizer
           /\ Started(b, "validateRefs")
  BY <1>1, <1>2, <1>5, TargetsSound
<1>6. QED BY <1>3, <1>4, <1>5 DEF StartReconcile

\* validateRefs, with the status write of setRefsInvalid.
LEMMA ValidateRefsOrderly ==
  ASSUME ApiTypeOK, BindingTypeOK, WorkerSound, ValidateRefs
  PROVE  Orderly /\ WorkerOrderly /\ queue' \subseteq Objects
<1> DEFINE v == worker.binding
           b == worker.key
<1> USE DEF ApiTypeOK
<1>1. worker # Idle
  BY DEF ValidateRefs, Idle
<1>2. /\ StepSound("validateRefs", v) /\ v \in BindingVersion
      /\ b \in Bindings /\ v.exists /\ ~v.deleting /\ v.finalizer
      /\ v.deleting \in BOOLEAN
  <2>1. StepSound("validateRefs", v) /\ v \in BindingVersion /\ b \in Bindings
    BY <1>1, WorkingFields DEF WorkerSound, ValidateRefs
  <2>2. QED BY <2>1 DEF StepSound, DeletionSteps, BindingVersion, VersionOf
<1>3. CASE /\ worker' = [worker EXCEPT
                           !.step = FromReleasePC(v),
                           !.hash = cache[NewPC(v)].status.contentHash]
           /\ UNCHANGED <<store, watch, queue, suspect>>
  <2>1. NewPC(v) \in PipelineConfigs
    BY <1>2, BindingRefs
  <2>2. cache[NewPC(v)].status.contentHash \in Hashes
    <3>1. cache[NewPC(v)] \in Version(NewPC(v))
      BY <2>1 DEF CacheTypeOK, Objects
    <3>2. cache[NewPC(v)].status \in PipelineConfigStatus
      BY <2>1, <3>1, VersionFields DEF StatusSet
    <3>3. QED BY <3>2 DEF PipelineConfigStatus
  <2>3. FromReleasePC(v) \in Steps /\ StepSound(FromReleasePC(v), v)
    BY <1>2, TargetsSound
  <2>4. worker' = [step |-> FromReleasePC(v), key |-> worker.key,
                   binding |-> worker.binding,
                   hash |-> cache[NewPC(v)].status.contentHash,
                   charged |-> worker.charged, released |-> worker.released]
    BY <1>1, <1>3, WorkingFields
  <2>5. worker.charged \in SUBSET Counted /\ worker.released \in SUBSET Counted
        /\ suspect' \subseteq Counted
    BY <1>1, <1>3, WorkingFields DEF BindingTypeOK
  <2>6. WorkerOrderly
    BY <1>1, <2>2, <2>3, <2>4, <2>5, MoveOrderly
  <2>7. QED BY <1>3, <2>6, NoWrite
<1>4. ASSUME NEW reason \in RefsValidReasons, SetRefsInvalid(reason)
      PROVE  Orderly /\ WorkerOrderly /\ queue' \subseteq Objects
  <2> DEFINE status == [v.status EXCEPT !.refsValid = reason,
                                        !.phase = DerivePhase(reason),
                                        !.observedGeneration = v.generation]
  <2>1. DerivePhase(reason) \in CollectorGroupBindingPhase
    BY DEF DerivePhase, CollectorGroupBindingPhase
  <2>2. status \in StatusSet(b)
    <3>1. v.status \in CollectorGroupBindingStatus /\ v.generation \in Nat
      BY <1>2, BindingRefs
    <3>2. status \in CollectorGroupBindingStatus
      BY <2>1, <3>1 DEF CollectorGroupBindingStatus
    <3>3. QED BY <1>2, <3>2, BindingVersions
  <2>3. Fail /\ (Put(b, WithStatus(b, status)) \/ UNCHANGED <<store, watch>>)
    BY <1>4 DEF SetRefsInvalid
  <2>4. b \in Objects /\ WithStatus(b, status) \in Version(b)
    BY <1>2, <2>2, BindingVersions, WithTypes
  <2>5. QED BY <1>1, <2>3, <2>4, FailOrderly, PutOrderly, NoWrite
<1>5. RefsCheck(v) \in RefsValidReasons
  BY DEF RefsCheck, RefsValidReasons
<1>6. QED BY <1>3, <1>4, <1>5 DEF ValidateRefs

\* Counters are integers.
LEMMA CounterType ==
  ASSUME NEW o \in Counted, NEW v \in Version(o)
  PROVE  o \in Objects /\ v.status.activeBindings \in Int
<1>1. o \in Objects /\ v.status \in StatusSet(o)
  BY VersionFields DEF Counted, Objects
<1>2. QED
  BY <1>1 DEF StatusSet, PipelineConfigStatus, CollectorGroupStatus, Counted

\* A counter changed by one is a status of its kind.
LEMMA CounterStatusType ==
  ASSUME CacheTypeOK, NEW o \in Counted, NEW n \in Int
  PROVE  /\ o \in Objects
         /\ [cache[o].status EXCEPT !.activeBindings = @ + n] \in StatusSet(o)
<1>1. o \in Objects /\ cache[o].status \in StatusSet(o)
  BY VersionFields DEF CacheTypeOK, Counted, Objects
<1>2. CASE o \in PipelineConfigs
  BY <1>1, <1>2 DEF StatusSet, PipelineConfigStatus
<1>3. CASE o \notin PipelineConfigs /\ o \in CollectorGroups
  BY <1>1, <1>3 DEF StatusSet, CollectorGroupStatus
<1>4. QED BY <1>1, <1>2, <1>3 DEF Counted

\* What a reconcile may do at a counter.
CounterMove(o, step) ==
  \/ CounterAnswer(o) = "OK" /\ Decrement(o, step)
  \/ CounterAnswer(o) = "OK" /\ Increment(o, step)
  \/ Skip(o, step)
  \/ Fail /\ UNCHANGED <<store, watch>>

\* A step on the counter of o that goes on to a step that fits the binding.
LEMMA CounterStepOrderly ==
  ASSUME ApiTypeOK, BindingTypeOK, worker # Idle, NEW o \in Counted,
         NEW step \in Steps, StepSound(step, worker.binding),
         CounterMove(o, step)
  PROVE  Orderly /\ WorkerOrderly /\ queue' \subseteq Objects
<1> USE DEF ApiTypeOK
<1>1. ASSUME NEW n \in Int, Adjust(o, n)
      PROVE  Orderly /\ queue' \subseteq Objects /\ suspect' \subseteq Counted
  <2>1. o \in Objects
        /\ WithStatus(o, [cache[o].status EXCEPT !.activeBindings = @ + n])
             \in Version(o)
    BY CounterStatusType, WithTypes
  <2>2. QED BY <1>1, <2>1, PutOrderly DEF Adjust, BindingTypeOK
<1>2. CASE Decrement(o, step)
  <2>1. Adjust(o, -1)
    BY <1>2 DEF Decrement
  <2>2. worker' = [step |-> step, key |-> worker.key,
                   binding |-> worker.binding, hash |-> worker.hash,
                   charged |-> worker.charged,
                   released |-> worker.released \cup {o}]
    BY <1>2, WorkingFields DEF Decrement
  <2>3. worker.released \cup {o} \in SUBSET Counted
    BY WorkingFields
  <2>4. QED BY <1>1, <2>1, <2>2, <2>3, WorkingFields, MoveOrderly
<1>3. CASE Increment(o, step)
  <2>1. Adjust(o, 1)
    BY <1>3 DEF Increment
  <2>2. worker' = [step |-> step, key |-> worker.key,
                   binding |-> worker.binding, hash |-> worker.hash,
                   charged |-> worker.charged \cup {o},
                   released |-> worker.released]
    BY <1>3, WorkingFields DEF Increment
  <2>3. worker.charged \cup {o} \in SUBSET Counted
    BY WorkingFields
  <2>4. QED BY <1>1, <2>1, <2>2, <2>3, WorkingFields, MoveOrderly
<1>4. CASE Skip(o, step)
  <2>1. worker' = [step |-> step, key |-> worker.key,
                   binding |-> worker.binding, hash |-> worker.hash,
                   charged |-> worker.charged, released |-> worker.released]
    BY <1>4, WorkingFields DEF Skip, Goto
  <2>2. suspect' \subseteq Counted /\ UNCHANGED <<store, watch, queue>>
    BY <1>4 DEF Skip, BindingTypeOK
  <2>3. QED BY <2>1, <2>2, WorkingFields, MoveOrderly, NoWrite
<1>5. CASE Fail /\ UNCHANGED <<store, watch>>
  BY <1>5, FailOrderly, NoWrite
<1>6. QED BY <1>2, <1>3, <1>4, <1>5 DEF CounterMove

\* The counter steps: which object each is about, and where it goes.
LEMMA ManageCountersStep ==
  ASSUME BindingTypeOK, WorkerSound, ManageCounters \/ HandleDeletion
  PROVE  /\ worker # Idle
         /\ \E o \in Counted : \E step \in Steps :
              StepSound(step, worker.binding) /\ CounterMove(o, step)
<1> DEFINE v == worker.binding
<1>1. worker # Idle
  BY DEF ManageCounters, HandleDeletion, Idle
<1>2. StepSound(worker.step, v) /\ v \in BindingVersion
  BY <1>1, WorkingFields DEF WorkerSound
<1>3. v.exists /\ v.deleting \in BOOLEAN
  BY <1>2 DEF StepSound, BindingVersion, VersionOf
<1>4. /\ worker.step \in {"releasePC", "deletePC"} => PrevPC(v) \in Counted
      /\ worker.step \in {"releaseCG", "deleteCG"} => PrevCG(v) \in Counted
      /\ NewPC(v) \in Counted
      /\ worker.step = "chargeCG" => NewCG(v) \in Counted
  BY <1>2, <1>3, BindingRefs DEF StepSound, Counted
<1>5. CASE ManageCounters
  <2>1. ~v.deleting /\ v.finalizer
    BY <1>2, <1>5 DEF StepSound, DeletionSteps, ManageCounters
  <2>2. \A step \in {FromReleaseCG(v), FromChargePC(v), FromChargeCG(v),
                     "updateStatus"} : step \in Steps /\ StepSound(step, v)
    BY <1>3, <2>1, TargetsSound
  <2>3. \E o \in Counted : \E step \in {FromReleaseCG(v), FromChargePC(v),
                                       FromChargeCG(v), "updateStatus"} :
          CounterMove(o, step)
    <3>1. \A o, step : Release(o, step) \/ Charge(o, step) => CounterMove(o, step)
      BY DEF Release, Charge, CounterMove
    <3>2. CASE worker.step = "releasePC" /\ Release(PrevPC(v), FromReleaseCG(v))
      BY <1>4, <3>1, <3>2
    <3>3. CASE worker.step = "releaseCG" /\ Release(PrevCG(v), FromChargePC(v))
      BY <1>4, <3>1, <3>3
    <3>4. CASE Charge(NewPC(v), FromChargeCG(v))
      BY <1>4, <3>1, <3>4
    <3>5. CASE worker.step = "chargeCG" /\ Charge(NewCG(v), "updateStatus")
      BY <1>4, <3>1, <3>5
    <3>6. QED BY <1>5, <3>2, <3>3, <3>4, <3>5 DEF ManageCounters
  <2>4. QED BY <1>1, <2>2, <2>3
<1>6. CASE HandleDeletion
  <2>1. v.deleting
    BY <1>2, <1>6 DEF StepSound, DeletionSteps, HandleDeletion
  <2>2. \A step \in {FromDeleteCG(v), "removeFinalizer"} :
          step \in Steps /\ StepSound(step, v)
    BY <1>3, <2>1, TargetsSound
  <2>3. \E o \in Counted : \E step \in {FromDeleteCG(v), "removeFinalizer"} :
          CounterMove(o, step)
    <3>1. \A o, step : ReleaseForDeletion(o, step) => CounterMove(o, step)
      BY DEF ReleaseForDeletion, CounterMove
    <3>2. CASE /\ worker.step = "deletePC"
               /\ ReleaseForDeletion(PrevPC(v), FromDeleteCG(v))
      BY <1>4, <3>1, <3>2
    <3>3. CASE /\ worker.step = "deleteCG"
               /\ ReleaseForDeletion(PrevCG(v), "removeFinalizer")
      BY <1>4, <3>1, <3>3
    <3>4. QED BY <1>6, <3>2, <3>3 DEF HandleDeletion
  <2>4. QED BY <1>1, <2>2, <2>3
<1>7. QED BY <1>5, <1>6

\* The status a successful reconcile writes.
LEMMA SyncedStatusType ==
  ASSUME now \in Nat, NEW v \in BindingVersion, v.exists, NEW hash \in Hashes
  PROVE  SyncedStatus(v, hash) \in CollectorGroupBindingStatus
<1>1. v.status \in CollectorGroupBindingStatus /\ v.generation \in Nat
      /\ NewPC(v) \in PipelineConfigs
      /\ NewCG(v) \in CollectorGroups \cup {NoRef}
  BY BindingRefs
<1>2. EvictStaleTenants(v.status.registeredTenants) \subseteq RegisteredTenant
  BY <1>1 DEF EvictStaleTenants, CollectorGroupBindingStatus
<1>3. DerivePhase("RefsResolved") \in CollectorGroupBindingPhase
  BY DEF DerivePhase, CollectorGroupBindingPhase
<1>4. QED
  BY <1>1, <1>2, <1>3
     DEF SyncedStatus, CollectorGroupBindingStatus, RefsValidReasons

\* The last writes of a reconcile.
LEMMA LastWriteOrderly ==
  ASSUME ApiTypeOK, BindingTypeOK, WorkerSound, UpdateStatus \/ FinishDeletion
  PROVE  Orderly /\ WorkerOrderly /\ queue' \subseteq Objects
<1> DEFINE v == worker.binding
           b == worker.key
           status == SyncedStatus(v, worker.hash)
<1> USE DEF ApiTypeOK
<1>1. worker # Idle
  BY DEF UpdateStatus, FinishDeletion, Idle
<1>2. b \in Bindings /\ v \in BindingVersion /\ worker.hash \in Hashes
      /\ b \in Objects /\ v.exists
  BY <1>1, WorkingFields, BindingVersions DEF WorkerSound, StepSound
<1>3. CASE Fail /\ UNCHANGED <<store, watch>>
  BY <1>1, <1>3, FailOrderly, NoWrite
<1>4. ASSUME worker' = Idle, UNCHANGED suspect PROVE WorkerOrderly
  BY <1>4 DEF WorkerOrderly, BindingTypeOK, WorkerSound, WorkerFollows
<1>5. CASE /\ Put(b, WithStatus(b, status))
           /\ worker' = Idle /\ UNCHANGED suspect
           /\ queue' = RequeueForEviction(b, status.registeredTenants)
  <2>1. status \in StatusSet(b)
    BY <1>2, SyncedStatusType, BindingVersions
  <2>2. QED BY <1>2, <1>4, <1>5, <2>1, WithTypes, PutOrderly DEF RequeueForEviction
<1>6. CASE /\ Put(b, WithoutFinalizer(b))
           /\ worker' = Idle /\ UNCHANGED <<queue, suspect>>
  BY <1>2, <1>4, <1>6, WithTypes, PutOrderly
<1>7. QED BY <1>3, <1>5, <1>6 DEF UpdateStatus, FinishDeletion

-----------------------------------------------------------------------------
(* The registry.                                                           *)

\* The calls of the registry by their step.
LEMMA CallFields ==
  ASSUME RegistryTypeOK, NEW c \in Collectors
  PROVE  /\ rpc[c].step = "findBinding" => rpc[c] \in Waiting
         /\ rpc[c].step = "refetch" => rpc[c] \in Refetching
         /\ rpc[c].step = "patch" => rpc[c] \in Patching
<1>1. rpc[c] \in {NoCall} \cup Waiting \cup Refetching \cup Patching
  BY DEF RegistryTypeOK
<1>2. QED BY <1>1 DEF NoCall, Waiting, Refetching, Patching

\* A call that ends, or takes a step, keeps the type.
LEMMA CallChanged ==
  ASSUME RegistryTypeOK, RegistrySound, NEW c \in Collectors,
         NEW call \in {NoCall} \cup Waiting \cup Refetching \cup Patching,
         \/ call \in {NoCall} \cup Refetching
         \/ call \in Patching /\ call.op = "unregister"
         \/ TenantOf[c] # NoRef,
         rpc' = [rpc EXCEPT ![c] = call]
  PROVE  RegistryTypeOK' /\ RegistrySound'
<1>1. RegistryTypeOK'
  BY DEF RegistryTypeOK
<1>2. ASSUME NEW x \in Collectors,
             \/ rpc'[x].step = "findBinding"
             \/ rpc'[x].step = "patch" /\ rpc'[x].op = "register"
      PROVE  TenantOf[x] # NoRef
  <2>1. CASE x # c
    BY <1>2, <2>1 DEF RegistryTypeOK, RegistrySound
  <2>2. CASE x = c
    <3>1. rpc'[c] = call
      BY DEF RegistryTypeOK
    <3>2. ~(call \in {NoCall} \cup Refetching)
      BY <1>2, <2>2, <3>1 DEF NoCall, Refetching
    <3>3. ~(call \in Patching /\ call.op = "unregister")
      BY <1>2, <2>2, <3>1 DEF Patching
    <3>4. QED BY <2>2, <3>2, <3>3
  <2>3. QED BY <2>1, <2>2
<1>3. QED BY <1>1, <1>2 DEF RegistrySound

\* The registered tenants of a cached binding.
LEMMA CachedTenants ==
  ASSUME CacheTypeOK, NEW b \in Bindings
  PROVE  cache[b].status.registeredTenants \in SUBSET RegisteredTenant
<1>1. cache[b].status \in CollectorGroupBindingStatus
  BY BindingVersions, VersionFields DEF CacheTypeOK
<1>2. QED BY <1>1 DEF CollectorGroupBindingStatus

\* An attempt of Register up to the patch.
LEMMA ReadForRegisterType ==
  ASSUME ApiTypeOK, RegistryTypeOK, RegistrySound, NEW c \in Collectors,
         NEW attempt \in 0 .. MaxPatchRetries - 1, TenantOf[c] # NoRef,
         ReadForRegister(c, attempt)
  PROVE  RegistryTypeOK' /\ RegistrySound'
<1> DEFINE entry == [id |-> TenantOf[c], collectorId |-> c, lastSeenAt |-> now]
           base(b) == cache[b].status.registeredTenants
           call(b) == [step |-> "patch", op |-> "register", attempt |-> attempt,
                       key |-> b, base |-> base(b),
                       edited |-> UpsertTenant(base(b), entry)]
<1>1. CASE Return(c)
  BY <1>1, CallChanged DEF Return
<1>2. entry \in RegisteredTenant
  BY AttributesAssumption DEF RegisteredTenant, ApiTypeOK
<1>3. ASSUME NEW b \in FindBinding(TenantOf[c], GroupOf[c]),
             rpc' = [rpc EXCEPT ![c] = call(b)]
      PROVE  RegistryTypeOK' /\ RegistrySound'
  <2>1. b \in Bindings
    BY DEF FindBinding, TenantBindings, GroupBindings
  <2>2. base(b) \in SUBSET RegisteredTenant
    BY <2>1, CachedTenants DEF ApiTypeOK
  <2> HIDE DEF entry, base
  <2>3. UpsertTenant(base(b), entry) \in SUBSET RegisteredTenant
    BY <1>2, <2>2 DEF UpsertTenant
  <2>4. call(b) \in Patching
    BY <2>1, <2>2, <2>3 DEF Patching
  <2> HIDE DEF call
  <2>5. QED BY <1>3, <2>4, CallChanged
<1>4. QED BY <1>1, <1>3 DEF ReadForRegister

\* A new call of the registry.
LEMMA RegistryCallType ==
  ASSUME ApiTypeOK, RegistryTypeOK, RegistrySound, NEW c \in Collectors,
         Register(c) \/ Unregister(c)
  PROVE  RegistryTypeOK' /\ RegistrySound'
<1>1. CASE Register(c)
  <2>1. 0 \in 0 .. MaxPatchRetries - 1
    BY DEF MaxPatchRetries
  <2>2. QED BY <1>1, <2>1, ReadForRegisterType DEF Register
<1>2. CASE Unregister(c)
  <2>1. PICK b \in Bindings :
          rpc' = [rpc EXCEPT ![c] = [step |-> "refetch", attempt |-> 0, key |-> b]]
    BY <1>2 DEF Unregister
  <2>2. [step |-> "refetch", attempt |-> 0, key |-> b] \in Refetching
    BY DEF Refetching, MaxPatchRetries
  <2>3. QED BY <2>1, <2>2, CallChanged
<1>3. QED BY <1>1, <1>2

\* The merge patch is orderly.
LEMMA PatchTenantsOrderly ==
  ASSUME StoreTypeOK, WatchTypeOK, NEW b \in Bindings, NEW base,
         NEW edited \in SUBSET RegisteredTenant, PatchTenants(b, base, edited)
  PROVE  Orderly
<1> DEFINE s == [store[b].status EXCEPT !.registeredTenants = edited]
<1>1. store[b].status \in CollectorGroupBindingStatus
  BY BindingVersions, VersionFields DEF StoreTypeOK
<1>2. s \in CollectorGroupBindingStatus
  BY <1>1 DEF CollectorGroupBindingStatus
<1>3. WithStatus(b, s) \in Version(b) /\ b \in Objects
  BY <1>2, BindingVersions, WithTypes
<1>4. QED BY <1>3, PutOrderly, NoWrite DEF PatchTenants

\* The further steps of a call: reading again, patching, giving up.
LEMMA RegistryStepOrderly ==
  ASSUME ApiTypeOK, RegistryTypeOK, RegistrySound, NEW c \in Collectors,
         RegistryStep(c)
  PROVE  /\ RegistryTypeOK' /\ RegistrySound' /\ Orderly
         /\ UNCHANGED <<cache, queue, now>>
<1> USE DEF ApiTypeOK
<1>1. CASE RetryRegister(c)
  <2>1. rpc[c].attempt \in 0 .. MaxPatchRetries - 1 /\ TenantOf[c] # NoRef
    BY <1>1, CallFields DEF RetryRegister, Waiting, RegistrySound
  <2>2. QED
    BY <1>1, <2>1, ReadForRegisterType, NoWrite DEF RetryRegister, apiVars
<1>2. CASE Refetch(c)
  <2> DEFINE base == cache[rpc[c].key].status.registeredTenants
             call(t) == [step |-> "patch", op |-> "unregister",
                         attempt |-> rpc[c].attempt, key |-> rpc[c].key,
                         base |-> base, edited |-> base \ {t}]
  <2>1. Orderly /\ UNCHANGED <<cache, queue, now>>
    BY <1>2, NoWrite DEF Refetch, apiVars
  <2>2. CASE Return(c)
    BY <2>1, <2>2, CallChanged DEF Return
  <2>3. ASSUME NEW t, rpc' = [rpc EXCEPT ![c] = call(t)]
        PROVE  RegistryTypeOK' /\ RegistrySound'
    <3>1. rpc[c] \in Refetching
      BY <1>2, CallFields DEF Refetch
    <3>2. rpc[c].key \in Bindings /\ rpc[c].attempt \in 0 .. MaxPatchRetries - 1
      BY <3>1 DEF Refetching
    <3>3. base \in SUBSET RegisteredTenant
      BY <3>2, CachedTenants
    <3> HIDE DEF base
    <3>4. call(t) \in Patching /\ call(t).op = "unregister"
      BY <3>2, <3>3 DEF Patching
    <3> HIDE DEF call
    <3>5. QED BY <2>3, <3>4, CallChanged
  <2>4. QED BY <1>2, <2>1, <2>2, <2>3 DEF Refetch
<1>3. CASE Patch(c)
  <2>1. rpc[c] \in Patching
    BY <1>3, CallFields DEF Patch
  <2>2. rpc[c].key \in Bindings /\ rpc[c].edited \in SUBSET RegisteredTenant
    BY <2>1 DEF Patching
  <2>3. RegistryTypeOK' /\ RegistrySound'
    BY <1>3, CallChanged DEF Patch, Return
  <2>4. PatchTenants(rpc[c].key, rpc[c].base, rpc[c].edited)
    BY <1>3 DEF Patch
  <2>5. Orderly
    BY <2>2, <2>4, PatchTenantsOrderly
  <2>6. QED BY <1>3, <2>3, <2>5 DEF Patch
<1>4. CASE PatchConflict(c)
  <2>1. rpc[c] \in Patching
    BY <1>4, CallFields DEF PatchConflict
  <2>2. rpc[c].key \in Bindings /\ rpc[c].attempt \in 0 .. MaxPatchRetries - 1
        /\ rpc[c].op \in {"register", "unregister"} /\ rpc[c].step = "patch"
    BY <2>1 DEF Patching
  <2>3. Orderly /\ UNCHANGED <<cache, queue, now>>
    BY <1>4, NoWrite DEF PatchConflict, apiVars
  <2>4. CASE Return(c)
    BY <2>3, <2>4, CallChanged DEF Return
  <2>5. CASE rpc[c].attempt < MaxPatchRetries - 1 /\ ~Return(c)
    <3>1. rpc[c].attempt + 1 \in 0 .. MaxPatchRetries - 1
      BY <2>2, <2>5 DEF MaxPatchRetries
    <3>2. CASE rpc[c].op = "register"
      <4> DEFINE call == [step |-> "findBinding", attempt |-> rpc[c].attempt + 1]
      <4>1. rpc' = [rpc EXCEPT ![c] = call]
        BY <1>4, <2>5, <3>2 DEF PatchConflict
      <4>2. call \in Waiting /\ TenantOf[c] # NoRef
        BY <2>2, <3>1, <3>2 DEF Waiting, RegistrySound
      <4> HIDE DEF call
      <4>3. QED BY <2>3, <4>1, <4>2, CallChanged
    <3>3. CASE rpc[c].op # "register"
      <4> DEFINE call == [step |-> "refetch", attempt |-> rpc[c].attempt + 1,
                          key |-> rpc[c].key]
      <4>1. rpc' = [rpc EXCEPT ![c] = call]
        BY <1>4, <2>5, <3>3 DEF PatchConflict
      <4>2. call \in Refetching
        BY <2>2, <3>1 DEF Refetching
      <4> HIDE DEF call
      <4>3. QED BY <2>3, <4>1, <4>2, CallChanged
    <3>4. QED BY <3>2, <3>3
  <2>6. QED BY <1>4, <2>4, <2>5 DEF PatchConflict
<1>5. QED BY <1>1, <1>2, <1>3, <1>4 DEF RegistryStep

-----------------------------------------------------------------------------
(* Type correctness.                                                       *)

\* Types, and what they need of the calls and reconciles in progress.
TypeInv == TypeOK /\ WorkerSound /\ RegistrySound

\* The objects the manager finds are well-formed.
LEMMA InitialObjectType ==
  ASSUME NEW specs \in InitialSpecs, NEW o \in Objects
  PROVE  InitialObject(o, specs) \in Version(o)
<1>1. CASE o \notin DOMAIN specs
  BY <1>1, GoneType DEF InitialObject
<1>2. CASE o \in DOMAIN specs
  <2> DEFINE v == Fresh(o, 1, specs[o])
  <2>1. specs[o] \in SpecSet(o)
    BY <1>2, InitialSpecsAssumption
  <2>2. v \in Version(o)
    BY <2>1, FreshType
  <2>3. CASE o \notin Reconciled
    BY <1>2, <2>2, <2>3 DEF InitialObject
  <2>4. CASE o \in Reconciled
    <3>1. o \in Counted /\ InitialObject(o, specs) = Settled(o, v)
      BY <1>2, <2>4, ReconciledAssumption DEF InitialObject
    <3>2. v.spec \in SpecSet(o) /\ v.status \in StatusSet(o) /\ v.generation \in Nat
      BY <2>1, NewStatusType DEF Fresh
    <3>3. ASSUME NEW s \in StatusSet(o)
          PROVE  [v EXCEPT !.finalizer = TRUE, !.status = s] \in Version(o)
      BY <2>2 DEF Version, VersionOf
    <3> HIDE DEF v
    <3>4. CASE o \in CollectorGroups
      <4>1. [v.status EXCEPT !.observedGeneration = v.generation] \in StatusSet(o)
        BY <3>2, <3>4, NamesDistinct DEF StatusSet, CollectorGroupStatus
      <4>2. QED BY <3>1, <3>3, <3>4, <4>1 DEF Settled
    <3>5. CASE o \in PipelineConfigs /\ o \notin CollectorGroups
      <4>1. EmptyContentStatus(v) \in StatusSet(o)
        BY <3>2, <3>5 DEF EmptyContentStatus, StatusSet, PipelineConfigStatus
      <4>2. v.spec.content # EmptyContent => Sha256(v.spec.content) \in Hashes
        BY <3>2, <3>5 DEF SpecSet, PipelineConfigSpec, Hashes
      <4>3. v.spec.content # EmptyContent => HashedContentStatus(v) \in StatusSet(o)
        BY <3>2, <3>5, <4>2 DEF HashedContentStatus, StatusSet, PipelineConfigStatus
      <4>4. QED BY <3>1, <3>3, <3>5, <4>1, <4>3 DEF Settled
    <3>6. QED BY <3>1, <3>4, <3>5 DEF Counted
  <2>5. QED BY <2>3, <2>4
<1>3. QED BY <1>1, <1>2

LEMMA TypeInit == Init => TypeInv
<1> SUFFICES ASSUME Init PROVE TypeInv
  OBVIOUS
<1>1. PICK specs \in InitialSpecs :
        ApiInit([o \in Objects |-> InitialObject(o, specs)])
  BY DEF Init
<1>2. \A o \in Objects : store[o] \in Version(o) /\ store[o] \in AnyVersion
  BY <1>1, InitialObjectType, VersionIsAny DEF ApiInit
<1>3. StoreTypeOK /\ CacheTypeOK
  BY <1>1, <1>2 DEF ApiInit, StoreTypeOK, CacheTypeOK
<1>4. WatchTypeOK
  <2>1. watch = [k \in Kinds |-> <<>>]
    BY <1>1 DEF ApiInit
  <2>2. QED BY <2>1 DEF WatchTypeOK
<1>5. ApiTypeOK
  BY <1>1, <1>3, <1>4 DEF ApiInit, ApiTypeOK
<1>6. BindingTypeOK /\ WorkerSound
  BY DEF Init, BindingInit, BindingTypeOK, WorkerSound
<1>7. RegistryTypeOK /\ RegistrySound
  BY DEF Init, RegistryInit, RegistryTypeOK, RegistrySound, NoCall
<1>8. userOps \in Nat /\ calls \in Nat /\ restarts \in Nat /\ resyncs \in Nat
  BY DEF Init
<1>9. QED BY <1>5, <1>6, <1>7, <1>8 DEF TypeInv, TypeOK

\* How a step may change the cache.
CacheFollows ==
  \A o \in Objects :
    \/ cache'[o] = cache[o] \/ cache'[o] = store'[o]
    \/ \E k \in Kinds : \E i \in 1 .. Len(watch[k]) :
         watch[k][i].object = o /\ cache'[o] = watch[k][i].version

\* The objects and versions of events.
LEMMA EventFields ==
  ASSUME WatchTypeOK, NEW k \in Kinds, NEW i \in 1 .. Len(watch[k])
  PROVE  /\ watch[k][i].object \in Objects
         /\ watch[k][i].version \in Version(watch[k][i].object)
<1> DEFINE E == [object : Objects, version : AnyVersion]
<1>1. watch[k] \in Seq(E)
  BY DEF WatchTypeOK
<1>2. watch[k][i] \in E
  <2> HIDE DEF E
  <2>1. QED BY <1>1
<1>3. QED BY <1>2 DEF WatchTypeOK

\* The event that is delivered next.
LEMMA FirstEvent ==
  ASSUME WatchTypeOK, NEW k \in Kinds, watch[k] # <<>>
  PROVE  /\ 1 \in 1 .. Len(watch[k]) /\ Head(watch[k]) = watch[k][1]
         /\ Head(watch[k]).object \in Objects
         /\ Head(watch[k]).version \in AnyVersion
         /\ Head(watch[k]).version \in Version(Head(watch[k]).object)
<1> DEFINE e == Head(watch[k])
           E == [object : Objects, version : AnyVersion]
<1>1. watch[k] \in Seq(E)
  BY DEF WatchTypeOK
<1>2. 1 \in 1 .. Len(watch[k]) /\ e = watch[k][1]
  BY <1>1
<1>3. e.version \in Version(e.object)
  BY <1>2 DEF WatchTypeOK
<1>4. e \in E
  <2> HIDE DEF E
  <2>1. QED BY <1>1, <1>2
<1>5. QED BY <1>2, <1>3, <1>4

\* The delivery of an event.
LEMMA DeliverOrderly ==
  ASSUME ApiTypeOK, NEW k \in Kinds, NEW reqs \in SUBSET Objects,
         Deliver(k, reqs)
  PROVE  ApiTypeOK' /\ Orderly /\ CacheFollows
<1> DEFINE e == Head(watch[k])
           E == [object : Objects, version : AnyVersion]
<1> USE DEF ApiTypeOK
<1>1. watch \in [Kinds -> Seq(E)] /\ watch[k] # <<>> /\ watch[k] \in Seq(E)
      /\ UNCHANGED <<store, now>>
  BY DEF WatchTypeOK, Deliver
<1>2. /\ 1 \in 1 .. Len(watch[k]) /\ e = watch[k][1]
      /\ e.object \in Objects /\ e.version \in AnyVersion
      /\ e.version \in Version(e.object)
  BY <1>1, FirstEvent
<1>4. cache' = [cache EXCEPT ![e.object] = e.version]
      /\ watch' = [watch EXCEPT ![k] = Tail(watch[k])]
  BY DEF Deliver
<1>6. Tail(watch[k]) \in Seq(E) /\ Len(Tail(watch[k])) = Len(watch[k]) - 1
      /\ \A i \in 1 .. Len(Tail(watch[k])) :
           i + 1 \in 1 .. Len(watch[k]) /\ Tail(watch[k])[i] = watch[k][i + 1]
  <2> HIDE DEF E
  <2>1. QED BY <1>1
<1> HIDE DEF e, E
<1>7. CacheTypeOK'
  BY <1>2, <1>4 DEF CacheTypeOK
<1>8. CacheFollows
  BY <1>2, <1>4 DEF CacheFollows, CacheTypeOK
<1>9. watch' \in [Kinds -> Seq(E)]
  BY <1>1, <1>4, <1>6
<1>10. \A q \in Kinds : \A i \in 1 .. Len(watch'[q]) :
         \E j \in 1 .. Len(watch[q]) : watch'[q][i] = watch[q][j]
  <2> SUFFICES ASSUME NEW q \in Kinds, NEW i \in 1 .. Len(watch'[q])
               PROVE  \E j \in 1 .. Len(watch[q]) : watch'[q][i] = watch[q][j]
    OBVIOUS
  <2>1. CASE q = k
    BY <1>1, <1>4, <1>6, <2>1
  <2>2. CASE q # k
    BY <1>1, <1>4, <2>2
  <2>3. QED BY <2>1, <2>2
<1>11. WatchTypeOK'
  <2>1. \A q \in Kinds : \A i \in 1 .. Len(watch'[q]) :
          watch'[q][i].version \in Version(watch'[q][i].object)
    BY <1>10 DEF WatchTypeOK
  <2>2. QED BY <1>9, <2>1 DEF WatchTypeOK, E
<1>12. StoreTypeOK' /\ Grows /\ Follows
  BY <1>1, <1>10 DEF StoreTypeOK, Grows, Follows
<1>13. QED
  BY <1>1, <1>7, <1>8, <1>11, <1>12 DEF Deliver, Orderly

\* Everything the following proofs need to know of a step in general.
StepOrderly == TypeInv' /\ Orderly /\ CacheFollows /\ WorkerFollows

\* Steps that leave the bookkeeping of bounds and the cache alone.
LEMMA ControllerStep ==
  ASSUME TypeInv, Orderly, WorkerOrderly, queue' \subseteq Objects,
         UNCHANGED <<cache, now, rpc, boundVars>>
  PROVE  StepOrderly
<1>1. ApiTypeOK'
  BY DEF TypeInv, TypeOK, ApiTypeOK, CacheTypeOK, Orderly
<1>2. RegistryTypeOK' /\ RegistrySound'
  BY DEF TypeInv, TypeOK, RegistryTypeOK, RegistrySound
<1>3. CacheFollows
  BY DEF CacheFollows
<1>4. QED
  BY <1>1, <1>2, <1>3
     DEF TypeInv, TypeOK, StepOrderly, WorkerOrderly, boundVars

\* A reconcile in progress is not disturbed by others.
LEMMA WorkerUnchanged ==
  ASSUME BindingTypeOK, WorkerSound, UNCHANGED worker, suspect' \subseteq Counted
  PROVE  WorkerOrderly
BY DEF BindingTypeOK, WorkerSound, WorkerOrderly, WorkerFollows

\* Every step keeps the types and is orderly.
LEMMA EveryStep ==
  ASSUME TypeInv, [Next]_vars
  PROVE  StepOrderly
<1> USE DEF TypeInv, TypeOK
<1>1. ASSUME NEW p \in PipelineConfigs, PipelineConfigController(p)
      PROVE  StepOrderly
  <2>1. Orderly /\ queue' \subseteq Objects /\ UNCHANGED <<cache, now>>
    BY <1>1, PipelineConfigOrderly
       DEF PipelineConfigController, ReconcilePipelineConfig
  <2>2. WorkerOrderly
    BY <1>1, WorkerUnchanged DEF PipelineConfigController, NoteRemoval, BindingTypeOK
  <2>3. QED BY <1>1, <2>1, <2>2, ControllerStep DEF PipelineConfigController
<1>2. ASSUME NEW g \in CollectorGroups, CollectorGroupController(g)
      PROVE  StepOrderly
  <2>1. Orderly /\ queue' \subseteq Objects /\ UNCHANGED <<cache, now>>
    BY <1>2, CollectorGroupOrderly
       DEF CollectorGroupController, ReconcileCollectorGroup
  <2>2. WorkerOrderly
    BY <1>2, WorkerUnchanged DEF CollectorGroupController, NoteRemoval, BindingTypeOK
  <2>3. QED BY <1>2, <2>1, <2>2, ControllerStep DEF CollectorGroupController
<1>3. ASSUME NEW b \in Bindings, BindingTake(b) PROVE StepOrderly
  <2>1. UNCHANGED <<cache, now>>
    BY <1>3 DEF BindingTake, StartReconcile, Started
  <2>2. QED BY <1>3, <2>1, StartReconcileOrderly, ControllerStep DEF BindingTake
<1>4. CASE BindingWork
  <2>1. UNCHANGED <<cache, now>>
    BY <1>4 DEF BindingWork, WorkerStep, ValidateRefs, ManageCounters,
                HandleDeletion, UpdateStatus, FinishDeletion
  <2>2. CASE ManageCounters \/ HandleDeletion
    BY <1>4, <2>1, <2>2, ManageCountersStep, CounterStepOrderly, ControllerStep
       DEF BindingWork
  <2>3. CASE ValidateRefs
    BY <1>4, <2>1, <2>3, ValidateRefsOrderly, ControllerStep DEF BindingWork
  <2>4. CASE UpdateStatus \/ FinishDeletion
    BY <1>4, <2>1, <2>4, LastWriteOrderly, ControllerStep DEF BindingWork
  <2>5. QED BY <1>4, <2>2, <2>3, <2>4 DEF BindingWork, WorkerStep
<1>5. ASSUME NEW k \in Kinds, Informer(k) PROVE StepOrderly
  <2> DEFINE reqs == IF watch[k] = <<>> THEN {}
                     ELSE Requests(Head(watch[k]).object)
  <2>1. reqs \in SUBSET Objects
    <3>1. watch[k] # <<>> => Head(watch[k]).object \in Objects
      BY FirstEvent DEF ApiTypeOK
    <3>2. QED BY <3>1 DEF Requests, EnqueueBindingsForPipelineConfig, Objects
  <2>2. ApiTypeOK' /\ Orderly /\ CacheFollows
    BY <1>5, <2>1, DeliverOrderly DEF Informer
  <2>3. WorkerOrderly
    BY <1>5, WorkerUnchanged DEF Informer, bindingVars, BindingTypeOK
  <2>4. QED
    BY <1>5, <2>2, <2>3
       DEF Informer, boundVars, WorkerOrderly, StepOrderly, RegistryTypeOK,
           RegistrySound
<1>6. ASSUME NEW k \in Kinds, Resync(k) PROVE StepOrderly
  <2>1. Orderly /\ UNCHANGED <<cache, now>>
    BY <1>6, NoWrite DEF Resync, Requeue, ApiTypeOK
  <2>2. queue' \subseteq Objects
    BY <1>6 DEF Resync, Requeue, Requests, EnqueueBindingsForPipelineConfig,
                Objects, ApiTypeOK
  <2>3. WorkerOrderly
    BY <1>6, WorkerUnchanged DEF Resync, bindingVars, BindingTypeOK
  <2>4. ApiTypeOK' /\ CacheFollows
    BY <2>1, <2>2 DEF Orderly, ApiTypeOK, CacheTypeOK, CacheFollows
  <2>5. QED
    BY <1>6, <2>1, <2>3, <2>4
       DEF Resync, WorkerOrderly, StepOrderly, RegistryTypeOK, RegistrySound
<1>7. ASSUME NEW c \in Collectors, RegistryCall(c) PROVE StepOrderly
  <2>1. UNCHANGED apiVars
    BY <1>7 DEF RegistryCall, Register, Unregister
  <2>2. RegistryTypeOK' /\ RegistrySound'
    BY <1>7, RegistryCallType DEF RegistryCall
  <2>3. WorkerOrderly
    BY <1>7, WorkerUnchanged DEF RegistryCall, bindingVars, BindingTypeOK
  <2>4. Orderly
    BY <2>1, NoWrite DEF apiVars, ApiTypeOK
  <2>5. ApiTypeOK' /\ CacheFollows
    BY <2>1, <2>4 DEF apiVars, Orderly, ApiTypeOK, CacheTypeOK, CacheFollows
  <2>6. QED
    BY <1>7, <2>2, <2>3, <2>4, <2>5 DEF RegistryCall, WorkerOrderly, StepOrderly
<1>8. ASSUME NEW c \in Collectors, RegistryWork(c) PROVE StepOrderly
  <2>1. /\ RegistryTypeOK' /\ RegistrySound' /\ Orderly
        /\ UNCHANGED <<cache, queue, now>>
    BY <1>8, RegistryStepOrderly DEF RegistryWork
  <2>2. WorkerOrderly
    BY <1>8, WorkerUnchanged DEF RegistryWork, bindingVars, BindingTypeOK
  <2>3. ApiTypeOK' /\ CacheFollows
    BY <2>1 DEF Orderly, ApiTypeOK, CacheTypeOK, CacheFollows
  <2>4. QED
    BY <1>8, <2>1, <2>2, <2>3 DEF RegistryWork, boundVars, WorkerOrderly, StepOrderly
<1>9. CASE Restart
  <2>1. UNCHANGED <<store, now>> /\ cache' = store
        /\ watch' = [k \in Kinds |-> <<>>] /\ queue' \subseteq Objects
    BY <1>9 DEF Restart, Relist
  <2>2. StoreTypeOK' /\ CacheTypeOK' /\ Grows /\ CacheFollows
    BY <2>1 DEF ApiTypeOK, StoreTypeOK, CacheTypeOK, Grows, CacheFollows
  <2>3. WatchTypeOK' /\ Follows
    BY <2>1 DEF WatchTypeOK, Follows
  <2>4. Adjusted \subseteq Counted
    BY WorkingFields DEF Adjusted
  <2>5. WorkerOrderly
    BY <1>9, <2>4 DEF Restart, WorkerOrderly, BindingTypeOK, WorkerSound, WorkerFollows
  <2>6. RegistryTypeOK' /\ RegistrySound'
    BY <1>9 DEF Restart, RegistryTypeOK, RegistrySound, NoCall
  <2>7. QED
    BY <1>9, <2>1, <2>2, <2>3, <2>5, <2>6
       DEF Restart, ApiTypeOK, WorkerOrderly, StepOrderly, Orderly
<1>10. ASSUME NEW o \in Objects, User(o) PROVE StepOrderly
  <2>1. Orderly /\ UNCHANGED <<cache, queue, now, rpc>>
    BY <1>10, UserOrderly DEF User, ApiTypeOK
  <2>2. WorkerOrderly
    BY <1>10, WorkerUnchanged DEF User, NoteRemoval, BindingTypeOK
  <2>3. ApiTypeOK' /\ CacheFollows
    BY <2>1 DEF Orderly, ApiTypeOK, CacheTypeOK, CacheFollows
  <2>4. QED
    BY <1>10, <2>1, <2>2, <2>3
       DEF User, WorkerOrderly, StepOrderly, RegistryTypeOK, RegistrySound
<1>11. CASE Clock \/ UNCHANGED vars
  <2>1. UNCHANGED <<store, watch, cache, queue, bindingVars, rpc, boundVars>>
        /\ now' \in Nat
    BY <1>11 DEF Clock, Tick, vars, apiVars, ApiTypeOK
  <2>2. Orderly
    BY <2>1, NoWrite DEF ApiTypeOK
  <2>3. WorkerOrderly
    BY <2>1, WorkerUnchanged DEF bindingVars, BindingTypeOK
  <2>4. ApiTypeOK' /\ CacheFollows
    BY <2>1, <2>2 DEF Orderly, ApiTypeOK, CacheTypeOK, CacheFollows
  <2>5. QED
    BY <2>1, <2>2, <2>3, <2>4
       DEF boundVars, WorkerOrderly, StepOrderly, RegistryTypeOK, RegistrySound
<1>12. QED
  BY <1>1, <1>2, <1>3, <1>4, <1>5, <1>6, <1>7, <1>8, <1>9, <1>10, <1>11 DEF Next

\* Every state of the operator is well-typed: whatever the controllers, the
\* registry and the users do, the store, the cache, the events and the work
\* in progress keep the shapes the Go types and the schemas give them.
THEOREM TypeCorrect == Spec => []TypeOK
<1>1. Init => TypeInv
  BY TypeInit
<1>2. TypeInv /\ [Next]_vars => TypeInv'
  BY EveryStep DEF StepOrderly
<1>3. TypeInv => TypeOK
  BY DEF TypeInv
<1>4. QED BY <1>1, <1>2, <1>3, PTL DEF Spec

-----------------------------------------------------------------------------
(* Copies.                                                                 *)

\* An orderly step leaves copies in the past.
LEMMA CopiesStep ==
  ASSUME TypeInv, CopiesArePast, StepOrderly
  PROVE  CopiesArePast'
<1> DEFINE Later(o, v) == /\ v.rv <= store'[o].rv
                          /\ v.rv = store'[o].rv => v = store'[o]
<1> USE DEF TypeInv, TypeOK, ApiTypeOK
<1>1. \A o \in Objects : store[o].rv \in Nat /\ store'[o].rv \in Nat
  BY VersionFields DEF StepOrderly, Orderly, StoreTypeOK
<1>2. ASSUME NEW o \in Objects, NEW v \in Version(o), Past(o, v)
      PROVE  Later(o, v)
  BY <1>1, <1>2, VersionFields DEF Past, StepOrderly, Orderly, Grows
<1>3. ASSUME NEW o \in Objects PROVE Later(o, store'[o])
  BY <1>1
<1>4. \A k \in Kinds : \A i \in 1 .. Len(watch[k]) :
        /\ watch[k][i].object \in Objects
        /\ Later(watch[k][i].object, watch[k][i].version)
  <2> SUFFICES ASSUME NEW k \in Kinds, NEW i \in 1 .. Len(watch[k])
               PROVE  /\ watch[k][i].object \in Objects
                      /\ Later(watch[k][i].object, watch[k][i].version)
    OBVIOUS
  <2>1. watch[k][i].object \in Objects
        /\ watch[k][i].version \in Version(watch[k][i].object)
    BY EventFields
  <2>2. QED BY <1>2, <2>1 DEF CopiesArePast
<1> HIDE DEF Later
<1>5. ASSUME NEW o \in Objects PROVE Later(o, cache'[o])
  <2>1. CASE cache'[o] = cache[o]
    BY <1>2, <2>1 DEF CopiesArePast, CacheTypeOK
  <2>2. CASE cache'[o] = store'[o]
    BY <1>3, <2>2
  <2>3. ASSUME NEW k \in Kinds, NEW i \in 1 .. Len(watch[k]),
               watch[k][i].object = o, cache'[o] = watch[k][i].version
        PROVE  Later(o, cache'[o])
    BY <1>4, <2>3
  <2>4. QED BY <2>1, <2>2, <2>3 DEF StepOrderly, CacheFollows
<1>6. ASSUME NEW k \in Kinds, NEW i \in 1 .. Len(watch'[k])
      PROVE  Later(watch'[k][i].object, watch'[k][i].version)
  <2>1. ASSUME NEW j \in 1 .. Len(watch[k]), watch'[k][i] = watch[k][j]
        PROVE  Later(watch'[k][i].object, watch'[k][i].version)
    BY <1>4, <2>1
  <2>2. ASSUME NEW o \in Objects,
               watch'[k][i] = [object |-> o, version |-> store'[o]]
        PROVE  Later(watch'[k][i].object, watch'[k][i].version)
    BY <1>3, <2>2
  <2>3. QED BY <2>1, <2>2 DEF StepOrderly, Orderly, Follows
<1>7. ASSUME worker' # Idle PROVE Later(worker'.key, worker'.binding)
  <2>1. CASE /\ worker # Idle
             /\ worker'.key = worker.key /\ worker'.binding = worker.binding
    <3>1. worker.key \in Objects /\ worker.binding \in Version(worker.key)
      BY <2>1, WorkingFields, BindingVersions
    <3>2. QED BY <1>2, <2>1, <3>1 DEF CopiesArePast
  <2>2. CASE worker'.key \in Bindings /\ worker'.binding = cache[worker'.key]
    BY <1>2, <2>2, BindingVersions DEF CopiesArePast, CacheTypeOK
  <2>3. QED BY <1>7, <2>1, <2>2 DEF StepOrderly, WorkerFollows
<1>8. QED BY <1>5, <1>6, <1>7 DEF CopiesArePast, Past, Later

LEMMA CopiesInit == Init => CopiesArePast
<1> SUFFICES ASSUME Init PROVE CopiesArePast
  OBVIOUS
<1>1. cache = store /\ watch = [k \in Kinds |-> <<>>] /\ worker = Idle
  BY DEF Init, ApiInit, BindingInit
<1>2. \A o \in Objects : store[o].rv \in Nat
  BY TypeInit, VersionFields DEF TypeInv, TypeOK, ApiTypeOK, StoreTypeOK
<1>3. QED BY <1>1, <1>2 DEF CopiesArePast, Past

\* The informer cache, the events and the binding a reconcile has read are
\* never newer than the store, and a resourceVersion never names two contents:
\* the ground on which the conflict check of Update and Status().Update, and
\* with it every read-modify-write of the controllers, stands.
THEOREM CopiesNeverAhead == Spec => []CopiesArePast
<1>1. Init => TypeInv /\ CopiesArePast
  BY TypeInit, CopiesInit
<1>2. TypeInv /\ CopiesArePast /\ [Next]_vars => (TypeInv /\ CopiesArePast)'
  BY EveryStep, CopiesStep DEF StepOrderly
<1>3. QED BY <1>1, <1>2, PTL DEF Spec
=============================================================================
