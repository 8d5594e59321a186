---------------------------- MODULE StatusProofs ----------------------------
(***************************************************************************)
(* What the controllers may write: the statuses agree with the specs, and  *)
(* an object is let go only while its counter is not positive.             *)
(***************************************************************************)
EXTENDS OperatorProofs

SoundInv == TypeInv /\ CopiesArePast /\ ObjectsSound

\* A write of v to o keeps the statuses in order, and takes the finalizer
\* only from an object whose counter is not positive.
Lawful(o, v) ==
  /\ v \in Version(o) /\ Sound(o, v)
  /\ o \in Counted /\ store[o].exists /\ store[o].finalizer
       /\ ~(v.exists /\ v.finalizer)
     => store[o].status.activeBindings <= 0

\* A step writes nothing, or one object, lawfully.
LawfulStep ==
  \/ UNCHANGED store
  \/ \E o \in Objects : \E v : Put(o, v) /\ Lawful(o, v)

\* A write that is accepted was computed from the stored version.
LEMMA Accepted ==
  ASSUME NEW o, NEW v, Past(o, v), Answer(o, v) = "OK"
  PROVE  store[o].exists /\ v = store[o]
BY DEF Past, Answer

\* Sound does not depend on the resourceVersion.
LEMMA SoundWritten ==
  ASSUME StoreTypeOK, NEW o \in Objects, NEW v \in Version(o),
         Put(o, v), Sound(o, v)
  PROVE  Sound(o, store'[o])
<1>1. /\ store'[o].exists = v.exists /\ store'[o].generation = v.generation
      /\ store'[o].finalizer = v.finalizer /\ store'[o].deleting = v.deleting
      /\ store'[o].spec = v.spec /\ store'[o].status = v.status
  BY PutStore
<1>2. QED
  BY <1>1 DEF Sound, ObjectSound, BindingSound, ConfigSound, PrevPC, PrevCG,
              NewPC, NewCG

\* Lawful steps keep the stored objects sound.
LEMMA LawfulKeepsSound ==
  ASSUME StoreTypeOK, ObjectsSound, LawfulStep
  PROVE  ObjectsSound'
<1>1. CASE UNCHANGED store
  BY <1>1 DEF ObjectsSound, Sound, ObjectSound, BindingSound, ConfigSound
<1>2. ASSUME NEW o \in Objects, NEW v, Put(o, v), Lawful(o, v)
      PROVE  ObjectsSound'
  <2>1. Sound(o, store'[o])
    BY <1>2, SoundWritten DEF Lawful
  <2>2. \A x \in Objects \ {o} : store'[x] = store[x]
    BY <1>2, PutStore DEF Lawful
  <2>3. \A x \in Objects : Sound(x, store'[x])
    BY <2>1, <2>2 DEF ObjectsSound
  <2>4. QED BY <2>3 DEF ObjectsSound
<1>3. QED BY <1>1, <1>2 DEF LawfulStep

-----------------------------------------------------------------------------
(* Writes that are lawful.                                                 *)

\* The fields of a stored object that writes keep or replace.
LEMMA StoredFields ==
  ASSUME SoundInv, NEW o \in Objects
  PROVE  /\ store[o] \in Version(o) /\ store[o].rv \in Nat
         /\ store[o].generation \in Nat
         /\ store[o].status.observedGeneration \in Nat
         /\ store[o].exists \in BOOLEAN /\ store[o].finalizer \in BOOLEAN
         /\ store[o].deleting \in BOOLEAN
         /\ Sound(o, store[o])
<1>1. store[o] \in Version(o)
  BY DEF SoundInv, TypeInv, TypeOK, ApiTypeOK, StoreTypeOK
<1>2. store[o].status \in StatusSet(o)
  BY <1>1, VersionFields
<1>3. store[o].status.observedGeneration \in Nat
  BY <1>2 DEF StatusSet, PipelineConfigStatus, CollectorGroupStatus,
              CollectorGroupBindingStatus
<1>4. QED BY <1>1, <1>3, VersionFields DEF SoundInv, ObjectsSound

\* The finalizer is added, or the generation changes.
LEMMA EditLawful ==
  ASSUME SoundInv, NEW o \in Objects
  PROVE  /\ store[o].exists => Lawful(o, WithFinalizer(o))
         /\ \A spec \in SpecSet(o) : store[o].exists =>
              Lawful(o, [store[o] EXCEPT !.spec = spec, !.generation = @ + 1])
         /\ store[o].exists /\ store[o].finalizer =>
              Lawful(o, [store[o] EXCEPT !.deleting = TRUE, !.generation = @ + 1])
<1> DEFINE s == store[o]
<1>1. /\ s \in Version(o) /\ s.generation \in Nat
      /\ s.status.observedGeneration \in Nat /\ Sound(o, s)
  BY StoredFields
<1>2. s.exists => Lawful(o, WithFinalizer(o))
  <2>1. WithFinalizer(o) \in Version(o)
    BY WithTypes DEF SoundInv, TypeInv, TypeOK, ApiTypeOK
  <2>2. WithFinalizer(o) = [s EXCEPT !.finalizer = TRUE]
    BY DEF WithFinalizer
  <2>3. /\ WithFinalizer(o).exists = s.exists /\ WithFinalizer(o).finalizer
        /\ WithFinalizer(o).deleting = s.deleting
        /\ WithFinalizer(o).generation = s.generation
        /\ WithFinalizer(o).status = s.status /\ WithFinalizer(o).spec = s.spec
    BY <1>1, <2>2 DEF Version, VersionOf
  <2>4. QED
    BY <1>1, <2>1, <2>3 DEF Lawful, Sound, ObjectSound, BindingSound, ConfigSound,
                            PrevPC, PrevCG, NewPC, NewCG
<1>3. ASSUME NEW spec \in SpecSet(o), s.exists
      PROVE  Lawful(o, [s EXCEPT !.spec = spec, !.generation = @ + 1])
  <2> DEFINE v == [s EXCEPT !.spec = spec, !.generation = @ + 1]
  <2>1. v \in Version(o)
    BY <1>1, NewGeneration
  <2>2. /\ v.exists = s.exists /\ v.finalizer = s.finalizer
        /\ v.deleting = s.deleting /\ v.generation = s.generation + 1
        /\ v.status = s.status
    BY <1>1 DEF Version, VersionOf
  <2> HIDE DEF v
  <2>3. Lawful(o, v)
    BY <1>1, <1>3, <2>1, <2>2 DEF Lawful, Sound, ObjectSound, BindingSound,
                                  ConfigSound, PrevPC, PrevCG
  <2>4. QED BY <2>3 DEF v
<1>4. ASSUME s.exists, s.finalizer
      PROVE  Lawful(o, [s EXCEPT !.deleting = TRUE, !.generation = @ + 1])
  <2> DEFINE v == [s EXCEPT !.deleting = TRUE, !.generation = @ + 1]
  <2>1. v \in Version(o)
    BY <1>1, NewGeneration
  <2>2. /\ v.exists = s.exists /\ v.finalizer = s.finalizer
        /\ v.generation = s.generation + 1 /\ v.status = s.status
    BY <1>1 DEF Version, VersionOf
  <2> HIDE DEF v
  <2>3. Lawful(o, v)
    BY <1>1, <1>4, <2>1, <2>2 DEF Lawful, Sound, ObjectSound, BindingSound,
                                  ConfigSound, PrevPC, PrevCG
  <2>4. QED BY <2>3 DEF v
<1>5. QED BY <1>2, <1>3, <1>4

\* An object is created or goes.
LEMMA NewAndGoneSound ==
  ASSUME NEW o \in Objects, NEW rv \in Nat
  PROVE  /\ Sound(o, Gone(o, rv))
         /\ \A spec \in SpecSet(o) : Sound(o, Fresh(o, rv, spec))
<1>1. /\ NewStatus(o).observedGeneration = 0
      /\ o \in Bindings => /\ NewStatus(o).boundPipelineConfigRef = NoRef
                           /\ NewStatus(o).boundCollectorGroupRef = NoRef
  BY NamesDistinct DEF NewStatus
<1>2. Sound(o, Gone(o, rv))
  BY <1>1 DEF Gone, Sound, ObjectSound, BindingSound, ConfigSound, PrevPC, PrevCG
<1>3. ASSUME NEW spec \in SpecSet(o) PROVE Sound(o, Fresh(o, rv, spec))
  BY <1>1 DEF Fresh, Sound, ObjectSound, BindingSound, ConfigSound, PrevPC, PrevCG
<1>4. QED BY <1>2, <1>3

\* The finalizer is taken from a terminating object.
LEMMA ReleaseLawful ==
  ASSUME SoundInv, NEW o \in Objects, store[o].deleting,
         o \in Counted => store[o].status.activeBindings <= 0
  PROVE  Lawful(o, WithoutFinalizer(o))
<1>1. WithoutFinalizer(o) = Gone(o, store[o].rv) /\ store[o].rv \in Nat
  BY StoredFields DEF WithoutFinalizer
<1>2. QED BY <1>1, GoneType, NewAndGoneSound DEF Lawful

\* A status is replaced. It must not be ahead of the object, and it must be
\* sound for its kind.
LEMMA StatusLawful ==
  ASSUME SoundInv, NEW o \in Objects, store[o].exists,
         NEW s \in StatusSet(o), s.observedGeneration <= store[o].generation,
         o \in Bindings => BindingSound(WithStatus(o, s)),
         o \in PipelineConfigs => ConfigSound(WithStatus(o, s))
  PROVE  Lawful(o, WithStatus(o, s))
<1> DEFINE v == WithStatus(o, s)
<1>1. store[o] \in Version(o) /\ Sound(o, store[o])
  BY StoredFields
<1>2. v \in Version(o)
  BY WithTypes DEF SoundInv, TypeInv, TypeOK, ApiTypeOK
<1>3. /\ v.exists = store[o].exists /\ v.finalizer = store[o].finalizer
      /\ v.deleting = store[o].deleting /\ v.generation = store[o].generation
      /\ v.status = s
  BY <1>1 DEF WithStatus, Version, VersionOf
<1> HIDE DEF v
<1>4. ObjectSound(o, v)
  BY <1>1, <1>3 DEF Sound, ObjectSound
<1>5. QED BY <1>2, <1>3, <1>4 DEF Lawful, Sound, v

\* The fields of the stored object with another status.
LEMMA StatusFields ==
  ASSUME SoundInv, NEW o \in Objects, NEW s
  PROVE  /\ WithStatus(o, s).exists = store[o].exists
         /\ WithStatus(o, s).finalizer = store[o].finalizer
         /\ WithStatus(o, s).generation = store[o].generation
         /\ WithStatus(o, s).spec = store[o].spec
         /\ WithStatus(o, s).status = s
<1>1. store[o] \in Version(o)
  BY StoredFields
<1>2. QED BY <1>1 DEF WithStatus, Version, VersionOf

\* A counter is changed in a status that is the stored one.
LEMMA CounterLawful ==
  ASSUME SoundInv, NEW o \in Counted, store[o].exists, cache[o] = store[o],
         NEW n \in Int
  PROVE  o \in Objects
         /\ Lawful(o, WithStatus(o, [cache[o].status EXCEPT !.activeBindings = @ + n]))
<1> DEFINE s == [cache[o].status EXCEPT !.activeBindings = @ + n]
<1>1. o \in Objects /\ s \in StatusSet(o)
  BY CounterStatusType DEF SoundInv, TypeInv, TypeOK, ApiTypeOK
<1>2. o \notin Bindings
  BY BindingVersions
<1>3. store[o].status \in StatusSet(o) /\ Sound(o, store[o])
  BY <1>1, StoredFields, VersionFields
<1>4. s.observedGeneration = store[o].status.observedGeneration
  BY <1>3 DEF Counted, StatusSet, PipelineConfigStatus, CollectorGroupStatus
<1>5. ASSUME o \in PipelineConfigs PROVE ConfigSound(WithStatus(o, s))
  <2>1. s.contentHash = store[o].status.contentHash
        /\ s.contentValid = store[o].status.contentValid
    BY <1>3, <1>5 DEF StatusSet, PipelineConfigStatus
  <2> HIDE DEF s
  <2>2. QED
    BY <1>1, <1>3, <1>4, <1>5, <2>1, StatusFields DEF Sound, ConfigSound
<1> HIDE DEF s
<1>6. Lawful(o, WithStatus(o, s))
  BY <1>1, <1>2, <1>3, <1>4, <1>5, StatusLawful DEF Sound, ObjectSound
<1>7. QED BY <1>1, <1>6 DEF s

-----------------------------------------------------------------------------
(* Every step is lawful.                                                   *)

\* The cached object is a past version.
LEMMA CachedPast ==
  ASSUME SoundInv, NEW o \in Objects PROVE Past(o, cache[o])
BY DEF SoundInv, CopiesArePast

\* A reconcile of a PipelineConfig.
LEMMA PipelineConfigLawful ==
  ASSUME SoundInv, NEW p \in PipelineConfigs, ReconcilePipelineConfig(p)
  PROVE  LawfulStep
<1> DEFINE pc == cache[p]
<1>1. p \in Objects /\ p \in Counted /\ p \notin Bindings
  BY NamesDistinct DEF Objects, Counted
<1>2. ASSUME NEW w, ReturnUpdate(p, pc, w),
             pc = store[p] /\ store[p].exists => Lawful(p, w)
      PROVE  LawfulStep
  <2>1. Answer(p, pc) = "OK" => pc = store[p] /\ store[p].exists
    BY <1>1, CachedPast, Accepted
  <2>2. QED BY <1>1, <1>2, <2>1 DEF ReturnUpdate, LawfulStep
<1>3. CASE UNCHANGED store
  BY <1>3 DEF LawfulStep
<1>4. CASE PipelineConfigDeletion(p)
  <2>1. CASE pc.status.activeBindings > 0
    BY <1>3, <1>4, <2>1 DEF PipelineConfigDeletion
  <2>2. CASE ~(pc.status.activeBindings > 0)
    <3>1. pc.deleting /\ ReturnUpdate(p, pc, WithoutFinalizer(p))
      BY <1>4, <2>2 DEF PipelineConfigDeletion
    <3>2. pc.status.activeBindings \in Int
      BY <1>1, CounterType DEF SoundInv, TypeInv, TypeOK, ApiTypeOK, CacheTypeOK
    <3>3. pc = store[p] => Lawful(p, WithoutFinalizer(p))
      BY <1>1, <2>2, <3>1, <3>2, ReleaseLawful
    <3>4. QED BY <1>2, <3>1, <3>3
  <2>3. QED BY <2>1, <2>2
<1>5. CASE ReturnUpdate(p, pc, WithFinalizer(p))
  BY <1>1, <1>2, <1>5, EditLawful
<1>6. CASE /\ pc.exists
           /\ \/ ReturnUpdate(p, pc, WithStatus(p, EmptyContentStatus(pc)))
              \/ /\ pc.spec.content # EmptyContent
                 /\ ReturnUpdate(p, pc, WithStatus(p, HashedContentStatus(pc)))
  <2>1. /\ pc.status \in PipelineConfigStatus /\ pc.generation \in Nat
        /\ pc.spec \in PipelineConfigSpec
    BY <1>1, <1>6, VersionFields
       DEF SoundInv, TypeInv, TypeOK, ApiTypeOK, CacheTypeOK, SpecSet, StatusSet
  <2>2. /\ EmptyContentStatus(pc) \in StatusSet(p)
        /\ EmptyContentStatus(pc).observedGeneration = pc.generation
        /\ EmptyContentStatus(pc).contentValid = "False"
    BY <2>1 DEF EmptyContentStatus, PipelineConfigStatus, StatusSet
  <2>3. pc.spec.content # EmptyContent => Sha256(pc.spec.content) \in Hashes
    BY <2>1 DEF PipelineConfigSpec, Hashes
  <2>4. pc.spec.content # EmptyContent =>
          /\ HashedContentStatus(pc) \in StatusSet(p)
          /\ HashedContentStatus(pc).observedGeneration = pc.generation
          /\ HashedContentStatus(pc).contentHash = Sha256(pc.spec.content)
    BY <2>1, <2>3 DEF HashedContentStatus, PipelineConfigStatus, StatusSet
  <2>5. ASSUME pc = store[p], store[p].exists
        PROVE  /\ Lawful(p, WithStatus(p, EmptyContentStatus(pc)))
               /\ pc.spec.content # EmptyContent
                  => Lawful(p, WithStatus(p, HashedContentStatus(pc)))
    <3>1. ConfigSound(WithStatus(p, EmptyContentStatus(pc)))
      BY <1>1, <2>2, StatusFields DEF ConfigSound
    <3>2. pc.spec.content # EmptyContent
          => ConfigSound(WithStatus(p, HashedContentStatus(pc)))
      BY <1>1, <2>4, <2>5, StatusFields DEF ConfigSound
    <3>3. QED BY <1>1, <2>1, <2>2, <2>4, <2>5, <3>1, <3>2, StatusLawful
  <2>6. QED BY <1>2, <1>6, <2>5
<1>7. QED BY <1>3, <1>4, <1>5, <1>6 DEF ReconcilePipelineConfig

\* A reconcile of a CollectorGroup.
LEMMA CollectorGroupLawful ==
  ASSUME SoundInv, NEW g \in CollectorGroups, ReconcileCollectorGroup(g)
  PROVE  LawfulStep
<1> DEFINE cg == cache[g]
           s == [cg.status EXCEPT !.observedGeneration = cg.generation]
<1>1. g \in Objects /\ g \in Counted /\ g \notin Bindings
      /\ g \notin PipelineConfigs
  BY NamesDistinct DEF Objects, Counted
<1>2. ASSUME NEW w, ReturnUpdate(g, cg, w),
             cg = store[g] /\ store[g].exists => Lawful(g, w)
      PROVE  LawfulStep
  <2>1. Answer(g, cg) = "OK" => cg = store[g] /\ store[g].exists
    BY <1>1, CachedPast, Accepted
  <2>2. QED BY <1>1, <1>2, <2>1 DEF ReturnUpdate, LawfulStep
<1>3. CASE UNCHANGED store
  BY <1>3 DEF LawfulStep
<1>4. CASE CollectorGroupDeletion(g)
  <2>1. CASE cg.status.activeBindings > 0
    BY <1>3, <1>4, <2>1 DEF CollectorGroupDeletion
  <2>2. CASE ~(cg.status.activeBindings > 0)
    <3>1. cg.deleting /\ ReturnUpdate(g, cg, WithoutFinalizer(g))
      BY <1>4, <2>2 DEF CollectorGroupDeletion
    <3>2. cg.status.activeBindings \in Int
      BY <1>1, CounterType DEF SoundInv, TypeInv, TypeOK, ApiTypeOK, CacheTypeOK
    <3>3. cg = store[g] => Lawful(g, WithoutFinalizer(g))
      BY <1>1, <2>2, <3>1, <3>2, ReleaseLawful
    <3>4. QED BY <1>2, <3>1, <3>3
  <2>3. QED BY <2>1, <2>2
<1>5. CASE ReturnUpdate(g, cg, WithFinalizer(g))
  BY <1>1, <1>2, <1>5, EditLawful
<1>6. CASE ReturnUpdate(g, cg, WithStatus(g, s))
  <2>1. cg.status \in CollectorGroupStatus /\ cg.generation \in Nat
    BY <1>1, VersionFields
       DEF SoundInv, TypeInv, TypeOK, ApiTypeOK, CacheTypeOK, StatusSet
  <2>2. s \in StatusSet(g) /\ s.observedGeneration = cg.generation
    BY <1>1, <2>1 DEF CollectorGroupStatus, StatusSet
  <2> HIDE DEF s
  <2>3. cg = store[g] /\ store[g].exists => Lawful(g, WithStatus(g, s))
    BY <1>1, <2>1, <2>2, StatusLawful
  <2>4. QED BY <1>2, <1>6, <2>3
<1>7. QED BY <1>3, <1>4, <1>5, <1>6 DEF ReconcileCollectorGroup

\* What users do.
LEMMA UserLawful ==
  ASSUME SoundInv, NEW o \in Objects,
         \/ \E spec \in SpecSet(o) : Create(o, spec) \/ EditSpec(o, spec)
         \/ Delete(o)
  PROVE  LawfulStep
<1>1. store[o].rv \in Nat /\ store[o].finalizer \in BOOLEAN
  BY StoredFields
<1>2. ASSUME NEW spec \in SpecSet(o), Create(o, spec) PROVE LawfulStep
  <2>1. Lawful(o, Fresh(o, store[o].rv, spec))
    BY <1>1, <1>2, FreshType, NewAndGoneSound DEF Lawful, Create
  <2>2. QED BY <1>2, <2>1 DEF Create, LawfulStep
<1>3. ASSUME NEW spec \in SpecSet(o), EditSpec(o, spec) PROVE LawfulStep
  BY <1>3, EditLawful DEF EditSpec, LawfulStep
<1>4. ASSUME Delete(o) PROVE LawfulStep
  <2>1. CASE store[o].finalizer
    BY <1>4, <2>1, EditLawful DEF Delete, LawfulStep
  <2>2. CASE ~store[o].finalizer
    <3>1. Lawful(o, Gone(o, store[o].rv))
      BY <1>1, <2>2, GoneType, NewAndGoneSound DEF Lawful
    <3>2. QED BY <1>4, <2>2, <3>1 DEF Delete, LawfulStep
  <2>3. QED BY <1>1, <2>1, <2>2
<1>5. QED BY <1>2, <1>3, <1>4

\* The registry's patch.
LEMMA PatchLawful ==
  ASSUME SoundInv, NEW b \in Bindings, NEW base,
         NEW edited \in SUBSET RegisteredTenant, PatchTenants(b, base, edited)
  PROVE  LawfulStep
<1> DEFINE s == [store[b].status EXCEPT !.registeredTenants = edited]
<1>1. b \in Objects /\ b \notin PipelineConfigs
      /\ StatusSet(b) = CollectorGroupBindingStatus
  BY NamesDistinct, BindingVersions
<1>2. store[b].status \in CollectorGroupBindingStatus /\ Sound(b, store[b])
  BY <1>1, StoredFields, VersionFields
<1>3. /\ s \in CollectorGroupBindingStatus
      /\ s.observedGeneration = store[b].status.observedGeneration
      /\ s.phase = store[b].status.phase
      /\ s.boundPipelineConfigRef = store[b].status.boundPipelineConfigRef
      /\ s.boundCollectorGroupRef = store[b].status.boundCollectorGroupRef
  BY <1>2 DEF CollectorGroupBindingStatus
<1> HIDE DEF s
<1>4. BindingSound(WithStatus(b, s))
  <2>1. BindingSound(store[b])
    BY <1>2 DEF Sound
  <2>2. LET w == WithStatus(b, s)
        IN  /\ w.exists = store[b].exists /\ w.finalizer = store[b].finalizer
            /\ w.generation = store[b].generation /\ w.spec = store[b].spec
            /\ w.status = s
    BY <1>1, StatusFields
  <2>3. QED BY <1>3, <2>1, <2>2 DEF BindingSound, PrevPC, PrevCG, NewPC, NewCG
<1>5. store[b].exists => Lawful(b, WithStatus(b, s))
  BY <1>1, <1>2, <1>3, <1>4, StatusLawful DEF Sound, ObjectSound
<1>6. store[b].exists /\ edited # base => Put(b, WithStatus(b, s))
  BY DEF PatchTenants, s
<1>7. QED BY <1>1, <1>5, <1>6 DEF PatchTenants, LawfulStep

\* A write of the binding a reconcile has read is computed from the stored one.
LEMMA BindingAccepted ==
  ASSUME SoundInv, worker # Idle, Answer(worker.key, worker.binding) = "OK"
  PROVE  /\ worker.key \in Bindings /\ worker.key \in Objects
         /\ worker.key \notin PipelineConfigs /\ worker.key \notin Counted
         /\ store[worker.key].exists /\ worker.binding = store[worker.key]
         /\ worker.binding \in BindingVersion
<1>1. worker.key \in Bindings /\ worker.binding \in BindingVersion
  BY WorkingFields DEF SoundInv, TypeInv, TypeOK
<1>2. worker.binding = store[worker.key] /\ store[worker.key].exists
  BY Accepted DEF SoundInv, CopiesArePast
<1>3. QED BY <1>1, <1>2, BindingVersions, NamesDistinct

\* The steps on counters.
LEMMA CounterMoveLawful ==
  ASSUME SoundInv, NEW o \in Counted, NEW step, CounterMove(o, step)
  PROVE  LawfulStep
<1>1. ASSUME NEW n \in Int, CounterAnswer(o) = "OK", Adjust(o, n)
      PROVE  LawfulStep
  <2>1. o \in Objects /\ Answer(o, cache[o]) = "OK"
    BY <1>1 DEF CounterAnswer, Counted, Objects
  <2>2. cache[o] = store[o] /\ store[o].exists
    BY <2>1, CachedPast, Accepted
  <2>3. QED BY <1>1, <2>1, <2>2, CounterLawful DEF Adjust, LawfulStep
<1>2. CASE CounterAnswer(o) = "OK" /\ Decrement(o, step)
  BY <1>1, <1>2 DEF Decrement
<1>3. CASE CounterAnswer(o) = "OK" /\ Increment(o, step)
  BY <1>1, <1>3 DEF Increment
<1>4. CASE UNCHANGED store
  BY <1>4 DEF LawfulStep
<1>5. QED BY <1>2, <1>3, <1>4 DEF CounterMove, Skip

\* The steps of a reconcile of a binding.
LEMMA WorkerLawful ==
  ASSUME SoundInv, WorkerStep
  PROVE  LawfulStep
<1> DEFINE b == worker.key
           v == worker.binding
<1>1. worker # Idle
  BY DEF WorkerStep, ValidateRefs, ManageCounters, HandleDeletion,
         UpdateStatus, FinishDeletion, Idle
<1>2. StepSound(worker.step, v)
  BY <1>1 DEF SoundInv, TypeInv, WorkerSound
<1>3. CASE UNCHANGED store
  BY <1>3 DEF LawfulStep
<1>4. CASE ManageCounters \/ HandleDeletion
  BY <1>4, ManageCountersStep, CounterMoveLawful DEF SoundInv, TypeInv, TypeOK
<1>5. CASE ValidateRefs
  <2>1. ASSUME NEW reason \in RefsValidReasons \ {"RefsResolved"},
               SetRefsInvalid(reason)
        PROVE  LawfulStep
    <3> DEFINE s == [v.status EXCEPT !.refsValid = reason,
                                     !.phase = DerivePhase(reason),
                                     !.observedGeneration = v.generation]
    <3>1. CASE Answer(b, v) = "OK"
      <4>1. /\ b \in Bindings /\ b \in Objects /\ b \notin PipelineConfigs
            /\ store[b].exists /\ v = store[b] /\ v \in BindingVersion
        BY <1>1, <3>1, BindingAccepted
      <4>2. v.status \in CollectorGroupBindingStatus /\ v.generation \in Nat
        BY <4>1, BindingRefs
      <4>3. /\ DerivePhase(reason) \in CollectorGroupBindingPhase
            /\ DerivePhase(reason) # "Active"
        BY <2>1 DEF DerivePhase, CollectorGroupBindingPhase, RefsValidReasons
      <4>4. /\ s \in CollectorGroupBindingStatus
            /\ s.observedGeneration = v.generation /\ s.phase # "Active"
            /\ s.boundPipelineConfigRef = v.status.boundPipelineConfigRef
            /\ s.boundCollectorGroupRef = v.status.boundCollectorGroupRef
        BY <4>2, <4>3 DEF CollectorGroupBindingStatus
      <4>5. Put(b, WithStatus(b, s))
        BY <2>1, <3>1 DEF SetRefsInvalid
      <4> HIDE DEF s
      <4>6. BindingSound(WithStatus(b, s))
        <5>1. BindingSound(v)
          BY <4>1, StoredFields DEF Sound
        <5>2. /\ WithStatus(b, s).finalizer = v.finalizer
              /\ WithStatus(b, s).status = s
          BY <4>1, StatusFields
        <5>3. ~v.finalizer => /\ v.status.boundPipelineConfigRef = NoRef
                              /\ v.status.boundCollectorGroupRef = NoRef
          BY <5>1 DEF BindingSound, PrevPC, PrevCG
        <5>4. QED BY <4>4, <5>2, <5>3 DEF BindingSound, PrevPC, PrevCG
      <4>7. Lawful(b, WithStatus(b, s))
        BY <4>1, <4>2, <4>4, <4>6, BindingVersions, StatusLawful
      <4>8. QED BY <4>1, <4>5, <4>7 DEF LawfulStep
    <3>2. CASE Answer(b, v) # "OK"
      BY <1>3, <2>1, <3>2 DEF SetRefsInvalid
    <3>3. QED BY <3>1, <3>2
  <2>2. RefsCheck(v) \in RefsValidReasons
    BY DEF RefsCheck, RefsValidReasons
  <2>3. QED BY <1>3, <1>5, <2>1, <2>2 DEF ValidateRefs
<1>6. CASE UpdateStatus /\ Answer(b, v) = "OK"
  <2> DEFINE s == SyncedStatus(v, worker.hash)
  <2>1. /\ b \in Bindings /\ b \in Objects /\ b \notin PipelineConfigs
        /\ store[b].exists /\ v = store[b] /\ v \in BindingVersion
    BY <1>1, <1>6, BindingAccepted
  <2>2. s \in CollectorGroupBindingStatus /\ v.generation \in Nat
    BY <1>1, <2>1, BindingRefs, SyncedStatusType, WorkingFields
       DEF SoundInv, TypeInv, TypeOK, ApiTypeOK
  <2>3. /\ s.observedGeneration = v.generation
        /\ s.boundPipelineConfigRef = NewPC(v)
        /\ s.boundCollectorGroupRef = NewCG(v)
    BY DEF SyncedStatus
  <2>4. v.finalizer
    BY <1>2, <1>6 DEF UpdateStatus, StepSound, DeletionSteps
  <2>5. Put(b, WithStatus(b, s))
    BY <1>6 DEF UpdateStatus
  <2> HIDE DEF s
  <2>6. BindingSound(WithStatus(b, s))
    BY <2>1, <2>3, <2>4, StatusFields DEF BindingSound, PrevPC, PrevCG, NewPC, NewCG
  <2>7. Lawful(b, WithStatus(b, s))
    BY <2>1, <2>2, <2>3, <2>6, BindingVersions, StatusLawful
  <2>8. QED BY <2>1, <2>5, <2>7 DEF LawfulStep
<1>7. CASE FinishDeletion /\ Answer(b, v) = "OK"
  <2>1. b \in Objects /\ b \notin Counted /\ v = store[b]
    BY <1>1, <1>7, BindingAccepted
  <2>2. v.deleting
    BY <1>2, <1>7 DEF FinishDeletion, StepSound, DeletionSteps
  <2>3. QED BY <1>7, <2>1, <2>2, ReleaseLawful DEF FinishDeletion, LawfulStep
<1>8. QED
  BY <1>3, <1>4, <1>5, <1>6, <1>7 DEF WorkerStep, UpdateStatus, FinishDeletion

\* A worker takes a binding: the finalizer may be added.
LEMMA StartLawful ==
  ASSUME SoundInv, NEW b \in Bindings, StartReconcile(b)
  PROVE  LawfulStep
<1>1. b \in Objects
  BY DEF Objects
<1>2. CASE UNCHANGED store
  BY <1>2 DEF LawfulStep
<1>3. CASE ReturnUpdate(b, cache[b], WithFinalizer(b))
  <2>1. Answer(b, cache[b]) = "OK" => store[b].exists
    BY <1>1, CachedPast, Accepted
  <2>2. QED BY <1>1, <1>2, <1>3, <2>1, EditLawful DEF ReturnUpdate, LawfulStep
<1>4. QED BY <1>2, <1>3 DEF StartReconcile, Started

\* The registry writes only in its patch.
LEMMA RegistryLawful ==
  ASSUME SoundInv, NEW c \in Collectors, RegistryStep(c)
  PROVE  LawfulStep
<1>1. CASE UNCHANGED store
  BY <1>1 DEF LawfulStep
<1>2. CASE Patch(c)
  <2>1. rpc[c] \in Patching
    BY <1>2, CallFields DEF Patch, SoundInv, TypeInv, TypeOK
  <2>2. rpc[c].key \in Bindings /\ rpc[c].edited \in SUBSET RegisteredTenant
    BY <2>1 DEF Patching
  <2>3. QED BY <1>2, <2>2, PatchLawful DEF Patch
<1>3. QED
  BY <1>1, <1>2 DEF RegistryStep, RetryRegister, Refetch, PatchConflict, apiVars

LEMMA EveryStepLawful ==
  ASSUME SoundInv, [Next]_vars
  PROVE  LawfulStep
<1>1. CASE UNCHANGED store
  BY <1>1 DEF LawfulStep
<1>2. ASSUME NEW p \in PipelineConfigs, PipelineConfigController(p)
      PROVE  LawfulStep
  BY <1>2, PipelineConfigLawful DEF PipelineConfigController
<1>3. ASSUME NEW g \in CollectorGroups, CollectorGroupController(g)
      PROVE  LawfulStep
  BY <1>3, CollectorGroupLawful DEF CollectorGroupController
<1>4. ASSUME NEW b \in Bindings, BindingTake(b) PROVE LawfulStep
  BY <1>4, StartLawful DEF BindingTake
<1>5. CASE BindingWork
  BY <1>5, WorkerLawful DEF BindingWork
<1>6. ASSUME NEW c \in Collectors, RegistryWork(c) PROVE LawfulStep
  BY <1>6, RegistryLawful DEF RegistryWork
<1>7. ASSUME NEW o \in Objects, User(o) PROVE LawfulStep
  BY <1>7, UserLawful DEF User
<1>8. ASSUME \/ \E k \in Kinds : Informer(k) \/ Resync(k)
             \/ \E c \in Collectors : RegistryCall(c)
             \/ Restart \/ Clock \/ UNCHANGED vars
      PROVE  UNCHANGED store
  BY <1>8 DEF Informer, Deliver, Resync, Requeue, RegistryCall, Register,
              Unregister, Restart, Relist, Clock, Tick, vars, apiVars
<1>9. QED
  BY <1>1, <1>2, <1>3, <1>4, <1>5, <1>6, <1>7, <1>8 DEF Next

-----------------------------------------------------------------------------
(* The invariant and what follows from it.                                 *)

\* The objects the manager finds when it starts.
LEMMA InitialObjectSound ==
  ASSUME NEW specs \in InitialSpecs, NEW o \in Objects
  PROVE  Sound(o, InitialObject(o, specs))
<1>1. CASE o \notin DOMAIN specs
  BY <1>1, NewAndGoneSound DEF InitialObject
<1>2. CASE o \in DOMAIN specs
  <2> DEFINE v == Fresh(o, 1, specs[o])
             w == Settled(o, v)
  <2>1. specs[o] \in SpecSet(o)
    BY <1>2, InitialSpecsAssumption
  <2>2. Sound(o, v)
    BY <2>1, NewAndGoneSound
  <2>3. CASE o \notin Reconciled
    BY <1>2, <2>2, <2>3 DEF InitialObject
  <2>4. CASE o \in Reconciled
    <3>1. o \in Counted /\ o \notin Bindings /\ InitialObject(o, specs) = w
      BY <1>2, <2>4, ReconciledAssumption, NamesDistinct DEF InitialObject, Counted
    <3>2. v.exists /\ v.generation = 1 /\ ~v.deleting /\ v.spec = specs[o]
          /\ v.status \in StatusSet(o)
      BY NewStatusType DEF Fresh
    <3>3. w.exists /\ w.finalizer /\ ~w.deleting /\ w.generation = 1
          /\ w.spec = specs[o]
      BY DEF Settled, Fresh
    <3>4. CASE o \in CollectorGroups
      <4>1. w.status = [v.status EXCEPT !.observedGeneration = 1]
        BY <3>4 DEF Settled, Fresh
      <4>2. v.status \in CollectorGroupStatus /\ o \notin PipelineConfigs
        BY <3>2, <3>4, NamesDistinct DEF StatusSet
      <4> HIDE DEF v
      <4>3. w.status.observedGeneration = 1
        BY <4>1, <4>2 DEF CollectorGroupStatus
      <4> HIDE DEF w
      <4>4. QED BY <3>1, <3>3, <4>2, <4>3 DEF Sound, ObjectSound
    <3>5. CASE o \in PipelineConfigs /\ o \notin CollectorGroups
      <4>1. w.status = IF specs[o].content = EmptyContent
                       THEN EmptyContentStatus(v) ELSE HashedContentStatus(v)
        BY <3>5 DEF Settled, Fresh
      <4>2. v.status \in PipelineConfigStatus
        BY <3>2, <3>5 DEF StatusSet
      <4> HIDE DEF v
      <4>3. /\ w.status.observedGeneration = 1
            /\ w.status.contentValid = "True"
               => w.status.contentHash = Sha256(specs[o].content)
        BY <3>2, <4>1, <4>2
           DEF EmptyContentStatus, HashedContentStatus, PipelineConfigStatus
      <4> HIDE DEF w
      <4>4. QED BY <3>1, <3>3, <4>3 DEF Sound, ObjectSound, ConfigSound
    <3>6. QED BY <3>1, <3>4, <3>5 DEF Counted
  <2>5. QED BY <2>3, <2>4
<1>3. QED BY <1>1, <1>2

LEMMA SoundInit == Init => SoundInv
<1> SUFFICES ASSUME Init PROVE ObjectsSound
  BY TypeInit, CopiesInit DEF SoundInv
<1>1. PICK specs \in InitialSpecs :
        store = [o \in Objects |-> InitialObject(o, specs)]
  BY DEF Init, ApiInit
<1>2. QED BY <1>1, InitialObjectSound DEF ObjectsSound

LEMMA SoundStep == SoundInv /\ [Next]_vars => SoundInv'
<1> SUFFICES ASSUME SoundInv, [Next]_vars PROVE SoundInv'
  OBVIOUS
<1>1. StepOrderly
  BY EveryStep DEF SoundInv
<1>2. ObjectsSound'
  BY EveryStepLawful, LawfulKeepsSound DEF SoundInv, TypeInv, TypeOK, ApiTypeOK
<1>3. QED BY <1>1, <1>2, CopiesStep DEF SoundInv, StepOrderly

\* An Active binding whose observedGeneration is current is bound to what its
\* spec says, for any fleet: no status is ever written over a newer spec.
THEOREM StatusesReflectSpecs == Spec => []StatusReflectsSpec
<1>1. SoundInv => StatusReflectsSpec
  BY DEF SoundInv, ObjectsSound, Sound, BindingSound, StatusReflectsSpec,
         Objects, PrevPC, PrevCG, NewPC, NewCG
<1>2. QED BY <1>1, SoundInit, SoundStep, PTL DEF Spec

\* A PipelineConfig whose content was found valid for its current generation
\* carries the hash of that content, although two controllers write its status.
THEOREM HashesReflectContent == Spec => []HashReflectsContent
<1>1. SoundInv => HashReflectsContent
  BY DEF SoundInv, ObjectsSound, Sound, ConfigSound, HashReflectsContent, Objects
<1>2. QED BY <1>1, SoundInit, SoundStep, PTL DEF Spec

\* The finalizer is taken from a PipelineConfig or CollectorGroup only in a
\* state whose stored counter is not positive, however old the cached object
\* was that the controller decided on.
THEOREM DeletionIsBlocked == Spec => DeletionBlocked
<1> DEFINE A == \A o \in Counted :
                  store[o].exists /\ store[o].finalizer
                    /\ ~(store'[o].exists /\ store'[o].finalizer)
                  => store[o].status.activeBindings <= 0
<1>1. SoundInv /\ [Next]_vars => [A]_vars
  <2> SUFFICES ASSUME SoundInv, [Next]_vars PROVE A
    OBVIOUS
  <2>1. CASE UNCHANGED store
    BY <2>1
  <2>2. ASSUME NEW x \in Objects, NEW v, Put(x, v), Lawful(x, v) PROVE A
    <3>1. /\ store'[x].exists = v.exists /\ store'[x].finalizer = v.finalizer
          /\ \A o \in Objects \ {x} : store'[o] = store[o]
      BY <2>2, PutStore DEF Lawful, SoundInv, TypeInv, TypeOK, ApiTypeOK
    <3>2. QED BY <2>2, <3>1 DEF Lawful, Counted, Objects
  <2>3. QED BY <2>1, <2>2, EveryStepLawful DEF LawfulStep
<1>2. QED BY <1>1, SoundInit, SoundStep, PTL DEF Spec, DeletionBlocked
=============================================================================
