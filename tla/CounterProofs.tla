---------------------------- MODULE CounterProofs ----------------------------
(***************************************************************************)
(* activeBindings counts the bindings that count in an object, as long as  *)
(* no reconcile was cut short on it.                                       *)
(***************************************************************************)
EXTENDS StatusProofs, FiniteSetTheorems

Counting == CountersExact /\ HoldersExist /\ Progress /\ ChargedLate

CountInv == SoundInv /\ Counting

-----------------------------------------------------------------------------
(* Holders.                                                                *)

\* Bindings are finitely many, and so are the holders of an object.
LEMMA HoldersFinite ==
  ASSUME NEW o
  PROVE  /\ Holders(o) \subseteq Bindings /\ IsFiniteSet(Holders(o))
         /\ Cardinality(Holders(o)) \in Nat
         /\ Holders(o) = {} => Cardinality(Holders(o)) = 0
<1>1. Holders(o) \subseteq Bindings
  BY DEF Holders
<1>2. IsFiniteSet(Holders(o))
  BY <1>1, FiniteBindings, FS_Subset
<1>3. QED BY <1>1, <1>2, FS_CardinalityType, FS_EmptySet

\* A binding that begins or stops to count changes the number by one.
LEMMA HolderAdded ==
  ASSUME NEW S \in SUBSET Bindings, NEW b \in Bindings
  PROVE  /\ b \notin S => Cardinality(S \cup {b}) = Cardinality(S) + 1
         /\ b \in S => Cardinality(S \ {b}) = Cardinality(S) - 1
<1>1. IsFiniteSet(S)
  BY FiniteBindings, FS_Subset
<1>2. QED BY <1>1, FS_AddElement, FS_RemoveElement

\* The step leaves the references binding b is bound to alone.
SameBound(b) ==
  /\ PrevPC(store'[b]) = PrevPC(store[b])
  /\ PrevCG(store'[b]) = PrevCG(store[b])

LEMMA SameBoundKeeps ==
  ASSUME NEW b, SameBound(b)
  PROVE  Bound(b)' = Bound(b)
BY DEF SameBound, Bound, PrevPC, PrevCG

\* A reconcile whose binding was written by somebody else stays outdated.
LEMMA StaysStale ==
  ASSUME SoundInv, StepOrderly, worker # Idle, worker' # Idle,
         worker'.key = worker.key, worker'.binding = worker.binding
  PROVE  Current' => Current
<1>1. worker.key \in Objects /\ worker.binding \in Version(worker.key)
  BY WorkingFields, BindingVersions DEF SoundInv, TypeInv, TypeOK
<1>2. /\ worker.binding.rv \in Nat /\ store[worker.key].rv \in Nat
      /\ Past(worker.key, worker.binding)
  BY <1>1, VersionFields, StoredFields DEF SoundInv, CopiesArePast
<1>3. \/ store'[worker.key] = store[worker.key]
      \/ store'[worker.key].rv = store[worker.key].rv + 1
  BY <1>1 DEF StepOrderly, Orderly, Grows
<1>4. QED BY <1>2, <1>3 DEF Past, Current

\* What a reconcile in progress holds is what its binding holds as long as it
\* works on the stored version.
LEMMA HeldHolds ==
  ASSUME SoundInv, Current, NEW o \in Counted
  PROVE  worker.key \in Bindings /\ (o \in Held <=> worker.key \in Holders(o))
<1>1. worker # Idle /\ worker.key \in Bindings
      /\ worker.binding = store[worker.key]
  BY WorkingFields DEF Current, SoundInv, TypeInv, TypeOK
<1>2. QED BY <1>1 DEF Held, Holders, Holds, Bound, PrevPC, PrevCG

-----------------------------------------------------------------------------
(* Steps that leave the reconcile in progress alone.                       *)

\* The counter of o is left alone, or o is new, or it goes.
CounterKept(o) ==
  \/ /\ store'[o].exists = store[o].exists
     /\ store'[o].status.activeBindings = store[o].status.activeBindings
  \/ ~store[o].exists /\ store'[o].status.activeBindings = 0
  \/ ~store'[o].exists /\ (o \in suspect' \/ Holders(o) = {})

LEMMA BystanderCounts ==
  ASSUME CountInv, StepOrderly, UNCHANGED worker, suspect \subseteq suspect',
         \A b \in Bindings : SameBound(b), \A o \in Counted : CounterKept(o)
  PROVE  Counting'
<1>1. \A o : Holders(o)' = Holders(o)
  <2>1. \A b \in Bindings : Bound(b)' = Bound(b)
    BY SameBoundKeeps
  <2>2. QED BY <2>1 DEF Holders, Holds
<1>2. Current' => Current
  BY StaysStale DEF CountInv, Current
<1>3. InDoubt \subseteq InDoubt'
  <2>1. worker # Idle /\ worker.binding # store[worker.key]
        => worker.binding # store'[worker.key]
    BY <1>2 DEF Current
  <2>2. QED BY <2>1 DEF InDoubt, Adjusted
<1>4. CountersExact'
  <2> SUFFICES ASSUME NEW o \in Counted, o \notin suspect', o \notin InDoubt',
                      store'[o].exists
               PROVE  store'[o].status.activeBindings = Cardinality(Holders(o))
    BY <1>1 DEF CountersExact
  <2>1. o \notin suspect /\ o \notin InDoubt
    BY <1>3
  <2>2. CASE /\ store'[o].exists = store[o].exists
             /\ store'[o].status.activeBindings = store[o].status.activeBindings
    BY <2>1, <2>2 DEF CountInv, Counting, CountersExact
  <2>3. CASE ~store[o].exists /\ store'[o].status.activeBindings = 0
    BY <2>1, <2>3, HoldersFinite DEF CountInv, Counting, HoldersExist
  <2>4. QED BY <2>2, <2>3 DEF CounterKept
<1>5. HoldersExist'
  <2> SUFFICES ASSUME NEW o \in Counted, o \notin suspect', Holders(o) # {}
               PROVE  store'[o].exists
    BY <1>1 DEF HoldersExist
  <2>1. store[o].exists
    BY DEF CountInv, Counting, HoldersExist
  <2>2. QED BY <2>1 DEF CounterKept
<1>6. Progress'
  BY <1>2 DEF CountInv, Counting, Progress, Held
<1>7. ChargedLate'
  BY DEF CountInv, Counting, ChargedLate
<1>8. QED BY <1>4, <1>5, <1>6, <1>7 DEF Counting

\* A write of v to o that leaves references and counters alone, or creates or
\* removes o.
Passive(o, v) ==
  /\ v \in Version(o)
  /\ o \in Bindings =>
       PrevPC(v) = PrevPC(store[o]) /\ PrevCG(v) = PrevCG(store[o])
  /\ o \in Counted =>
       \/ ~v.exists
       \/ /\ v.exists = store[o].exists
          /\ v.status.activeBindings = store[o].status.activeBindings
       \/ ~store[o].exists /\ v.status.activeBindings = 0

PassiveStep ==
  \/ UNCHANGED store
  \/ \E o \in Objects : \E v : Put(o, v) /\ Passive(o, v)

\* A passive step of a controller, a user or the registry. Removals are noted,
\* and only a Counted object can be removed with holders.
LEMMA PassiveCounts ==
  ASSUME CountInv, StepOrderly, PassiveStep, UNCHANGED worker,
         \/ NoteRemoval
         \/ suspect' = suspect /\ \A o \in Counted : store'[o] = store[o]
  PROVE  Counting'
<1>1. suspect \subseteq suspect'
  BY DEF NoteRemoval
<1>2. CASE UNCHANGED store
  BY <1>1, <1>2, BystanderCounts DEF SameBound, CounterKept
<1>3. ASSUME NEW x \in Objects, NEW v, Put(x, v), Passive(x, v)
      PROVE  Counting'
  <2>1. /\ store'[x].exists = v.exists /\ store'[x].status = v.status
        /\ \A o \in Objects \ {x} : store'[o] = store[o]
    BY <1>3, PutStore
       DEF Passive, CountInv, SoundInv, TypeInv, TypeOK, ApiTypeOK
  <2>2. ASSUME NEW b \in Bindings PROVE SameBound(b)
    BY <1>3, <2>1 DEF Passive, SameBound, PrevPC, PrevCG, Objects
  <2>3. ASSUME NEW o \in Counted PROVE CounterKept(o)
    <3>1. CASE store'[o] = store[o]
      BY <3>1 DEF CounterKept
    <3>2. CASE store'[o] # store[o]
      <4>1. o = x /\ NoteRemoval
        BY <2>1, <3>2 DEF Counted, Objects
      <4>2. CASE v.exists
        BY <1>3, <2>1, <4>1, <4>2 DEF Passive, CounterKept
      <4>3. CASE ~v.exists /\ store[o].exists
        BY <2>1, <4>1, <4>3 DEF NoteRemoval, CounterKept
      <4>4. CASE ~v.exists /\ ~store[o].exists
        BY <1>1, <2>1, <4>1, <4>4
           DEF CountInv, Counting, HoldersExist, CounterKept
      <4>5. QED BY <4>2, <4>3, <4>4
    <3>3. QED BY <3>1, <3>2
  <2>4. QED BY <1>1, <2>2, <2>3, BystanderCounts
<1>4. QED BY <1>2, <1>3 DEF PassiveStep

\* The finalizer is added or removed, the object is created, edited or marked.
LEMMA EditPassive ==
  ASSUME SoundInv, NEW o \in Objects
  PROVE  /\ Passive(o, WithFinalizer(o))
         /\ o \in Counted => Passive(o, WithoutFinalizer(o))
         /\ \A spec \in SpecSet(o) :
              /\ Passive(o, [store[o] EXCEPT !.spec = spec, !.generation = @ + 1])
              /\ ~store[o].exists => Passive(o, Fresh(o, store[o].rv, spec))
         /\ Passive(o, [store[o] EXCEPT !.deleting = TRUE, !.generation = @ + 1])
         /\ ~store[o].finalizer => Passive(o, Gone(o, store[o].rv))
<1> DEFINE s == store[o]
<1>1. s \in Version(o) /\ s.rv \in Nat /\ Sound(o, s)
  BY StoredFields
<1>2. WithFinalizer(o) \in Version(o) /\ WithoutFinalizer(o) \in Version(o)
  BY WithTypes DEF SoundInv, TypeInv, TypeOK, ApiTypeOK
<1>3. ASSUME NEW v \in Version(o), v.exists = s.exists, v.status = s.status
      PROVE  Passive(o, v)
  BY <1>3 DEF Passive, PrevPC, PrevCG
<1>4. Passive(o, WithFinalizer(o))
  <2>1. /\ WithFinalizer(o).exists = s.exists
        /\ WithFinalizer(o).status = s.status
    BY <1>1 DEF WithFinalizer, Version, VersionOf
  <2>2. QED BY <1>2, <1>3, <2>1
<1>5. ASSUME NEW spec \in SpecSet(o)
      PROVE  Passive(o, [s EXCEPT !.spec = spec, !.generation = @ + 1])
  <2> DEFINE v == [s EXCEPT !.spec = spec, !.generation = @ + 1]
  <2>1. v \in Version(o)
    BY <1>1, NewGeneration
  <2>2. v.exists = s.exists /\ v.status = s.status
    BY <1>1 DEF Version, VersionOf
  <2>3. QED BY <1>3, <2>1, <2>2
<1>6. Passive(o, [s EXCEPT !.deleting = TRUE, !.generation = @ + 1])
  <2> DEFINE v == [s EXCEPT !.deleting = TRUE, !.generation = @ + 1]
  <2>1. v \in Version(o)
    BY <1>1, NewGeneration
  <2>2. v.exists = s.exists /\ v.status = s.status
    BY <1>1 DEF Version, VersionOf
  <2>3. QED BY <1>3, <2>1, <2>2
<1>7. o \in Counted => Passive(o, WithoutFinalizer(o))
  <2>1. o \in Counted => o \notin Bindings
    BY BindingVersions
  <2>2. CASE s.deleting
    BY <1>2, <2>1, <2>2 DEF WithoutFinalizer, Gone, Passive
  <2>3. CASE ~s.deleting
    <3>1. /\ WithoutFinalizer(o).exists = s.exists
          /\ WithoutFinalizer(o).status = s.status
      BY <1>1, <2>3 DEF WithoutFinalizer, Version, VersionOf
    <3>2. QED BY <1>2, <1>3, <3>1
  <2>4. QED BY <2>2, <2>3
<1>8. /\ o \in Bindings => /\ NewStatus(o).boundPipelineConfigRef = NoRef
                           /\ NewStatus(o).boundCollectorGroupRef = NoRef
      /\ o \in Counted => NewStatus(o).activeBindings = 0
  BY NamesDistinct DEF NewStatus, Counted
<1>9. ASSUME ~s.exists, NEW spec \in SpecSet(o)
      PROVE  Passive(o, Fresh(o, s.rv, spec))
  <2>1. s.status = NewStatus(o)
    BY <1>1, <1>9 DEF Sound, ObjectSound
  <2>2. Fresh(o, s.rv, spec) \in Version(o)
    BY <1>1, FreshType
  <2>3. Fresh(o, s.rv, spec).status = NewStatus(o)
    BY DEF Fresh
  <2>4. QED BY <1>8, <1>9, <2>1, <2>2, <2>3 DEF Passive, PrevPC, PrevCG
<1>10. ASSUME ~s.finalizer PROVE Passive(o, Gone(o, s.rv))
  <2>1. o \in Bindings => PrevPC(s) = NoRef /\ PrevCG(s) = NoRef
    BY <1>1, <1>10 DEF Sound, BindingSound
  <2>2. Gone(o, s.rv) \in Version(o)
    BY <1>1, GoneType
  <2>3. Gone(o, s.rv).status = NewStatus(o) /\ ~Gone(o, s.rv).exists
    BY DEF Gone
  <2>4. QED BY <1>8, <2>1, <2>2, <2>3 DEF Passive, PrevPC, PrevCG
<1>11. QED BY <1>4, <1>5, <1>6, <1>7, <1>9, <1>10

\* A status is replaced by one with the same counter or references.
LEMMA StatusPassive ==
  ASSUME SoundInv, NEW o \in Objects, NEW s \in StatusSet(o),
         o \in Bindings =>
           /\ s.boundPipelineConfigRef = PrevPC(store[o])
           /\ s.boundCollectorGroupRef = PrevCG(store[o]),
         o \in Counted => s.activeBindings = store[o].status.activeBindings
  PROVE  Passive(o, WithStatus(o, s))
<1>1. WithStatus(o, s) \in Version(o)
  BY WithTypes DEF SoundInv, TypeInv, TypeOK, ApiTypeOK
<1>2. WithStatus(o, s).exists = store[o].exists /\ WithStatus(o, s).status = s
  BY StatusFields
<1>3. QED BY <1>1, <1>2 DEF Passive, PrevPC, PrevCG

\* Reconciles of PipelineConfigs and CollectorGroups write back the counter
\* they read: an accepted write was computed from the stored object.
LEMMA OwnerPassive ==
  ASSUME SoundInv, NEW o \in Counted,
         \/ o \in PipelineConfigs /\ ReconcilePipelineConfig(o)
         \/ o \in CollectorGroups /\ ReconcileCollectorGroup(o)
  PROVE  PassiveStep
<1> DEFINE c == cache[o]
<1>1. o \in Objects /\ o \notin Bindings
  BY BindingVersions DEF Counted, Objects
<1>2. ASSUME NEW w, ReturnUpdate(o, c, w), c = store[o] => Passive(o, w)
      PROVE  PassiveStep
  <2>1. Answer(o, c) = "OK" => c = store[o]
    BY <1>1, CachedPast, Accepted
  <2>2. QED BY <1>1, <1>2, <2>1 DEF ReturnUpdate, PassiveStep
<1>3. CASE UNCHANGED store
  BY <1>3 DEF PassiveStep
<1>4. CASE ReturnUpdate(o, c, WithoutFinalizer(o))
  BY <1>1, <1>2, <1>4, EditPassive
<1>5. CASE ReturnUpdate(o, c, WithFinalizer(o))
  BY <1>1, <1>2, <1>5, EditPassive
<1>6. ASSUME NEW s, ReturnUpdate(o, c, WithStatus(o, s)), s \in StatusSet(o),
             s.activeBindings = c.status.activeBindings
      PROVE  PassiveStep
  BY <1>1, <1>2, <1>6, StatusPassive
<1>7. /\ c.status \in StatusSet(o) /\ c.generation \in Nat
      /\ c.exists => c.spec \in SpecSet(o)
  BY <1>1, VersionFields DEF SoundInv, TypeInv, TypeOK, ApiTypeOK, CacheTypeOK
<1>8. CASE o \in PipelineConfigs /\ ReconcilePipelineConfig(o)
  <2>1. c.status \in PipelineConfigStatus /\ StatusSet(o) = PipelineConfigStatus
        /\ SpecSet(o) = PipelineConfigSpec
    BY <1>7, <1>8 DEF StatusSet, SpecSet
  <2>2. /\ EmptyContentStatus(c) \in PipelineConfigStatus
        /\ EmptyContentStatus(c).activeBindings = c.status.activeBindings
    BY <1>7, <2>1 DEF EmptyContentStatus, PipelineConfigStatus
  <2>3. ASSUME c.exists, c.spec.content # EmptyContent
        PROVE  /\ HashedContentStatus(c) \in PipelineConfigStatus
               /\ HashedContentStatus(c).activeBindings = c.status.activeBindings
    <3>1. Sha256(c.spec.content) \in Hashes
      BY <1>7, <2>1, <2>3 DEF PipelineConfigSpec, Hashes
    <3>2. QED BY <1>7, <2>1, <3>1 DEF HashedContentStatus, PipelineConfigStatus
  <2>4. QED
    BY <1>3, <1>4, <1>5, <1>6, <1>8, <2>1, <2>2, <2>3
       DEF ReconcilePipelineConfig, PipelineConfigDeletion
<1>9. CASE o \in CollectorGroups /\ ReconcileCollectorGroup(o)
  <2> DEFINE s == [c.status EXCEPT !.observedGeneration = c.generation]
  <2>1. c.status \in CollectorGroupStatus /\ StatusSet(o) = CollectorGroupStatus
    BY <1>7, <1>9, NamesDistinct DEF StatusSet
  <2>2. s \in CollectorGroupStatus /\ s.activeBindings = c.status.activeBindings
    BY <1>7, <2>1 DEF CollectorGroupStatus
  <2>3. CASE ReturnUpdate(o, c, WithStatus(o, s))
    BY <1>6, <2>1, <2>2, <2>3
  <2>4. QED
    BY <1>3, <1>4, <1>5, <1>9, <2>3
       DEF ReconcileCollectorGroup, CollectorGroupDeletion
<1>10. QED BY <1>8, <1>9

\* Users neither write statuses nor remove a bound binding.
LEMMA UserPassive ==
  ASSUME SoundInv, NEW o \in Objects,
         \/ \E spec \in SpecSet(o) : Create(o, spec) \/ EditSpec(o, spec)
         \/ Delete(o)
  PROVE  PassiveStep
<1>1. ASSUME NEW spec \in SpecSet(o), Create(o, spec) PROVE PassiveStep
  BY <1>1, EditPassive DEF Create, PassiveStep
<1>2. ASSUME NEW spec \in SpecSet(o), EditSpec(o, spec) PROVE PassiveStep
  BY <1>2, EditPassive DEF EditSpec, PassiveStep
<1>3. ASSUME Delete(o) PROVE PassiveStep
  <2>1. CASE store[o].finalizer
    BY <1>3, <2>1, EditPassive DEF Delete, PassiveStep
  <2>2. CASE ~store[o].finalizer
    BY <1>3, <2>2, EditPassive DEF Delete, PassiveStep
  <2>3. QED BY <2>1, <2>2, StoredFields
<1>4. QED BY <1>1, <1>2, <1>3

\* The registry's patch replaces the registered tenants only.
LEMMA RegistryPassive ==
  ASSUME SoundInv, NEW c \in Collectors, RegistryStep(c)
  PROVE  PassiveStep /\ \A o \in Counted : store'[o] = store[o]
<1>1. CASE UNCHANGED store
  BY <1>1 DEF PassiveStep
<1>2. CASE Patch(c)
  <2> DEFINE b == rpc[c].key
             s == [store[b].status EXCEPT !.registeredTenants = rpc[c].edited]
  <2>1. rpc[c] \in Patching
    BY <1>2, CallFields DEF Patch, SoundInv, TypeInv, TypeOK
  <2>2. b \in Bindings /\ rpc[c].edited \in SUBSET RegisteredTenant
    BY <2>1 DEF Patching
  <2>3. b \in Objects /\ b \notin Counted
        /\ StatusSet(b) = CollectorGroupBindingStatus
    BY <2>2, BindingVersions
  <2>4. store[b].status \in CollectorGroupBindingStatus
    BY <2>3, StoredFields, VersionFields
  <2>5. /\ s \in CollectorGroupBindingStatus
        /\ s.boundPipelineConfigRef = PrevPC(store[b])
        /\ s.boundCollectorGroupRef = PrevCG(store[b])
    BY <2>2, <2>4 DEF CollectorGroupBindingStatus, PrevPC, PrevCG
  <2>6. UNCHANGED store \/ Put(b, WithStatus(b, s))
    BY <1>2 DEF Patch, PatchTenants
  <2> HIDE DEF s, b
  <2>7. CASE Put(b, WithStatus(b, s))
    <3>1. Passive(b, WithStatus(b, s))
      BY <2>3, <2>5, StatusPassive
    <3>2. \A o \in Objects \ {b} : store'[o] = store[o]
      BY <2>3, <2>7, <3>1, PutStore
         DEF Passive, SoundInv, TypeInv, TypeOK, ApiTypeOK
    <3>3. QED BY <2>3, <2>7, <3>1, <3>2 DEF PassiveStep, Counted, Objects
  <2>8. QED BY <1>1, <2>6, <2>7
<1>3. QED
  BY <1>1, <1>2 DEF RegistryStep, RetryRegister, Refetch, PatchConflict, apiVars

-----------------------------------------------------------------------------
(* Steps of the reconcile in progress.                                     *)

\* A reconcile that ends early leaves what it has adjusted suspect.
LEMMA AbandonCounts ==
  ASSUME CountInv, worker' = Idle, suspect' = suspect \cup Adjusted,
         \A b \in Bindings : SameBound(b),
         \A o \in Counted : store'[o] = store[o]
  PROVE  Counting'
<1>1. ASSUME NEW o, o \notin Adjusted PROVE Holders(o)' = Holders(o)
  <2>1. \A b \in Bindings : Bound(b)' = Bound(b)
    BY SameBoundKeeps
  <2>2. \A b \in Bindings : Holds(b, o)' <=> Holds(b, o)
    BY <1>1, <2>1 DEF Holds, Adjusted
  <2>3. QED BY <2>2 DEF Holders
<1>2. InDoubt \subseteq Adjusted
  BY DEF InDoubt
<1>3. CountersExact'
  BY <1>1, <1>2 DEF CountInv, Counting, CountersExact
<1>4. HoldersExist'
  BY <1>1 DEF CountInv, Counting, HoldersExist
<1>5. Progress' /\ ChargedLate'
  BY DEF Progress, Current, ChargedLate
<1>6. QED BY <1>3, <1>4, <1>5 DEF Counting

\* What the binding should count in before a step.
Expected(step, v) == {ExpectedPC(step, v), ExpectedCG(step, v)}

LateSteps == {"chargeCG", "updateStatus"}

\* A reconcile that moves on without a write.
LEMMA MoveCounts ==
  ASSUME CountInv, worker # Idle, worker' # Idle, UNCHANGED store,
         worker'.key = worker.key, worker'.binding = worker.binding,
         worker'.charged = worker.charged, worker'.released = worker.released,
         suspect \subseteq suspect',
         worker.step \in LateSteps => worker'.step \in LateSteps,
         Current => \A x \in Counted \ suspect' :
                      x \in Expected(worker.step, worker.binding)
                      <=> x \in Expected(worker'.step, worker.binding)
  PROVE  Counting'
<1>1. \A o : Holders(o)' = Holders(o)
  BY DEF Holders, Holds, Bound
<1>2. InDoubt' = InDoubt /\ (Current' <=> Current) /\ Held' = Held
  BY DEF InDoubt, Adjusted, Current, Held, PrevPC, PrevCG
<1>3. CountersExact' /\ HoldersExist'
  BY <1>1, <1>2 DEF CountInv, Counting, CountersExact, HoldersExist
<1>4. Progress'
  BY <1>2 DEF CountInv, Counting, Progress, Expected
<1>5. ChargedLate'
  BY DEF CountInv, Counting, ChargedLate, LateSteps
<1>6. QED BY <1>3, <1>4, <1>5 DEF Counting

\* From one step to another the binding stops, or begins, to count in o.
Exchanges(o, from, to, v) ==
  /\ o \in Counted
  /\ \A x \in Counted \ {o} : x \in Expected(from, v) <=> x \in Expected(to, v)

Releases(o, from, to, v) ==
  Exchanges(o, from, to, v) /\ o \in Expected(from, v) /\ o \notin Expected(to, v)

Charges(o, from, to, v) ==
  Exchanges(o, from, to, v) /\ o \notin Expected(from, v) /\ o \in Expected(to, v)

\* manageCounters and handleDeletion change the counters that need a change.
LEMMA TargetsExpected ==
  ASSUME NEW v \in BindingVersion, v.exists
  PROVE  /\ \A x \in Counted : x \in Expected("validateRefs", v)
                               <=> x \in Expected(FromReleasePC(v), v)
         /\ \A x \in Counted : x \in {PrevPC(v), PrevCG(v)}
                               <=> x \in Expected(FromDeletePC(v), v)
         /\ StepSound("releasePC", v) =>
              Releases(PrevPC(v), "releasePC", FromReleaseCG(v), v)
         /\ StepSound("releaseCG", v) =>
              Releases(PrevCG(v), "releaseCG", FromChargePC(v), v)
         /\ StepSound("chargePC", v) =>
              Charges(NewPC(v), "chargePC", FromChargeCG(v), v)
         /\ StepSound("chargeCG", v) =>
              Charges(NewCG(v), "chargeCG", "updateStatus", v)
         /\ StepSound("deletePC", v) =>
              Releases(PrevPC(v), "deletePC", FromDeleteCG(v), v)
         /\ StepSound("deleteCG", v) =>
              Releases(PrevCG(v), "deleteCG", "removeFinalizer", v)
<1>1. /\ PrevPC(v) \in PipelineConfigs \cup {NoRef}
      /\ PrevCG(v) \in CollectorGroups \cup {NoRef}
      /\ NewPC(v) \in PipelineConfigs
      /\ NewCG(v) \in CollectorGroups \cup {NoRef}
  BY BindingRefs
<1>2. NoRef \notin Counted /\ PipelineConfigs \cap CollectorGroups = {}
      /\ PipelineConfigs \subseteq Counted /\ CollectorGroups \subseteq Counted
  BY NamesDistinct, NamesNonEmpty DEF Counted, Objects
<1> USE DEF Expected, ExpectedPC, ExpectedCG
<1>3. \A x \in Counted : x \in Expected("validateRefs", v)
                         <=> x \in Expected(FromReleasePC(v), v)
  BY <1>2 DEF FromReleasePC, FromReleaseCG, FromChargePC, FromChargeCG
<1>4. \A x \in Counted : x \in {PrevPC(v), PrevCG(v)}
                         <=> x \in Expected(FromDeletePC(v), v)
  BY <1>2 DEF FromDeletePC, FromDeleteCG
<1> USE DEF Releases, Charges, Exchanges, StepSound
<1>5. StepSound("releasePC", v) =>
        Releases(PrevPC(v), "releasePC", FromReleaseCG(v), v)
  BY <1>1, <1>2 DEF FromReleaseCG, FromChargePC
<1>6. StepSound("releaseCG", v) =>
        Releases(PrevCG(v), "releaseCG", FromChargePC(v), v)
  BY <1>1, <1>2 DEF FromChargePC, FromChargeCG
<1>7. StepSound("chargePC", v) =>
        Charges(NewPC(v), "chargePC", FromChargeCG(v), v)
  BY <1>1, <1>2 DEF FromChargeCG
<1>8. StepSound("chargeCG", v) =>
        Charges(NewCG(v), "chargeCG", "updateStatus", v)
  BY <1>1, <1>2
<1>9. StepSound("deletePC", v) =>
        Releases(PrevPC(v), "deletePC", FromDeleteCG(v), v)
  BY <1>1, <1>2 DEF FromDeleteCG
<1>10. StepSound("deleteCG", v) =>
         Releases(PrevCG(v), "deleteCG", "removeFinalizer", v)
  BY <1>1, <1>2
<1>11. QED BY <1>3, <1>4, <1>5, <1>6, <1>7, <1>8, <1>9, <1>10

\* An accepted counter step writes the stored counter, changed by n.
LEMMA AdjustStore ==
  ASSUME SoundInv, NEW o \in Counted, NEW n \in Int,
         CounterAnswer(o) = "OK", Adjust(o, n)
  PROVE  /\ store[o].exists /\ store'[o].exists
         /\ store[o].status.activeBindings \in Int
         /\ store'[o].status.activeBindings
              = store[o].status.activeBindings + n
         /\ \A x \in Objects \ {o} : store'[x] = store[x]
         /\ suspect' = suspect
<1> DEFINE s == [cache[o].status EXCEPT !.activeBindings = @ + n]
<1>1. o \in Objects /\ s \in StatusSet(o)
  BY CounterStatusType DEF SoundInv, TypeInv, TypeOK, ApiTypeOK
<1>2. cache[o] = store[o] /\ store[o].exists
  BY <1>1, CachedPast, Accepted DEF CounterAnswer
<1>3. store[o].status \in StatusSet(o) /\ store[o].status.activeBindings \in Int
  BY <1>1, StoredFields, VersionFields, CounterType
<1>4. s.activeBindings = store[o].status.activeBindings + n
  BY <1>2, <1>3 DEF Counted, StatusSet, PipelineConfigStatus, CollectorGroupStatus
<1>5. Put(o, WithStatus(o, s)) /\ suspect' = suspect
  BY DEF Adjust
<1> HIDE DEF s
<1>6. /\ WithStatus(o, s) \in Version(o) /\ WithStatus(o, s).status = s
      /\ WithStatus(o, s).exists = store[o].exists
  BY <1>1, WithTypes, StatusFields DEF SoundInv, TypeInv, TypeOK, ApiTypeOK
<1>7. QED
  BY <1>1, <1>2, <1>3, <1>4, <1>5, <1>6, PutStore
     DEF SoundInv, TypeInv, TypeOK, ApiTypeOK

\* A counter step of the reconcile in progress: one object gets a new counter,
\* and the reconcile's binding counts differently in that object only.
LEMMA AdjustCounts ==
  ASSUME CountInv, worker # Idle, worker' # Idle, NEW o \in Counted, NEW n \in Int,
         worker'.key = worker.key, worker'.binding = worker.binding,
         o \in worker'.charged \cup worker'.released,
         worker.charged \cup worker.released
           \subseteq worker'.charged \cup worker'.released,
         \A x \in Counted \ {o} : /\ x \in worker'.charged <=> x \in worker.charged
                                  /\ x \in worker'.released <=> x \in worker.released,
         store[o].exists, store'[o].exists, suspect' = suspect,
         \A x \in Objects \ {o} : store'[x] = store[x],
         Current /\ o \notin suspect =>
           store'[o].status.activeBindings = Cardinality(Holders(o)')
  PROVE  /\ CountersExact' /\ HoldersExist' /\ (Current' <=> Current)
         /\ \A x \in Counted \ {o} : x \in Held' <=> x \in Held
<1>1. worker.key \in Bindings /\ worker.key \in Objects \ {o}
  BY WorkingFields, BindingVersions DEF CountInv, SoundInv, TypeInv, TypeOK
<1>2. Current' <=> Current
  BY <1>1 DEF Current
<1>3. \A b \in Bindings : Bound(b)' = Bound(b)
  BY BindingVersions DEF Bound
<1>4. ASSUME NEW x \in Counted \ {o} PROVE Holders(x)' = Holders(x)
  <2>1. \A b \in Bindings : Holds(b, x)' <=> Holds(b, x)
    BY <1>3 DEF Holds
  <2>2. QED BY <2>1 DEF Holders
<1>5. InDoubt \subseteq InDoubt' /\ (o \notin InDoubt' => Current)
  BY <1>1 DEF InDoubt, Adjusted, Current
<1>6. CountersExact'
  <2> SUFFICES ASSUME NEW x \in Counted, x \notin suspect, x \notin InDoubt',
                      store'[x].exists
               PROVE  store'[x].status.activeBindings = Cardinality(Holders(x)')
    BY DEF CountersExact
  <2>1. CASE x = o
    BY <1>5, <2>1
  <2>2. CASE x # o
    <3>1. store'[x] = store[x]
      BY <2>2 DEF Counted, Objects
    <3>2. QED
      BY <1>4, <1>5, <2>2, <3>1 DEF CountInv, Counting, CountersExact
  <2>3. QED BY <2>1, <2>2
<1>7. HoldersExist'
  <2> SUFFICES ASSUME NEW x \in Counted, x \notin suspect, Holders(x)' # {}
               PROVE  store'[x].exists
    BY DEF HoldersExist
  <2>1. CASE x # o
    <3>1. store'[x] = store[x]
      BY <2>1 DEF Counted, Objects
    <3>2. QED BY <1>4, <2>1, <3>1 DEF CountInv, Counting, HoldersExist
  <2>2. QED BY <2>1
<1>8. \A x \in Counted \ {o} : x \in Held' <=> x \in Held
  BY DEF Held
<1>9. QED BY <1>2, <1>6, <1>7, <1>8

\* A decrement: the binding counted in o and does so no longer.
LEMMA DecrementCounts ==
  ASSUME CountInv, worker # Idle, worker.step \notin LateSteps, NEW o,
         NEW step,
         Releases(o, worker.step, step, worker.binding),
         CounterAnswer(o) = "OK", Decrement(o, step)
  PROVE  Counting'
<1>1. o \in Counted
  BY DEF Releases, Exchanges
<1>2. worker' = [step |-> step, key |-> worker.key,
                 binding |-> worker.binding, hash |-> worker.hash,
                 charged |-> worker.charged,
                 released |-> worker.released \cup {o}]
  BY WorkingFields DEF Decrement, CountInv, SoundInv, TypeInv, TypeOK
<1>3. worker' # Idle /\ worker'.step = step /\ worker'.key = worker.key
      /\ worker'.binding = worker.binding /\ worker'.charged = worker.charged
      /\ worker'.released = worker.released \cup {o}
  BY <1>2 DEF Idle
<1>4. worker.charged = {}
  BY DEF CountInv, Counting, ChargedLate, LateSteps
<1>5. /\ store[o].exists /\ store'[o].exists
      /\ store[o].status.activeBindings \in Int
      /\ store'[o].status.activeBindings = store[o].status.activeBindings + (-1)
      /\ \A x \in Objects \ {o} : store'[x] = store[x]
      /\ suspect' = suspect
  <2>1. Adjust(o, -1)
    BY DEF Decrement
  <2>2. SoundInv /\ -1 \in Int
    BY DEF CountInv
  <2>3. QED BY <1>1, <2>1, <2>2, AdjustStore
<1>6. ASSUME Current, o \notin suspect
      PROVE  store'[o].status.activeBindings = Cardinality(Holders(o)')
  <2>1. o \in Held
    BY <1>1, <1>6 DEF CountInv, Counting, Progress, Releases, Expected
  <2>2. worker.key \in Bindings /\ worker.key \in Holders(o)
    BY <1>1, <1>6, <2>1, HeldHolds DEF CountInv
  <2>3. Holders(o)' = Holders(o) \ {worker.key}
    <3>1. \A b \in Bindings : Bound(b)' = Bound(b)
      BY <1>1, <1>5, BindingVersions DEF Bound
    <3>2. \A b \in Bindings : Holds(b, o)' <=> Holds(b, o) /\ b # worker.key
      BY <1>3, <1>4, <3>1 DEF Holds
    <3>3. QED BY <3>2 DEF Holders
  <2>4. store[o].status.activeBindings = Cardinality(Holders(o))
    BY <1>1, <1>5, <1>6 DEF CountInv, Counting, CountersExact, InDoubt, Current
  <2>5. Cardinality(Holders(o) \ {worker.key}) = Cardinality(Holders(o)) - 1
    BY <2>2, HoldersFinite, HolderAdded
  <2>6. QED BY <1>5, <2>3, <2>4, <2>5, HoldersFinite
<1>7. /\ CountersExact' /\ HoldersExist' /\ (Current' <=> Current)
      /\ \A x \in Counted \ {o} : x \in Held' <=> x \in Held
  BY <1>1, <1>3, <1>5, <1>6, AdjustCounts
<1>8. Progress'
  <2>1. o \notin Held'
    BY <1>3, <1>4 DEF Held
  <2>2. QED
    BY <1>3, <1>5, <1>7, <2>1
       DEF CountInv, Counting, Progress, Releases, Exchanges, Expected
<1>9. ChargedLate'
  BY <1>3, <1>4 DEF ChargedLate
<1>10. QED BY <1>7, <1>8, <1>9 DEF Counting

\* An increment: the binding did not count in o and does so now.
LEMMA IncrementCounts ==
  ASSUME CountInv, worker # Idle, NEW o, NEW step \in LateSteps,
         Charges(o, worker.step, step, worker.binding),
         CounterAnswer(o) = "OK", Increment(o, step)
  PROVE  Counting'
<1>1. o \in Counted
  BY DEF Charges, Exchanges
<1>2. worker' = [step |-> step, key |-> worker.key,
                 binding |-> worker.binding, hash |-> worker.hash,
                 charged |-> worker.charged \cup {o},
                 released |-> worker.released]
  BY WorkingFields DEF Increment, CountInv, SoundInv, TypeInv, TypeOK
<1>3. worker' # Idle /\ worker'.step = step /\ worker'.key = worker.key
      /\ worker'.binding = worker.binding /\ worker'.released = worker.released
      /\ worker'.charged = worker.charged \cup {o}
  BY <1>2 DEF Idle
<1>4. /\ store[o].exists /\ store'[o].exists
      /\ store[o].status.activeBindings \in Int
      /\ store'[o].status.activeBindings = store[o].status.activeBindings + 1
      /\ \A x \in Objects \ {o} : store'[x] = store[x]
      /\ suspect' = suspect
  <2>1. Adjust(o, 1)
    BY DEF Increment
  <2>2. SoundInv /\ 1 \in Int
    BY DEF CountInv
  <2>3. QED BY <1>1, <2>1, <2>2, AdjustStore
<1>5. ASSUME Current, o \notin suspect
      PROVE  store'[o].status.activeBindings = Cardinality(Holders(o)')
  <2>1. o \notin Held
    BY <1>1, <1>5 DEF CountInv, Counting, Progress, Charges, Expected
  <2>2. worker.key \in Bindings /\ worker.key \notin Holders(o)
    BY <1>1, <1>5, <2>1, HeldHolds DEF CountInv
  <2>3. Holders(o)' = Holders(o) \cup {worker.key}
    <3>1. \A b \in Bindings : Bound(b)' = Bound(b)
      BY <1>1, <1>4, BindingVersions DEF Bound
    <3>2. \A b \in Bindings : Holds(b, o)' <=> Holds(b, o) \/ b = worker.key
      BY <1>3, <3>1 DEF Holds
    <3>3. QED BY <2>2, <3>2 DEF Holders
  <2>4. store[o].status.activeBindings = Cardinality(Holders(o))
    BY <1>1, <1>4, <1>5 DEF CountInv, Counting, CountersExact, InDoubt, Current
  <2>5. Cardinality(Holders(o) \cup {worker.key}) = Cardinality(Holders(o)) + 1
    BY <2>2, HoldersFinite, HolderAdded
  <2>6. QED BY <1>4, <2>3, <2>4, <2>5, HoldersFinite
<1>6. /\ CountersExact' /\ HoldersExist' /\ (Current' <=> Current)
      /\ \A x \in Counted \ {o} : x \in Held' <=> x \in Held
  BY <1>1, <1>3, <1>4, <1>5, AdjustCounts
<1>7. Progress'
  <2>1. o \in Held'
    BY <1>1, <1>3 DEF Held
  <2>2. QED
    BY <1>3, <1>4, <1>6, <2>1
       DEF CountInv, Counting, Progress, Charges, Exchanges, Expected
<1>8. ChargedLate'
  BY <1>3 DEF ChargedLate, LateSteps
<1>9. QED BY <1>6, <1>7, <1>8 DEF Counting

\* A decrement that is skipped leaves the object suspect: either it exists, or
\* the binding counted in an object that was gone.
LEMMA SkipCounts ==
  ASSUME CountInv, worker # Idle, worker.step \notin LateSteps, NEW o, NEW step,
         Releases(o, worker.step, step, worker.binding), Skip(o, step)
  PROVE  Counting'
<1>1. worker' = [step |-> step, key |-> worker.key,
                 binding |-> worker.binding, hash |-> worker.hash,
                 charged |-> worker.charged, released |-> worker.released]
  BY WorkingFields DEF Skip, Goto, CountInv, SoundInv, TypeInv, TypeOK
<1>2. worker' # Idle /\ worker'.step = step /\ worker'.key = worker.key
      /\ worker'.binding = worker.binding /\ worker'.charged = worker.charged
      /\ worker'.released = worker.released
  BY <1>1 DEF Idle
<1>3. UNCHANGED store /\ suspect \subseteq suspect' /\ o \in Counted
      /\ (store[o].exists => o \in suspect')
  BY DEF Skip, Releases, Exchanges
<1>4. Current => o \in suspect'
  <2> SUFFICES ASSUME Current, o \notin suspect PROVE o \in suspect'
    BY <1>3
  <2>1. o \in Held
    BY <1>3 DEF CountInv, Counting, Progress, Releases, Expected
  <2>2. Holders(o) # {}
    BY <1>3, <2>1, HeldHolds DEF CountInv
  <2>3. QED BY <1>3, <2>2 DEF CountInv, Counting, HoldersExist
<1>5. Current => \A x \in Counted \ suspect' :
                   x \in Expected(worker.step, worker.binding)
                   <=> x \in Expected(worker'.step, worker.binding)
  BY <1>2, <1>4 DEF Releases, Exchanges
<1>6. QED BY <1>2, <1>3, <1>5, MoveCounts

\* A reconcile that fails without a write.
LEMMA FailCounts ==
  ASSUME CountInv, Fail, UNCHANGED store
  PROVE  Counting'
BY AbandonCounts DEF Fail, SameBound

\* The counter steps of manageCounters and handleDeletion.
LEMMA CounterStepsCount ==
  ASSUME CountInv, ManageCounters \/ HandleDeletion
  PROVE  Counting'
<1> DEFINE v == worker.binding
<1>1. worker # Idle
  BY DEF ManageCounters, HandleDeletion, Idle
<1>2. StepSound(worker.step, v) /\ v \in BindingVersion
  BY <1>1, WorkingFields
     DEF CountInv, SoundInv, TypeInv, TypeOK, WorkerSound
<1>3. v.exists /\ v.deleting \in BOOLEAN
  BY <1>2 DEF StepSound, BindingVersion, VersionOf
<1>4. FromReleaseCG(v) \in Steps /\ FromChargePC(v) \in Steps
      /\ FromDeleteCG(v) \in Steps /\ FromChargeCG(v) \in LateSteps
  BY DEF FromReleaseCG, FromChargePC, FromChargeCG, FromDeleteCG, Steps, LateSteps
<1>5. ASSUME NEW o, NEW step \in Steps, worker.step \notin LateSteps,
             Releases(o, worker.step, step, v),
             Release(o, step) \/ ReleaseForDeletion(o, step)
      PROVE  Counting'
  <2>1. CASE CounterAnswer(o) = "OK" /\ Decrement(o, step)
    BY <1>1, <1>5, <2>1, DecrementCounts
  <2>2. CASE Skip(o, step)
    BY <1>1, <1>5, <2>2, SkipCounts
  <2>3. CASE Fail /\ UNCHANGED <<store, watch>>
    BY <2>3, FailCounts
  <2>4. QED BY <1>5, <2>1, <2>2, <2>3 DEF Release, ReleaseForDeletion
<1>6. ASSUME NEW o, NEW step \in LateSteps, Charges(o, worker.step, step, v),
             Charge(o, step)
      PROVE  Counting'
  <2>1. CASE CounterAnswer(o) = "OK" /\ Increment(o, step)
    BY <1>1, <1>6, <2>1, IncrementCounts
  <2>2. CASE Fail /\ UNCHANGED <<store, watch>>
    BY <2>2, FailCounts
  <2>3. QED BY <1>6, <2>1, <2>2 DEF Charge
<1>7. CASE worker.step = "releasePC" /\ Release(PrevPC(v), FromReleaseCG(v))
  BY <1>2, <1>3, <1>4, <1>5, <1>7, TargetsExpected DEF LateSteps
<1>8. CASE worker.step = "releaseCG" /\ Release(PrevCG(v), FromChargePC(v))
  BY <1>2, <1>3, <1>4, <1>5, <1>8, TargetsExpected DEF LateSteps
<1>9. CASE worker.step = "chargePC" /\ Charge(NewPC(v), FromChargeCG(v))
  BY <1>2, <1>3, <1>4, <1>6, <1>9, TargetsExpected
<1>10. CASE worker.step = "chargeCG" /\ Charge(NewCG(v), "updateStatus")
  BY <1>2, <1>3, <1>6, <1>10, TargetsExpected DEF LateSteps
<1>11. CASE /\ worker.step = "deletePC"
            /\ ReleaseForDeletion(PrevPC(v), FromDeleteCG(v))
  BY <1>2, <1>3, <1>4, <1>5, <1>11, TargetsExpected DEF LateSteps
<1>12. CASE /\ worker.step = "deleteCG"
            /\ ReleaseForDeletion(PrevCG(v), "removeFinalizer")
  BY <1>2, <1>3, <1>5, <1>12, TargetsExpected DEF LateSteps, Steps
<1>13. QED
  BY <1>7, <1>8, <1>9, <1>10, <1>11, <1>12 DEF ManageCounters, HandleDeletion

\* A worker takes a binding: it starts with what the binding it read is bound
\* to, or adds the finalizer.
LEMMA StartCounts ==
  ASSUME CountInv, StepOrderly, NEW b \in Bindings, StartReconcile(b)
  PROVE  Counting'
<1>1. worker = Idle /\ b \in Objects /\ cache[b] \in BindingVersion
  BY BindingVersions
     DEF StartReconcile, CountInv, SoundInv, TypeInv, TypeOK, ApiTypeOK, CacheTypeOK
<1>2. CASE UNCHANGED <<store, bindingVars>>
  BY <1>2, PassiveCounts DEF PassiveStep, bindingVars
<1>3. CASE UNCHANGED bindingVars /\ ReturnUpdate(b, cache[b], WithFinalizer(b))
  <2>1. CASE Put(b, WithFinalizer(b))
    <3>1. Passive(b, WithFinalizer(b))
      BY <1>1, EditPassive DEF CountInv
    <3>2. \A x \in Objects \ {b} : store'[x] = store[x]
      BY <1>1, <2>1, <3>1, PutStore
         DEF Passive, CountInv, SoundInv, TypeInv, TypeOK, ApiTypeOK
    <3>3. \A o \in Counted : store'[o] = store[o]
      BY <3>2, BindingVersions DEF Counted, Objects
    <3>4. QED
      BY <1>1, <1>3, <2>1, <3>1, <3>3, PassiveCounts DEF PassiveStep, bindingVars
  <2>2. QED BY <1>2, <1>3, <2>1 DEF ReturnUpdate
<1>4. ASSUME NEW step, Started(b, step), step \notin LateSteps,
             \A x \in Counted : x \in {PrevPC(cache[b]), PrevCG(cache[b])}
                                <=> x \in Expected(step, cache[b])
      PROVE  Counting'
  <2>1. /\ worker' # Idle /\ worker'.step = step /\ worker'.key = b
        /\ worker'.binding = cache[b]
        /\ worker'.charged = {} /\ worker'.released = {}
        /\ UNCHANGED <<store, suspect>>
    BY <1>4 DEF Started, Idle
  <2>2. \A o : Holders(o)' = Holders(o)
    BY <1>1, <2>1 DEF Holders, Holds, Bound
  <2>3. InDoubt = {} /\ InDoubt' = {}
    BY <1>1, <2>1 DEF InDoubt, Adjusted
  <2>4. CountersExact' /\ HoldersExist'
    BY <2>1, <2>2, <2>3 DEF CountInv, Counting, CountersExact, HoldersExist
  <2>5. Progress'
    BY <1>4, <2>1 DEF Progress, Held, Expected
  <2>6. ChargedLate'
    BY <2>1 DEF ChargedLate
  <2>7. QED BY <2>4, <2>5, <2>6 DEF Counting
<1>5. CASE cache[b].exists /\ Started(b, FromDeletePC(cache[b]))
  <2>1. FromDeletePC(cache[b]) \notin LateSteps
    BY DEF FromDeletePC, FromDeleteCG, LateSteps
  <2>2. QED BY <1>1, <1>4, <1>5, <2>1, TargetsExpected
<1>6. CASE Started(b, "validateRefs")
  BY <1>4, <1>6 DEF LateSteps, Expected, ExpectedPC, ExpectedCG
<1>7. QED BY <1>2, <1>3, <1>5, <1>6 DEF StartReconcile, bindingVars

\* A write of the reconcile's own binding that ends the reconcile.
LEMMA LastWriteCounts ==
  ASSUME CountInv, Current, worker' = Idle, suspect' = suspect,
         NEW v \in Version(worker.key), Put(worker.key, v),
         \A x \in Counted \ suspect : x \in {PrevPC(v), PrevCG(v)} <=> x \in Held
  PROVE  Counting'
<1>1. worker # Idle /\ worker.key \in Bindings
  BY WorkingFields DEF Current, CountInv, SoundInv, TypeInv, TypeOK
<1> PICK k \in Bindings : k = worker.key
  BY <1>1
<1>2. worker # Idle /\ k \in Objects /\ k = worker.key
  BY <1>1, BindingVersions
<1>3. store'[k].status = v.status /\ \A x \in Objects \ {k} : store'[x] = store[x]
  BY <1>2, PutStore DEF CountInv, SoundInv, TypeInv, TypeOK, ApiTypeOK
<1>4. \A o \in Counted : store'[o] = store[o]
  BY <1>2, <1>3, BindingVersions DEF Counted, Objects
<1>5. ASSUME NEW o \in Counted \ suspect PROVE Holders(o)' = Holders(o)
  <2>1. ASSUME NEW b \in Bindings, b # k PROVE Holds(b, o)' <=> Holds(b, o)
    <3>1. store'[b] = store[b]
      BY <1>3, <2>1, BindingVersions
    <3>2. QED BY <1>2, <2>1, <3>1 DEF Holds, Bound
  <2>2. Holds(k, o)' <=> o \in {PrevPC(v), PrevCG(v)}
    BY <1>3 DEF Holds, Bound, PrevPC, PrevCG, Idle
  <2>3. Holds(k, o) <=> o \in Held
    BY <1>2, HeldHolds DEF CountInv, Holders
  <2>4. \A b \in Bindings : Holds(b, o)' <=> Holds(b, o)
    BY <2>1, <2>2, <2>3
  <2>5. QED BY <2>4 DEF Holders
<1>6. InDoubt = {} /\ InDoubt' = {}
  BY DEF InDoubt, Current
<1>7. CountersExact' /\ HoldersExist'
  BY <1>4, <1>5, <1>6 DEF CountInv, Counting, CountersExact, HoldersExist
<1>8. Progress' /\ ChargedLate'
  BY DEF Progress, Current, ChargedLate
<1>9. QED BY <1>7, <1>8 DEF Counting

\* validateRefs and the last writes.
LEMMA OtherStepsCount ==
  ASSUME CountInv, StepOrderly, ValidateRefs \/ UpdateStatus \/ FinishDeletion
  PROVE  Counting'
<1> DEFINE b == worker.key
           v == worker.binding
<1>1. worker # Idle
  BY DEF ValidateRefs, UpdateStatus, FinishDeletion, Idle
<1>2. /\ StepSound(worker.step, v) /\ v \in BindingVersion /\ v.exists
      /\ worker.hash \in Hashes /\ now \in Nat
  BY <1>1, WorkingFields
     DEF CountInv, SoundInv, TypeInv, TypeOK, ApiTypeOK, WorkerSound, StepSound
<1>3. ASSUME Answer(b, v) = "OK"
      PROVE  /\ b \in Bindings /\ b \in Objects /\ v = store[b] /\ Current
             /\ StatusSet(b) = CollectorGroupBindingStatus
  BY <1>1, <1>3, BindingAccepted, BindingVersions DEF CountInv, Current
<1>4. CASE Fail /\ UNCHANGED store
  BY <1>4, FailCounts
<1>5. CASE /\ worker.step = "validateRefs"
           /\ worker' = [worker EXCEPT
                           !.step = FromReleasePC(v),
                           !.hash = cache[NewPC(v)].status.contentHash]
           /\ UNCHANGED <<store, suspect>>
  <2>1. worker' = [step |-> FromReleasePC(v), key |-> worker.key,
                   binding |-> worker.binding,
                   hash |-> cache[NewPC(v)].status.contentHash,
                   charged |-> worker.charged, released |-> worker.released]
    BY <1>1, <1>5, WorkingFields DEF CountInv, SoundInv, TypeInv, TypeOK
  <2>2. /\ worker' # Idle /\ worker'.step = FromReleasePC(v)
        /\ worker'.key = worker.key /\ worker'.binding = worker.binding
        /\ worker'.charged = worker.charged
        /\ worker'.released = worker.released
    BY <2>1 DEF Idle
  <2>3. \A x \in Counted : x \in Expected(worker.step, v)
                           <=> x \in Expected(worker'.step, v)
    BY <1>2, <1>5, <2>2, TargetsExpected
  <2>4. worker.step \notin LateSteps
    BY <1>5 DEF LateSteps
  <2>5. QED BY <1>1, <1>5, <2>2, <2>3, <2>4, MoveCounts
<1>6. ASSUME NEW reason \in RefsValidReasons, SetRefsInvalid(reason)
      PROVE  Counting'
  <2> DEFINE s == [v.status EXCEPT !.refsValid = reason,
                                   !.phase = DerivePhase(reason),
                                   !.observedGeneration = v.generation]
  <2>1. CASE Answer(b, v) = "OK"
    <3>1. v.status \in CollectorGroupBindingStatus /\ v.generation \in Nat
      BY <1>2, BindingRefs
    <3>2. DerivePhase(reason) \in CollectorGroupBindingPhase
      BY DEF DerivePhase, CollectorGroupBindingPhase
    <3>3. /\ s \in CollectorGroupBindingStatus
          /\ s.boundPipelineConfigRef = PrevPC(v)
          /\ s.boundCollectorGroupRef = PrevCG(v)
      BY <3>1, <3>2 DEF CollectorGroupBindingStatus, PrevPC, PrevCG
    <3>4. Put(b, WithStatus(b, s)) /\ Fail
      BY <1>6, <2>1 DEF SetRefsInvalid
    <3> HIDE DEF s
    <3>5. WithStatus(b, s) \in Version(b) /\ WithStatus(b, s).status = s
      BY <1>3, <2>1, <3>3, WithTypes, StatusFields
         DEF CountInv, SoundInv, TypeInv, TypeOK, ApiTypeOK
    <3>6. /\ store'[b].status = s
          /\ \A x \in Objects \ {b} : store'[x] = store[x]
      BY <1>3, <2>1, <3>4, <3>5, PutStore
         DEF CountInv, SoundInv, TypeInv, TypeOK, ApiTypeOK
    <3>7. \A x \in Bindings : SameBound(x)
      BY <1>3, <2>1, <3>3, <3>6, BindingVersions DEF SameBound, PrevPC, PrevCG
    <3>8. \A o \in Counted : store'[o] = store[o]
      BY <1>3, <2>1, <3>6, BindingVersions DEF Counted, Objects
    <3>9. QED BY <3>4, <3>7, <3>8, AbandonCounts DEF Fail
  <2>2. CASE Answer(b, v) # "OK"
    BY <1>4, <1>6, <2>2 DEF SetRefsInvalid
  <2>3. QED BY <2>1, <2>2
<1>7. CASE UpdateStatus /\ Answer(b, v) = "OK"
  <2> DEFINE s == SyncedStatus(v, worker.hash)
  <2>1. s \in CollectorGroupBindingStatus
    BY <1>2, SyncedStatusType
  <2>2. s.boundPipelineConfigRef = NewPC(v) /\ s.boundCollectorGroupRef = NewCG(v)
    BY DEF SyncedStatus
  <2>3. Put(b, WithStatus(b, s)) /\ worker' = Idle /\ suspect' = suspect
        /\ worker.step = "updateStatus"
    BY <1>7 DEF UpdateStatus
  <2> HIDE DEF s
  <2>4. WithStatus(b, s) \in Version(b) /\ WithStatus(b, s).status = s
    BY <1>3, <1>7, <2>1, WithTypes, StatusFields
       DEF CountInv, SoundInv, TypeInv, TypeOK, ApiTypeOK
  <2>5. PrevPC(WithStatus(b, s)) = NewPC(v) /\ PrevCG(WithStatus(b, s)) = NewCG(v)
    BY <2>2, <2>4 DEF PrevPC, PrevCG
  <2>6. \A x \in Counted \ suspect : x \in {NewPC(v), NewCG(v)} <=> x \in Held
    BY <1>3, <1>7, <2>3
       DEF CountInv, Counting, Progress, ExpectedPC, ExpectedCG
  <2>7. QED BY <1>3, <1>7, <2>3, <2>4, <2>5, <2>6, LastWriteCounts
<1>8. CASE FinishDeletion /\ Answer(b, v) = "OK"
  <2>1. Put(b, WithoutFinalizer(b)) /\ worker' = Idle /\ suspect' = suspect
        /\ worker.step = "removeFinalizer"
    BY <1>8 DEF FinishDeletion
  <2>2. WithoutFinalizer(b) = Gone(b, store[b].rv)
    BY <1>2, <1>3, <1>8, <2>1 DEF WithoutFinalizer, StepSound, DeletionSteps
  <2>3. WithoutFinalizer(b) \in Version(b)
    BY <1>3, <1>8, WithTypes DEF CountInv, SoundInv, TypeInv, TypeOK, ApiTypeOK
  <2>4. PrevPC(Gone(b, store[b].rv)) = NoRef /\ PrevCG(Gone(b, store[b].rv)) = NoRef
    BY <1>3, <1>8, NamesDistinct DEF PrevPC, PrevCG, Gone, NewStatus
  <2>5. \A x \in Counted \ suspect : x \in {NoRef} <=> x \in Held
    BY <1>3, <1>8, <2>1
       DEF CountInv, Counting, Progress, ExpectedPC, ExpectedCG
  <2>6. QED BY <1>3, <1>8, <2>1, <2>2, <2>3, <2>4, <2>5, LastWriteCounts
<1>9. RefsCheck(v) \in RefsValidReasons
  BY DEF RefsCheck, RefsValidReasons
<1>10. QED
  BY <1>4, <1>5, <1>6, <1>7, <1>8, <1>9
     DEF ValidateRefs, UpdateStatus, FinishDeletion

-----------------------------------------------------------------------------
(* The invariant and what follows from it.                                 *)

LEMMA CountInit == Init => CountInv
<1> SUFFICES ASSUME Init PROVE Counting
  BY SoundInit DEF CountInv
<1>1. worker = Idle /\ suspect = {}
  BY DEF Init, BindingInit
<1>2. PICK specs \in InitialSpecs :
        store = [o \in Objects |-> InitialObject(o, specs)]
  BY DEF Init, ApiInit
<1>3. ASSUME NEW b \in Bindings
      PROVE  PrevPC(store[b]) = NoRef /\ PrevCG(store[b]) = NoRef
  <2>1. b \in Objects /\ b \notin Reconciled
    BY ReconciledAssumption, BindingVersions
  <2>2. store[b].status = NewStatus(b)
    BY <1>2, <2>1 DEF InitialObject, Gone, Fresh
  <2>3. b \notin PipelineConfigs /\ b \notin CollectorGroups
    BY NamesDistinct
  <2>4. /\ NewStatus(b).boundPipelineConfigRef = NoRef
        /\ NewStatus(b).boundCollectorGroupRef = NoRef
    BY <2>3 DEF NewStatus
  <2>5. QED BY <2>2, <2>4 DEF PrevPC, PrevCG
<1>4. ASSUME NEW o \in Counted PROVE Holders(o) = {}
  <2>1. o # NoRef
    BY NamesNonEmpty DEF Counted, Objects
  <2>2. QED BY <1>1, <1>3, <2>1 DEF Holders, Holds, Bound, PrevPC, PrevCG
<1>5. ASSUME NEW o \in Counted PROVE store[o].status.activeBindings = 0
  <2> DEFINE v == Fresh(o, 1, specs[o])
  <2>1. o \in Objects /\ store[o] = InitialObject(o, specs)
    BY <1>2 DEF Counted, Objects
  <2>2. NewStatus(o).activeBindings = 0 /\ NewStatus(o) \in StatusSet(o)
    BY NewStatusType DEF NewStatus, Counted
  <2>3. v.status = NewStatus(o) /\ v.generation = 1
    BY DEF Fresh
  <2>4. store[o].status \in {NewStatus(o), Settled(o, v).status}
    <3>1. store[o] \in {Gone(o, 0), Settled(o, v), v}
      BY <2>1 DEF InitialObject
    <3>2. Gone(o, 0).status = NewStatus(o)
      BY DEF Gone
    <3>3. QED BY <2>3, <3>1, <3>2
  <2>5. Settled(o, v).status.activeBindings = 0
    <3>1. Settled(o, v).status =
            IF o \in CollectorGroups
            THEN [v.status EXCEPT !.observedGeneration = v.generation]
            ELSE IF v.spec.content = EmptyContent
            THEN EmptyContentStatus(v)
            ELSE HashedContentStatus(v)
      BY DEF Settled, Fresh
    <3> HIDE DEF v
    <3>2. CASE o \in CollectorGroups
      BY <2>2, <2>3, <3>1, <3>2, NamesDistinct DEF StatusSet, CollectorGroupStatus
    <3>3. CASE o \in PipelineConfigs /\ o \notin CollectorGroups
      BY <2>2, <2>3, <3>1, <3>3
         DEF StatusSet, PipelineConfigStatus, EmptyContentStatus,
             HashedContentStatus
    <3>4. QED BY <3>2, <3>3 DEF Counted
  <2>6. QED BY <2>2, <2>4, <2>5
<1>6. CountersExact /\ HoldersExist
  BY <1>4, <1>5, HoldersFinite DEF CountersExact, HoldersExist
<1>7. Progress /\ ChargedLate
  BY <1>1 DEF Progress, Current, ChargedLate
<1>8. QED BY <1>6, <1>7 DEF Counting

LEMMA CountStep == CountInv /\ [Next]_vars => CountInv'
<1> SUFFICES ASSUME CountInv, [Next]_vars PROVE Counting'
  BY SoundStep DEF CountInv
<1>1. StepOrderly
  BY EveryStep DEF CountInv, SoundInv
<1>2. ASSUME NEW p \in PipelineConfigs, PipelineConfigController(p)
      PROVE  Counting'
  <2>1. PassiveStep
    BY <1>2, OwnerPassive DEF PipelineConfigController, CountInv, Counted
  <2>2. QED
    BY <1>1, <1>2, <2>1, PassiveCounts DEF PipelineConfigController, NoteRemoval
<1>3. ASSUME NEW g \in CollectorGroups, CollectorGroupController(g)
      PROVE  Counting'
  <2>1. PassiveStep
    BY <1>3, OwnerPassive DEF CollectorGroupController, CountInv, Counted
  <2>2. QED
    BY <1>1, <1>3, <2>1, PassiveCounts DEF CollectorGroupController, NoteRemoval
<1>4. ASSUME NEW b \in Bindings, BindingTake(b) PROVE Counting'
  BY <1>1, <1>4, StartCounts DEF BindingTake
<1>5. CASE BindingWork
  BY <1>1, <1>5, CounterStepsCount, OtherStepsCount DEF BindingWork, WorkerStep
<1>6. ASSUME NEW c \in Collectors, RegistryWork(c) PROVE Counting'
  BY <1>1, <1>6, RegistryPassive, PassiveCounts
     DEF RegistryWork, CountInv, bindingVars
<1>7. ASSUME NEW o \in Objects, User(o) PROVE Counting'
  <2>1. PassiveStep
    BY <1>7, UserPassive DEF User, CountInv
  <2>2. QED BY <1>1, <1>7, <2>1, PassiveCounts DEF User, NoteRemoval
<1>8. CASE Restart
  BY <1>8, AbandonCounts DEF Restart, Relist, SameBound
<1>9. CASE \/ \E k \in Kinds : Informer(k) \/ Resync(k)
           \/ \E c \in Collectors : RegistryCall(c)
           \/ Clock \/ UNCHANGED vars
  <2>1. UNCHANGED <<store, worker, suspect>>
    BY <1>9 DEF Informer, Deliver, Resync, Requeue, RegistryCall, Register,
                Unregister, Clock, Tick, vars, apiVars, bindingVars
  <2>2. QED BY <1>1, <2>1, PassiveCounts DEF PassiveStep
<1>10. QED
  BY <1>2, <1>3, <1>4, <1>5, <1>6, <1>7, <1>8, <1>9 DEF Next

\* For any fleet, activeBindings of every object is the number of bindings that
\* count in it, unless a reconcile was cut short on that object or the object
\* was lost while bindings counted in it: conflicting writers of one status,
\* stale caches, registry patches and edits by users neither lose a count nor
\* count twice.
THEOREM CountersAreExact == Spec => []CountersExact
<1>1. CountInv => CountersExact
  BY DEF CountInv, Counting
<1>2. QED BY <1>1, CountInit, CountStep, PTL DEF Spec

\* No PipelineConfig or CollectorGroup that a binding counts in is let go by
\* its controller, for any fleet, unless its counter was left wrong by a
\* reconcile that was cut short.
THEOREM HoldersBlockDeletion == Spec => BlockedWhileHeld
<1> DEFINE A == \A o \in Counted \ (suspect \cup InDoubt) :
                  store[o].exists /\ store[o].finalizer /\ ~store'[o].exists
                  => Holders(o) = {}
<1>1. CountInv /\ [Next]_vars => [A]_vars
  <2> SUFFICES ASSUME CountInv, [Next]_vars, NEW o \in Counted,
                      o \notin suspect, o \notin InDoubt, store[o].exists,
                      store[o].finalizer, ~store'[o].exists
               PROVE  Holders(o) = {}
    OBVIOUS
  <2>1. o \in Objects /\ LawfulStep
    BY EveryStepLawful DEF CountInv, Counted, Objects
  <2>2. store[o].status.activeBindings <= 0
    <3>1. PICK x \in Objects : \E v : Put(x, v) /\ Lawful(x, v)
      BY <2>1 DEF LawfulStep
    <3>2. PICK v : Put(x, v) /\ Lawful(x, v)
      BY <3>1
    <3>3. /\ store'[x].exists = v.exists
          /\ \A y \in Objects \ {x} : store'[y] = store[y]
      BY <3>2, PutStore DEF Lawful, CountInv, SoundInv, TypeInv, TypeOK, ApiTypeOK
    <3>4. QED BY <2>1, <3>2, <3>3 DEF Lawful
  <2>3. store[o].status.activeBindings = Cardinality(Holders(o))
    BY DEF CountInv, Counting, CountersExact
  <2>4. Cardinality(Holders(o)) = 0
    <3>1. Cardinality(Holders(o)) \in Nat
      BY HoldersFinite
    <3>2. QED BY <2>2, <2>3, <3>1
  <2>5. QED BY <2>4, HoldersFinite, FS_EmptySet
<1>2. QED BY <1>1, CountInit, CountStep, PTL DEF Spec, BlockedWhileHeld
=============================================================================
