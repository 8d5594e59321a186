------------------------------ MODULE Operator ------------------------------
(***************************************************************************)
(* The manager process of cmd/main.go: the three controllers and the       *)
(* registry behind the RPC server, over one API server and one informer    *)
(* cache, together with the users who create, edit and delete objects.     *)
(***************************************************************************)
EXTENDS PipelineConfigReconciler, CollectorGroupReconciler,
        CollectorGroupBindingReconciler, CollectorRegistry

CONSTANTS
  InitialSpecs,   \* the objects that may exist when the manager starts
  Reconciled,     \* those an earlier manager process has reconciled
  MaxUserOps,     \* bound on creations, edits and deletions by users
  MaxCalls,       \* bound on registry calls
  MaxRestarts,    \* bound on restarts of the manager
  MaxResyncs,     \* bound on resyncs of an informer
  MaxTime,        \* bound on the clock
  MaxDrift        \* bound on the drift reconciles of stale copies may cause

ASSUME InitialSpecsAssumption ==
  \A specs \in InitialSpecs :
    /\ DOMAIN specs \subseteq Objects
    /\ \A o \in DOMAIN specs : specs[o] \in SpecSet(o)

ASSUME ReconciledAssumption == Reconciled \subseteq Counted
ASSUME BoundsAssumption ==
  /\ MaxUserOps \in Nat /\ MaxCalls \in Nat /\ MaxRestarts \in Nat
  /\ MaxResyncs \in Nat /\ MaxTime \in Nat /\ MaxDrift \in Nat

VARIABLES userOps, calls, restarts, resyncs   \* how much of each bound is used

boundVars == <<userOps, calls, restarts, resyncs>>

vars == <<apiVars, bindingVars, rpc, boundVars>>

\* An object as its controller leaves it once it has nothing more to do.
Settled(o, v) ==
  LET status == IF o \in CollectorGroups
                THEN [v.status EXCEPT !.observedGeneration = v.generation]
                ELSE IF v.spec.content = EmptyContent
                THEN EmptyContentStatus(v)
                ELSE HashedContentStatus(v)
  IN [v EXCEPT !.finalizer = TRUE, !.status = status]

InitialObject(o, specs) ==
  IF o \notin DOMAIN specs THEN Gone(o, 0)
  ELSE IF o \in Reconciled THEN Settled(o, Fresh(o, 1, specs[o]))
  ELSE Fresh(o, 1, specs[o])

Init ==
  /\ \E specs \in InitialSpecs :
       ApiInit([o \in Objects |-> InitialObject(o, specs)])
  /\ BindingInit
  /\ RegistryInit
  /\ userOps = 0 /\ calls = 0 /\ restarts = 0 /\ resyncs = 0

-----------------------------------------------------------------------------
(* History: which bindings the counter of an object counts.               *)

\* The objects binding b is bound to according to its stored status.
Bound(b) ==
  {store[b].status.boundPipelineConfigRef,
   store[b].status.boundCollectorGroupRef} \cap Counted

\* Binding b counts in object o, a reconcile in progress included.
Holds(b, o) ==
  IF worker # Idle /\ worker.key = b
  THEN o \in (Bound(b) \ worker.released) \cup worker.charged
  ELSE o \in Bound(b)

Holders(o) == {b \in Bindings : Holds(b, o)}

\* The counter of an object goes with the object.
NoteRemoval ==
  /\ suspect' = suspect \cup {o \in Counted : store[o].exists
                                /\ ~store'[o].exists /\ Holders(o) # {}}
  /\ UNCHANGED worker

Drift(o) == store[o].status.activeBindings - Cardinality(Holders(o))

-----------------------------------------------------------------------------
(* Steps of the manager.                                                   *)

PipelineConfigController(p) ==
  ReconcilePipelineConfig(p) /\ NoteRemoval /\ UNCHANGED <<rpc, boundVars>>

CollectorGroupController(g) ==
  ReconcileCollectorGroup(g) /\ NoteRemoval /\ UNCHANGED <<rpc, boundVars>>

\* Bound: a binding that has drifted as far as MaxDrift allows is taken up
\* again only once the cache has caught up.
BindingTake(b) ==
  /\ \/ \A o \in Counted : store[o].exists => Drift(o) \in -MaxDrift .. MaxDrift
     \/ \A k \in Kinds : watch[k] = <<>>
  /\ StartReconcile(b)
  /\ UNCHANGED <<rpc, boundVars>>

BindingWork == WorkerStep /\ UNCHANGED <<rpc, boundVars>>

Informer(k) ==
  /\ Deliver(k, IF watch[k] = <<>> THEN {} ELSE Requests(Head(watch[k]).object))
  /\ UNCHANGED <<bindingVars, rpc, boundVars>>

RegistryCall(c) ==
  /\ calls < MaxCalls /\ calls' = calls + 1
  /\ Register(c) \/ Unregister(c)
  /\ UNCHANGED <<bindingVars, userOps, restarts, resyncs>>

RegistryWork(c) == RegistryStep(c) /\ UNCHANGED <<bindingVars, boundVars>>

\* The process dies and is started again: what was in progress is lost.
Restart ==
  /\ restarts < MaxRestarts /\ restarts' = restarts + 1
  /\ Relist
  /\ worker' = Idle
  /\ suspect' = suspect \cup Adjusted
  /\ rpc' = [c \in Collectors |-> NoCall]
  /\ UNCHANGED <<userOps, calls, resyncs>>

\* Every ten hours or so an informer repeats what its cache holds.
Resync(k) ==
  /\ resyncs < MaxResyncs /\ resyncs' = resyncs + 1
  /\ Requeue(UNION {Requests(o) : o \in
                      {o \in Objects : KindOf(o) = k /\ cache[o].exists}})
  /\ UNCHANGED <<bindingVars, rpc, userOps, calls, restarts>>

-----------------------------------------------------------------------------
(* Steps of the environment.                                               *)

User(o) ==
  /\ userOps < MaxUserOps /\ userOps' = userOps + 1
  /\ \/ \E spec \in SpecSet(o) : Create(o, spec) \/ EditSpec(o, spec)
     \/ Delete(o)
  /\ NoteRemoval
  /\ UNCHANGED <<cache, queue, now, rpc, calls, restarts, resyncs>>

Clock ==
  /\ now < MaxTime
  /\ Tick
  /\ UNCHANGED <<bindingVars, rpc, boundVars>>

Next ==
  \/ \E p \in PipelineConfigs : PipelineConfigController(p)
  \/ \E g \in CollectorGroups : CollectorGroupController(g)
  \/ \E b \in Bindings : BindingTake(b)
  \/ BindingWork
  \/ \E k \in Kinds : Informer(k) \/ Resync(k)
  \/ \E c \in Collectors : RegistryCall(c) \/ RegistryWork(c)
  \/ Restart
  \/ \E o \in Objects : User(o)
  \/ Clock

Spec == Init /\ [][Next]_vars

(* Fairness: the informers deliver, every controller has a running worker  *)
(* and its work queue is first-in first-out, so a queued binding gets its  *)
(* turn although the worker is busy again and again. Users, restarts and   *)
(* the clock owe nothing.                                                  *)
Fairness ==
  /\ \A k \in Kinds : WF_vars(Informer(k))
  /\ \A p \in PipelineConfigs : WF_vars(PipelineConfigController(p))
  /\ \A g \in CollectorGroups : WF_vars(CollectorGroupController(g))
  /\ \A b \in Bindings : SF_vars(BindingTake(b))
  /\ WF_vars(BindingWork)
  /\ \A c \in Collectors : WF_vars(RegistryWork(c))

FairSpec == Spec /\ Fairness

TypeOK ==
  /\ ApiTypeOK /\ BindingTypeOK /\ RegistryTypeOK
  /\ userOps \in Nat /\ calls \in Nat /\ restarts \in Nat /\ resyncs \in Nat

-----------------------------------------------------------------------------
(* Safety.                                                                 *)

\* The counters a reconcile of an outdated binding has changed: whether they
\* are right is known when the reconcile ends.
InDoubt ==
  IF worker # Idle /\ worker.binding # store[worker.key] THEN Adjusted ELSE {}

\* activeBindings is the number of bindings that count in the object
\* (README: "Number of CollectorGroupBinding resources currently referencing
\* this config"), for every object whose counter no reconcile was cut short
\* on: the counter steps of manageCounters and handleDeletion, the status
\* writes of the other controllers and the registry's patches lose nothing
\* and count nothing twice.
CountersExact ==
  \A o \in Counted \ (suspect \cup InDoubt) :
    store[o].exists =>
      store[o].status.activeBindings = Cardinality(Holders(o))

\* A controller lets an object go only in a state whose stored counter is not
\* positive, however old the cached object was that it decided on (the
\* deletion paths of the PipelineConfig and CollectorGroup reconcilers).
DeletionBlocked ==
  [][\A o \in Counted :
       store[o].exists /\ store[o].finalizer
         /\ ~(store'[o].exists /\ store'[o].finalizer)
       => store[o].status.activeBindings <= 0]_vars

\* No object a binding counts in is ever let go by its controller, unless its
\* counter was left wrong by a reconcile that was cut short.
BlockedWhileHeld ==
  [][\A o \in Counted \ (suspect \cup InDoubt) :
       store[o].exists /\ store[o].finalizer /\ ~store'[o].exists
       => Holders(o) = {}]_vars

\* An Active binding whose observedGeneration is current is bound to what its
\* spec says: the status written at the end of a reconcile never meets a spec
\* edited after the reconcile read it.
StatusReflectsSpec ==
  \A b \in Bindings :
    LET v == store[b] IN
    v.exists /\ v.status.phase = "Active"
      /\ v.status.observedGeneration = v.generation
    => /\ v.status.boundPipelineConfigRef = v.spec.pipelineConfigRef
       /\ v.status.boundCollectorGroupRef = v.spec.collectorGroupRef

\* A PipelineConfig with ContentValid=True for its current generation carries
\* the hash of its current content, although the binding controller rewrites
\* the whole status to change the counter.
HashReflectsContent ==
  \A p \in PipelineConfigs :
    LET v == store[p] IN
    v.exists /\ v.status.contentValid = "True"
      /\ v.status.observedGeneration = v.generation
    => v.status.contentHash = Sha256(v.spec.content)

\* The controller of an object and the binding controller each write its whole
\* status back from a cached copy, and neither undoes a write of the other: a
\* step moves a counter by one and leaves the rest of the status alone, or
\* leaves the counter alone, and observedGeneration never goes back.
NoLostUpdates ==
  [][\A o \in Objects : store[o].exists /\ store'[o].exists =>
       LET s == store[o].status
           t == store'[o].status
       IN /\ s.observedGeneration <= t.observedGeneration
          /\ o \in Counted /\ t.activeBindings # s.activeBindings =>
               \/ t = [s EXCEPT !.activeBindings = @ + 1]
               \/ t = [s EXCEPT !.activeBindings = @ - 1]]_vars

\* Nothing is queued, in progress or undelivered.
Quiet ==
  /\ worker = Idle /\ queue = {}
  /\ \A k \in Kinds : watch[k] = <<>>

\* The operator comes to rest only when everything is as the specs ask: no
\* request is dropped before its object is settled, and no change of an object
\* is missed by a reconcile that read it earlier (the returns of the three
\* Reconcile functions, and the watches SetupWithManager installs).
QuietMeansSettled ==
  Quiet => \A o \in Objects : store[o].exists =>
    LET v == store[o] IN
    /\ ~v.deleting /\ v.finalizer
    /\ v.status.observedGeneration = v.generation
    /\ o \in PipelineConfigs =>
         \/ v.spec.content = EmptyContent /\ v.status.contentValid = "False"
         \/ /\ v.status.contentValid = "True"
            /\ v.status.contentHash = Sha256(v.spec.content)
    /\ o \in Bindings =>
         /\ v.status.phase = "Active"
         /\ PrevPC(v) = NewPC(v) /\ PrevCG(v) = NewCG(v)
         /\ store[NewPC(v)].exists
         /\ v.status.configHash = store[NewPC(v)].status.contentHash

\* Not refreshed within the TTL.
Stale(t) == CollectorTTL > 0 /\ t.lastSeenAt + CollectorTTL <= now

\* The binding reconciler drops a registered tenant only when it has not been
\* seen for the TTL, although it writes back the list it read several steps
\* earlier (evictStaleTenants and the Status().Update after it).
EvictsOnlyStale ==
  [][\A b \in Bindings : worker # worker' /\ store'[b].exists =>
       \A t \in store[b].status.registeredTenants :
         \/ t \in store'[b].status.registeredTenants
         \/ Stale(t)]_vars

\* A binding lists each tenant once, as the schema of registeredTenants (a map
\* keyed by id) demands, although every patch replaces the whole list.
TenantsListedOnce ==
  \A b \in Bindings : \A t, u \in store[b].status.registeredTenants :
    t.id = u.id => t = u

-----------------------------------------------------------------------------
(* Liveness. Users act finitely often, so "eventually" is after the last   *)
(* thing they did.                                                         *)

\* A terminating binding is let go: handleDeletion gets through in the end,
\* whatever conflicts it meets on the way.
BindingDeletionCompletes ==
  \A b \in Bindings : []<>~(store[b].exists /\ store[b].deleting)

\* A terminating PipelineConfig or CollectorGroup is let go once no binding
\* counts in it, unless its counter was left wrong.
DeletionCompletes ==
  <>[](\A o \in Counted \ suspect :
         store[o].exists /\ store[o].deleting => Holders(o) # {})

\* Every PipelineConfig ends up with the hash of its content.
HashesConverge ==
  <>[](\A p \in PipelineConfigs :
         LET v == store[p] IN
         v.exists /\ ~v.deleting /\ v.spec.content # EmptyContent
         => v.status.contentHash = Sha256(v.spec.content))

RefsExist(b) ==
  /\ store[store[b].spec.pipelineConfigRef].exists
  /\ \/ store[b].spec.collectorGroupRef = NoRef
     \/ store[store[b].spec.collectorGroupRef].exists

\* Every binding whose references exist ends up Active, bound to what its
\* spec says, and showing the hash its PipelineConfig has: the watch on
\* PipelineConfigs and the retries of failed reconciles miss nothing.
BindingsConverge ==
  <>[](\A b \in Bindings :
         LET v == store[b] IN
         v.exists /\ ~v.deleting /\ RefsExist(b)
         => /\ v.status.phase = "Active"
            /\ v.status.boundPipelineConfigRef = v.spec.pipelineConfigRef
            /\ v.status.boundCollectorGroupRef = v.spec.collectorGroupRef
            /\ v.status.configHash =
                 store[v.spec.pipelineConfigRef].status.contentHash)

\* A binding does not stay Active when its PipelineConfig is gone.
LostConfigNoticed ==
  <>[](\A b \in Bindings :
         store[b].exists /\ ~store[b].deleting
           /\ store[b].status.phase = "Active"
         => store[store[b].spec.pipelineConfigRef].exists)

\* An entry that was not refreshed within the TTL is evicted as long as the
\* binding's references exist: the reconcile that writes a non-empty list
\* queues the binding again.
StaleTenantsEvicted ==
  \A b \in Bindings :
    []<>(\/ \A t \in store[b].status.registeredTenants : ~Stale(t)
         \/ store[b].deleting \/ ~RefsExist(b))

\* Every registry call returns, however often its patch meets a conflict (the
\* retry loops of Register and Unregister give up).
CallsEnd == \A c \in Collectors : []<>(rpc[c] = NoCall)
=============================================================================
