------------------------- MODULE OperatorInvariants -------------------------
(***************************************************************************)
(* The facts about the reachable states of Operator that make its safety   *)
(* properties inductive. OperatorProofs, StatusProofs, CounterProofs,      *)
(* WriteProofs and RestProofs prove them.                                  *)
(***************************************************************************)
EXTENDS Operator

\* The version v of object o is the stored one or an earlier one, and a
\* resourceVersion stands for one content.
Past(o, v) ==
  /\ v.rv <= store[o].rv
  /\ v.rv = store[o].rv => v = store[o]

\* Whatever the manager acts on is a past version: the informer cache, the
\* events on their way to it, and the binding a reconcile has read. This is
\* what the resourceVersion check of Update and Status().Update builds on.
CopiesArePast ==
  /\ \A o \in Objects : Past(o, cache[o])
  /\ \A k \in Kinds : \A i \in 1 .. Len(watch[k]) :
       Past(watch[k][i].object, watch[k][i].version)
  /\ worker # Idle => Past(worker.key, worker.binding)

\* What a reconcile knows at a step of the binding v it has read: whether it
\* was terminating, and that the step has a counter to change.
StepSound(step, v) ==
  /\ v.exists
  /\ v.deleting <=> step \in DeletionSteps
  /\ ~v.deleting => v.finalizer
  /\ step \in {"releasePC", "deletePC"} => PrevPC(v) # NoRef
  /\ step \in {"releaseCG", "deleteCG"} => PrevCG(v) # NoRef
  /\ step = "chargeCG" => NewCG(v) # NoRef
  /\ step \in {"releasePC", "chargePC"} => PrevPC(v) # NewPC(v)
  /\ step \in {"releaseCG", "chargeCG"} => PrevCG(v) # NewCG(v)

WorkerSound == worker # Idle => StepSound(worker.step, worker.binding)

\* Only collectors with a tenant are being registered.
RegistrySound ==
  \A c \in Collectors :
    \/ rpc[c].step = "findBinding"
    \/ rpc[c].step = "patch" /\ rpc[c].op = "register"
    => TenantOf[c] # NoRef

\* A version v of o as it may be stored: nothing is left of an object that is
\* gone, a terminating object has the finalizer, and no status is ahead of its
\* object.
ObjectSound(o, v) ==
  /\ ~v.exists => v.status = NewStatus(o)
  /\ v.deleting => v.exists /\ v.finalizer
  /\ v.status.observedGeneration <= v.generation

\* A binding is bound only while it has the finalizer, and to what its spec
\* says if it is Active and up to date.
BindingSound(v) ==
  /\ ~v.finalizer => PrevPC(v) = NoRef /\ PrevCG(v) = NoRef
  /\ /\ v.exists /\ v.status.phase = "Active"
     /\ v.status.observedGeneration = v.generation
     => PrevPC(v) = NewPC(v) /\ PrevCG(v) = NewCG(v)

\* A PipelineConfig whose content was found valid has the hash of it.
ConfigSound(v) ==
  v.exists /\ v.status.contentValid = "True"
    /\ v.status.observedGeneration = v.generation
  => v.status.contentHash = Sha256(v.spec.content)

Sound(o, v) ==
  /\ ObjectSound(o, v)
  /\ o \in Bindings => BindingSound(v)
  /\ o \in PipelineConfigs => ConfigSound(v)

ObjectsSound == \A o \in Objects : Sound(o, store[o])

-----------------------------------------------------------------------------
(* Counters.                                                               *)

\* The reconcile in progress works on the stored version of its binding.
Current == worker # Idle /\ worker.binding = store[worker.key]

\* The references the reconcile's binding counts in, its own work included.
Held ==
  (({PrevPC(worker.binding), PrevCG(worker.binding)} \ worker.released)
     \cup worker.charged) \cap Counted

\* The reference of each kind that the binding should count in at each step.
ExpectedPC(step, v) ==
  CASE step \in {"validateRefs", "releasePC", "deletePC"} -> PrevPC(v)
    [] step \in {"releaseCG", "chargePC"} ->
         IF PrevPC(v) = NewPC(v) THEN NewPC(v) ELSE NoRef
    [] step \in {"chargeCG", "updateStatus"} -> NewPC(v)
    [] OTHER -> NoRef

ExpectedCG(step, v) ==
  CASE step \in {"validateRefs", "releasePC", "releaseCG", "deletePC",
                 "deleteCG"} -> PrevCG(v)
    [] step \in {"chargePC", "chargeCG"} ->
         IF PrevCG(v) = NewCG(v) THEN NewCG(v) ELSE NoRef
    [] step = "updateStatus" -> NewCG(v)
    [] OTHER -> NoRef

\* As long as nobody else writes the binding, a reconcile leaves its counters
\* step by step as they should be, suspect ones apart.
Progress ==
  Current =>
    \A o \in Counted \ suspect :
      o \in Held <=> o \in {ExpectedPC(worker.step, worker.binding),
                          ExpectedCG(worker.step, worker.binding)}

\* Increments come after decrements.
ChargedLate ==
  worker # Idle /\ worker.step \notin {"chargeCG", "updateStatus"}
  => worker.charged = {}

\* A binding counts in nothing that is gone, suspect objects apart.
HoldersExist ==
  \A o \in Counted \ suspect : Holders(o) # {} => store[o].exists

-----------------------------------------------------------------------------

\* A list has one entry for each tenant.
Keyed(tenants) == \A t, u \in tenants : t.id = u.id => t = u

\* Every copy of a list, and every list about to be written, is Keyed.
TenantsKeyed ==
  /\ \A b \in Bindings : /\ Keyed(store[b].status.registeredTenants)
                         /\ Keyed(cache[b].status.registeredTenants)
  /\ \A k \in Kinds : \A i \in 1 .. Len(watch[k]) :
       watch[k][i].object \in Bindings
       => Keyed(watch[k][i].version.status.registeredTenants)
  /\ \A c \in Collectors : rpc[c].step = "patch" => Keyed(rpc[c].edited)

\* The events of an object are in the watch of its kind, in the order of its
\* versions, and none is older than the cached one.
EventsInOrder ==
  \A k \in Kinds : \A i \in 1 .. Len(watch[k]) :
    LET e == watch[k][i] IN
    /\ KindOf(e.object) = k
    /\ cache[e.object].rv <= e.version.rv
    /\ \A j \in i .. Len(watch[k]) :
         watch[k][j].object = e.object => e.version.rv <= watch[k][j].version.rv

\* No step replaces a cached object by an older one; a restart does not because
\* Relist takes the current store.
CacheAdvances == [][\A o \in Objects : cache[o].rv <= cache'[o].rv]_vars

-----------------------------------------------------------------------------
(* Nothing is forgotten.                                                   *)

\* An event of o is on its way.
Pending(o) ==
  \E i \in 1 .. Len(watch[KindOf(o)]) : watch[KindOf(o)][i].object = o

\* The last event of an object on its way carries the stored version, and an
\* object without one is cached as it is stored.
LastEventStored ==
  /\ \A k \in Kinds : \A i \in 1 .. Len(watch[k]) :
       \/ watch[k][i].version = store[watch[k][i].object]
       \/ \E j \in i + 1 .. Len(watch[k]) :
            watch[k][j].object = watch[k][i].object
  /\ \A o \in Objects : cache[o] = store[o] \/ Pending(o)

\* A reconcile of v would change nothing.
ConfigDone(v) ==
  /\ ~v.deleting /\ v.finalizer
  /\ v.status = IF v.spec.content = EmptyContent THEN EmptyContentStatus(v)
                ELSE HashedContentStatus(v)

GroupDone(v) ==
  /\ ~v.deleting /\ v.finalizer
  /\ v.status.observedGeneration = v.generation

\* ... but for the time of the sync, evictions and a lost CollectorGroup.
BindingDone(v) ==
  /\ ~v.deleting /\ v.finalizer
  /\ v.status.phase = "Active" /\ v.status.observedGeneration = v.generation
  /\ PrevPC(v) = NewPC(v) /\ PrevCG(v) = NewCG(v)
  /\ cache[NewPC(v)].exists
  /\ v.status.configHash = cache[NewPC(v)].status.contentHash

Done(o, v) ==
  /\ o \in PipelineConfigs => ConfigDone(v)
  /\ o \in CollectorGroups => GroupDone(v)
  /\ o \in Bindings => BindingDone(v)

\* A reconcile of o is due, or will be when an event arrives.
Due(o) == o \in queue \/ Pending(o)

\* Whatever is not as it should be will be reconciled, or is being so.
NothingForgotten ==
  \A o \in Objects :
    \/ Due(o)
    \/ cache[o].exists => Done(o, cache[o])
    \/ worker # Idle /\ worker.key = o

\* What the reconcile in progress has read is still what the cache holds,
\* unless another reconcile of its binding is due.
ReadsFresh ==
  worker # Idle =>
    \/ Due(worker.key)
    \/ /\ worker.binding = cache[worker.key]
       /\ worker.step \in Steps \ (DeletionSteps \cup {"validateRefs"}) =>
            /\ cache[NewPC(worker.binding)].exists
            /\ worker.hash = cache[NewPC(worker.binding)].status.contentHash
=============================================================================
