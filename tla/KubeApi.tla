------------------------------ MODULE KubeApi ------------------------------
(***************************************************************************)
(* The Kubernetes API server and the manager's informer cache, as the code *)
(* under internal/ uses them through mgr.GetClient(): reads come from the  *)
(* cache, writes go to the API server.                                     *)
(*                                                                         *)
(* The three kinds of the fleet.pkarakal.com group share one store. Every  *)
(* stored object carries a resourceVersion; Update and Status().Update     *)
(* send the version the caller read and are refused when it is no longer   *)
(* the stored one. Every accepted write appends a watch event; the events  *)
(* of one kind reach the cache in the order of the writes, at any later    *)
(* time.                                                                   *)
(***************************************************************************)
EXTENDS Integers, Sequences, FiniteSets

CONSTANTS
  PipelineConfigs,   \* names of PipelineConfig objects
  CollectorGroups,   \* names of CollectorGroup objects
  Bindings,          \* names of CollectorGroupBinding objects
  Tenants,           \* tenant identifiers
  Collectors,        \* collector instance identifiers
  Contents           \* non-empty values of PipelineConfig.spec.content

NoRef == ""          \* Go's empty string: an unset reference
EmptyContent == ""   \* an empty spec.content

Objects == PipelineConfigs \cup CollectorGroups \cup Bindings
Counted == PipelineConfigs \cup CollectorGroups   \* kinds with activeBindings

ASSUME NamesDistinct ==
  /\ PipelineConfigs \cap CollectorGroups = {}
  /\ PipelineConfigs \cap Bindings = {}
  /\ CollectorGroups \cap Bindings = {}
ASSUME NamesNonEmpty ==
  /\ NoRef \notin Objects
  /\ NoRef \notin Tenants
  /\ EmptyContent \notin Contents
ASSUME FiniteBindings == IsFiniteSet(Bindings)
ASSUME FiniteCounted == IsFiniteSet(Counted)

Kinds == {"PipelineConfig", "CollectorGroup", "CollectorGroupBinding"}

KindOf(o) ==
  IF o \in PipelineConfigs THEN "PipelineConfig"
  ELSE IF o \in CollectorGroups THEN "CollectorGroup"
  ELSE "CollectorGroupBinding"

VARIABLES
  store,   \* the object each name has on the API server
  watch,   \* per kind, the watch events not yet delivered
  cache,   \* the object each name has in the informer cache
  queue,   \* the names waiting in the controllers' work queues
  now      \* wall clock, in seconds

apiVars == <<store, watch, cache, queue, now>>

-----------------------------------------------------------------------------
(* Object contents.                                                        *)

\* The SHA-256 digest of a content: injective on contents, never empty.
Sha256(c) == <<"sha256", c>>
NoHash == <<>>
Hashes == {NoHash} \cup {Sha256(c) : c \in Contents}

PipelineConfigSpec == [content : Contents \cup {EmptyContent}]

PipelineConfigStatus ==
  [contentHash : Hashes, contentValid : {"None", "True", "False"},
   activeBindings : Int, observedGeneration : Nat]

CollectorGroupSpec == [description : {"text"}]

CollectorGroupStatus == [activeBindings : Int, observedGeneration : Nat]

\* Exactly one of collectorGroupRef and tenantRef is set.
CollectorGroupBindingSpec ==
  {s \in [pipelineConfigRef : PipelineConfigs,
          collectorGroupRef : CollectorGroups \cup {NoRef},
          tenantRef : Tenants \cup {NoRef}] :
     (s.collectorGroupRef # NoRef) # (s.tenantRef # NoRef)}

RegisteredTenant == [id : Tenants, collectorId : Collectors, lastSeenAt : Nat]

\* The RefsValid condition by its reason; it is True only for RefsResolved.
RefsValidReasons ==
  {"None", "RefsResolved", "PipelineConfigNotFound", "CollectorGroupNotFound"}

CollectorGroupBindingPhase == {"", "Pending", "Active", "Degraded"}

CollectorGroupBindingStatus ==
  [refsValid : RefsValidReasons, phase : CollectorGroupBindingPhase,
   configHash : Hashes, lastSyncedAt : Nat,
   boundPipelineConfigRef : PipelineConfigs \cup {NoRef},
   boundCollectorGroupRef : CollectorGroups \cup {NoRef},
   observedGeneration : Nat, registeredTenants : SUBSET RegisteredTenant]

NewStatus(o) ==
  IF o \in PipelineConfigs
  THEN [contentHash |-> NoHash, contentValid |-> "None",
        activeBindings |-> 0, observedGeneration |-> 0]
  ELSE IF o \in CollectorGroups
  THEN [activeBindings |-> 0, observedGeneration |-> 0]
  ELSE [refsValid |-> "None", phase |-> "", configHash |-> NoHash,
        lastSyncedAt |-> 0, boundPipelineConfigRef |-> NoRef,
        boundCollectorGroupRef |-> NoRef, observedGeneration |-> 0,
        registeredTenants |-> {}]

SpecSet(o) ==
  IF o \in PipelineConfigs THEN PipelineConfigSpec
  ELSE IF o \in CollectorGroups THEN CollectorGroupSpec
  ELSE CollectorGroupBindingSpec

StatusSet(o) ==
  IF o \in PipelineConfigs THEN PipelineConfigStatus
  ELSE IF o \in CollectorGroups THEN CollectorGroupStatus
  ELSE CollectorGroupBindingStatus

NoSpec == <<>>

\* A version of an object, or the record that it is gone. resourceVersion rv
\* keeps growing over deletions, so versions of an earlier object of the same
\* name are never mistaken for the stored one. finalizer: the operator's own.
VersionOf(specs, statuses) ==
  {v \in [rv : Nat, exists : BOOLEAN, generation : Nat, finalizer : BOOLEAN,
          deleting : BOOLEAN, spec : specs \cup {NoSpec}, status : statuses] :
     v.exists => v.spec \in specs}

BindingVersion ==
  VersionOf(CollectorGroupBindingSpec, CollectorGroupBindingStatus)

Version(o) == VersionOf(SpecSet(o), StatusSet(o))

AnyVersion ==
  VersionOf(PipelineConfigSpec, PipelineConfigStatus)
    \cup VersionOf(CollectorGroupSpec, CollectorGroupStatus)
    \cup BindingVersion

Gone(o, rv) ==
  [rv |-> rv, exists |-> FALSE, generation |-> 0, finalizer |-> FALSE,
   deleting |-> FALSE, spec |-> NoSpec, status |-> NewStatus(o)]

Fresh(o, rv, spec) ==
  [rv |-> rv, exists |-> TRUE, generation |-> 1, finalizer |-> FALSE,
   deleting |-> FALSE, spec |-> spec, status |-> NewStatus(o)]

-----------------------------------------------------------------------------
(* Writes.                                                                 *)

\* The stored object becomes v. A write that changes nothing is not a write:
\* no new resourceVersion, no event.
Put(o, v) ==
  IF v = store[o] THEN UNCHANGED <<store, watch>>
  ELSE LET w == [v EXCEPT !.rv = store[o].rv + 1]
       IN /\ store' = [store EXCEPT ![o] = w]
          /\ watch' = [watch EXCEPT ![KindOf(o)] =
                         Append(@, [object |-> o, version |-> w])]

\* What the API server answers to a write of o computed from version v.
Answer(o, v) ==
  IF ~store[o].exists THEN "NotFound"
  ELSE IF store[o].rv = v.rv THEN "OK" ELSE "Conflict"

\* The stored object as Status().Update leaves it: only the status changes.
WithStatus(o, status) == [store[o] EXCEPT !.status = status]

\* ... as Update with AddFinalizer leaves it.
WithFinalizer(o) == [store[o] EXCEPT !.finalizer = TRUE]

\* ... as Update with RemoveFinalizer leaves it: a terminating object goes.
WithoutFinalizer(o) ==
  IF store[o].deleting THEN Gone(o, store[o].rv)
  ELSE [store[o] EXCEPT !.finalizer = FALSE]

\* A reconcile of o that ends with "return r.Update(...)": the request is
\* finished if the write is accepted, and queued again if it is refused.
ReturnUpdate(o, v, w) ==
  IF Answer(o, v) = "OK"
  THEN Put(o, w) /\ queue' = queue \ {o}
  ELSE UNCHANGED <<store, watch, queue>>

\* What users do with objects: create, edit the spec, delete.
Create(o, spec) ==
  /\ ~store[o].exists
  /\ Put(o, Fresh(o, store[o].rv, spec))

EditSpec(o, spec) ==
  /\ store[o].exists /\ spec # store[o].spec
  /\ Put(o, [store[o] EXCEPT !.spec = spec, !.generation = @ + 1])

Delete(o) ==
  /\ store[o].exists /\ ~store[o].deleting
  /\ Put(o, IF store[o].finalizer
            THEN [store[o] EXCEPT !.deleting = TRUE, !.generation = @ + 1]
            ELSE Gone(o, store[o].rv))

-----------------------------------------------------------------------------
(* The informer cache and the manager process.                             *)

\* The next event of kind k updates the cache; reqs are the reconcile
\* requests its handlers add.
Deliver(k, reqs) ==
  /\ watch[k] # <<>>
  /\ cache' = [cache EXCEPT ![Head(watch[k]).object] = Head(watch[k]).version]
  /\ watch' = [watch EXCEPT ![k] = Tail(@)]
  /\ queue' = queue \cup reqs
  /\ UNCHANGED <<store, now>>

\* A new manager process: the cache is listed anew, every object is queued. The
\* list is assumed to be current.
Relist ==
  /\ cache' = store
  /\ watch' = [k \in Kinds |-> <<>>]
  /\ queue' = {o \in Objects : store[o].exists}
  /\ UNCHANGED <<store, now>>

\* The periodic resync of an informer: its handlers run again for everything
\* in the cache.
Requeue(reqs) ==
  /\ queue' = queue \cup reqs
  /\ UNCHANGED <<store, watch, cache, now>>

Tick ==
  /\ now' = now + 1
  /\ UNCHANGED <<store, watch, cache, queue>>

\* The manager starts: the cache is listed and every object is queued.
ApiInit(objects) ==
  /\ store = objects
  /\ cache = objects
  /\ watch = [k \in Kinds |-> <<>>]
  /\ queue = {o \in Objects : objects[o].exists}
  /\ now = 1

StoreTypeOK ==
  /\ store \in [Objects -> AnyVersion]
  /\ \A o \in Objects : store[o] \in Version(o)

CacheTypeOK ==
  /\ cache \in [Objects -> AnyVersion]
  /\ \A o \in Objects : cache[o] \in Version(o)

WatchTypeOK ==
  /\ watch \in [Kinds -> Seq([object : Objects, version : AnyVersion])]
  /\ \A k \in Kinds : \A i \in 1 .. Len(watch[k]) :
       watch[k][i].version \in Version(watch[k][i].object)

ApiTypeOK ==
  /\ StoreTypeOK /\ CacheTypeOK /\ WatchTypeOK
  /\ queue \subseteq Objects
  /\ now \in Nat
=============================================================================
