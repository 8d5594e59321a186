# Verification of alloy-remote-config

TLA+ models, model-checking runs and TLAPS proofs for the fleet operator in this
repository. Module and definition names follow the Go code; `PROJECT.json` maps
every definition to its source lines.

## 1. The system

The operator manages three kinds of Kubernetes objects. A `PipelineConfig` holds a
configuration text, a `CollectorGroup` names a group, and a `CollectorGroupBinding`
assigns a configuration to a group or to one tenant. One manager process runs a
controller per kind and a Connect-RPC server that Alloy collectors poll. All of them
read through one informer cache and write to the API server.

| Part | State it owns | Operations |
|------|---------------|------------|
| PipelineConfig controller | hash, ContentValid, observedGeneration, finalizer | Reconcile: deletion gate, finalizer, hash |
| CollectorGroup controller | observedGeneration, finalizer | Reconcile: deletion gate, finalizer |
| Binding controller | phase, bound references, configHash, tenant eviction; the `activeBindings` of the other two kinds | Reconcile: finalizer, validateRefs, manageCounters, evictStaleTenants, status; handleDeletion; PipelineConfig watch |
| Collector registry | `registeredTenants` of bindings | Register, Unregister (merge patches with retries) |
| Collector service | none | GetConfig (heartbeat, resolution, hash comparison), RegisterCollector, UnregisterCollector |
| Config resolver | none | tenant, group and default lookup in the cache |
| Manager | informer cache, work queues | event delivery, resync, restart |
| Connect-RPC server | listener | Start, graceful shutdown |
| Metrics | counters, a scrape over the cache | Collect, interceptor |
| Helm chart | manifests | install, pre-delete hook that strips finalizers |

How they meet: the binding controller changes `activeBindings` in objects the other
controllers also write, the other two refuse deletion on that counter, a change of a
configuration queues its bindings, and the registry patches the status the binding
controller rewrites. GetConfig reads what the controllers wrote from the same cache,
after it has refreshed the collector's registration, and a scrape reads it again.

What makes it hard: reads are stale; one binding reconcile makes up to four writes to
three objects and may stop after any of them; writers of one status exclude each
other only through the resourceVersion, and the registry's patches not even through
that; users act at any time; progress rests on retries, watches and requeues. The
`hazards` of `PROJECT.json` list these at their lines.

## 2. Modules

| Module | Models |
|--------|--------|
| `KubeApi` | API types; API server and informer cache as the code uses them (external) |
| `PipelineConfigReconciler` | `internal/controller/pipelineconfig_controller.go` |
| `CollectorGroupReconciler` | `internal/controller/collectorgroup_controller.go` |
| `CollectorGroupBindingReconciler` | `internal/controller/collectorgroupbinding_controller.go` |
| `CollectorRegistry` | `internal/adapter/kubernetes/collectorregistry.go` and its callers in `internal/service` |
| `Operator` | the manager of `cmd/main.go` with controllers and registry: composition, users, restart, resync, clock; the properties of both |
| `ConfigResolver` | `internal/adapter/kubernetes/configresolver.go`, outcomes of `metrics_configresolver.go` |
| `CollectorService` | `internal/service/collector_service.go` behind `internal/interceptor/metrics_interceptor.go` |
| `ResourceCollector` | `internal/metrics/resource_collector.go` |
| `Fleet` | the whole process: `Operator`, the polls of collectors and the scrapes of the metrics endpoint over one cache |
| `ConfigFeed` | abstract: what a fleet of collectors is promised; implemented by `Fleet` |
| `ConnectServer` | `internal/server/server.go` |
| `OperatorClaims`, `FleetClaims` | statements of the documentation that the code does not keep |
| `MCOperator`, `MCFleet` | small fleets for TLC |
| `OperatorInvariants` | inductive invariants |
| `OperatorProofs`, `StatusProofs`, `CounterProofs`, `WriteProofs`, `RestProofs`, `FleetProofs`, `AccountProofs`, `ConnectServerProofs` | theorems |

### State

`store` maps every name to its stored version (resourceVersion, generation,
finalizer, deletion mark, spec, status) or to the record that it is gone. `watch` is,
per kind, the queue of events not yet delivered; `cache` is what the manager reads;
`queue` the requests waiting in the work queues; `now` the wall clock in seconds.
`worker` is the binding reconcile in progress: its next step, the binding it read, and
the hash it took from the configuration. `rpc` holds the registry call each collector
has in progress.

`Fleet` adds `poll`, the GetConfig call each collector has in progress, `held`, what
the collector has and the hash it polls with, `metrics`, the counters of the call path,
and `scrape`, the scrape in progress with the gauges it has emitted.

`feed` (the content of every version of a configuration) and `held.seen` (the versions
a collector was served) are history variables of the refinement.
`suspect`, `worker.charged` and `worker.released` are history
variables too; no guard of the modelled code reads any of them. `charged` and `released` say which counters the
reconcile in progress has changed. `suspect` collects the objects whose counter may be
wrong because a reconcile was cut short: it failed or crashed after it changed the
counter, it skipped a decrement of an existing object, or the object disappeared while
a binding counted in it.

### Actions

Reconciles of PipelineConfigs and CollectorGroups read one object from the cache and
make at most one write that carries the resourceVersion read, so read and write are
one action: an accepted write means nothing was stored in between, and a refused one
changes nothing. The binding reconcile writes several objects, so it is a sequence of
actions, one per write: `StartReconcile` (fetch, finalizer), `ValidateRefs`
(with `SetRefsInvalid`), `ManageCounters` (one counter at a time), `UpdateStatus`
(eviction, status, requeue), `HandleDeletion` and `FinishDeletion`. A counter step is a
cached Get and a Status().Update and is one action for the same reason as above.
A registry call reads (`Register`, `Unregister`, `Refetch`) and patches (`Patch`) in
separate actions because the patch has no resourceVersion check; `PatchConflict` is the
API server giving up, which the retry loop handles.

A poll is `GetConfig` (the refresh of the registration, a registry call like any other),
then one action per read of the cache: `ListBindings` and `GetPipelineConfig` for the
two reads of resolveByIndex, `ResolveDefault` for the last step of the chain; `ReadFails`
is a list or get that fails. A call increments counters at three moments, and each is an
action of its own. The read that ends the chain is observed by the resolver (`Conclude`,
or `ReturnError` for a call that fails). `Respond` is the rest of GetConfig: it compares
the hash the collector polled with to the result, counts the answer as served or not
modified and returns. `CountRequest` is the interceptor; only then does the answer leave
the process, and it is received (`Receive`) or lost. The cache may move between any two of
them. `Scrape` is one action per list of Collect, each
with an alternative in which it fails. `FleetRestart` drops calls, counters and the scrape
with the rest of the process; collectors keep what they hold.

`ConnectServer` has two goroutines, Start and the listener, the channel between them and
the requests in progress. A closed empty channel, the buffer of one, the select with two
ready cases and the shutdown deadline are modelled as they are in Go; `http.Server` is
external.

### Abstractions

- Content, tenants, collectors and names are model values; SHA-256 is injective.
- Reads of the controllers and the registry do not fail; writes fail with NotFound or Conflict, or the
  process dies. Other API errors take the same paths as Conflict.
- Backoff and RequeueAfter mean that the name is in the queue; how long it waits is
  left open.
- An event updates the cache and queues requests in one action. The periodic resync
  of an informer (controller-runtime's default, about every ten hours) queues again
  what the cache holds.
- A new process starts from a list of the current store. A list that an API server answers
  from a cache of its own may be older; then the manager's cache could go back across a
  restart, and with it the order in which collectors see versions. Within one process
  the events come in order.
- Writes that change nothing produce no event and no new resourceVersion.
- `registeredTenants` is a set, and the order of listings is open.
- Time has the granularity of `metav1.Time`; the eviction and the status write of one
  reconcile use the same reading of the clock.
- Edits of free text, and the generation bump they cause, are left out.
- The default label is a constant set of configurations (`DefaultConfigs`).
- A collector has one call in progress at a time, and polls with the hash of the last
  answer it received.
- Latencies and histograms are left out, and so are the counters of the other two RPCs.
- One manager is active (leader election, or a single replica), with one worker per
  controller, controller-runtime's default.

## 3. Properties and runs

The operator may become idle and the server stops, so deadlock is not an error
(`CHECK_DEADLOCK FALSE`).

| Run | Instance | Checks |
|-----|----------|--------|
| `retarget` | 2 configurations, 1 group, 1 binding, 2 user operations | `TypeOK`, `CountersExact`, `StatusReflectsSpec`, `DeletionBlocked` |
| `shared` | 1 configuration, 2 tenant bindings, 2 user operations, 1 restart, 1 resync | `CountersExact`, `BlockedWhileHeld`, `NoLostUpdates` |
| `settle` | 1 configuration with 2 contents, not reconciled yet, 1 group, 1 binding, 2 user operations, fairness | `HashReflectsContent`, `QuietMeansSettled`, `HashesConverge`, `BindingsConverge`, `BindingDeletionCompletes`, `DeletionCompletes`, `LostConfigNoticed` |
| `tenants` | 1 configuration, 1 group, 1 binding, 2 tenants, 2 collectors, 2 calls, TTL 1 s, fairness | `TenantsListedOnce`, `EvictsOnlyStale`, `StaleTenantsEvicted`, `CallsEnd` |
| `serving` | 1 configuration with 2 contents, which is also the default, 1 binding to a group that is not there, a collector with a tenant and one in the group, 2 polls, 1 registry call, 1 user operation | `FleetTypeOK`, `CallsAccounted`, `ServesFeed` |
| `scrape` | 1 configuration, 1 group, 1 binding, 1 scrape, 1 user operation, 1 restart | `ScrapeConsistent` |
| `server` | 3 requests, fairness | `NilMeansGraceful`, `StartReturns`, `GoroutineEnds` |

- `CountersExact`: for every object outside `suspect`, `activeBindings` equals the
  number of bindings that count in it. A binding counts in what its status says it is
  bound to, less what the reconcile in progress has released, plus what it has charged.
  A reconcile that works on an outdated copy of its binding (`InDoubt`) is judged when
  its last write is refused. The property says that the counter can go wrong only
  through reconciles that are cut short: never through two writers of one counter,
  through the hash writer, through registry patches or through spec edits. It does not say
  that a crash, a conflict halfway or a repeated decrement leaves the counter right: they do
  not, and `claim_reference_count` is the run about that. `BlockedWhileHeld` and
  `DeletionCompletes` exempt the same objects.
- `DeletionBlocked`: a controller removes the finalizer only in a state whose stored
  counter is not positive. `BlockedWhileHeld`: such an object has no binding that
  counts in it, suspect objects apart.
- `StatusReflectsSpec`, `HashReflectsContent`: a status marked as current agrees with
  the spec.
- `NoLostUpdates`: the binding controller and the controller of an object both write
  its whole status back from a cached copy. A step moves a counter by one and leaves the
  rest of the status alone, or leaves the counter alone, and `observedGeneration` never
  goes back.
- `QuietMeansSettled`: with nothing queued, in progress or undelivered, no object is
  terminating, every status is that of its spec, and every binding is Active on an
  existing configuration whose hash it has. No request is dropped too early and no event
  is missed. That every schedule comes to rest is what the liveness properties say.
- `TenantsListedOnce`, `EvictsOnlyStale`: no duplicate entries; the reconciler drops
  only stale ones although it writes back a list it read earlier.
- Liveness of the operator (`settle`, `tenants`): deletions complete, hashes and bindings
  converge, a lost configuration is noticed, stale tenants are evicted while the
  references exist, and every registry call ends.
- `ServesFeed`: `Fleet` implements `ConfigFeed`. Whatever the cache, the controllers,
  restarts and lost answers do, a collector receives the versions of a configuration in
  the order in which they were written, only when the hash it polls with differs, and the
  hash that comes with a content is that of the same or an earlier version. The mapping
  takes `feed` and `held` as they are; every other variable is hidden.
- `CallsAccounted`: a call is counted by the resolver (observe), by GetConfig and by the
  interceptor, at three moments. In every state, the results the resolver has counted as
  found are those served or not modified plus the calls between observe and the decision;
  and for each code, the requests counted plus the calls that have returned with it and
  are not counted yet are what the resolver or GetConfig counted for it: served or not
  modified for ok, a miss at the default for not_found, not_ready for unavailable, error
  for internal.
- `ScrapeConsistent`: the gauges of one scrape do not contradict one another although
  the cache changes between its lists, and what a failed list leaves out is counted.
- `NilMeansGraceful`, `StartReturns`, `GoroutineEnds`: Start does not take a listen error
  for a shutdown, ends within its deadline, and its goroutine does not outlive it for good.

Bounds. Two user operations are enough for edit-and-edit-back, delete-and-recreate and
retarget-then-delete while a reconcile is under way; two bindings, configurations or
collectors are enough for two writers of one counter or list, and each property speaks
of one object and at most two writers. `Reconciled` lists objects an earlier manager
has already settled, which shortens the runs; `settle` and some of the claims start with
objects that are not. In `serving` one collector looks for its tenant and one for its
group before the default; two polls are enough for an answer, an edit and a second answer,
and for two calls in progress. The binding is one of the group until the user retargets it
to the tenant or deletes it, so both lookups are met as a miss and as a match. Its group
does not exist, which keeps the counters of groups out of that run. `MaxDrift` bounds the one unbounded loop of the system: a binding
reconciled from a stale copy moves a counter, the event of that write queues the
binding again, and so on as long as the cache lags. When a counter is further off than
`MaxDrift`, the next reconcile waits for the cache. With `MaxDrift = 0` one wrong
counter step still happens before the bound applies. Every counterexample below needs
no more. The bound is not in the code: it also cuts short a chase of reconciles that a
cache which always lags would sustain, so the liveness results speak of caches that catch
up after such a step. In `tenants` there is one binding, and no two collectors share a tenant; that
shared tenants are listed once is proved, not run. The theorems hold for every value of the bounds.

Fairness. Informers deliver, every controller has a running worker, and a reconcile
in progress goes on: weak fairness. Taking up a binding has strong fairness: there is
one worker for all bindings, and the work queue is first-in first-out, so a queued
binding gets its turn although the worker is busy again and again. RPC handlers run
to their end. Users, restarts, resyncs, new calls and the clock are not fair. In
`ConnectServer` both goroutines run, and the five seconds of the shutdown pass; request
handlers, failures of the listener and the manager's cancellation owe nothing. `Fleet` is
checked for safety only.

### Where documentation and code disagree

Each of these runs is expected to find a violation.

- `claim_reference_count` (README.md:116, "Number of `CollectorGroupBinding` resources
  currently referencing this config"; collectorgroupbinding_controller.go:229,
  "idempotently adjusts"). No user acts. The reconcile of a new binding increments the
  configuration and writes its status. The event of the increment arrives first and
  queues the binding; the cached binding is still unbound, so the next reconcile
  increments again and fails at its last write. When everything is quiet the counter is
  2 for one binding, and deletion of the configuration stays blocked for good.
- `claim_active` (collectorgroupbinding_types.go:108). A group deleted before it has the
  finalizer leaves its binding Active, since bindings are not queued by CollectorGroups.
- `claim_hash` (pipelineconfig_types.go:25). Emptied content keeps the old hash in a
  status that is marked as current.
- `claim_registrations` (collectorgroupbinding_types.go:92). Two registrations computed
  from the same cached list; the second patch removes the first entry. The entry returns
  with the collector's next poll, unless the collector only registered.
- `claim_not_modified` (README.md:200, "as that Alloy server already has the configuration
  body"). Content A is edited to B. Before the controller writes the hash of B, a collector
  polls and receives B with the hash of A. The edit is taken back to A; the collector polls
  with the hash of A, is told notModified, and keeps running B. `ServesFeed` states what is
  left: the hash is never ahead of the content.

Two more observations have no run. A configuration that is counted before its own
controller has added the finalizer is deleted at once (README.md:118, "Deletion is blocked
while `activeBindings > 0`"): `DeletionBlocked` speaks of objects with the finalizer. A
binding whose configuration is gone fails in validateRefs, before the eviction
(README.md:242): `StaleTenantsEvicted` speaks of bindings whose references exist.

## 4. Proofs

TLAPS proves the following for all sets of objects, tenants, collectors and contents
and all bounds, from the named assumptions: the three kinds have distinct non-empty
names (`NamesDistinct`, `NamesNonEmpty`), objects and collectors are
finitely many (`FiniteBindings`, `FiniteCounted`, `FiniteCollectors`), default configurations are
configurations (`DefaultsAssumption`), the mark of a deleted version is no content
(`WithdrawnAssumption`), the TTL and the bounds are natural numbers, attributes name tenants
and groups (`AttributesAssumption`), and the initial fleet is well-formed
(`InitialSpecsAssumption`, `ReconciledAssumption`). The runs of `MCOperator` and
`MCFleet` evaluate all of them. `ConnectServerProofs` assumes nothing.

| Theorem | States |
|---------|--------|
| `OperatorProofs!TypeCorrect` | `Spec => []TypeOK` |
| `OperatorProofs!CopiesNeverAhead` | `Spec => []CopiesArePast` |
| `StatusProofs!StatusesReflectSpecs` | `Spec => []StatusReflectsSpec` |
| `StatusProofs!HashesReflectContent` | `Spec => []HashReflectsContent` |
| `StatusProofs!DeletionIsBlocked` | `Spec => DeletionBlocked` |
| `CounterProofs!CountersAreExact` | `Spec => []CountersExact` |
| `CounterProofs!HoldersBlockDeletion` | `Spec => BlockedWhileHeld` |
| `WriteProofs!StatusWritesKept` | `Spec => NoLostUpdates` |
| `WriteProofs!TenantsNeverTwice` | `Spec => []TenantsListedOnce` |
| `WriteProofs!OnlyStaleEvicted` | `Spec => EvictsOnlyStale` |
| `WriteProofs!CacheNeverGoesBack` | `Spec => CacheAdvances` |
| `RestProofs!RestIsSettled` | `Spec => []QuietMeansSettled` |
| `FleetProofs!FleetRunsOperator` | `FleetSpec => Spec` |
| `FleetProofs!FleetTypeCorrect` | `FleetSpec => []FleetTypeOK` |
| `FleetProofs!CollectorsAreServed` | `FleetSpec => ServesFeed` (refinement of `ConfigFeed`) |
| `AccountProofs!EveryCallAccounted` | `FleetSpec => []CallsAccounted` |
| `AccountProofs!ScrapesAgree` | `FleetSpec => []ScrapeConsistent` |
| `ConnectServerProofs!NilIsGraceful` | `Spec => []NilMeansGraceful` of `ConnectServer` |

`TypeOK` is not inductive: a counter step needs to know that the reference it releases
or charges is set. `WorkerSound` says what a reconcile knows at each step of the binding
it has read, `RegistrySound` that only collectors with a tenant register;
`TypeInv == TypeOK /\ WorkerSound /\ RegistrySound` is inductive. The proof shows of
every step that it is *orderly* (`StepOrderly`): it writes at most one object, the
resourceVersion grows with the write, and the cache, the events and the worker change
only to stored versions. `CopiesArePast` follows from orderliness alone.

`CopiesArePast` is what makes optimistic concurrency work: a write that is accepted was
computed from the stored version (`Accepted`). With it, every write is *lawful*
(`LawfulStep`): it leaves an object sound (`Sound`: the status is not ahead of the
object, an unfinalized or removed binding is bound to nothing, a current status agrees
with the spec), and it takes a finalizer only from an object whose stored counter is not
positive. The three theorems of `StatusProofs` follow from
`SoundInv == TypeInv /\ CopiesArePast /\ ObjectsSound`.

`CountersExact` is not inductive. A counter step is right only if the reconcile that
takes it adjusts each object once, and the write that ends the reconcile is right only
if everything it records has been adjusted. `CountInv` adds to `SoundInv`:

- `Progress`: while the binding a reconcile has read is still the stored one, the
  objects it counts in are, suspect ones apart, the ones its next step expects;
- `ChargedLate`: nothing is charged before the steps that charge;
- `HoldersExist`: an object outside `suspect` that a binding counts in exists; without
  it, an object created again would start at zero with holders.

A step of the other controllers, the users or the registry is *passive*
(`PassiveStep`): it leaves bound references and counters alone, or creates or removes
an object; at most it makes the binding in progress stale, which puts the adjustments
of that reconcile in doubt (`InDoubt`). That leaves the binding reconciler's own steps:
`AdjustCounts` shows that one adjustment moves the counter and the set of holders
together, `LastWriteCounts` that the final write moves neither, and `AbandonCounts`
that a reconcile cut short only adds what it adjusted to `suspect`.
`HoldersBlockDeletion` combines the exact counter with lawfulness.

`WriteProofs` classifies what each step may write (`Moves`, `WriteStep`). A write of a
status leaves the counter alone or moves it by one and nothing else, and is made for the
stored generation (`StatusKept`), because the copy it comes from is the stored version or
the write is refused. `StatusWritesKept` reads off that classification. A write of a
configuration keeps its hash, clears it or sets the hash of the stored content
(`HashKept`); the tenants in a write of a binding are some of the stored ones, only stale
ones missing if the reconciler wrote it, or the list of a patch (`TenantsKept`). `OnlyStaleEvicted` reads off that classification.
`TenantsListedOnce` is not inductive, because patches are computed from copies:
`TenantsKeyed` says the same of the store, the cache, the events and the patches in
progress. `CacheAdvances` needs `EventsInOrder`: the undelivered events of an
object are in the order of its versions and none is older than the cached one.

`QuietMeansSettled` says nothing of the states in between, where all the work is.
`NothingForgotten` does: an object is done as the cache has it (`Done`, a reconcile would
leave it as it is), or it is queued or an event is on its way that will queue it (`Due`),
or it is being reconciled. It needs `LastEventStored`, the last undelivered event of an
object carries the stored version, and an object without events is cached as it is
stored; and `ReadsFresh`, what a reconcile in progress has read of its binding and its
configuration is what the cache holds, or the binding is due again. `RestInv` adds these to `SoundInv` and `EventsInOrder`. A write of a configuration makes its bindings
due through the watch; a refused write, a failed reference check and a blocked deletion
keep the request; the last status write of a binding is accepted only from the stored
binding, and the hash in it is current or the binding is due again.

`FleetProofs` first shows that a step of `Fleet` is a step of `Operator` or leaves it
alone, so that all of the above holds in `Fleet`. The refinement needs
`FleetInv == SoundInv /\ EventsInOrder /\ FleetTypeOK /\ VersionsRecorded /\ AnswersRecorded`:
the resourceVersion of a configuration is the length of its feed, every copy of it, stored,
cached or on its way, has its content at the place of its version and the hash of some
version up to that (`RecordedIn`), and no collector has seen a version the cache does not
have, which is kept because the cache never goes back. An answer is received some steps
after the read it comes from. `AnswersRecorded` says of an answer on its way that its
content is in the feed at its version, its hash is of some version up to that, and its
version is neither older than what the collector has seen nor newer than the cache
(`AnswerInOrder`): a collector has one call at a time, so what it has seen does not move
before it takes the answer. Taking an answer is then a `Receive` of the abstract specification, a
write of a configuration a `Publish`, and everything else a stutter.

`CallsAccounted` is inductive together with the types, because it has an entry for the
calls between two counting steps: those at the decision (`Deciding`) and those that have
returned with a code (`Returned`). `Accounts` is the same statement, in a form one lemma
per kind of step can use: `OneCallMoves` gives what one call does to the sizes of the two
sets, `ObservedBooks` what observe does to the counters of the resolver, and the lemmas for the
steps show that the entries move together.

`ScrapeConsistent` speaks of a finished scrape. `ScrapeSound` says at each step which gauges
may have been sent (`SentBy`), that the errors are the lists whose turn has come and whose
gauges are missing (`Missing`), and that the lists kept for the blocked gauges are the ones
that were counted, so that what is blocked is among them whatever the cache holds by then.

`NilMeansGraceful` needs to know why the channel is closed (`ServerInv`): when the listener
has come to its end, a shutdown began, or an error is still in the channel, or Start has
returned. So the select never sees a closed and empty channel.

Only model-checked: liveness (`HashesConverge`, `BindingsConverge`,
`BindingDeletionCompletes`, `DeletionCompletes`, `LostConfigNoticed`,
`StaleTenantsEvicted`, `CallsEnd`, `StartReturns`, `GoroutineEnds`), which is outside the
prover's reach.

## 5. Not modelled

- A second active manager (`--leader-elect` is off by default) and the caches of several
  replicas behind the RPC server: each needs a cache, queues and a worker of its own.
  `ServesFeed` is a statement about one replica; a collector whose polls alternate between
  replicas may go back to an older version.
- The eviction counter, HTTP metrics, histograms and build information: nothing reads them.
- Flags, TLS, probes, the HTTP mux, the no-op registry, registration of metrics:
  configuration or code without effect on the state above.
- Generated deepcopy code, end-to-end test utilities, manifests; the pre-delete hook of the
  chart, a shell script that strips finalizers.
