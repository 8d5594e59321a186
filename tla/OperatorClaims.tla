--------------------------- MODULE OperatorClaims ---------------------------
(***************************************************************************)
(* What the repository's documentation says of the operator and the code   *)
(* does not keep. Each property is refuted by a run of its own; the README *)
(* of this directory explains the counterexamples.                         *)
(***************************************************************************)
EXTENDS Operator

\* README.md: activeBindings is the "Number of CollectorGroupBinding resources
\* currently referencing this config", at least when the operator is quiet;
\* manageCounters "idempotently adjusts" the counters.
ActiveBindingsIsReferenceCount ==
  Quiet => \A o \in Counted :
    store[o].exists =>
      store[o].status.activeBindings =
        Cardinality({b \in Bindings : o \in Bound(b)})

\* collectorgroupbinding_types.go: Active "indicates the binding is healthy,
\* all referenced resources exist", at least when the operator is quiet.
ActiveMeansRefsExist ==
  Quiet => \A b \in Bindings :
    store[b].exists /\ store[b].status.phase = "Active" => RefsExist(b)

\* pipelineconfig_types.go: "ContentHash is the hash of the content field", at
\* least once the operator has observed the current generation.
HashIsOfContent ==
  \A p \in PipelineConfigs :
    LET v == store[p] IN
    v.exists /\ v.status.observedGeneration = v.generation
      /\ v.status.contentHash # NoHash
    => v.status.contentHash = Sha256(v.spec.content)

\* collectorgroupbinding_types.go: registeredTenants entries are "removed on
\* UnregisterCollector or when the entry has not been refreshed within the
\* collector TTL window", and by nothing else while the binding exists.
RegistrationsKept ==
  [][\A b \in Bindings : store'[b].exists =>
       \A t \in store[b].status.registeredTenants :
         \/ \E u \in store'[b].status.registeredTenants : u.id = t.id
         \/ Stale(t)
         \/ /\ rpc[t.collectorId].step = "patch"
            /\ rpc[t.collectorId].op = "unregister"
            /\ rpc'[t.collectorId] = NoCall]_vars
=============================================================================
