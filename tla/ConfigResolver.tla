--------------------------- MODULE ConfigResolver ---------------------------
(***************************************************************************)
(* internal/adapter/kubernetes/configresolver.go, with the outcomes that   *)
(* metrics_configresolver.go gives its results.                            *)
(*                                                                         *)
(* Every read is a read of the informer cache. resolveByIndex reads twice: *)
(* it lists the bindings, and gets the PipelineConfig of the first one.    *)
(***************************************************************************)
EXTENDS CollectorRegistry

CONSTANT DefaultConfigs   \* the PipelineConfigs that carry the default label

ASSUME DefaultsAssumption == DefaultConfigs \subseteq PipelineConfigs

Paths == {"tenant", "collectorgroup", "default"}
Outcomes == {"found", "not_found", "not_ready", "error"}

\* The bindings the index holds for collector c, in no order.
Matches(path, c) ==
  IF path = "tenant" THEN TenantBindings(TenantOf[c])
  ELSE GroupBindings(GroupOf[c])

DefaultMatches == {p \in DefaultConfigs : cache[p].exists}

\* Get and toPipelineResult. A PipelineConfig that is missing is an error of
\* its own: only a missing binding or default is ErrConfigNotFound.
Outcome(p) ==
  IF ~cache[p].exists THEN "error"
  ELSE IF cache[p].status.contentHash = NoHash THEN "not_ready"
  ELSE "found"

\* What a resolution returns, and (history) the version it was read from.
ResolvedConfigs ==
  [config : PipelineConfigs, version : Nat,
   content : Contents \cup {EmptyContent}, hash : Hashes \ {NoHash}]

\* Mistake: the content comes from the cache, the hash from the API server.
MixedResult(p) ==
  [config |-> p, version |-> cache[p].rv,
   content |-> cache[p].spec.content, hash |-> store[p].status.contentHash]

ResolvedConfig(p) ==
  [config |-> p, version |-> cache[p].rv,
   content |-> cache[p].spec.content, hash |-> cache[p].status.contentHash]
=============================================================================
