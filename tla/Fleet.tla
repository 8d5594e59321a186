-------------------------------- MODULE Fleet --------------------------------
(***************************************************************************)
(* The manager process as a whole: the controllers and the registry of     *)
(* Operator, the GetConfig handler that reads the same cache, and scrapes  *)
(* of the metrics endpoint, with the collectors that poll.                 *)
(***************************************************************************)
EXTENDS Operator, CollectorService, ResourceCollector

CONSTANTS
  MaxPolls,     \* bound on GetConfig calls
  MaxScrapes    \* bound on scrapes

ASSUME FleetBoundsAssumption == MaxPolls \in Nat /\ MaxScrapes \in Nat

VARIABLES
  feed,             \* history: the content of every PipelineConfig version
  polls, scrapes    \* how much of each bound is used

fleetVars == <<vars, serviceVars, scrape, feed, polls, scrapes>>

Withdrawn == "withdrawn"

ASSUME WithdrawnAssumption == Withdrawn \notin Contents \cup {EmptyContent}

ContentOf(v) == IF v.exists THEN v.spec.content ELSE Withdrawn

FleetInit ==
  /\ Init /\ ServiceInit /\ ScrapeInit
  /\ feed = [p \in PipelineConfigs |->
               IF store[p].exists THEN <<ContentOf(store[p])>> ELSE <<>>]
  /\ polls = 0 /\ scrapes = 0

\* A write of a PipelineConfig gives it a new version.
RecordVersions ==
  feed' = [p \in PipelineConfigs |->
             IF store'[p] = store[p] THEN feed[p]
             ELSE Append(feed[p], ContentOf(store'[p]))]

-----------------------------------------------------------------------------

\* Every step of Operator but a call of a collector and a restart.
OperatorStep ==
  /\ Next
  /\ calls' = calls /\ restarts' = restarts
  /\ RecordVersions
  /\ UNCHANGED <<serviceVars, scrape, polls, scrapes>>

\* RegisterCollector and UnregisterCollector. A collector makes one call at a
\* time.
RegistryRpc(c) ==
  /\ poll[c] = NoPoll
  /\ RegistryCall(c)
  /\ UNCHANGED <<serviceVars, scrape, feed, polls, scrapes>>

\* The refresh of a poll counts as a registry call.
Poll(c) ==
  /\ polls < MaxPolls /\ polls' = polls + 1
  /\ GetConfig(c)
  /\ \/ TenantOf[c] # NoRef /\ calls < MaxCalls /\ calls' = calls + 1
     \/ TenantOf[c] = NoRef /\ UNCHANGED calls
  /\ UNCHANGED <<bindingVars, userOps, restarts, resyncs, scrape, feed, scrapes>>

PollStep(c) ==
  /\ ServiceStep(c)
  /\ UNCHANGED <<bindingVars, boundVars, scrape, feed, polls, scrapes>>

Scrape ==
  /\ \/ /\ scrapes < MaxScrapes /\ scrapes' = scrapes + 1
        /\ CollectPipelineConfigs
     \/ CollectMore /\ UNCHANGED scrapes
  /\ UNCHANGED <<vars, serviceVars, feed, polls>>

FleetRestart ==
  /\ Restart /\ ServiceRestart
  /\ scrape' = NotScraped
  /\ UNCHANGED <<feed, polls, scrapes>>

FleetNext ==
  \/ OperatorStep
  \/ \E c \in Collectors : RegistryRpc(c) \/ Poll(c) \/ PollStep(c)
  \/ Scrape
  \/ FleetRestart

FleetSpec == FleetInit /\ [][FleetNext]_fleetVars

FleetTypeOK ==
  /\ ServiceTypeOK
  /\ feed \in [PipelineConfigs ->
                 Seq(Contents \cup {EmptyContent, Withdrawn})]
  /\ polls \in Nat /\ scrapes \in Nat

-----------------------------------------------------------------------------

Feed == INSTANCE ConfigFeed WITH
  Configs <- PipelineConfigs,
  Contents <- Contents \cup {EmptyContent},
  Digest <- [x \in Contents |-> Sha256(x)],
  Nothing <- NothingHeld

\* Collectors receive the versions of a PipelineConfig in the order in which
\* they were written, and never a hash that is ahead of its content, although
\* resolveByIndex reads a cache that lags, in two steps, while controllers,
\* users, restarts and lost responses interfere.
ServesFeed == Feed!Spec

\* The calls that observe has counted as found and GetConfig not yet as served
\* or not modified.
Undecided == Cardinality({c \in Collectors : poll[c].step = "resolved"})

\* The calls whose handler has returned with code, before the interceptor.
Uncounted(code) ==
  Cardinality({c \in Collectors : poll[c].step = "return" /\ poll[c].code = code})

\* The counter families agree up to the calls in between, although they are
\* incremented in different layers at different times (observe, GetConfig, the
\* interceptor) while other calls interleave: whatever was found is served or
\* not modified, and a request is answered with the code of the one step of the
\* resolution chain at which it ended.
CallsAccounted ==
  LET at(path, outcome) == metrics.resolutions[<<path, outcome>>]
      ended(outcome) == at("tenant", outcome) + at("collectorgroup", outcome)
                          + at("default", outcome)
      returned(code) == metrics.requests[code] + Uncounted(code)
  IN /\ ended("found") = metrics.served + metrics.notModified + Undecided
     /\ returned("ok") = metrics.served + metrics.notModified
     /\ returned("not_found") = at("default", "not_found")
     /\ returned("unavailable") = ended("not_ready")
     /\ returned("internal") = ended("error")

\* The gauges of one scrape agree with one another: what is blocked is among
\* what was counted, a gauge is left out exactly when its list failed, and
\* every failure is counted (the lists that Collect hands to
\* collectDeletionBlocked).
ScrapeConsistent ==
  scrape.step = "done" =>
    LET g == scrape.gauges
        has(name) == name \in DOMAIN g
    IN /\ has("valid") <=> has("blockedPipelineConfigs")
       /\ has("active") <=> has("blockedCollectorGroups")
       /\ has("blockedPipelineConfigs") =>
            g["blockedPipelineConfigs"] <= g["valid"] + g["invalid"]
       /\ has("blockedCollectorGroups") =>
            g["blockedCollectorGroups"] <= g["active"]
       /\ scrape.errors =
            Cardinality({"valid", "Pending", "active", "tenants"} \ DOMAIN g)
=============================================================================
