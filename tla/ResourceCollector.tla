-------------------------- MODULE ResourceCollector --------------------------
(***************************************************************************)
(* internal/metrics/resource_collector.go: Collect, the gauges of the      *)
(* fleet's resources on a scrape of the metrics endpoint.                  *)
(*                                                                         *)
(* A scrape lists the informer cache four times and the cache moves on in  *)
(* between. A list that fails is counted and its gauges are left out.      *)
(***************************************************************************)
EXTENDS KubeApi, FiniteSetsExt

VARIABLE scrape   \* the scrape in progress, or the last one

\* The gauges sent so far, by name; the two lists that are kept for
\* collectDeletionBlocked, NoList if they failed; the errors this scrape
\* added to ScrapeErrors.
NoList == [failed |-> TRUE, items |-> <<>>]
Listed(items) == [failed |-> FALSE, items |-> items]

NotScraped ==
  [step |-> "idle", gauges |-> <<>>, pcList |-> NoList,
   cgList |-> NoList, errors |-> 0]

ScrapeInit == scrape = NotScraped

\* What Collect looks at in the objects that a list returns.
List(objects) ==
  [o \in {o \in objects : cache[o].exists} |->
     [deleting |-> cache[o].deleting, status |-> cache[o].status]]

Valid(list) == {o \in DOMAIN list : list[o].status.contentValid = "True"}
Active(list) == {o \in DOMAIN list : list[o].status.activeBindings > 0}
Blocked(list) == {o \in Active(list) : list[o].deleting}

\* A metric, and the metrics f sent in addition to those of g.
Gauge(name, value) == [n \in {name} |-> value]

Together(f, g) ==
  [n \in DOMAIN f \cup DOMAIN g |-> IF n \in DOMAIN f THEN f[n] ELSE g[n]]

Partition(list, in, inName, outName) ==
  Together(Gauge(inName, Cardinality(in)),
           Gauge(outName, Cardinality(DOMAIN list \ in)))

Emit(step, gauges) ==
  [scrape EXCEPT !.step = step, !.gauges = Together(gauges, @)]

ListFails(step) == [scrape EXCEPT !.step = step, !.errors = @ + 1]

CollectPipelineConfigs ==
  /\ scrape.step \in {"idle", "done"}
  /\ LET list == List(PipelineConfigs) IN
     \/ scrape' = [NotScraped EXCEPT
          !.step = "bindings", !.pcList = Listed(list),
          !.gauges = Partition(list, Valid(list), "valid", "invalid")]
     \/ scrape' = [NotScraped EXCEPT !.step = "bindings", !.errors = 1]

\* A binding without a phase counts as pending.
PhaseLabel(status) == IF status.phase = "" THEN "Pending" ELSE status.phase

CollectCollectorGroupBindings ==
  /\ scrape.step = "bindings"
  /\ LET list == List(Bindings) IN
     \/ scrape' = Emit("groups",
          [phase \in {"Pending", "Active", "Degraded"} |->
             Cardinality({b \in DOMAIN list : PhaseLabel(list[b].status) = phase})])
     \/ scrape' = ListFails("groups")

CollectCollectorGroups ==
  /\ scrape.step = "groups"
  /\ LET list == List(CollectorGroups) IN
     \/ scrape' = [Emit("blocked", Partition(list, Active(list), "active", "inactive"))
                     EXCEPT !.cgList = Listed(list)]
     \/ scrape' = ListFails("blocked")

BlockedGauge(list, name) ==
  IF list.failed THEN <<>> ELSE Gauge(name, Cardinality(Blocked(list.items)))

\* Mistake: the CollectorGroups are listed again.
RelistedDeletionBlocked ==
  /\ scrape.step = "blocked"
  /\ scrape' = Emit("tenants",
       Together(BlockedGauge(scrape.pcList, "blockedPipelineConfigs"),
                BlockedGauge(Listed(List(CollectorGroups)),
                             "blockedCollectorGroups")))

CollectDeletionBlocked ==
  /\ scrape.step = "blocked"
  /\ scrape' = Emit("tenants",
       Together(BlockedGauge(scrape.pcList, "blockedPipelineConfigs"),
                BlockedGauge(scrape.cgList, "blockedCollectorGroups")))

CollectRegisteredTenants ==
  /\ scrape.step = "tenants"
  /\ LET list == List(Bindings) IN
     \/ scrape' = Emit("done", Gauge("tenants",
          MapThenSumSet(LAMBDA b : Cardinality(list[b].status.registeredTenants),
                        DOMAIN list)))
     \/ scrape' = ListFails("done")

CollectMore ==
  \/ CollectCollectorGroupBindings \/ CollectCollectorGroups
  \/ CollectDeletionBlocked \/ CollectRegisteredTenants
=============================================================================
