-------------------------- MODULE CollectorService --------------------------
(***************************************************************************)
(* The GetConfig handler of internal/service/collector_service.go behind   *)
(* the metrics interceptor of internal/interceptor/metrics_interceptor.go. *)
(*                                                                         *)
(* A poll refreshes the registration of its collector, whatever comes of   *)
(* that, walks the chain tenant, collector group, default, and answers     *)
(* with a configuration, with NotModified or with an error code. It is     *)
(* counted in three places: where a step of the chain ends (observe),      *)
(* where the answer is decided (GetConfig) and where the handler has       *)
(* returned (the interceptor). A collector has one poll in progress at a   *)
(* time; polls of several collectors interleave with one another and with  *)
(* the cache.                                                              *)
(***************************************************************************)
EXTENDS ConfigResolver

ASSUME FiniteCollectors == IsFiniteSet(Collectors)

VARIABLES
  poll,      \* the GetConfig call each collector has in progress
  held,      \* what each collector holds: content, hash, and (history) the
             \* version of each PipelineConfig it was last served
  metrics    \* the counters of metrics.go that the call path increments

serviceVars == <<poll, held, metrics>>

Codes == {"ok", "not_found", "unavailable", "internal"}

NoPoll == [step |-> "idle"]
NoAnswer == [config |-> NoRef]   \* an answer without a configuration
Walking == [step : Paths]
Getting == [step : {"get"}, path : {"tenant", "collectorgroup"},
            ref : PipelineConfigs]
Resolved == [step : {"resolved"}, answer : ResolvedConfigs]
Returning ==
  [step : {"return"}, code : Codes, answer : ResolvedConfigs \cup {NoAnswer}]
PollSet == {NoPoll} \cup Walking \cup Getting \cup Resolved \cup Returning

HeldSet ==
  [content : Contents \cup {EmptyContent}, hash : Hashes,
   seen : [PipelineConfigs -> Nat]]

MetricsSet ==
  [resolutions : [Paths \X Outcomes -> Nat], served : Nat,
   notModified : Nat, requests : [Codes -> Nat]]

NoMetrics ==
  [resolutions |-> [x \in Paths \X Outcomes |-> 0],
   served |-> 0, notModified |-> 0, requests |-> [k \in Codes |-> 0]]

NothingHeld ==
  [content |-> EmptyContent, hash |-> NoHash,
   seen |-> [p \in PipelineConfigs |-> 0]]

ServiceInit ==
  /\ poll = [c \in Collectors |-> NoPoll]
  /\ held = [c \in Collectors |-> NothingHeld]
  /\ metrics = NoMetrics

ServiceTypeOK ==
  /\ poll \in [Collectors -> PollSet]
  /\ held \in [Collectors -> HeldSet]
  /\ metrics \in MetricsSet

-----------------------------------------------------------------------------

\* The step of the chain that resolveConfig tries after path.
NextPath(path, c) ==
  IF path = "start" /\ TenantOf[c] # NoRef THEN "tenant"
  ELSE IF path \in {"start", "tenant"} /\ GroupOf[c] # NoRef
  THEN "collectorgroup"
  ELSE "default"

Continue(c, p) == poll' = [poll EXCEPT ![c] = p]

\* refreshActiveTenants; a collector without tenant is refused by it.
GetConfig(c) ==
  /\ poll[c] = NoPoll /\ rpc[c] = NoCall
  /\ \/ Register(c)
     \/ TenantOf[c] = NoRef /\ UNCHANGED <<apiVars, rpc>>
  /\ Continue(c, [step |-> NextPath("start", c)])
  /\ UNCHANGED <<held, metrics>>

\* Mistake: ResolveDefault calls the inner resolver directly.
ObservedUnlessDefault(path, outcome) ==
  IF path = "default" THEN metrics
  ELSE [metrics EXCEPT !.resolutions[<<path, outcome>>] = @ + 1]

\* MetricsConfigResolver.observe.
Observed(path, outcome) ==
  [metrics EXCEPT !.resolutions[<<path, outcome>>] = @ + 1]

\* Mistake: the label of the outcome is taken for the code.
OutcomeAsCode(outcome) == outcome

MapError(outcome) ==
  CASE outcome = "not_found" -> "not_found"
    [] outcome = "not_ready" -> "unavailable"
    [] OTHER -> "internal"

ReturnError(c, path, outcome) ==
  /\ metrics' = Observed(path, outcome)
  /\ Continue(c, [step |-> "return", code |-> MapError(outcome),
                  answer |-> NoAnswer])
  /\ UNCHANGED held

\* The end of the chain at p: resolveConfig returns a result or an error.
Conclude(c, path, p) ==
  \/ /\ Outcome(p) = "found"
     /\ metrics' = Observed(path, "found")
     /\ Continue(c, [step |-> "resolved", answer |-> ResolvedConfig(p)])
     /\ UNCHANGED held
  \/ Outcome(p) # "found" /\ ReturnError(c, path, Outcome(p))

\* The list of resolveByIndex, once the registration is through.
ListBindings(c) ==
  /\ poll[c].step \in {"tenant", "collectorgroup"} /\ rpc[c] = NoCall
  /\ LET path == poll[c].step IN
     \/ /\ Matches(path, c) = {}
        /\ metrics' = Observed(path, "not_found")
        /\ Continue(c, [step |-> NextPath(path, c)])
     \/ /\ \E b \in Matches(path, c) :
             Continue(c, [step |-> "get", path |-> path,
                      ref |-> cache[b].spec.pipelineConfigRef])
        /\ UNCHANGED metrics
  /\ UNCHANGED held

\* The get of resolveByIndex.
GetPipelineConfig(c) ==
  /\ poll[c].step = "get"
  /\ Conclude(c, poll[c].path, poll[c].ref)

ResolveDefault(c) ==
  /\ poll[c].step = "default" /\ rpc[c] = NoCall
  /\ \/ DefaultMatches = {} /\ ReturnError(c, "default", "not_found")
     \/ \E p \in DefaultMatches : Conclude(c, "default", p)

\* A list or a get fails for another reason than that nothing is there.
ReadFails(c) ==
  LET path == IF poll[c].step = "get" THEN poll[c].path ELSE poll[c].step IN
  /\ poll[c].step \in Paths \cup {"get"} /\ rpc[c] = NoCall
  /\ ReturnError(c, path, "error")

\* The rest of GetConfig compares the hash the collector polled with to the
\* result, whatever the cache holds by now.
Respond(c) ==
  LET resolved == poll[c].answer
      return(answer) ==
        Continue(c, [step |-> "return", code |-> "ok", answer |-> answer])
  IN /\ poll[c].step = "resolved"
     /\ \/ /\ held[c].hash = resolved.hash
           /\ metrics' = [metrics EXCEPT !.notModified = @ + 1]
           /\ return(NoAnswer)
        \/ /\ held[c].hash # resolved.hash
           /\ metrics' = [metrics EXCEPT !.served = @ + 1]
           /\ return(resolved)
     /\ UNCHANGED held

\* The collector takes an answer.
Receive(c, answer) ==
  held' = [held EXCEPT ![c] =
    [content |-> answer.content, hash |-> answer.hash,
     seen |-> [held[c].seen EXCEPT ![answer.config] = answer.version]]]

\* The interceptor, after the handler has returned. The response it lets pass
\* may be lost on its way.
CountRequest(c) ==
  /\ poll[c].step = "return"
  /\ metrics' = [metrics EXCEPT !.requests[poll[c].code] = @ + 1]
  /\ Continue(c, NoPoll)
  /\ \/ poll[c].answer # NoAnswer /\ Receive(c, poll[c].answer)
     \/ UNCHANGED held

ServiceStep(c) ==
  /\ ListBindings(c) \/ GetPipelineConfig(c) \/ ResolveDefault(c)
       \/ ReadFails(c) \/ Respond(c) \/ CountRequest(c)
  /\ UNCHANGED <<apiVars, rpc>>

\* A new process: calls in progress are gone and every counter starts over.
ServiceRestart ==
  /\ poll' = [c \in Collectors |-> NoPoll]
  /\ metrics' = NoMetrics
  /\ UNCHANGED held
=============================================================================
