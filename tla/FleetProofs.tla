---------------------------- MODULE FleetProofs ----------------------------
(***************************************************************************)
(* Proofs about Fleet: it is a fleet around the operator of Operator, so   *)
(* everything proved of that holds here, and what its collectors are       *)
(* served is the feed that ConfigFeed promises.                            *)
(***************************************************************************)
EXTENDS Fleet, WriteProofs

-----------------------------------------------------------------------------
(* The operator inside the fleet.                                          *)

LEMMA FleetStep ==
  ASSUME [FleetNext]_fleetVars
  PROVE  [Next]_vars
<1>1. CASE OperatorStep
  BY <1>1 DEF OperatorStep
<1>2. ASSUME NEW c \in Collectors, RegistryRpc(c) PROVE Next
  BY <1>2 DEF RegistryRpc, Next
<1>3. ASSUME NEW c \in Collectors, Poll(c) PROVE [Next]_vars
  <2>1. CASE Register(c)
    <3>1. TenantOf[c] # NoRef
      BY <2>1 DEF Register
    <3>2. RegistryCall(c)
      BY <1>3, <2>1, <3>1 DEF Poll, RegistryCall
    <3>3. QED BY <3>2 DEF Next
  <2>2. CASE TenantOf[c] = NoRef /\ UNCHANGED <<apiVars, rpc>>
    BY <1>3, <2>2 DEF Poll, vars, boundVars
  <2>3. QED BY <1>3, <2>1, <2>2 DEF Poll, GetConfig
<1>4. ASSUME NEW c \in Collectors, PollStep(c) PROVE UNCHANGED vars
  BY <1>4 DEF PollStep, ServiceStep, vars
<1>5. CASE Scrape
  BY <1>5 DEF Scrape
<1>6. CASE FleetRestart
  BY <1>6 DEF FleetRestart, Next
<1>7. CASE UNCHANGED fleetVars
  BY <1>7 DEF fleetVars
<1>8. QED BY <1>1, <1>2, <1>3, <1>4, <1>5, <1>6, <1>7 DEF FleetNext

\* Polls, scrapes and restarts of the whole process add nothing to what the
\* operator may do: every theorem about Spec is one about the fleet.
THEOREM FleetRunsOperator == FleetSpec => Spec
<1>1. FleetInit => Init
  BY DEF FleetInit
<1>2. [FleetNext]_fleetVars => [Next]_vars
  BY FleetStep
<1>3. QED BY <1>1, <1>2, PTL DEF FleetSpec, Spec

-----------------------------------------------------------------------------
(* Type correctness.                                                       *)

\* The calls in progress by their step.
LEMMA PollFields ==
  ASSUME ServiceTypeOK, NEW c \in Collectors
  PROVE  /\ poll[c].step = "get" =>
              /\ poll[c].path \in {"tenant", "collectorgroup"}
              /\ poll[c].ref \in PipelineConfigs
         /\ poll[c].step = "resolved" => poll[c].answer \in ResolvedConfigs
         /\ poll[c].step = "return" =>
              /\ poll[c].code \in Codes
              /\ poll[c].answer \in ResolvedConfigs \cup {NoAnswer}
<1>1. poll[c] \in {NoPoll} \cup Walking \cup Getting \cup Resolved \cup Returning
  BY DEF ServiceTypeOK, PollSet
<1>2. QED BY <1>1 DEF NoPoll, Walking, Getting, Resolved, Returning, Paths

LEMMA PollChanged ==
  ASSUME ServiceTypeOK, NEW c \in Collectors, NEW x \in PollSet, Continue(c, x)
  PROVE  poll' \in [Collectors -> PollSet]
BY DEF ServiceTypeOK, Continue

\* The counters after an observation.
LEMMA ObservedType ==
  ASSUME ServiceTypeOK, NEW path \in Paths, NEW outcome \in Outcomes
  PROVE  Observed(path, outcome) \in MetricsSet
<1>1. metrics \in MetricsSet /\ <<path, outcome>> \in Paths \X Outcomes
  BY DEF ServiceTypeOK
<1> DEFINE r == [metrics.resolutions EXCEPT ![<<path, outcome>>] = @ + 1]
<1>2. metrics.resolutions \in [Paths \X Outcomes -> Nat]
  BY <1>1 DEF MetricsSet
<1>3. r \in [Paths \X Outcomes -> Nat]
  BY <1>1, <1>2
<1>4. Observed(path, outcome) = [metrics EXCEPT !.resolutions = r]
  BY <1>1 DEF Observed, MetricsSet
<1> HIDE DEF r
<1>5. QED BY <1>1, <1>3, <1>4 DEF MetricsSet

\* A resolved configuration.
LEMMA ResolvedType ==
  ASSUME CacheTypeOK, NEW p \in PipelineConfigs
  PROVE  /\ Outcome(p) \in Outcomes
         /\ cache[p].rv \in Nat
         /\ Outcome(p) = "found" =>
              cache[p].exists /\ ResolvedConfig(p) \in ResolvedConfigs
<1>1. /\ cache[p] \in Version(p) /\ SpecSet(p) = PipelineConfigSpec
      /\ StatusSet(p) = PipelineConfigStatus
  BY DEF CacheTypeOK, Objects, SpecSet, StatusSet
<1>2. /\ cache[p].exists => cache[p].spec \in PipelineConfigSpec
      /\ cache[p].status \in PipelineConfigStatus /\ cache[p].rv \in Nat
  BY <1>1, VersionFields
<1>3. ASSUME Outcome(p) = "found"
      PROVE  cache[p].exists /\ ResolvedConfig(p) \in ResolvedConfigs
  <2>1. /\ cache[p].exists
        /\ cache[p].status.contentHash \in Hashes \ {NoHash}
        /\ cache[p].spec.content \in Contents \cup {EmptyContent}
    BY <1>2, <1>3 DEF Outcome, PipelineConfigSpec, PipelineConfigStatus
  <2>2. QED BY <1>2, <2>1 DEF ResolvedConfig, ResolvedConfigs
<1>4. QED BY <1>2, <1>3 DEF Outcome, Outcomes

LEMMA ResolvedIsAnswer ==
  ASSUME NEW a \in ResolvedConfigs
  PROVE  a # NoAnswer
<1>1. a.config \in Objects /\ NoAnswer.config = NoRef
  BY DEF ResolvedConfigs, NoAnswer, Objects
<1>2. QED BY <1>1, NamesNonEmpty

\* Call c has a configuration to answer with.
HasAnswer(c) ==
  poll[c].step \in {"resolved", "return"} /\ poll[c].answer # NoAnswer

\* What a step does to the answers on their way: there is no new one, or call c
\* finds the cached version of a PipelineConfig, or decides to send it, or its
\* collector takes it.
NoNewAnswer ==
  /\ UNCHANGED held
  /\ \A c \in Collectors : poll'[c] = poll[c] \/ ~HasAnswer(c)'

Others(c) == \A d \in Collectors \ {c} : poll'[d] = poll[d]

Finds(c) ==
  /\ UNCHANGED held /\ Others(c)
  /\ \E p \in PipelineConfigs :
       /\ Outcome(p) = "found"
       /\ poll'[c] = [step |-> "resolved", answer |-> ResolvedConfig(p)]

Decides(c) ==
  /\ UNCHANGED held /\ Others(c) /\ poll[c].step = "resolved"
  /\ held[c].hash # poll[c].answer.hash
  /\ poll'[c] = [step |-> "return", code |-> "ok", answer |-> poll[c].answer]

Takes(c) ==
  /\ poll[c].step = "return" /\ poll[c].answer # NoAnswer
  /\ Receive(c, poll[c].answer)
  /\ Others(c) /\ poll'[c] = NoPoll

Answering(c) == NoNewAnswer \/ Finds(c) \/ Decides(c) \/ Takes(c)

LEMMA ContinueOnly ==
  ASSUME ServiceTypeOK, NEW c \in Collectors, NEW x, Continue(c, x)
  PROVE  poll'[c] = x /\ Others(c)
BY DEF ServiceTypeOK, Continue, Others

LEMMA ContinueWithout ==
  ASSUME ServiceTypeOK, NEW c \in Collectors, NEW x, Continue(c, x),
         x.step \notin {"resolved", "return"} \/ x.answer = NoAnswer,
         UNCHANGED held
  PROVE  Answering(c)
<1>1. poll'[c] = x /\ \A d \in Collectors \ {c} : poll'[d] = poll[d]
  BY ContinueOnly DEF Others
<1>2. ~HasAnswer(c)'
  BY <1>1 DEF HasAnswer
<1>3. \A d \in Collectors : poll'[d] = poll[d] \/ ~HasAnswer(d)'
  BY <1>1, <1>2
<1>4. QED BY <1>3 DEF Answering, NoNewAnswer

LEMMA ReturnErrorType ==
  ASSUME ServiceTypeOK, NEW c \in Collectors, NEW path \in Paths,
         NEW outcome \in Outcomes, ReturnError(c, path, outcome)
  PROVE  ServiceTypeOK' /\ Answering(c)
<1> DEFINE x == [step |-> "return", code |-> MapError(outcome),
                 answer |-> NoAnswer]
<1>1. x \in PollSet /\ x.answer = NoAnswer
  BY DEF PollSet, Returning, MapError, Codes
<1>2. Continue(c, x) /\ UNCHANGED held
  BY DEF ReturnError
<1> HIDE DEF x
<1>3. poll' \in [Collectors -> PollSet]
  BY <1>1, <1>2, PollChanged
<1>4. metrics' \in MetricsSet
  BY ObservedType DEF ReturnError
<1>5. Answering(c)
  BY <1>1, <1>2, ContinueWithout
<1>6. QED BY <1>2, <1>3, <1>4, <1>5 DEF ServiceTypeOK

LEMMA ConcludeType ==
  ASSUME ServiceTypeOK, CacheTypeOK, NEW c \in Collectors, NEW path \in Paths,
         NEW p \in PipelineConfigs, Conclude(c, path, p)
  PROVE  ServiceTypeOK' /\ Answering(c)
<1>1. Outcome(p) \in Outcomes
  BY ResolvedType
<1>2. CASE ReturnError(c, path, Outcome(p))
  BY <1>1, <1>2, ReturnErrorType
<1>3. CASE /\ Outcome(p) = "found" /\ metrics' = Observed(path, "found")
           /\ Continue(c, [step |-> "resolved", answer |-> ResolvedConfig(p)])
           /\ UNCHANGED held
  <2> DEFINE x == [step |-> "resolved", answer |-> ResolvedConfig(p)]
  <2>1. x \in PollSet
    BY <1>3, ResolvedType DEF PollSet, Resolved
  <2>2. poll' \in [Collectors -> PollSet]
    BY <1>3, <2>1, PollChanged
  <2>3. metrics' \in MetricsSet
    BY <1>3, ObservedType DEF Outcomes
  <2>4. poll'[c] = x /\ Others(c)
    BY <1>3, ContinueOnly
  <2>5. Answering(c)
    BY <1>3, <2>4 DEF Answering, Finds
  <2>6. QED BY <1>3, <2>2, <2>3, <2>5 DEF ServiceTypeOK
<1>4. QED BY <1>2, <1>3 DEF Conclude

LEMMA RespondType ==
  ASSUME ServiceTypeOK, NEW c \in Collectors, Respond(c)
  PROVE  ServiceTypeOK' /\ Answering(c)
<1> DEFINE a == poll[c].answer
           x(answer) == [step |-> "return", code |-> "ok", answer |-> answer]
<1>1. /\ a \in ResolvedConfigs /\ UNCHANGED held /\ poll[c].step = "resolved"
      /\ metrics \in MetricsSet
  BY PollFields DEF Respond, ServiceTypeOK
<1>2. x(a) \in PollSet /\ x(NoAnswer) \in PollSet
  BY <1>1 DEF PollSet, Returning, Codes
<1>3. CASE metrics' = [metrics EXCEPT !.notModified = @ + 1] /\ Continue(c, x(NoAnswer))
  <2>1. metrics' \in MetricsSet
    BY <1>1, <1>3 DEF MetricsSet
  <2>2. poll' \in [Collectors -> PollSet]
    BY <1>2, <1>3, PollChanged
  <2>3. Answering(c)
    BY <1>1, <1>3, ContinueWithout
  <2>4. QED BY <1>1, <2>1, <2>2, <2>3 DEF ServiceTypeOK
<1>4. CASE /\ held[c].hash # a.hash
           /\ metrics' = [metrics EXCEPT !.served = @ + 1] /\ Continue(c, x(a))
  <2>1. metrics' \in MetricsSet
    BY <1>1, <1>4 DEF MetricsSet
  <2>2. poll' \in [Collectors -> PollSet]
    BY <1>2, <1>4, PollChanged
  <2>3. poll'[c] = x(a) /\ Others(c)
    BY <1>4, ContinueOnly
  <2>4. Answering(c)
    BY <1>1, <1>4, <2>3 DEF Answering, Decides
  <2>5. QED BY <1>1, <2>1, <2>2, <2>4 DEF ServiceTypeOK
<1>5. QED BY <1>3, <1>4 DEF Respond

LEMMA ReceiveType ==
  ASSUME ServiceTypeOK, NEW c \in Collectors, NEW a \in ResolvedConfigs,
         Receive(c, a)
  PROVE  held' \in [Collectors -> HeldSet]
<1> DEFINE new == [content |-> a.content, hash |-> a.hash,
                   seen |-> [held[c].seen EXCEPT ![a.config] = a.version]]
<1>1. held \in [Collectors -> HeldSet] /\ held[c].seen \in [PipelineConfigs -> Nat]
  BY DEF ServiceTypeOK, HeldSet
<1>2. [held[c].seen EXCEPT ![a.config] = a.version] \in [PipelineConfigs -> Nat]
  BY <1>1 DEF ResolvedConfigs
<1>3. new \in HeldSet
  BY <1>2 DEF HeldSet, ResolvedConfigs
<1>4. held' = [held EXCEPT ![c] = new]
  BY DEF Receive
<1> HIDE DEF new
<1>5. QED BY <1>1, <1>3, <1>4

LEMMA CountRequestType ==
  ASSUME ServiceTypeOK, NEW c \in Collectors, CountRequest(c)
  PROVE  ServiceTypeOK' /\ Answering(c)
<1>1. /\ poll[c].code \in Codes /\ poll[c].step = "return"
      /\ poll[c].answer \in ResolvedConfigs \cup {NoAnswer}
      /\ Continue(c, NoPoll) /\ NoPoll \in PollSet
  BY PollFields DEF CountRequest, PollSet
<1> DEFINE r == [metrics.requests EXCEPT ![poll[c].code] = @ + 1]
<1>2. metrics \in MetricsSet /\ metrics.requests \in [Codes -> Nat]
  BY DEF ServiceTypeOK, MetricsSet
<1>3. r \in [Codes -> Nat]
  BY <1>1, <1>2
<1>4. metrics' = [metrics EXCEPT !.requests = r]
  BY <1>2 DEF CountRequest, MetricsSet
<1> HIDE DEF r
<1>5. metrics' \in MetricsSet
  BY <1>2, <1>3, <1>4 DEF MetricsSet
<1>6. poll' \in [Collectors -> PollSet]
  BY <1>1, PollChanged
<1>7. CASE UNCHANGED held
  <2>1. Answering(c)
    BY <1>1, <1>7, ContinueWithout DEF NoPoll
  <2>2. QED BY <1>5, <1>6, <1>7, <2>1 DEF ServiceTypeOK
<1>8. CASE poll[c].answer # NoAnswer /\ Receive(c, poll[c].answer)
  <2>1. held' \in [Collectors -> HeldSet]
    BY <1>1, <1>8, ReceiveType
  <2>2. poll'[c] = NoPoll /\ Others(c)
    BY <1>1, ContinueOnly
  <2>3. Answering(c)
    BY <1>1, <1>8, <2>2 DEF Answering, Takes
  <2>4. QED BY <1>5, <1>6, <2>1, <2>3 DEF ServiceTypeOK
<1>9. QED BY <1>7, <1>8 DEF CountRequest

\* A step of a call, from the list of the bindings to the interceptor.
LEMMA ServiceStepType ==
  ASSUME ServiceTypeOK, CacheTypeOK, NEW c \in Collectors, ServiceStep(c)
  PROVE  ServiceTypeOK' /\ Answering(c)
<1>1. CASE ListBindings(c)
  <2> DEFINE path == poll[c].step
             x == [step |-> NextPath(path, c)]
  <2>1. path \in Paths /\ UNCHANGED held
    BY <1>1 DEF ListBindings, Paths
  <2>2. CASE metrics' = Observed(path, "not_found") /\ Continue(c, x)
    <3>1. x \in PollSet /\ x.step \notin {"resolved", "return"}
      BY DEF NextPath, PollSet, Walking, Paths
    <3>2. metrics' \in MetricsSet
      BY <2>1, <2>2, ObservedType DEF Outcomes
    <3> HIDE DEF x
    <3>3. poll' \in [Collectors -> PollSet]
      BY <2>2, <3>1, PollChanged
    <3>4. Answering(c)
      BY <2>1, <2>2, <3>1, ContinueWithout
    <3>5. QED BY <2>1, <3>2, <3>3, <3>4 DEF ServiceTypeOK
  <2>3. ASSUME NEW b \in Matches(path, c), UNCHANGED metrics,
               Continue(c, [step |-> "get", path |-> path,
                            ref |-> cache[b].spec.pipelineConfigRef])
        PROVE  ServiceTypeOK' /\ Answering(c)
    <3> DEFINE y == [step |-> "get", path |-> path,
                     ref |-> cache[b].spec.pipelineConfigRef]
    <3>1. b \in Bindings /\ cache[b].exists
      BY DEF Matches, TenantBindings, GroupBindings
    <3>2. cache[b] \in BindingVersion
      BY <3>1, BindingVersions DEF CacheTypeOK
    <3>3. cache[b].spec.pipelineConfigRef \in PipelineConfigs
      BY <3>1, <3>2, BindingRefs DEF NewPC
    <3>4. y \in PollSet /\ y.step \notin {"resolved", "return"}
      BY <1>1, <3>3 DEF ListBindings, PollSet, Getting
    <3>5. Continue(c, y)
      BY <2>3
    <3> HIDE DEF y
    <3>6. poll' \in [Collectors -> PollSet]
      BY <3>4, <3>5, PollChanged
    <3>7. Answering(c)
      BY <2>1, <3>4, <3>5, ContinueWithout
    <3>8. QED BY <2>1, <2>3, <3>6, <3>7 DEF ServiceTypeOK
  <2>4. QED BY <1>1, <2>2, <2>3 DEF ListBindings
<1>2. CASE GetPipelineConfig(c)
  BY <1>2, PollFields, ConcludeType DEF GetPipelineConfig, Paths
<1>3. CASE ResolveDefault(c)
  BY <1>3, DefaultsAssumption, ReturnErrorType, ConcludeType
     DEF ResolveDefault, DefaultMatches, Paths, Outcomes
<1>4. CASE ReadFails(c)
  BY <1>4, PollFields, ReturnErrorType DEF ReadFails, Paths, Outcomes
<1>5. QED
  BY <1>1, <1>2, <1>3, <1>4, RespondType, CountRequestType DEF ServiceStep

-----------------------------------------------------------------------------
(* The history of versions.                                                *)

\* The version v is in the history s: its content has the place of its
\* resourceVersion, and its hash is that of its own or of an earlier content.
RecordedIn(s, v) ==
  v.exists =>
    /\ v.rv \in 1 .. Len(s) /\ s[v.rv] = v.spec.content
    /\ v.status.contentHash # NoHash =>
         \E m \in 1 .. v.rv :
           s[m] \in Contents /\ v.status.contentHash = Sha256(s[m])

\* Every copy of a PipelineConfig is in its history, and no collector has seen
\* a version the cache does not have yet.
VersionsRecorded ==
  /\ \A p \in PipelineConfigs :
       /\ Len(feed[p]) = store[p].rv
       /\ RecordedIn(feed[p], store[p])
       /\ RecordedIn(feed[p], cache[p])
  /\ \A k \in Kinds : \A i \in 1 .. Len(watch[k]) :
       watch[k][i].object \in PipelineConfigs
       => RecordedIn(feed[watch[k][i].object], watch[k][i].version)
  /\ \A c \in Collectors : \A p \in PipelineConfigs :
       held[c].seen[p] <= cache[p].rv

\* An answer as the version it was read from.
AsVersion(a) ==
  [exists |-> TRUE, rv |-> a.version, spec |-> [content |-> a.content],
   status |-> [contentHash |-> a.hash]]

\* Answer a of call c is in the history, between what the collector has seen
\* and what the cache holds.
AnswerInOrder(c, a) ==
  /\ RecordedIn(feed[a.config], AsVersion(a))
  /\ held[c].seen[a.config] <= a.version /\ a.version <= cache[a.config].rv

\* The answers on their way are, and one that is sent has a hash the collector
\* does not have.
AnswersRecorded ==
  \A c \in Collectors : HasAnswer(c) =>
    /\ AnswerInOrder(c, poll[c].answer)
    /\ poll[c].step = "return" => held[c].hash # poll[c].answer.hash

FleetInv ==
  /\ SoundInv /\ EventsInOrder /\ FleetTypeOK
  /\ VersionsRecorded /\ AnswersRecorded

FeedItems == Contents \cup {EmptyContent, Withdrawn}

\* A history that grows keeps what is in it.
LEMMA RecordedLonger ==
  ASSUME NEW S, NEW s \in Seq(S), NEW x \in S, NEW v, RecordedIn(s, v)
  PROVE  RecordedIn(Append(s, x), v)
<1>1. /\ Len(s) \in Nat /\ Len(Append(s, x)) = Len(s) + 1
      /\ \A i \in 1 .. Len(s) : Append(s, x)[i] = s[i]
  OBVIOUS
<1>2. CASE v.exists
  <2>1. v.rv \in 1 .. Len(s) /\ s[v.rv] = v.spec.content
    BY <1>2 DEF RecordedIn
  <2>2. v.rv \in 1 .. Len(Append(s, x)) /\ Append(s, x)[v.rv] = v.spec.content
    BY <1>1, <2>1
  <2>3. ASSUME v.status.contentHash # NoHash
        PROVE  \E m \in 1 .. v.rv : /\ Append(s, x)[m] \in Contents
                                    /\ v.status.contentHash = Sha256(Append(s, x)[m])
    <3>1. PICK m \in 1 .. v.rv :
            s[m] \in Contents /\ v.status.contentHash = Sha256(s[m])
      BY <1>2, <2>3 DEF RecordedIn
    <3>2. Append(s, x)[m] = s[m]
      BY <1>1, <2>1
    <3>3. QED BY <3>1, <3>2
  <2>4. QED BY <2>2, <2>3 DEF RecordedIn
<1>3. CASE ~v.exists
  BY <1>3 DEF RecordedIn
<1>4. QED BY <1>2, <1>3

\* A write of PipelineConfig p puts the new version at the end of its history.
LEMMA WriteRecorded ==
  ASSUME FleetInv, NEW p \in PipelineConfigs, NEW v, Put(p, v), Written(p, v),
         store'[p] # store[p]
  PROVE  LET s == Append(feed[p], ContentOf(store'[p]))
         IN /\ ContentOf(store'[p]) \in FeedItems
            /\ Len(s) = store'[p].rv /\ RecordedIn(s, store'[p])
<1> DEFINE w == store'[p]
           x == ContentOf(w)
           s == Append(feed[p], x)
           n == store[p].rv
<1> USE DEF FleetInv
<1>1. p \in Objects /\ StoreTypeOK /\ v \in Version(p) /\ HashKept(p, v)
      /\ store[p] \in Version(p) /\ n \in Nat
  BY StoredFields
     DEF Objects, SoundInv, TypeInv, TypeOK, ApiTypeOK, Written
<1>2. /\ w \in Version(p) /\ w.rv = n + 1 /\ w.exists = v.exists
      /\ w.spec = v.spec /\ w.status = v.status
  BY <1>1, PutStore
<1>3. w.exists => w.spec.content \in Contents \cup {EmptyContent}
  BY <1>2, VersionFields DEF SpecSet, PipelineConfigSpec
<1>4. x \in FeedItems
  BY <1>3 DEF ContentOf, FeedItems
<1>5. feed[p] \in Seq(FeedItems) /\ Len(feed[p]) = n
      /\ RecordedIn(feed[p], store[p])
  BY DEF FleetTypeOK, VersionsRecorded, FeedItems
<1> HIDE DEF w, x, n
<1>6. /\ Len(s) = n + 1 /\ s[n + 1] = x
      /\ \A i \in 1 .. n : s[i] = feed[p][i]
  BY <1>1, <1>4, <1>5
<1> HIDE DEF s
<1>7. ASSUME w.exists, w.status.contentHash # NoHash
      PROVE  \E m \in 1 .. w.rv :
               s[m] \in Contents /\ w.status.contentHash = Sha256(s[m])
  <2>1. store[p].exists
    BY <1>1, <1>2, <1>7 DEF HashKept
  <2>2. n \in 1 .. n /\ feed[p][n] = store[p].spec.content
    BY <1>5, <2>1 DEF RecordedIn, n
  <2>3. CASE w.status.contentHash = store[p].status.contentHash
    <3>1. PICK m \in 1 .. n : feed[p][m] \in Contents
                              /\ w.status.contentHash = Sha256(feed[p][m])
      BY <1>5, <1>7, <2>1, <2>3 DEF RecordedIn, n
    <3>2. m \in 1 .. w.rv /\ s[m] = feed[p][m]
      BY <1>1, <1>2, <1>6
    <3>3. QED BY <3>1, <3>2
  <2>4. CASE /\ store[p].spec.content # EmptyContent
             /\ w.status.contentHash = Sha256(store[p].spec.content)
    <3>1. store[p].spec.content \in Contents
      BY <1>1, <2>1, <2>4, VersionFields DEF SpecSet, PipelineConfigSpec
    <3>2. n \in 1 .. w.rv /\ s[n] = store[p].spec.content
      BY <1>1, <1>2, <1>6, <2>2
    <3>3. QED BY <2>4, <3>1, <3>2
  <2>5. QED BY <1>1, <1>2, <1>7, <2>3, <2>4 DEF HashKept
<1>8. w.exists => w.rv \in 1 .. Len(s) /\ s[w.rv] = w.spec.content
  BY <1>1, <1>2, <1>6 DEF ContentOf, x
<1>9. Len(s) = w.rv /\ RecordedIn(s, w)
  BY <1>2, <1>6, <1>7, <1>8 DEF RecordedIn
<1>10. QED BY <1>4, <1>9 DEF s, x, w

\* The histories after a step: nothing is new, or one version of one
\* PipelineConfig.
LEMMA HistoryStep ==
  ASSUME FleetInv, [Next]_vars, RecordVersions
  PROVE  /\ feed' \in [PipelineConfigs -> Seq(FeedItems)]
         /\ \A p \in PipelineConfigs : /\ Len(feed'[p]) = store'[p].rv
                                       /\ RecordedIn(feed'[p], store'[p])
         /\ \A p \in PipelineConfigs : \A v :
              RecordedIn(feed[p], v) => RecordedIn(feed'[p], v)
         /\ \/ feed' = feed
            \/ \E p \in PipelineConfigs : \E x \in FeedItems :
                 feed' = [feed EXCEPT ![p] = Append(@, x)]
<1> USE DEF FleetInv
<1>1. feed \in [PipelineConfigs -> Seq(FeedItems)] /\ StoreTypeOK
      /\ PipelineConfigs \subseteq Objects
  BY DEF FleetTypeOK, FeedItems, SoundInv, TypeInv, TypeOK, ApiTypeOK, Objects
<1>2. CASE \A p \in PipelineConfigs : store'[p] = store[p]
  <2>1. feed' = feed
    BY <1>1, <1>2 DEF RecordVersions
  <2>2. QED BY <1>1, <1>2, <2>1 DEF VersionsRecorded
<1>3. ASSUME NEW p \in PipelineConfigs, NEW v, Put(p, v), Written(p, v),
             store'[p] # store[p]
      PROVE  /\ feed' \in [PipelineConfigs -> Seq(FeedItems)]
             /\ \A q \in PipelineConfigs : /\ Len(feed'[q]) = store'[q].rv
                                           /\ RecordedIn(feed'[q], store'[q])
             /\ \A q \in PipelineConfigs : \A u :
                  RecordedIn(feed[q], u) => RecordedIn(feed'[q], u)
             /\ \E x \in FeedItems : feed' = [feed EXCEPT ![p] = Append(@, x)]
  <2> DEFINE x == ContentOf(store'[p])
  <2>1. \A q \in PipelineConfigs \ {p} : store'[q] = store[q]
    BY <1>1, <1>3, PutStore DEF Written
  <2>2. /\ x \in FeedItems /\ Len(Append(feed[p], x)) = store'[p].rv
        /\ RecordedIn(Append(feed[p], x), store'[p])
    BY <1>3, WriteRecorded
  <2>3. /\ feed'[p] = Append(feed[p], x)
        /\ \A q \in PipelineConfigs \ {p} : feed'[q] = feed[q]
        /\ feed' = [feed EXCEPT ![p] = Append(@, x)]
    <3>1. feed' = [q \in PipelineConfigs |->
                     IF store'[q] = store[q] THEN feed[q]
                     ELSE Append(feed[q], ContentOf(store'[q]))]
      BY DEF RecordVersions
    <3>2. /\ feed'[p] = Append(feed[p], x)
          /\ \A q \in PipelineConfigs \ {p} : feed'[q] = feed[q]
      BY <1>3, <2>1, <3>1
    <3>3. feed' = [q \in PipelineConfigs |-> feed'[q]]
      BY <3>1
    <3> HIDE DEF x
    <3>4. QED BY <1>1, <3>2, <3>3
  <2> HIDE DEF x
  <2>4. Append(feed[p], x) \in Seq(FeedItems) /\ feed[p] \in Seq(FeedItems)
    BY <1>1, <2>2
  <2>5. feed' \in [PipelineConfigs -> Seq(FeedItems)]
    BY <1>1, <2>3, <2>4
  <2>6. \A q \in PipelineConfigs : /\ Len(feed'[q]) = store'[q].rv
                                   /\ RecordedIn(feed'[q], store'[q])
    BY <2>1, <2>2, <2>3 DEF VersionsRecorded
  <2>7. ASSUME NEW q \in PipelineConfigs, NEW u, RecordedIn(feed[q], u)
        PROVE  RecordedIn(feed'[q], u)
    <3>1. CASE q = p
      <4>1. RecordedIn(Append(feed[p], x), u)
        BY <2>2, <2>4, <2>7, <3>1, RecordedLonger
      <4>2. QED BY <2>3, <3>1, <4>1
    <3>2. CASE q # p
      BY <2>3, <2>7, <3>2
    <3>3. QED BY <3>1, <3>2
  <2>8. QED BY <2>2, <2>3, <2>5, <2>6, <2>7
<1>4. ASSUME NEW o \in Objects, NEW v, Put(o, v), Written(o, v),
             ~(o \in PipelineConfigs /\ store'[o] # store[o])
      PROVE  \A p \in PipelineConfigs : store'[p] = store[p]
  BY <1>1, <1>4, PutStore DEF Written
<1>5. CASE UNCHANGED store
  BY <1>2, <1>5
<1>6. QED
  BY <1>2, <1>3, <1>4, <1>5, EveryStepMoves DEF SoundInv, Moves, WriteStep, Deliver, Relist

\* Every step records the versions it writes.
LEMMA EveryStepRecords ==
  ASSUME FleetTypeOK, [FleetNext]_fleetVars
  PROVE  RecordVersions
<1>1. CASE UNCHANGED <<store, feed>>
  BY <1>1 DEF FleetTypeOK, RecordVersions
<1>2. CASE OperatorStep
  BY <1>2 DEF OperatorStep
<1>3. ASSUME NEW c \in Collectors, RegistryRpc(c) \/ Poll(c) \/ PollStep(c)
      PROVE  UNCHANGED <<store, feed>>
  BY <1>3 DEF RegistryRpc, RegistryCall, Poll, GetConfig, Register, Unregister,
              PollStep, ServiceStep, apiVars
<1>4. CASE Scrape \/ FleetRestart \/ UNCHANGED fleetVars
  BY <1>1, <1>4
     DEF Scrape, FleetRestart, Restart, Relist, fleetVars, vars, apiVars
<1>5. QED BY <1>1, <1>2, <1>3, <1>4 DEF FleetNext

\* What a step does for the collectors.
LEMMA ServiceOrderly ==
  ASSUME FleetInv, [FleetNext]_fleetVars
  PROVE  /\ ServiceTypeOK' /\ polls' \in Nat /\ scrapes' \in Nat
         /\ \/ NoNewAnswer
            \/ /\ UNCHANGED <<feed, cache>>
               /\ \E c \in Collectors : Answering(c)
<1> USE DEF FleetInv, FleetTypeOK
<1>1. CASE UNCHANGED <<serviceVars, polls>> /\ scrapes' \in Nat
  BY <1>1 DEF serviceVars, ServiceTypeOK, NoNewAnswer
<1>2. CASE OperatorStep \/ Scrape \/ UNCHANGED fleetVars
  BY <1>1, <1>2 DEF OperatorStep, Scrape, fleetVars
<1>3. ASSUME NEW c \in Collectors, RegistryRpc(c)
      PROVE  UNCHANGED <<serviceVars, polls>> /\ scrapes' \in Nat
  BY <1>3 DEF RegistryRpc
<1>4. ASSUME NEW c \in Collectors, Poll(c)
      PROVE  /\ ServiceTypeOK' /\ polls' \in Nat /\ scrapes' \in Nat
             /\ NoNewAnswer
  <2> DEFINE x == [step |-> NextPath("start", c)]
  <2>1. x \in PollSet /\ x.step \notin {"resolved", "return"}
    BY DEF NextPath, PollSet, Walking, Paths
  <2>2. Continue(c, x) /\ UNCHANGED <<held, metrics, scrapes>> /\ polls' = polls + 1
    BY <1>4 DEF Poll, GetConfig
  <2> HIDE DEF x
  <2>3. poll' \in [Collectors -> PollSet]
    BY <2>1, <2>2, PollChanged
  <2>4. poll'[c] = x /\ \A d \in Collectors \ {c} : poll'[d] = poll[d]
    BY <2>2, ContinueOnly DEF Others
  <2>5. ~HasAnswer(c)'
    BY <2>1, <2>4 DEF HasAnswer
  <2>6. NoNewAnswer
    BY <2>2, <2>4, <2>5 DEF NoNewAnswer
  <2>7. QED BY <2>2, <2>3, <2>6 DEF ServiceTypeOK
<1>5. ASSUME NEW c \in Collectors, PollStep(c)
      PROVE  /\ ServiceTypeOK' /\ polls' \in Nat /\ scrapes' \in Nat
             /\ UNCHANGED <<feed, cache>> /\ Answering(c)
  <2>1. CacheTypeOK
    BY DEF SoundInv, TypeInv, TypeOK, ApiTypeOK
  <2>2. QED
    BY <1>5, <2>1, ServiceStepType DEF PollStep, ServiceStep, apiVars
<1>6. CASE FleetRestart
  <2>1. NoMetrics \in MetricsSet /\ NoPoll \in PollSet
    BY DEF NoMetrics, MetricsSet, PollSet
  <2>2. poll' = [c \in Collectors |-> NoPoll] /\ UNCHANGED held
    BY <1>6 DEF FleetRestart, ServiceRestart
  <2>3. NoNewAnswer
    BY <2>2 DEF NoNewAnswer, HasAnswer, NoPoll
  <2>4. QED BY <1>6, <2>1, <2>3 DEF FleetRestart, ServiceRestart, ServiceTypeOK
<1>7. QED BY <1>1, <1>2, <1>3, <1>4, <1>5, <1>6 DEF FleetNext

\* What a collector has seen grows only to the version of the answer it takes.
LEMMA SeenMoves ==
  ASSUME ServiceTypeOK, NEW d \in Collectors, Takes(d),
         NEW c \in Collectors, NEW p \in PipelineConfigs
  PROVE  LET a == poll[d].answer
         IN held'[c].seen[p] = IF c = d /\ p = a.config THEN a.version
                               ELSE held[c].seen[p]
<1> DEFINE a == poll[d].answer
<1>1. a \in ResolvedConfigs /\ held' = [held EXCEPT ![d] =
        [content |-> a.content, hash |-> a.hash,
         seen |-> [held[d].seen EXCEPT ![a.config] = a.version]]]
  BY PollFields DEF Takes, Receive
<1>2. held \in [Collectors -> HeldSet] /\ held[c].seen \in [PipelineConfigs -> Nat]
  BY DEF ServiceTypeOK, HeldSet
<1> HIDE DEF a
<1>3. CASE c # d
  BY <1>1, <1>2, <1>3 DEF a
<1>4. CASE c = d
  <2>1. held'[c].seen = [held[c].seen EXCEPT ![a.config] = a.version]
    BY <1>1, <1>2, <1>4
  <2>2. QED BY <1>2, <1>4, <2>1 DEF a
<1>5. QED BY <1>3, <1>4

\* The invariant: it holds initially and is kept.
LEMMA FleetInvInit == FleetInit => FleetInv
<1> SUFFICES ASSUME FleetInit PROVE FleetInv
  OBVIOUS
<1>1. SoundInv /\ EventsInOrder
  BY SoundInit, InOrderInit DEF FleetInit
<1>2. PICK specs \in InitialSpecs :
        /\ store = [o \in Objects |-> InitialObject(o, specs)]
        /\ cache = store /\ watch = [k \in Kinds |-> <<>>]
  BY DEF FleetInit, Init, ApiInit
<1>3. ASSUME NEW p \in PipelineConfigs
      PROVE  /\ feed[p] \in Seq(FeedItems) /\ Len(feed[p]) = store[p].rv
             /\ RecordedIn(feed[p], store[p])
  <2> DEFINE v == store[p]
             x == v.spec.content
  <2>1. v = InitialObject(p, specs)
    BY <1>2 DEF Objects
  <2>2. CASE p \notin DOMAIN specs
    <3> DEFINE w == InitialObject(p, specs)
    <3>0. ~w.exists /\ w.rv = 0
      BY <2>2 DEF InitialObject, Gone
    <3> HIDE DEF w
    <3>1. ~v.exists /\ v.rv = 0
      BY <2>1, <3>0 DEF w
    <3>2. feed[p] = <<>>
      BY <3>1 DEF FleetInit
    <3>3. QED BY <3>1, <3>2 DEF RecordedIn
  <2>3. CASE p \in DOMAIN specs
    <3> DEFINE u == Fresh(p, 1, specs[p])
    <3>1. /\ specs[p] \in PipelineConfigSpec
          /\ p \notin CollectorGroups /\ StatusSet(p) = PipelineConfigStatus
      BY <2>3, InitialSpecsAssumption, NamesDistinct DEF SpecSet, StatusSet
    <3>2. /\ u.exists /\ u.rv = 1 /\ u.spec = specs[p]
          /\ u.status = NewStatus(p) /\ u.status \in PipelineConfigStatus
          /\ NewStatus(p).contentHash = NoHash
      BY <3>1, NewStatusType DEF Fresh, NewStatus
    <3>3. /\ v.exists /\ v.rv = 1 /\ v.spec = specs[p]
          /\ \/ v.status.contentHash = NoHash
             \/ /\ specs[p].content # EmptyContent
                /\ v.status.contentHash = Sha256(specs[p].content)
      <4>1. CASE p \notin Reconciled
        BY <2>1, <2>3, <3>2, <4>1 DEF InitialObject
      <4>2. CASE p \in Reconciled
        <5>1. v = Settled(p, u)
          BY <2>1, <2>3, <4>2 DEF InitialObject
        <5>2. v.exists /\ v.rv = 1 /\ v.spec = specs[p]
          BY <5>1 DEF Settled, Fresh
        <5>3. v.status = IF specs[p].content = EmptyContent
                         THEN EmptyContentStatus(u) ELSE HashedContentStatus(u)
          BY <3>1, <5>1 DEF Settled, Fresh
        <5> HIDE DEF u, v
        <5>4. \/ v.status.contentHash = u.status.contentHash
              \/ /\ specs[p].content # EmptyContent
                 /\ v.status.contentHash = Sha256(specs[p].content)
          BY <3>2, <5>3
             DEF EmptyContentStatus, HashedContentStatus, PipelineConfigStatus
        <5>5. QED BY <3>2, <5>2, <5>4
      <4>3. QED BY <4>1, <4>2
    <3>4. x \in Contents \cup {EmptyContent} /\ x = specs[p].content
      BY <3>1, <3>3 DEF PipelineConfigSpec
    <3>5. feed[p] = <<x>>
      BY <3>3 DEF FleetInit, ContentOf
    <3>6. feed[p] \in Seq(FeedItems) /\ Len(feed[p]) = 1 /\ feed[p][1] = x
      BY <3>4, <3>5 DEF FeedItems
    <3> HIDE DEF v, x
    <3>7. v.status.contentHash # NoHash =>
            feed[p][1] \in Contents /\ v.status.contentHash = Sha256(feed[p][1])
      BY <3>3, <3>4, <3>6
    <3>8. 1 \in 1 .. v.rv /\ v.rv \in 1 .. Len(feed[p])
          /\ feed[p][v.rv] = v.spec.content
      BY <3>3, <3>6 DEF x
    <3>9. RecordedIn(feed[p], v)
      BY <3>7, <3>8 DEF RecordedIn
    <3>10. QED BY <3>3, <3>6, <3>9 DEF v
  <2>4. QED BY <2>2, <2>3
<1>4. held = [c \in Collectors |-> NothingHeld] /\ ServiceTypeOK
  <2>1. NoMetrics \in MetricsSet /\ NoPoll \in PollSet /\ NothingHeld \in HeldSet
    BY DEF NoMetrics, MetricsSet, PollSet, NothingHeld, HeldSet, Hashes
  <2>2. QED BY <2>1 DEF FleetInit, ServiceInit, ServiceTypeOK
<1>5. FleetTypeOK
  <2>1. feed = [p \in PipelineConfigs |-> feed[p]]
    BY DEF FleetInit
  <2>2. feed \in [PipelineConfigs -> Seq(FeedItems)]
    BY <1>3, <2>1
  <2>3. QED BY <1>4, <2>2 DEF FleetTypeOK, FeedItems, FleetInit
<1>6. VersionsRecorded
  <2>1. \A k \in Kinds : 1 .. Len(watch[k]) = {}
    BY <1>2
  <2>2. \A p \in PipelineConfigs : cache[p].rv \in Nat
    BY <1>1, VersionFields
       DEF SoundInv, TypeInv, TypeOK, ApiTypeOK, CacheTypeOK, Objects
  <2>3. \A c \in Collectors : \A p \in PipelineConfigs : held[c].seen[p] = 0
    BY <1>4 DEF NothingHeld
  <2>4. \A c \in Collectors : \A p \in PipelineConfigs :
          held[c].seen[p] <= cache[p].rv
    BY <2>2, <2>3
  <2>5. QED BY <1>2, <1>3, <2>1, <2>4 DEF VersionsRecorded
<1>7. AnswersRecorded
  BY DEF FleetInit, ServiceInit, AnswersRecorded, HasAnswer, NoPoll
<1>8. QED BY <1>1, <1>5, <1>6, <1>7 DEF FleetInv

\* The same of the next state.
AnswerInOrderNext(c, a) ==
  /\ RecordedIn(feed'[a.config], AsVersion(a))
  /\ held'[c].seen[a.config] <= a.version /\ a.version <= cache'[a.config].rv

AnswerKept(c) ==
  poll'[c].step \in {"resolved", "return"} /\ poll'[c].answer # NoAnswer =>
    /\ AnswerInOrderNext(c, poll'[c].answer)
    /\ poll'[c].step = "return" => held'[c].hash # poll'[c].answer.hash

LEMMA PollRecords ==
  /\ NoPoll.step = "idle"
  /\ \A a : LET x == [step |-> "resolved", answer |-> a]
           IN  x.step = "resolved" /\ x.answer = a
BY DEF NoPoll

CacheKept == \A o \in Objects : cache[o].rv <= cache'[o].rv

HistoryKept ==
  \A p \in PipelineConfigs : \A v :
    RecordedIn(feed[p], v) => RecordedIn(feed'[p], v)

\* The answers on their way stay in order: a new one is the cached version, and
\* neither the history nor the cache goes back.
LEMMA AnswersStep ==
  ASSUME FleetInv, [FleetNext]_fleetVars, SoundInv', CacheKept, HistoryKept
  PROVE  AnswersRecorded'
<1>1. /\ ServiceTypeOK /\ CacheTypeOK /\ CacheTypeOK'
      /\ VersionsRecorded /\ AnswersRecorded
  BY DEF FleetInv, FleetTypeOK, SoundInv, TypeInv, TypeOK, ApiTypeOK
<1>2. ASSUME NEW c \in Collectors, NEW a \in ResolvedConfigs,
             AnswerInOrder(c, a), held'[c] = held[c]
      PROVE  AnswerInOrderNext(c, a)
  <2>1. a.config \in PipelineConfigs /\ a.config \in Objects /\ a.version \in Nat
    BY DEF ResolvedConfigs, Objects
  <2>2. RecordedIn(feed'[a.config], AsVersion(a))
    BY <1>2, <2>1 DEF AnswerInOrder, HistoryKept
  <2>3. /\ cache[a.config].rv \in Nat /\ cache'[a.config].rv \in Nat
        /\ cache[a.config].rv <= cache'[a.config].rv
    BY <1>1, <2>1, VersionFields DEF CacheTypeOK, CacheKept
  <2>4. a.version <= cache'[a.config].rv
    <3>1. a.version <= cache[a.config].rv
      BY <1>2 DEF AnswerInOrder
    <3>2. QED BY <2>1, <2>3, <3>1
  <2>5. QED BY <1>2, <2>2, <2>4 DEF AnswerInOrder, AnswerInOrderNext
<1>3. ASSUME NEW c \in Collectors, poll'[c] = poll[c], held'[c] = held[c]
      PROVE  AnswerKept(c)
  <2> SUFFICES ASSUME HasAnswer(c)
               PROVE  /\ AnswerInOrderNext(c, poll[c].answer)
                      /\ poll[c].step = "return" =>
                           held[c].hash # poll[c].answer.hash
    BY <1>3 DEF HasAnswer, AnswerKept
  <2>1. poll[c].answer \in ResolvedConfigs
    BY <1>1, PollFields DEF HasAnswer
  <2>2. /\ AnswerInOrder(c, poll[c].answer)
        /\ poll[c].step = "return" => held[c].hash # poll[c].answer.hash
    BY <1>1 DEF AnswersRecorded
  <2>3. QED BY <1>2, <1>3, <2>1, <2>2
<1>4. ASSUME NEW c \in Collectors, Finds(c) PROVE AnswerKept(c)
  <2>1. PICK p \in PipelineConfigs :
          /\ Outcome(p) = "found"
          /\ poll'[c] = [step |-> "resolved", answer |-> ResolvedConfig(p)]
    BY <1>4 DEF Finds
  <2>2. cache[p].exists /\ ResolvedConfig(p) \in ResolvedConfigs /\ cache[p].rv \in Nat
    BY <1>1, <2>1, ResolvedType
  <2>3. RecordedIn(feed[p], cache[p]) /\ held[c].seen[p] <= cache[p].rv
    BY <1>1 DEF VersionsRecorded
  <2>4. RecordedIn(feed[p], AsVersion(ResolvedConfig(p)))
    BY <2>2, <2>3 DEF RecordedIn, AsVersion, ResolvedConfig
  <2> DEFINE a == ResolvedConfig(p)
  <2>5. a.config = p /\ a.version = cache[p].rv
    BY DEF ResolvedConfig
  <2> HIDE DEF a
  <2>6. poll'[c].step = "resolved" /\ poll'[c].answer = a
    <3>1. poll'[c] = [step |-> "resolved", answer |-> a]
      BY <2>1 DEF a
    <3>2. QED BY <3>1, PollRecords, Zenon
  <2>7. cache[p].rv <= cache[p].rv
    BY <2>2
  <2>8. AnswerInOrder(c, a)
    BY <2>3, <2>4, <2>5, <2>7 DEF AnswerInOrder, a
  <2>9. AnswerInOrderNext(c, a)
    BY <1>2, <1>4, <2>2, <2>8 DEF Finds, a
  <2>10. QED BY <2>6, <2>9 DEF AnswerKept
<1>5. ASSUME NEW c \in Collectors, Decides(c) PROVE AnswerKept(c)
  <2>1. poll[c].answer \in ResolvedConfigs /\ poll[c].step = "resolved"
    BY <1>1, <1>5, PollFields DEF Decides
  <2>2. poll[c].answer # NoAnswer
    BY <2>1, ResolvedIsAnswer
  <2>3. AnswerInOrder(c, poll[c].answer)
    BY <1>1, <2>1, <2>2 DEF AnswersRecorded, HasAnswer
  <2>4. AnswerInOrderNext(c, poll[c].answer)
    BY <1>2, <1>5, <2>1, <2>3 DEF Decides
  <2>5. /\ poll'[c].step = "return" /\ poll'[c].answer = poll[c].answer
        /\ held' = held /\ held[c].hash # poll[c].answer.hash
    <3>1. /\ poll'[c] = [step |-> "return", code |-> "ok",
                          answer |-> poll[c].answer]
          /\ held' = held /\ held[c].hash # poll[c].answer.hash
      BY <1>5 DEF Decides
    <3>2. poll'[c].step = "return" /\ poll'[c].answer = poll[c].answer
      BY <3>1
    <3>3. QED BY <3>1, <3>2
  <2>6. QED BY <2>4, <2>5 DEF AnswerKept
<1>6. ASSUME NEW c \in Collectors, Takes(c)
      PROVE  AnswerKept(c) /\ \A d \in Collectors \ {c} : held'[d] = held[d]
  <2>1. AnswerKept(c)
    <3>1. poll'[c].step = "idle"
      BY <1>6, PollRecords DEF Takes
    <3>2. QED BY <3>1 DEF AnswerKept
  <2>2. held \in [Collectors -> HeldSet] /\ Receive(c, poll[c].answer)
    BY <1>1, <1>6 DEF Takes, ServiceTypeOK
  <2>3. \A d \in Collectors \ {c} : held'[d] = held[d]
    BY <2>2 DEF Receive
  <2>4. QED BY <2>1, <2>3
<1>7. CASE NoNewAnswer
  <2>1. ASSUME NEW c \in Collectors, ~HasAnswer(c)' PROVE AnswerKept(c)
    BY <2>1 DEF HasAnswer, AnswerKept
  <2>2. \A c \in Collectors : AnswerKept(c)
    BY <1>3, <1>7, <2>1 DEF NoNewAnswer
  <2>3. QED
    BY <2>2 DEF AnswersRecorded, HasAnswer, AnswerKept, AnswerInOrder, AnswerInOrderNext
<1>8. ASSUME NEW c \in Collectors, Finds(c) \/ Decides(c) \/ Takes(c)
      PROVE  AnswersRecorded'
  <2>1. AnswerKept(c) /\ Others(c) /\ \A d \in Collectors \ {c} : held'[d] = held[d]
    BY <1>4, <1>5, <1>6, <1>8 DEF Finds, Decides, Takes
  <2>2. \A d \in Collectors : AnswerKept(d)
    BY <1>3, <2>1 DEF Others
  <2>3. QED
    BY <2>2 DEF AnswersRecorded, HasAnswer, AnswerKept, AnswerInOrder, AnswerInOrderNext
<1>9. QED BY <1>7, <1>8, ServiceOrderly DEF Answering

LEMMA FleetInvStep == FleetInv /\ [FleetNext]_fleetVars => FleetInv'
<1> SUFFICES ASSUME FleetInv, [FleetNext]_fleetVars PROVE FleetInv'
  OBVIOUS
<1> USE DEF FleetInv
<1>1. [Next]_vars /\ RecordVersions
  BY FleetStep, EveryStepRecords
<1>2. SoundInv' /\ EventsInOrder' /\ StepOrderly
      /\ \A o \in Objects : cache[o].rv <= cache'[o].rv
  BY <1>1, SoundStep, InOrderStep, EveryStep DEF SoundInv
<1>3. /\ feed' \in [PipelineConfigs -> Seq(FeedItems)]
      /\ \A p \in PipelineConfigs : /\ Len(feed'[p]) = store'[p].rv
                                    /\ RecordedIn(feed'[p], store'[p])
      /\ \A p \in PipelineConfigs : \A v :
           RecordedIn(feed[p], v) => RecordedIn(feed'[p], v)
  BY <1>1, HistoryStep
<1>4. FleetTypeOK'
  BY <1>3, ServiceOrderly DEF FleetTypeOK, FeedItems
<1>5. ASSUME NEW p \in PipelineConfigs PROVE RecordedIn(feed'[p], cache'[p])
  <2>1. CASE cache'[p] = cache[p]
    BY <1>3, <2>1 DEF VersionsRecorded
  <2>2. CASE cache'[p] = store'[p]
    BY <1>3, <2>2
  <2>3. ASSUME NEW k \in Kinds, NEW i \in 1 .. Len(watch[k]),
               watch[k][i].object = p, cache'[p] = watch[k][i].version
        PROVE  RecordedIn(feed'[p], cache'[p])
    <3>1. RecordedIn(feed[p], watch[k][i].version)
      BY <2>3 DEF VersionsRecorded
    <3>2. QED BY <1>3, <2>3, <3>1
  <2>4. QED BY <1>2, <2>1, <2>2, <2>3 DEF StepOrderly, CacheFollows, Objects
<1>6. ASSUME NEW k \in Kinds, NEW i \in 1 .. Len(watch'[k]),
             watch'[k][i].object \in PipelineConfigs
      PROVE  RecordedIn(feed'[watch'[k][i].object], watch'[k][i].version)
  <2>1. ASSUME NEW j \in 1 .. Len(watch[k]), watch'[k][i] = watch[k][j]
        PROVE  RecordedIn(feed'[watch'[k][i].object], watch'[k][i].version)
    <3>1. RecordedIn(feed[watch[k][j].object], watch[k][j].version)
      BY <1>6, <2>1 DEF VersionsRecorded
    <3>2. QED BY <1>3, <1>6, <2>1, <3>1
  <2>2. ASSUME NEW o \in Objects,
               watch'[k][i] = [object |-> o, version |-> store'[o]]
        PROVE  RecordedIn(feed'[watch'[k][i].object], watch'[k][i].version)
    <3>1. watch'[k][i].object = o /\ watch'[k][i].version = store'[o]
      BY <2>2
    <3>2. o \in PipelineConfigs
      BY <1>6, <3>1
    <3>3. RecordedIn(feed'[o], store'[o])
      BY <1>3, <3>2
    <3>4. QED BY <3>1, <3>3
  <2>3. QED BY <1>2, <2>1, <2>2 DEF StepOrderly, Orderly, Follows
<1>7. ASSUME NEW c \in Collectors, NEW p \in PipelineConfigs
      PROVE  held'[c].seen[p] <= cache'[p].rv
  <2>1. /\ held \in [Collectors -> HeldSet] /\ held[c].seen[p] \in Nat
        /\ held[c].seen[p] <= cache[p].rv
    BY DEF FleetTypeOK, ServiceTypeOK, HeldSet, VersionsRecorded
  <2>2. /\ p \in Objects /\ cache[p].rv \in Nat /\ cache'[p].rv \in Nat
        /\ cache[p].rv <= cache'[p].rv
    BY <1>2, VersionFields
       DEF SoundInv, TypeInv, TypeOK, ApiTypeOK, CacheTypeOK, Objects
  <2>a. \A m \in Nat : m <= cache[p].rv => m <= cache'[p].rv
    BY <2>2
  <2> HIDE DEF FleetInv
  <2>3. CASE UNCHANGED held
    BY <2>1, <2>a, <2>3
  <2>4. ASSUME NEW d \in Collectors, Takes(d)
        PROVE  held'[c].seen[p] <= cache'[p].rv
    <3> DEFINE a == poll[d].answer
    <3>1. held'[c].seen[p] = IF c = d /\ p = a.config THEN a.version
                             ELSE held[c].seen[p]
      BY <2>4, SeenMoves DEF FleetInv, FleetTypeOK
    <3>2. a \in ResolvedConfigs /\ a.version \in Nat
      BY <2>4, PollFields DEF Takes, FleetInv, FleetTypeOK, ResolvedConfigs
    <3>3. a.version <= cache[a.config].rv
      BY <2>4 DEF FleetInv, AnswersRecorded, HasAnswer, Takes, AnswerInOrder
    <3> HIDE DEF a
    <3>4. QED BY <2>1, <2>a, <3>1, <3>2, <3>3
  <2>5. QED
    BY <2>3, <2>4, ServiceOrderly DEF Answering, NoNewAnswer, Finds, Decides
<1>8. VersionsRecorded'
  BY <1>3, <1>5, <1>6, <1>7 DEF VersionsRecorded
<1>9. AnswersRecorded'
  <2>1. CacheKept
    BY <1>2 DEF CacheKept
  <2>2. HistoryKept
    BY <1>3 DEF HistoryKept
  <2>3. SoundInv'
    BY <1>2
  <2>4. QED BY <2>1, <2>2, <2>3, AnswersStep
<1>10. QED BY <1>2, <1>4, <1>8, <1>9

\* The whole process is well-typed, calls in progress, counters, what the
\* collectors hold and the history included.
THEOREM FleetTypeCorrect == FleetSpec => []FleetTypeOK
<1>1. FleetInv => FleetTypeOK
  BY DEF FleetInv
<1>2. QED BY <1>1, FleetInvInit, FleetInvStep, PTL DEF FleetSpec

-----------------------------------------------------------------------------
(* The refinement.                                                         *)

LEMMA FeedStep ==
  ASSUME FleetInv, [FleetNext]_fleetVars
  PROVE  [Feed!Next]_(Feed!vars)
<1> USE DEF FleetInv
<1>1. \/ feed' = feed
      \/ \E p \in PipelineConfigs : \E x \in FeedItems :
           feed' = [feed EXCEPT ![p] = Append(@, x)]
  BY FleetStep, EveryStepRecords, HistoryStep
<1>2. CASE UNCHANGED held
  <2>1. CASE feed' = feed
    BY <1>2, <2>1 DEF Feed!vars
  <2>2. ASSUME NEW p \in PipelineConfigs, NEW x \in FeedItems,
               feed' = [feed EXCEPT ![p] = Append(@, x)]
        PROVE  Feed!Publish(p)
    BY <1>2, <2>2 DEF Feed!Publish, FeedItems
  <2>3. QED BY <1>1, <2>1, <2>2 DEF Feed!Next
<1>3. ASSUME NEW c \in Collectors, Takes(c), UNCHANGED <<feed, cache>>
      PROVE  \E p \in PipelineConfigs : Feed!Receive(c, p)
  <2> DEFINE a == poll[c].answer
             p == a.config
             n == a.version
             s == feed[p]
             hash == a.hash
  <2>1. /\ a \in ResolvedConfigs /\ held[c].hash # hash
        /\ AnswerInOrder(c, a)
        /\ held' = [held EXCEPT ![c] =
             [content |-> a.content, hash |-> hash,
              seen |-> [held[c].seen EXCEPT ![p] = n]]]
    BY <1>3, PollFields
       DEF Takes, Receive, AnswersRecorded, HasAnswer, FleetTypeOK
  <2>2. /\ p \in PipelineConfigs /\ n \in Nat /\ hash # NoHash
        /\ a.content \in Contents \cup {EmptyContent}
    BY <2>1 DEF ResolvedConfigs
  <2>3. RecordedIn(s, AsVersion(a)) /\ held[c].seen[p] <= n
        /\ feed \in [PipelineConfigs -> Seq(FeedItems)]
    BY <2>1 DEF AnswerInOrder, FleetTypeOK, FeedItems
  <2> HIDE DEF a
  <2>4. /\ n \in 1 .. Len(s) /\ s[n] = a.content
        /\ DOMAIN s = 1 .. Len(s)
    <3>1. s \in Seq(FeedItems)
      BY <2>2, <2>3
    <3>2. n \in 1 .. Len(s) /\ s[n] = a.content
      BY <2>3 DEF RecordedIn, AsVersion
    <3> HIDE DEF n, s, p
    <3>3. DOMAIN s = 1 .. Len(s)
      BY <3>1
    <3>4. QED BY <3>2, <3>3
  <2>5. PICK m \in 1 .. n : s[m] \in Contents /\ hash = Sha256(s[m])
    BY <2>2, <2>3 DEF RecordedIn, AsVersion
  <2>6. s[n] # Withdrawn
    BY <2>2, <2>4, WithdrawnAssumption
  <2>7. held'[c].hash = hash
    BY <2>1 DEF FleetTypeOK, ServiceTypeOK
  <2> DEFINE D == [x \in Contents |-> Sha256(x)]
  <2>8. s[m] \in DOMAIN D /\ D[s[m]] = hash
    BY <2>5
  <2> HIDE DEF n, s, hash, D, p
  <2>9. held' = [held EXCEPT ![c] =
          [content |-> s[n], hash |-> D[s[m]],
           seen |-> [held[c].seen EXCEPT ![p] = n]]]
    BY <2>1, <2>4, <2>8
  <2>10. UNCHANGED feed /\ held'[c].hash # held[c].hash
    BY <1>3, <2>1, <2>7
  <2>11. Feed!Receive(c, p)
    BY <2>3, <2>4, <2>5, <2>6, <2>8, <2>9, <2>10 DEF Feed!Receive, s, D
  <2>12. QED BY <2>2, <2>11
<1>4. QED
  BY <1>2, <1>3, ServiceOrderly
     DEF Feed!Next, Answering, NoNewAnswer, Finds, Decides

\* For any number of PipelineConfigs, bindings and collectors: a collector
\* receives the versions of a PipelineConfig in the order in which they were
\* written, and a hash is never ahead of the content it comes with.
THEOREM CollectorsAreServed == FleetSpec => ServesFeed
<1>1. FleetInit => Feed!Init
  <2> SUFFICES ASSUME FleetInit PROVE Feed!Init
    OBVIOUS
  <2>1. ASSUME NEW p \in PipelineConfigs PROVE Len(feed[p]) <= 1
    BY DEF FleetInit
  <2>2. QED BY <2>1 DEF FleetInit, ServiceInit, Feed!Init
<1>2. FleetInv /\ [FleetNext]_fleetVars => [Feed!Next]_(Feed!vars)
  BY FeedStep
<1>3. QED
  BY <1>1, <1>2, FleetInvInit, FleetInvStep, PTL
     DEF FleetSpec, ServesFeed, Feed!Spec
=============================================================================
