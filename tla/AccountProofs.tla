--------------------------- MODULE AccountProofs ---------------------------
(***************************************************************************)
(* The metrics agree: the counters that a GetConfig call goes through, and *)
(* the gauges of one scrape.                                               *)
(***************************************************************************)
EXTENDS FleetProofs, FiniteSetTheorems

\* The resolutions of m that ended with outcome.
EndedIn(m, outcome) ==
  m.resolutions[<<"tenant", outcome>>]
    + m.resolutions[<<"collectorgroup", outcome>>]
    + m.resolutions[<<"default", outcome>>]

MissedIn(m) == m.resolutions[<<"default", "not_found">>]

\* The calls between observe and the decision of GetConfig, and those between
\* the return of their handler with code and the interceptor.
Deciding == {c \in Collectors : poll[c].step = "resolved"}
Returned(code) ==
  {c \in Collectors : poll[c].step = "return" /\ poll[c].code = code}

\* CallsAccounted, entry by entry, of the state and of the next one.
Accounts ==
  /\ EndedIn(metrics, "found")
       = metrics.served + metrics.notModified + Cardinality(Deciding)
  /\ metrics.requests["ok"] + Cardinality(Returned("ok"))
       = metrics.served + metrics.notModified
  /\ metrics.requests["not_found"] + Cardinality(Returned("not_found"))
       = MissedIn(metrics)
  /\ metrics.requests["unavailable"] + Cardinality(Returned("unavailable"))
       = EndedIn(metrics, "not_ready")
  /\ metrics.requests["internal"] + Cardinality(Returned("internal"))
       = EndedIn(metrics, "error")

AccountsNext ==
  /\ EndedIn(metrics', "found")
       = metrics'.served + metrics'.notModified + Cardinality(Deciding')
  /\ metrics'.requests["ok"] + Cardinality(Returned("ok")')
       = metrics'.served + metrics'.notModified
  /\ metrics'.requests["not_found"] + Cardinality(Returned("not_found")')
       = MissedIn(metrics')
  /\ metrics'.requests["unavailable"] + Cardinality(Returned("unavailable")')
       = EndedIn(metrics', "not_ready")
  /\ metrics'.requests["internal"] + Cardinality(Returned("internal")')
       = EndedIn(metrics', "error")

LEMMA AccountsPrimed == AccountsNext => Accounts'
BY DEF AccountsNext, Accounts, EndedIn, MissedIn, Deciding, Returned

One(b) == IF b THEN 1 ELSE 0

\* Two sets of calls that differ in c only.
LEMMA OneCallMoves ==
  ASSUME NEW S \in SUBSET Collectors, NEW T \in SUBSET Collectors,
         NEW c \in Collectors, \A d \in Collectors \ {c} : d \in S <=> d \in T
  PROVE  /\ Cardinality(S) \in Nat /\ Cardinality(T) \in Nat
         /\ Cardinality(T) + One(c \in S) = Cardinality(S) + One(c \in T)
<1>1. /\ IsFiniteSet(S) /\ IsFiniteSet(T)
      /\ Cardinality(S) \in Nat /\ Cardinality(T) \in Nat
  BY FiniteCollectors, FS_Subset, FS_CardinalityType
<1>2. CASE (c \in S) <=> (c \in T)
  <2>1. S = T
    BY <1>2
  <2>2. QED BY <1>1, <2>1
<1>3. CASE c \in S /\ c \notin T
  <2>1. T = S \ {c}
    BY <1>3
  <2>2. Cardinality(T) = Cardinality(S) - 1
    BY <1>1, <1>3, <2>1, FS_RemoveElement
  <2>3. QED BY <1>1, <1>3, <2>2 DEF One
<1>4. CASE c \notin S /\ c \in T
  <2>1. S = T \ {c}
    BY <1>4
  <2>2. Cardinality(S) = Cardinality(T) - 1
    BY <1>1, <1>4, <2>1, FS_RemoveElement
  <2>3. QED BY <1>1, <1>4, <2>2 DEF One
<1>5. QED BY <1>2, <1>3, <1>4

\* Call c goes on to x: what becomes of the calls in between.
LEMMA CallsBetween ==
  ASSUME ServiceTypeOK, NEW c \in Collectors, NEW x, Continue(c, x)
  PROVE  /\ Cardinality(Deciding) \in Nat /\ Cardinality(Deciding') \in Nat
         /\ Cardinality(Deciding') + One(poll[c].step = "resolved")
              = Cardinality(Deciding) + One(x.step = "resolved")
<1>1. poll'[c] = x /\ \A d \in Collectors \ {c} : poll'[d] = poll[d]
  BY ContinueOnly DEF Others
<1>2. /\ Deciding \in SUBSET Collectors /\ Deciding' \in SUBSET Collectors
      /\ \A d \in Collectors \ {c} : d \in Deciding <=> d \in Deciding'
      /\ (c \in Deciding) <=> (poll[c].step = "resolved")
      /\ (c \in Deciding') <=> (x.step = "resolved")
  BY <1>1 DEF Deciding
<1>3. /\ Cardinality(Deciding) \in Nat /\ Cardinality(Deciding') \in Nat
      /\ Cardinality(Deciding') + One(c \in Deciding)
           = Cardinality(Deciding) + One(c \in Deciding')
  BY <1>2, OneCallMoves
<1>4. QED BY <1>2, <1>3 DEF One

LEMMA CallsReturned ==
  ASSUME ServiceTypeOK, NEW c \in Collectors, NEW x, Continue(c, x), NEW k
  PROVE  /\ Cardinality(Returned(k)) \in Nat /\ Cardinality(Returned(k)') \in Nat
         /\ Cardinality(Returned(k)') + One(poll[c].step = "return" /\ poll[c].code = k)
              = Cardinality(Returned(k)) + One(x.step = "return" /\ x.code = k)
<1>1. poll'[c] = x /\ \A d \in Collectors \ {c} : poll'[d] = poll[d]
  BY ContinueOnly DEF Others
<1>2. /\ Returned(k) \in SUBSET Collectors /\ Returned(k)' \in SUBSET Collectors
      /\ \A d \in Collectors \ {c} : d \in Returned(k) <=> d \in Returned(k)'
      /\ (c \in Returned(k)) <=> (poll[c].step = "return" /\ poll[c].code = k)
      /\ (c \in Returned(k)') <=> (x.step = "return" /\ x.code = k)
  BY <1>1 DEF Returned
<1>3. /\ Cardinality(Returned(k)) \in Nat /\ Cardinality(Returned(k)') \in Nat
      /\ Cardinality(Returned(k)') + One(c \in Returned(k))
           = Cardinality(Returned(k)) + One(c \in Returned(k)')
  BY <1>2, OneCallMoves
<1>4. QED BY <1>2, <1>3 DEF One

\* What an observation does to the books.
LEMMA ObservedBooks ==
  ASSUME ServiceTypeOK, NEW path \in Paths, NEW outcome \in Outcomes
  PROVE  LET m == Observed(path, outcome)
         IN /\ m.served = metrics.served /\ m.notModified = metrics.notModified
            /\ m.requests = metrics.requests
            /\ \A o \in Outcomes :
                 EndedIn(m, o) = EndedIn(metrics, o) + One(o = outcome)
            /\ MissedIn(m) = MissedIn(metrics)
                 + One(path = "default" /\ outcome = "not_found")
<1> DEFINE m == Observed(path, outcome)
           r == metrics.resolutions
           q == m.resolutions
<1>1. metrics \in MetricsSet /\ r \in [Paths \X Outcomes -> Nat]
  BY DEF ServiceTypeOK, MetricsSet
<1>2. /\ m.served = metrics.served /\ m.notModified = metrics.notModified
      /\ m.requests = metrics.requests
      /\ q = [r EXCEPT ![<<path, outcome>>] = @ + 1]
  BY <1>1 DEF Observed, MetricsSet
<1> HIDE DEF m, r, q
<1>3. \A x \in Paths, y \in Outcomes :
        /\ r[<<x, y>>] \in Nat
        /\ q[<<x, y>>] = r[<<x, y>>] + One(x = path /\ y = outcome)
  BY <1>1, <1>2 DEF One
<1>4. ASSUME NEW o \in Outcomes
      PROVE  EndedIn(m, o) = EndedIn(metrics, o) + One(o = outcome)
  <2>1. /\ EndedIn(m, o) = q[<<"tenant", o>>] + q[<<"collectorgroup", o>>]
                             + q[<<"default", o>>]
        /\ EndedIn(metrics, o) = r[<<"tenant", o>>] + r[<<"collectorgroup", o>>]
                                   + r[<<"default", o>>]
    BY DEF EndedIn, q, r
  <2>2. QED BY <1>3, <2>1 DEF Paths, One
<1>5. MissedIn(m) = MissedIn(metrics)
        + One(path = "default" /\ outcome = "not_found")
  <2>1. /\ MissedIn(m) = q[<<"default", "not_found">>]
        /\ MissedIn(metrics) = r[<<"default", "not_found">>]
    BY DEF MissedIn, q, r
  <2>2. QED BY <1>3, <2>1 DEF Paths, Outcomes, One
<1>6. QED BY <1>2, <1>4, <1>5 DEF m

LEMMA BooksAreNumbers ==
  ASSUME ServiceTypeOK
  PROVE  /\ \A o \in Outcomes : EndedIn(metrics, o) \in Nat
         /\ MissedIn(metrics) \in Nat
         /\ metrics.served \in Nat /\ metrics.notModified \in Nat
         /\ \A k \in Codes : metrics.requests[k] \in Nat
<1>1. metrics \in MetricsSet
  BY DEF ServiceTypeOK
<1>2. \A x \in Paths, y \in Outcomes : metrics.resolutions[<<x, y>>] \in Nat
  BY <1>1 DEF MetricsSet
<1>3. /\ metrics.served \in Nat /\ metrics.notModified \in Nat
      /\ \A k \in Codes : metrics.requests[k] \in Nat
  BY <1>1 DEF MetricsSet
<1>4. ASSUME NEW o \in Outcomes PROVE EndedIn(metrics, o) \in Nat
  <2> DEFINE r == metrics.resolutions
  <2>1. /\ r[<<"tenant", o>>] \in Nat /\ r[<<"collectorgroup", o>>] \in Nat
        /\ r[<<"default", o>>] \in Nat
    BY <1>2 DEF Paths
  <2>2. EndedIn(metrics, o) = r[<<"tenant", o>>] + r[<<"collectorgroup", o>>]
                                + r[<<"default", o>>]
    BY DEF EndedIn
  <2> HIDE DEF r
  <2>3. QED BY <2>1, <2>2
<1>5. MissedIn(metrics) \in Nat
  BY <1>2 DEF MissedIn, Paths, Outcomes
<1>6. QED BY <1>3, <1>4, <1>5

-----------------------------------------------------------------------------
(* Every step keeps the books.                                             *)

\* Between the steps that matter the calls in between are the same.
NotBetween(x) == x.step \notin {"resolved", "return"}

\* A call that goes on to the next path of the chain or to the get.
LEMMA WalkAccounts ==
  ASSUME ServiceTypeOK, Accounts, NEW c \in Collectors, NotBetween(poll[c]),
         NEW x, NotBetween(x), Continue(c, x),
         \/ UNCHANGED metrics
         \/ \E path \in {"tenant", "collectorgroup"} :
              metrics' = Observed(path, "not_found")
  PROVE  Accounts'
<1>1. /\ Cardinality(Deciding') = Cardinality(Deciding)
      /\ \A k \in Codes : Cardinality(Returned(k)') = Cardinality(Returned(k))
  <2>1. Cardinality(Deciding') = Cardinality(Deciding)
    BY CallsBetween DEF One, NotBetween
  <2>2. ASSUME NEW k PROVE Cardinality(Returned(k)') = Cardinality(Returned(k))
    BY CallsReturned DEF One, NotBetween
  <2>3. QED BY <2>1, <2>2
<1>2. CASE UNCHANGED metrics
  <2>1. AccountsNext
    BY <1>1, <1>2 DEF Accounts, AccountsNext, Codes
  <2>2. QED BY <2>1, AccountsPrimed
<1>3. ASSUME NEW path \in {"tenant", "collectorgroup"},
             metrics' = Observed(path, "not_found")
      PROVE  Accounts'
  <2>1. /\ metrics'.served = metrics.served
        /\ metrics'.notModified = metrics.notModified
        /\ metrics'.requests = metrics.requests
        /\ \A o \in Outcomes :
             EndedIn(metrics', o) = EndedIn(metrics, o) + One(o = "not_found")
        /\ MissedIn(metrics') = MissedIn(metrics)
             + One(path = "default" /\ "not_found" = "not_found")
    BY <1>3, ObservedBooks DEF Paths, Outcomes
  <2>2. /\ EndedIn(metrics', "found") = EndedIn(metrics, "found")
        /\ EndedIn(metrics', "not_ready") = EndedIn(metrics, "not_ready")
        /\ EndedIn(metrics', "error") = EndedIn(metrics, "error")
        /\ MissedIn(metrics') = MissedIn(metrics)
    BY <2>1, BooksAreNumbers DEF Outcomes, One
  <2>3. AccountsNext
    BY <1>1, <2>1, <2>2 DEF Accounts, AccountsNext, Codes
  <2>4. QED BY <2>3, AccountsPrimed
<1>4. QED BY <1>2, <1>3

\* A call that ends with an error at path.
LEMMA ReturnErrorAccounts ==
  ASSUME ServiceTypeOK, Accounts, NEW c \in Collectors, NEW path \in Paths,
         NEW outcome \in Outcomes, ReturnError(c, path, outcome),
         \/ outcome \in {"not_ready", "error"}
         \/ path = "default" /\ outcome = "not_found",
         NotBetween(poll[c])
  PROVE  Accounts'
<1> DEFINE code == MapError(outcome)
           x == [step |-> "return", code |-> code, answer |-> NoAnswer]
<1>1. x.step = "return" /\ x.code = code /\ Continue(c, x)
      /\ metrics' = Observed(path, outcome)
  BY DEF ReturnError
<1>2. /\ code = "not_found" <=> outcome = "not_found"
      /\ code = "unavailable" <=> outcome = "not_ready"
      /\ code = "internal" <=> outcome = "error"
      /\ code # "ok" /\ outcome # "found"
  BY DEF MapError, Outcomes
<1> HIDE DEF code, x
<1>3. Cardinality(Deciding') = Cardinality(Deciding)
  BY <1>1, CallsBetween DEF One, NotBetween
<1>4. ASSUME NEW k \in Codes
      PROVE  /\ Cardinality(Returned(k)') = Cardinality(Returned(k)) + One(code = k)
             /\ Cardinality(Returned(k)) \in Nat
  BY <1>1, CallsReturned DEF One, NotBetween
<1>5. /\ metrics'.served = metrics.served
      /\ metrics'.notModified = metrics.notModified
      /\ metrics'.requests = metrics.requests
      /\ \A o \in Outcomes :
           EndedIn(metrics', o) = EndedIn(metrics, o) + One(o = outcome)
      /\ MissedIn(metrics') = MissedIn(metrics)
           + One(path = "default" /\ outcome = "not_found")
  BY <1>1, ObservedBooks
<1>6. /\ EndedIn(metrics', "found") = EndedIn(metrics, "found")
      /\ EndedIn(metrics', "not_ready")
           = EndedIn(metrics, "not_ready") + One(code = "unavailable")
      /\ EndedIn(metrics', "error")
           = EndedIn(metrics, "error") + One(code = "internal")
      /\ MissedIn(metrics') = MissedIn(metrics) + One(code = "not_found")
  BY <1>2, <1>5, BooksAreNumbers DEF Outcomes, One
<1>7. Cardinality(Returned("ok")') = Cardinality(Returned("ok"))
  BY <1>2, <1>4 DEF One, Codes
<1>8. \A k \in Codes : One(code = k) \in Nat /\ metrics.requests[k] \in Nat
  BY BooksAreNumbers DEF One
<1>9. AccountsNext
  <2>1. metrics'.requests["not_found"] + Cardinality(Returned("not_found")')
          = MissedIn(metrics')
    BY <1>4, <1>5, <1>6, <1>8 DEF Accounts, Codes
  <2>2. metrics'.requests["unavailable"] + Cardinality(Returned("unavailable")')
          = EndedIn(metrics', "not_ready")
    BY <1>4, <1>5, <1>6, <1>8 DEF Accounts, Codes
  <2>3. metrics'.requests["internal"] + Cardinality(Returned("internal")')
          = EndedIn(metrics', "error")
    BY <1>4, <1>5, <1>6, <1>8 DEF Accounts, Codes
  <2>4. QED
    BY <1>3, <1>5, <1>6, <1>7, <2>1, <2>2, <2>3 DEF Accounts, AccountsNext
<1>10. QED BY <1>9, AccountsPrimed

\* A call that finds a configuration at path.
LEMMA FoundAccounts ==
  ASSUME ServiceTypeOK, Accounts, NEW c \in Collectors, NEW path \in Paths,
         NEW a, Continue(c, [step |-> "resolved", answer |-> a]),
         metrics' = Observed(path, "found"), NotBetween(poll[c])
  PROVE  Accounts'
<1> DEFINE x == [step |-> "resolved", answer |-> a]
<1>1. x.step = "resolved" /\ Continue(c, x)
  OBVIOUS
<1> HIDE DEF x
<1>2. /\ Cardinality(Deciding') = Cardinality(Deciding) + 1
      /\ Cardinality(Deciding) \in Nat
  BY <1>1, CallsBetween DEF One, NotBetween
<1>3. ASSUME NEW k PROVE Cardinality(Returned(k)') = Cardinality(Returned(k))
  BY <1>1, CallsReturned DEF One, NotBetween
<1>4. /\ metrics'.served = metrics.served
      /\ metrics'.notModified = metrics.notModified
      /\ metrics'.requests = metrics.requests
      /\ \A o \in Outcomes :
           EndedIn(metrics', o) = EndedIn(metrics, o) + One(o = "found")
      /\ MissedIn(metrics') = MissedIn(metrics)
           + One(path = "default" /\ "found" = "not_found")
  BY ObservedBooks DEF Outcomes
<1>5. /\ EndedIn(metrics', "found") = EndedIn(metrics, "found") + 1
      /\ EndedIn(metrics', "not_ready") = EndedIn(metrics, "not_ready")
      /\ EndedIn(metrics', "error") = EndedIn(metrics, "error")
      /\ MissedIn(metrics') = MissedIn(metrics)
  BY <1>4, BooksAreNumbers DEF Outcomes, One
<1>6. EndedIn(metrics', "found")
        = metrics'.served + metrics'.notModified + Cardinality(Deciding')
  <2>1. metrics.served \in Nat /\ metrics.notModified \in Nat
    BY BooksAreNumbers
  <2>2. EndedIn(metrics, "found")
          = metrics.served + metrics.notModified + Cardinality(Deciding)
    BY DEF Accounts
  <2>3. QED BY <1>2, <1>4, <1>5, <2>1, <2>2
<1>7. AccountsNext
  BY <1>3, <1>4, <1>5, <1>6 DEF Accounts, AccountsNext
<1>8. QED BY <1>7, AccountsPrimed

\* The end of the chain at p.
LEMMA ConcludeAccounts ==
  ASSUME ServiceTypeOK, CacheTypeOK, Accounts, NEW c \in Collectors,
         NEW path \in Paths, NEW p, Conclude(c, path, p), NotBetween(poll[c])
  PROVE  Accounts'
<1>1. CASE /\ metrics' = Observed(path, "found")
           /\ Continue(c, [step |-> "resolved", answer |-> ResolvedConfig(p)])
  BY <1>1, FoundAccounts
<1>2. CASE Outcome(p) # "found" /\ ReturnError(c, path, Outcome(p))
  <2>1. Outcome(p) \in {"not_ready", "error"} /\ Outcome(p) \in Outcomes
    BY <1>2 DEF Outcome, Outcomes
  <2>2. QED BY <1>2, <2>1, ReturnErrorAccounts
<1>3. QED BY <1>1, <1>2 DEF Conclude

\* The decision of GetConfig.
LEMMA RespondAccounts ==
  ASSUME ServiceTypeOK, Accounts, NEW c \in Collectors, Respond(c)
  PROVE  Accounts'
<1>1. PICK a : Continue(c, [step |-> "return", code |-> "ok", answer |-> a])
  BY DEF Respond
<1> DEFINE x == [step |-> "return", code |-> "ok", answer |-> a]
<1>2. /\ x.step = "return" /\ x.code = "ok" /\ Continue(c, x)
      /\ poll[c].step = "resolved"
  BY <1>1 DEF Respond
<1> HIDE DEF x
<1>3. /\ metrics'.resolutions = metrics.resolutions
      /\ metrics'.requests = metrics.requests
      /\ \/ /\ metrics'.served = metrics.served + 1
            /\ metrics'.notModified = metrics.notModified
         \/ /\ metrics'.served = metrics.served
            /\ metrics'.notModified = metrics.notModified + 1
  <2>1. metrics \in MetricsSet
    BY DEF ServiceTypeOK
  <2>2. \/ metrics' = [metrics EXCEPT !.notModified = @ + 1]
        \/ metrics' = [metrics EXCEPT !.served = @ + 1]
    BY DEF Respond
  <2>3. QED BY <2>1, <2>2 DEF MetricsSet
<1>4. /\ Cardinality(Deciding') + 1 = Cardinality(Deciding)
      /\ Cardinality(Deciding') \in Nat
  BY <1>2, CallsBetween DEF One
<1>5. /\ Cardinality(Returned("ok")') = Cardinality(Returned("ok")) + 1
      /\ Cardinality(Returned("ok")) \in Nat
  BY <1>2, CallsReturned DEF One
<1>6. ASSUME NEW k \in Codes \ {"ok"}
      PROVE  Cardinality(Returned(k)') = Cardinality(Returned(k))
  BY <1>2, CallsReturned DEF One
<1>7. /\ \A o : EndedIn(metrics', o) = EndedIn(metrics, o)
      /\ MissedIn(metrics') = MissedIn(metrics)
  BY <1>3 DEF EndedIn, MissedIn
<1>8. /\ metrics.served \in Nat /\ metrics.notModified \in Nat
      /\ metrics.requests["ok"] \in Nat
  BY BooksAreNumbers DEF Codes
<1>9. EndedIn(metrics', "found")
        = metrics'.served + metrics'.notModified + Cardinality(Deciding')
  BY <1>3, <1>4, <1>7, <1>8 DEF Accounts
<1>10. metrics'.requests["ok"] + Cardinality(Returned("ok")')
         = metrics'.served + metrics'.notModified
  BY <1>3, <1>5, <1>8 DEF Accounts
<1>11. AccountsNext
  BY <1>3, <1>6, <1>7, <1>9, <1>10 DEF Accounts, AccountsNext, Codes
<1>12. QED BY <1>11, AccountsPrimed

\* The interceptor.
LEMMA CountRequestAccounts ==
  ASSUME ServiceTypeOK, Accounts, NEW c \in Collectors, CountRequest(c)
  PROVE  Accounts'
<1> DEFINE code == poll[c].code
           q == metrics.requests
<1>1. /\ code \in Codes /\ Continue(c, NoPoll) /\ poll[c].step = "return"
      /\ q \in [Codes -> Nat] /\ metrics \in MetricsSet
  BY PollFields DEF CountRequest, ServiceTypeOK, MetricsSet
<1>2. /\ metrics'.requests = [q EXCEPT ![code] = @ + 1]
      /\ metrics'.resolutions = metrics.resolutions
      /\ metrics'.served = metrics.served
      /\ metrics'.notModified = metrics.notModified
  BY <1>1 DEF CountRequest, MetricsSet
<1>3. NoPoll.step = "idle"
  BY DEF NoPoll
<1>4. Cardinality(Deciding') = Cardinality(Deciding)
  BY <1>1, <1>3, CallsBetween DEF One
<1>5. ASSUME NEW k \in Codes
      PROVE  q[k] + Cardinality(Returned(k))
               = metrics'.requests[k] + Cardinality(Returned(k)')
  <2>1. /\ Cardinality(Returned(k)') + One(code = k) = Cardinality(Returned(k))
        /\ Cardinality(Returned(k)') \in Nat
    BY <1>1, <1>3, CallsReturned DEF One
  <2> HIDE DEF code, q
  <2>2. q[k] \in Nat /\ metrics'.requests[k] = q[k] + One(code = k)
    BY <1>1, <1>2 DEF One
  <2>3. One(code = k) \in Nat
    BY DEF One
  <2>4. QED BY <2>1, <2>2, <2>3
<1>6. /\ \A o : EndedIn(metrics', o) = EndedIn(metrics, o)
      /\ MissedIn(metrics') = MissedIn(metrics)
  BY <1>2 DEF EndedIn, MissedIn
<1>7. AccountsNext
  BY <1>2, <1>4, <1>5, <1>6 DEF Accounts, AccountsNext, Codes
<1>8. QED BY <1>7, AccountsPrimed

\* No call in progress and every counter at zero.
LEMMA AccountsInit ==
  ASSUME poll = [c \in Collectors |-> NoPoll], metrics = NoMetrics
  PROVE  Accounts
<1>1. Deciding = {} /\ \A k : Returned(k) = {}
  BY DEF Deciding, Returned, NoPoll
<1>2. /\ \A o \in Outcomes : EndedIn(metrics, o) = 0
      /\ MissedIn(metrics) = 0 /\ \A k \in Codes : metrics.requests[k] = 0
      /\ metrics.served = 0 /\ metrics.notModified = 0
  BY DEF NoMetrics, EndedIn, MissedIn, Paths, Outcomes
<1>3. Cardinality({}) = 0
  BY FS_EmptySet
<1>4. QED BY <1>1, <1>2, <1>3 DEF Accounts, Outcomes, Codes

LEMMA AccountsStep == FleetInv /\ Accounts /\ [FleetNext]_fleetVars => Accounts'
<1> SUFFICES ASSUME FleetInv, Accounts, [FleetNext]_fleetVars PROVE Accounts'
  OBVIOUS
<1>1. ServiceTypeOK /\ CacheTypeOK
  BY DEF FleetInv, FleetTypeOK, SoundInv, TypeInv, TypeOK, ApiTypeOK
<1>2. CASE UNCHANGED serviceVars
  BY <1>2 DEF serviceVars, Accounts, EndedIn, MissedIn, Deciding, Returned
<1>3. CASE OperatorStep \/ Scrape \/ UNCHANGED fleetVars
  BY <1>2, <1>3 DEF OperatorStep, Scrape, fleetVars
<1>4. ASSUME NEW c \in Collectors, RegistryRpc(c) PROVE Accounts'
  BY <1>2, <1>4 DEF RegistryRpc
<1>5. ASSUME NEW c \in Collectors, Poll(c) PROVE Accounts'
  <2> DEFINE x == [step |-> NextPath("start", c)]
  <2>1. NotBetween(x)
    BY DEF NextPath, NotBetween
  <2>2. NotBetween(poll[c]) /\ Continue(c, x) /\ UNCHANGED metrics
    BY <1>5 DEF Poll, GetConfig, NoPoll, NotBetween
  <2> HIDE DEF x
  <2>3. QED BY <1>1, <2>1, <2>2, WalkAccounts
<1>6. ASSUME NEW c \in Collectors, ServiceStep(c) PROVE Accounts'
  <2>1. CASE ListBindings(c)
    <3>1. poll[c].step \in {"tenant", "collectorgroup"} /\ NotBetween(poll[c])
      BY <2>1 DEF ListBindings, NotBetween
    <3>2. CASE /\ metrics' = Observed(poll[c].step, "not_found")
               /\ Continue(c, [step |-> NextPath(poll[c].step, c)])
      <4> DEFINE x == [step |-> NextPath(poll[c].step, c)]
      <4>1. NotBetween(x)
        BY DEF NextPath, NotBetween
      <4>2. Continue(c, x)
        BY <3>2
      <4> HIDE DEF x
      <4>3. QED BY <1>1, <3>1, <3>2, <4>1, <4>2, WalkAccounts
    <3>3. ASSUME NEW b, UNCHANGED metrics,
                 Continue(c, [step |-> "get", path |-> poll[c].step,
                              ref |-> cache[b].spec.pipelineConfigRef])
          PROVE  Accounts'
      <4> DEFINE x == [step |-> "get", path |-> poll[c].step,
                       ref |-> cache[b].spec.pipelineConfigRef]
      <4>1. NotBetween(x) /\ Continue(c, x)
        BY <3>3 DEF NotBetween
      <4> HIDE DEF x
      <4>2. QED BY <1>1, <3>1, <3>3, <4>1, WalkAccounts
    <3>4. QED BY <2>1, <3>2, <3>3 DEF ListBindings
  <2>2. CASE GetPipelineConfig(c)
    <3>1. poll[c].step = "get" /\ NotBetween(poll[c])
          /\ Conclude(c, poll[c].path, poll[c].ref)
      BY <2>2 DEF GetPipelineConfig, NotBetween
    <3>2. poll[c].path \in Paths
      BY <1>1, <3>1, PollFields DEF Paths
    <3>3. QED BY <1>1, <3>1, <3>2, ConcludeAccounts
  <2>3. CASE ResolveDefault(c)
    <3>1. NotBetween(poll[c]) /\ "default" \in Paths /\ "not_found" \in Outcomes
      BY <2>3 DEF ResolveDefault, NotBetween, Paths, Outcomes
    <3>2. CASE ReturnError(c, "default", "not_found")
      BY <1>1, <3>1, <3>2, ReturnErrorAccounts
    <3>3. ASSUME NEW p, Conclude(c, "default", p) PROVE Accounts'
      BY <1>1, <3>1, <3>3, ConcludeAccounts
    <3>4. QED BY <2>3, <3>2, <3>3 DEF ResolveDefault
  <2>4. CASE ReadFails(c)
    <3> DEFINE path == IF poll[c].step = "get" THEN poll[c].path ELSE poll[c].step
    <3>1. NotBetween(poll[c]) /\ ReturnError(c, path, "error")
      BY <2>4 DEF ReadFails, NotBetween, Paths
    <3>2. path \in Paths /\ "error" \in Outcomes
      BY <1>1, <2>4, PollFields DEF ReadFails, Paths, Outcomes
    <3> HIDE DEF path
    <3>3. QED BY <1>1, <3>1, <3>2, ReturnErrorAccounts
  <2>5. CASE Respond(c)
    BY <1>1, <2>5, RespondAccounts
  <2>6. CASE CountRequest(c)
    BY <1>1, <2>6, CountRequestAccounts
  <2>7. QED BY <1>6, <2>1, <2>2, <2>3, <2>4, <2>5, <2>6 DEF ServiceStep
<1>7. CASE FleetRestart
  <2>1. poll' = [c \in Collectors |-> NoPoll] /\ metrics' = NoMetrics
    BY <1>7 DEF FleetRestart, ServiceRestart
  <2>2. Deciding' = {} /\ \A k : Returned(k)' = {}
    BY <2>1 DEF Deciding, Returned, NoPoll
  <2>3. /\ \A o \in Outcomes : EndedIn(metrics', o) = 0
        /\ MissedIn(metrics') = 0 /\ \A k \in Codes : metrics'.requests[k] = 0
        /\ metrics'.served = 0 /\ metrics'.notModified = 0
    BY <2>1 DEF NoMetrics, EndedIn, MissedIn, Paths, Outcomes
  <2>4. Cardinality({}) = 0
    BY FS_EmptySet
  <2>5. AccountsNext
    BY <2>2, <2>3, <2>4 DEF AccountsNext, Outcomes, Codes
  <2>6. QED BY <2>5, AccountsPrimed
<1>8. QED
  BY <1>3, <1>4, <1>5, <1>6, <1>7 DEF FleetNext, PollStep

\* The metrics agree at every moment and for any number of collectors that
\* poll at a time: the results that observe counted are those that GetConfig
\* answered or is about to, and the interceptor's count of each code lags
\* behind what the resolver and the handler counted by the calls that have
\* returned with it.
THEOREM EveryCallAccounted == FleetSpec => []CallsAccounted
<1>1. Accounts => CallsAccounted
  BY DEF Accounts, CallsAccounted, EndedIn, MissedIn, Deciding, Returned,
         Undecided, Uncounted
<1>2. FleetInit => Accounts
  BY AccountsInit DEF FleetInit, ServiceInit
<1>3. QED
  BY <1>1, <1>2, FleetInvInit, FleetInvStep, AccountsStep, PTL DEF FleetSpec

-----------------------------------------------------------------------------
(* Scrapes.                                                                *)

\* The gauges of a scrape that has come to a step, if no list failed.
PipelineConfigGauges == {"valid", "invalid"}
PhaseGauges == {"Pending", "Active", "Degraded"}
GroupGauges == {"active", "inactive"}
BlockedGauges == {"blockedPipelineConfigs", "blockedCollectorGroups"}

SentBy(step) ==
  CASE step = "bindings" -> PipelineConfigGauges
    [] step = "groups" -> PipelineConfigGauges \cup PhaseGauges
    [] step = "blocked" -> PipelineConfigGauges \cup PhaseGauges \cup GroupGauges
    [] step = "tenants" -> PipelineConfigGauges \cup PhaseGauges
                             \cup GroupGauges \cup BlockedGauges
    [] step = "done" -> PipelineConfigGauges \cup PhaseGauges
                          \cup GroupGauges \cup BlockedGauges \cup {"tenants"}
    [] OTHER -> {}

\* One gauge of each list that is missing although its turn has come.
Missing(step, sent) ==
  ({"valid", "Pending", "active", "tenants"} \cap SentBy(step)) \ sent

\* The fields of a scrape.
Shaped(s) ==
  s \in [step : {s.step}, gauges : {s.gauges}, pcList : {s.pcList},
         cgList : {s.cgList}, errors : {s.errors}]

\* What is known of the scrape s at its step. The lists that are kept for the
\* blocked gauges are those that were counted.
ScrapeSound(s) ==
  LET g == s.gauges
      sent == DOMAIN g
      blockedPC == Cardinality(Blocked(s.pcList.items))
      blockedCG == Cardinality(Blocked(s.cgList.items))
  IN
  /\ Shaped(s)
  /\ s.pcList.failed \in BOOLEAN /\ s.cgList.failed \in BOOLEAN
  /\ s.step \in {"idle", "bindings", "groups", "blocked", "tenants", "done"}
  /\ sent \subseteq SentBy(s.step)
  /\ s.errors = Cardinality(Missing(s.step, sent))
  /\ s.step # "idle" => ("valid" \in sent <=> ~s.pcList.failed)
  /\ "valid" \in sent => /\ "invalid" \in sent
                         /\ blockedPC <= g["valid"] + g["invalid"]
  /\ s.step \in {"blocked", "tenants", "done"} =>
       ("active" \in sent <=> ~s.cgList.failed)
  /\ s.step \in {"bindings", "groups"} => s.cgList.failed
  /\ "active" \in sent => blockedCG <= g["active"]
  /\ s.step \in {"tenants", "done"} =>
       /\ "blockedPipelineConfigs" \in sent <=> ~s.pcList.failed
       /\ "blockedCollectorGroups" \in sent <=> ~s.cgList.failed
       /\ "blockedPipelineConfigs" \in sent =>
            g["blockedPipelineConfigs"] = blockedPC
       /\ "blockedCollectorGroups" \in sent =>
            g["blockedCollectorGroups"] = blockedCG

\* What is blocked is among what is active, and among all that was counted.
LEMMA BlockedActive ==
  ASSUME NEW list, DOMAIN list \in SUBSET Counted
  PROVE  /\ IsFiniteSet(DOMAIN list)
         /\ Active(list) \in SUBSET DOMAIN list
         /\ Blocked(list) \in SUBSET Active(list)
         /\ Cardinality(Blocked(list)) <= Cardinality(Active(list))
<1>1. IsFiniteSet(DOMAIN list)
  BY FiniteCounted, FS_Subset
<1>2. Active(list) \in SUBSET DOMAIN list /\ Blocked(list) \in SUBSET Active(list)
  BY DEF Active, Blocked
<1>3. IsFiniteSet(Active(list))
  BY <1>1, <1>2, FS_Subset
<1>4. Cardinality(Blocked(list)) <= Cardinality(Active(list))
  BY <1>2, <1>3, FS_Subset
<1>5. QED BY <1>1, <1>2, <1>4

LEMMA BlockedCounted ==
  ASSUME NEW list, DOMAIN list \in SUBSET Counted, NEW in \in SUBSET DOMAIN list
  PROVE  Cardinality(Blocked(list))
           <= Cardinality(in) + Cardinality(DOMAIN list \ in)
<1> DEFINE all == DOMAIN list
<1>1. IsFiniteSet(all) /\ Blocked(list) \in SUBSET all
  BY BlockedActive
<1> HIDE DEF all
<1>2. Cardinality(Blocked(list)) <= Cardinality(all)
  BY <1>1, FS_Subset
<1>3. in \in SUBSET all /\ all \cap in = in
  BY DEF all
<1>4. IsFiniteSet(in)
  BY <1>1, <1>3, FS_Subset
<1>5. Cardinality(all \ in) = Cardinality(all) - Cardinality(all \cap in)
  BY <1>1, FS_Difference
<1>6. Cardinality(in) \in Nat /\ Cardinality(all) \in Nat
  BY <1>1, <1>4, FS_CardinalityType
<1>7. Cardinality(in) + Cardinality(all \ in) = Cardinality(all)
  BY <1>3, <1>5, <1>6
<1>8. QED BY <1>2, <1>7 DEF all

LEMMA ListDomain ==
  ASSUME NEW objects \in SUBSET Counted
  PROVE  DOMAIN List(objects) \in SUBSET Counted
BY DEF List

LEMMA MissingFinite ==
  ASSUME NEW step, NEW sent
  PROVE  IsFiniteSet(Missing(step, sent))
<1> DEFINE S == {"valid", "Pending", "active", "tenants"}
<1>1. IsFiniteSet({})
  BY FS_EmptySet
<1>2. IsFiniteSet({} \cup {"valid"})
  BY <1>1, FS_AddElement
<1>3. IsFiniteSet(({} \cup {"valid"}) \cup {"Pending"})
  BY <1>2, FS_AddElement
<1>4. IsFiniteSet((({} \cup {"valid"}) \cup {"Pending"}) \cup {"active"})
  BY <1>3, FS_AddElement
<1>5. IsFiniteSet(((({} \cup {"valid"}) \cup {"Pending"}) \cup {"active"})
                    \cup {"tenants"})
  BY <1>4, FS_AddElement
<1>6. S = ((({} \cup {"valid"}) \cup {"Pending"}) \cup {"active"})
                    \cup {"tenants"}
  OBVIOUS
<1>7. Missing(step, sent) \in SUBSET S
  BY DEF Missing
<1> HIDE DEF S
<1>8. IsFiniteSet(S)
  BY <1>5, <1>6
<1>9. QED BY <1>7, <1>8, FS_Subset

\* The steps that list, and a gauge of the list.
Turn(step, next, name) ==
  \/ step = "bindings" /\ next = "groups" /\ name = "Pending"
  \/ step = "groups" /\ next = "blocked" /\ name = "active"
  \/ step = "tenants" /\ next = "done" /\ name = "tenants"

Representatives == {"valid", "Pending", "active", "tenants"}

LEMMA TurnGauges ==
  ASSUME NEW step, NEW next, NEW name, Turn(step, next, name)
  PROVE  /\ name \notin SentBy(step)
         /\ Representatives \cap SentBy(next)
              = (Representatives \cap SentBy(step)) \cup {name}
BY DEF SentBy, Turn, Representatives, PipelineConfigGauges, PhaseGauges,
       GroupGauges, BlockedGauges

\* What is missing after a list was counted, and after a list that failed.
LEMMA MissingSent ==
  ASSUME NEW step, NEW next, NEW sent, NEW name, Turn(step, next, name),
         sent \subseteq SentBy(step), NEW new, name \in new,
         new \cap SentBy(step) = {}
  PROVE  Missing(next, new \cup sent) = Missing(step, sent)
<1>1. Missing(step, sent) = (Representatives \cap SentBy(step)) \ sent
  BY DEF Missing, Representatives
<1>2. Missing(next, new \cup sent)
        = (Representatives \cap SentBy(next)) \ (new \cup sent)
  BY DEF Missing, Representatives
<1>3. QED BY <1>1, <1>2, TurnGauges

LEMMA MissingFailed ==
  ASSUME NEW step, NEW next, NEW sent, NEW name, Turn(step, next, name),
         sent \subseteq SentBy(step)
  PROVE  Cardinality(Missing(next, sent)) = Cardinality(Missing(step, sent)) + 1
<1>1. /\ Missing(step, sent) = (Representatives \cap SentBy(step)) \ sent
      /\ Missing(next, sent) = (Representatives \cap SentBy(next)) \ sent
  BY DEF Missing, Representatives
<1>2. /\ Missing(next, sent) = Missing(step, sent) \cup {name}
      /\ name \notin Missing(step, sent)
  BY <1>1, TurnGauges
<1>3. QED BY <1>2, MissingFinite, FS_AddElement

\* Gauges are sent, and a list fails.
Sends(s, step, new) ==
  /\ s.step = step /\ s.gauges = Together(new, scrape.gauges)
  /\ s.pcList = scrape.pcList /\ s.cgList = scrape.cgList
  /\ s.errors = scrape.errors /\ Shaped(s)

Loses(s, step) ==
  /\ s.step = step /\ s.gauges = scrape.gauges
  /\ s.pcList = scrape.pcList /\ s.cgList = scrape.cgList
  /\ s.errors = scrape.errors + 1 /\ Shaped(s)

LEMMA Emitted ==
  ASSUME ScrapeSound(scrape), NEW step, NEW new
  PROVE  Sends(Emit(step, new), step, new) /\ Loses(ListFails(step), step)
<1>1. PICK all, n : all = Together(new, scrape.gauges) /\ n = scrape.errors + 1
  OBVIOUS
<1> DEFINE s == [scrape EXCEPT !.step = step, !.gauges = all]
           f == [scrape EXCEPT !.step = step, !.errors = n]
<1>2. Emit(step, new) = s /\ ListFails(step) = f
  BY <1>1 DEF Emit, ListFails
<1>3. scrape \in [step : {scrape.step}, gauges : {scrape.gauges},
                  pcList : {scrape.pcList}, cgList : {scrape.cgList},
                  errors : {scrape.errors}]
  BY DEF ScrapeSound, Shaped
<1>4. s \in [step : {step}, gauges : {all}, pcList : {scrape.pcList},
             cgList : {scrape.cgList}, errors : {scrape.errors}]
  BY <1>3
<1>5. f \in [step : {step}, gauges : {scrape.gauges}, pcList : {scrape.pcList},
             cgList : {scrape.cgList}, errors : {n}]
  BY <1>3
<1> HIDE DEF s, f
<1>6. /\ s.step = step /\ s.gauges = all /\ s.pcList = scrape.pcList
      /\ s.cgList = scrape.cgList /\ s.errors = scrape.errors
  BY <1>4
<1>7. /\ f.step = step /\ f.gauges = scrape.gauges /\ f.pcList = scrape.pcList
      /\ f.cgList = scrape.cgList /\ f.errors = n
  BY <1>5
<1>8. Shaped(s) /\ Shaped(f)
  BY <1>4, <1>5, <1>6, <1>7 DEF Shaped
<1>9. Sends(s, step, new)
  BY <1>1, <1>6, <1>8 DEF Sends
<1>10. Loses(f, step)
  BY <1>1, <1>7, <1>8 DEF Loses
<1>11. QED BY <1>2, <1>9, <1>10

LEMMA PipelineConfigsSound ==
  ASSUME CollectPipelineConfigs
  PROVE  ScrapeSound(scrape')
<1> USE DEF PipelineConfigGauges, NoList, Listed
<1> DEFINE list == List(PipelineConfigs)
           g == Partition(list, Valid(list), "valid", "invalid")
           s == [step |-> "bindings", gauges |-> g, pcList |-> Listed(list),
                 cgList |-> NoList, errors |-> 0]
           f == [step |-> "bindings", gauges |-> <<>>, pcList |-> NoList,
                 cgList |-> NoList, errors |-> 1]
<1>1. scrape' = s \/ scrape' = f
  BY DEF CollectPipelineConfigs, NotScraped
<1>2. SentBy("bindings") = {"valid", "invalid"}
  BY DEF SentBy
<1>3. CASE scrape' = s
  <2>1. /\ DOMAIN g = {"valid", "invalid"} /\ g["valid"] = Cardinality(Valid(list))
        /\ g["invalid"] = Cardinality(DOMAIN list \ Valid(list))
    <3>1. "valid" # "invalid"
      OBVIOUS
    <3> HIDE DEF list
    <3>2. QED BY <3>1 DEF Partition, Together, Gauge
  <2>2. DOMAIN list \in SUBSET Counted /\ Valid(list) \in SUBSET DOMAIN list
    BY ListDomain DEF Counted, Valid
  <2> HIDE DEF list, g
  <2>3. Cardinality(Blocked(list)) <= g["valid"] + g["invalid"]
    BY <2>1, <2>2, BlockedCounted
  <2>4. Missing("bindings", DOMAIN g) = {}
    BY <1>2, <2>1 DEF Missing
  <2>5. Cardinality(Missing("bindings", DOMAIN g)) = 0
    BY <2>4, FS_EmptySet
  <2>6. /\ s.step = "bindings" /\ s.gauges = g /\ s.pcList.items = list
        /\ ~s.pcList.failed /\ s.cgList.failed /\ s.errors = 0 /\ Shaped(s)
    BY DEF Shaped
  <2>7. ScrapeSound(s)
    BY <1>2, <2>1, <2>3, <2>5, <2>6 DEF ScrapeSound
  <2>8. QED BY <1>3, <2>7
<1>4. CASE scrape' = f
  <2>1. Missing("bindings", {}) = {"valid"}
    BY <1>2 DEF Missing
  <2>2. Cardinality(Missing("bindings", {})) = 1
    BY <2>1, FS_Singleton
  <2>3. /\ f.step = "bindings" /\ DOMAIN f.gauges = {} /\ f.pcList.failed
        /\ f.cgList.failed /\ f.errors = 1 /\ Shaped(f)
    <3>1. f.gauges = <<>> /\ DOMAIN <<>> = {}
      OBVIOUS
    <3>2. Shaped(f)
      BY DEF Shaped
    <3>3. QED BY <3>1, <3>2
  <2>4. ScrapeSound(f)
    BY <1>2, <2>2, <2>3 DEF ScrapeSound
  <2>5. QED BY <1>4, <2>4
<1>5. QED BY <1>1, <1>3, <1>4

\* A list fails: one more gauge is missing.
LEMMA FailureSound ==
  ASSUME ScrapeSound(scrape), NEW next, NEW name,
         \/ scrape.step = "bindings" /\ next = "groups" /\ name = "Pending"
         \/ scrape.step = "groups" /\ next = "blocked" /\ name = "active"
              /\ scrape.cgList.failed
         \/ scrape.step = "tenants" /\ next = "done" /\ name = "tenants"
  PROVE  ScrapeSound(ListFails(next))
<1> DEFINE s == ListFails(next)
           sent == DOMAIN scrape.gauges
<1>2. /\ s.step = next /\ s.gauges = scrape.gauges /\ s.pcList = scrape.pcList
      /\ s.cgList = scrape.cgList /\ s.errors = scrape.errors + 1 /\ Shaped(s)
  <2>1. Loses(s, next)
    BY Emitted
  <2> HIDE DEF s
  <2>2. QED BY <2>1 DEF Loses
<1>3. /\ sent \subseteq SentBy(scrape.step)
      /\ scrape.errors = Cardinality(Missing(scrape.step, sent))
  BY DEF ScrapeSound
<1>4. /\ {name} \cap SentBy(scrape.step) = {}
      /\ SentBy(scrape.step) \subseteq SentBy(next)
  BY DEF SentBy, PipelineConfigGauges, PhaseGauges, GroupGauges, BlockedGauges
<1>5. s.errors = Cardinality(Missing(next, sent))
  <2>1. Turn(scrape.step, next, name)
    BY DEF Turn
  <2> HIDE DEF sent
  <2>2. Cardinality(Missing(next, sent)) = Cardinality(Missing(scrape.step, sent)) + 1
    BY <1>3, <2>1, MissingFailed
  <2>3. QED BY <1>2, <1>3, <2>2
<1>6. scrape.step = "groups" => "active" \notin sent
  BY <1>3 DEF SentBy, PipelineConfigGauges, PhaseGauges
<1> HIDE DEF s
<1>7. QED BY <1>2, <1>3, <1>4, <1>5, <1>6 DEF ScrapeSound, s

LEMMA BindingsSound ==
  ASSUME ScrapeSound(scrape), CollectCollectorGroupBindings
  PROVE  ScrapeSound(scrape')
<1> DEFINE list == List(Bindings)
           new == [phase \in {"Pending", "Active", "Degraded"} |->
             Cardinality({b \in DOMAIN list : PhaseLabel(list[b].status) = phase})]
           g == scrape.gauges
           s == Emit("groups", new)
<1>1. /\ scrape.step = "bindings"
      /\ scrape' = s \/ scrape' = ListFails("groups")
  BY DEF CollectCollectorGroupBindings
<1>2. DOMAIN new = {"Pending", "Active", "Degraded"}
  OBVIOUS
<1> HIDE DEF new
<1>4. /\ s.step = "groups" /\ s.gauges = Together(new, g)
      /\ s.pcList = scrape.pcList /\ s.cgList = scrape.cgList
      /\ s.errors = scrape.errors /\ Shaped(s)
  <2>1. Sends(s, "groups", new)
    BY Emitted
  <2> HIDE DEF s
  <2>2. QED BY <2>1 DEF Sends
<1>5. /\ SentBy("bindings") = {"valid", "invalid"}
      /\ SentBy("groups") = {"valid", "invalid", "Pending", "Active", "Degraded"}
  BY DEF SentBy, PipelineConfigGauges, PhaseGauges
<1>6. /\ DOMAIN g \subseteq SentBy("bindings")
      /\ scrape.errors = Cardinality(Missing("bindings", DOMAIN g))
  BY <1>1 DEF ScrapeSound
<1>7. /\ DOMAIN s.gauges = (DOMAIN new) \cup (DOMAIN g)
      /\ \A n \in (DOMAIN g) \ (DOMAIN new) : s.gauges[n] = g[n]
  <2> HIDE DEF g, s
  <2>1. QED BY <1>4 DEF Together
<1> HIDE DEF s
<1>8. s.errors = Cardinality(Missing("groups", DOMAIN s.gauges))
  <2>1. "Pending" \in DOMAIN new /\ DOMAIN new \cap SentBy("bindings") = {}
    BY <1>2, <1>5
  <2>2. Turn("bindings", "groups", "Pending")
    BY DEF Turn
  <2>3. Missing("groups", (DOMAIN new) \cup (DOMAIN g))
          = Missing("bindings", DOMAIN g)
    BY <1>6, <2>1, <2>2, MissingSent
  <2>4. QED BY <1>4, <1>6, <1>7, <2>3
<1>9. /\ DOMAIN s.gauges \subseteq SentBy("groups")
      /\ "valid" \in DOMAIN s.gauges <=> "valid" \in DOMAIN g
      /\ "invalid" \in DOMAIN s.gauges <=> "invalid" \in DOMAIN g
      /\ "valid" \in DOMAIN g => s.gauges["valid"] = g["valid"]
      /\ "invalid" \in DOMAIN g => s.gauges["invalid"] = g["invalid"]
      /\ "active" \notin DOMAIN s.gauges
  BY <1>2, <1>5, <1>6, <1>7
<1>10. ScrapeSound(s)
  BY <1>1, <1>4, <1>8, <1>9 DEF ScrapeSound
<1>11. QED BY <1>1, <1>10, FailureSound

\* The groups were counted.
LEMMA CountedSound ==
  ASSUME NEW s, Shaped(s), s.step = "blocked", s.pcList.failed \in BOOLEAN,
         s.cgList.failed = FALSE, DOMAIN s.gauges \subseteq SentBy("blocked"),
         s.errors = Cardinality(Missing("blocked", DOMAIN s.gauges)),
         "valid" \in DOMAIN s.gauges <=> ~s.pcList.failed,
         "valid" \in DOMAIN s.gauges =>
           /\ "invalid" \in DOMAIN s.gauges
           /\ Cardinality(Blocked(s.pcList.items))
                <= s.gauges["valid"] + s.gauges["invalid"],
         "active" \in DOMAIN s.gauges,
         Cardinality(Blocked(s.cgList.items)) <= s.gauges["active"]
  PROVE  ScrapeSound(s)
BY DEF ScrapeSound

LEMMA GroupsSound ==
  ASSUME ScrapeSound(scrape), CollectCollectorGroups
  PROVE  ScrapeSound(scrape')
<1> DEFINE list == List(CollectorGroups)
           new == Partition(list, Active(list), "active", "inactive")
           g == scrape.gauges
           e == Emit("blocked", new)
           s == [e EXCEPT !.cgList = Listed(list)]
<1>1. /\ scrape.step = "groups"
      /\ scrape' = s \/ scrape' = ListFails("blocked")
  BY DEF CollectCollectorGroups
<1>2. DOMAIN list \in SUBSET Counted
  BY ListDomain DEF Counted
<1> HIDE DEF list
<1>3. DOMAIN new = {"active", "inactive"} /\ new["active"] = Cardinality(Active(list))
  BY DEF Partition, Together, Gauge
<1> HIDE DEF new
<1>4. Cardinality(Blocked(list)) <= new["active"]
  <2>1. Cardinality(Blocked(list)) <= Cardinality(Active(list))
    BY <1>2, BlockedActive
  <2>2. QED BY <1>3, <2>1
<1>5. /\ e.step = "blocked" /\ e.gauges = Together(new, g)
      /\ e.pcList = scrape.pcList /\ e.errors = scrape.errors /\ Shaped(e)
  <2>1. Sends(e, "blocked", new)
    BY Emitted
  <2> HIDE DEF e
  <2>2. QED BY <2>1 DEF Sends
<1> HIDE DEF e
<1>6. /\ s.step = "blocked" /\ s.gauges = Together(new, g)
      /\ s.pcList = scrape.pcList /\ s.cgList = Listed(list)
      /\ s.errors = scrape.errors /\ Shaped(s)
  <2>1. PICK kept : kept = Listed(list)
    OBVIOUS
  <2>2. s \in [step : {e.step}, gauges : {e.gauges}, pcList : {e.pcList},
               cgList : {kept}, errors : {e.errors}]
    BY <1>5, <2>1 DEF Shaped
  <2> HIDE DEF s
  <2>3. /\ s.step = e.step /\ s.gauges = e.gauges /\ s.pcList = e.pcList
        /\ s.cgList = kept /\ s.errors = e.errors
    BY <2>2
  <2>4. Shaped(s)
    BY <2>2, <2>3 DEF Shaped
  <2>5. QED BY <1>5, <2>1, <2>3, <2>4
<1> HIDE DEF s
<1>7. /\ SentBy("groups") = {"valid", "invalid", "Pending", "Active", "Degraded"}
      /\ SentBy("blocked") = {"valid", "invalid", "Pending", "Active", "Degraded",
                              "active", "inactive"}
  BY DEF SentBy, PipelineConfigGauges, PhaseGauges, GroupGauges
<1>8. /\ DOMAIN g \subseteq SentBy("groups")
      /\ scrape.errors = Cardinality(Missing("groups", DOMAIN g))
  BY <1>1 DEF ScrapeSound
<1>9. /\ DOMAIN s.gauges = (DOMAIN new) \cup (DOMAIN g)
      /\ \A n \in DOMAIN new : s.gauges[n] = new[n]
      /\ \A n \in (DOMAIN g) \ (DOMAIN new) : s.gauges[n] = g[n]
  <2> HIDE DEF g
  <2>1. QED BY <1>6 DEF Together
<1>10. s.errors = Cardinality(Missing("blocked", DOMAIN s.gauges))
  <2>1. "active" \in DOMAIN new /\ DOMAIN new \cap SentBy("groups") = {}
    BY <1>3, <1>7
  <2>2. Turn("groups", "blocked", "active")
    BY DEF Turn
  <2>3. Missing("blocked", (DOMAIN new) \cup (DOMAIN g))
          = Missing("groups", DOMAIN g)
    BY <1>8, <2>1, <2>2, MissingSent
  <2>4. QED BY <1>6, <1>8, <1>9, <2>3
<1>11. /\ DOMAIN s.gauges \subseteq SentBy("blocked")
       /\ "valid" \in DOMAIN s.gauges <=> "valid" \in DOMAIN g
       /\ "invalid" \in DOMAIN s.gauges <=> "invalid" \in DOMAIN g
       /\ "valid" \in DOMAIN g => s.gauges["valid"] = g["valid"]
       /\ "invalid" \in DOMAIN g => s.gauges["invalid"] = g["invalid"]
       /\ "active" \in DOMAIN s.gauges /\ s.gauges["active"] = new["active"]
  <2>1. DOMAIN s.gauges \subseteq SentBy("blocked")
    <3>1. DOMAIN new \subseteq SentBy("blocked")
      BY <1>3, <1>7
    <3>2. DOMAIN g \subseteq SentBy("blocked")
      BY <1>7, <1>8
    <3>3. QED BY <1>9, <3>1, <3>2
  <2>2. "active" \in DOMAIN s.gauges /\ s.gauges["active"] = new["active"]
    BY <1>3, <1>9
  <2>3. "valid" \notin DOMAIN new /\ "invalid" \notin DOMAIN new
    BY <1>3
  <2>4. QED BY <1>9, <2>1, <2>2, <2>3
<1>12. ScrapeSound(s)
  <2>1. s.cgList.failed = FALSE /\ s.cgList.items = list
    <3>1. Listed(list).failed = FALSE /\ Listed(list).items = list
      BY DEF Listed
    <3>2. s.cgList = Listed(list)
      BY <1>6
    <3>3. QED BY <3>1, <3>2
  <2>2. /\ s.pcList.failed \in BOOLEAN
        /\ "valid" \in DOMAIN g <=> ~s.pcList.failed
        /\ "valid" \in DOMAIN g =>
             /\ "invalid" \in DOMAIN g
             /\ Cardinality(Blocked(s.pcList.items)) <= g["valid"] + g["invalid"]
    BY <1>1, <1>6 DEF ScrapeSound
  <2>3. "active" \in DOMAIN s.gauges
        /\ Cardinality(Blocked(s.cgList.items)) <= s.gauges["active"]
    BY <1>4, <1>11, <2>1
  <2> HIDE DEF g
  <2>4. /\ "valid" \in DOMAIN s.gauges <=> ~s.pcList.failed
        /\ "valid" \in DOMAIN s.gauges =>
             /\ "invalid" \in DOMAIN s.gauges
             /\ Cardinality(Blocked(s.pcList.items))
                  <= s.gauges["valid"] + s.gauges["invalid"]
    BY <1>11, <2>2
  <2>5. QED BY <1>6, <1>10, <1>11, <2>1, <2>2, <2>3, <2>4, CountedSound
<1>13. scrape.cgList.failed
  BY <1>1 DEF ScrapeSound
<1>14. QED BY <1>1, <1>12, <1>13, FailureSound

LEMMA TenantsSound ==
  ASSUME ScrapeSound(scrape), CollectRegisteredTenants
  PROVE  ScrapeSound(scrape')
<1>1. /\ scrape.step = "tenants"
      /\ \E n : scrape' \in {Emit("done", Gauge("tenants", n)), ListFails("done")}
  BY DEF CollectRegisteredTenants
<1>2. PICK n : scrape' \in {Emit("done", Gauge("tenants", n)), ListFails("done")}
  BY <1>1
<1> DEFINE new == Gauge("tenants", n)
           g == scrape.gauges
           s == Emit("done", new)
<1>3. DOMAIN new = {"tenants"}
  BY DEF Gauge
<1> HIDE DEF new
<1>4. /\ s.step = "done" /\ s.gauges = Together(new, g)
      /\ s.pcList = scrape.pcList /\ s.cgList = scrape.cgList
      /\ s.errors = scrape.errors /\ Shaped(s)
  <2>1. Sends(s, "done", new)
    BY Emitted
  <2> HIDE DEF s
  <2>2. QED BY <2>1 DEF Sends
<1> HIDE DEF s
<1>5. SentBy("done") = SentBy("tenants") \cup {"tenants"}
      /\ "tenants" \notin SentBy("tenants")
  BY DEF SentBy, PipelineConfigGauges, PhaseGauges, GroupGauges, BlockedGauges
<1>6. /\ DOMAIN g \subseteq SentBy("tenants")
      /\ scrape.errors = Cardinality(Missing("tenants", DOMAIN g))
  BY <1>1 DEF ScrapeSound
<1>7. /\ DOMAIN s.gauges = {"tenants"} \cup (DOMAIN g)
      /\ \A m \in DOMAIN g : m # "tenants" => s.gauges[m] = g[m]
  <2> HIDE DEF g
  <2>1. QED BY <1>3, <1>4 DEF Together
<1>8. s.errors = Cardinality(Missing("done", DOMAIN s.gauges))
  <2>1. "tenants" \in DOMAIN new /\ DOMAIN new \cap SentBy("tenants") = {}
    BY <1>3, <1>5
  <2>2. Turn("tenants", "done", "tenants")
    BY DEF Turn
  <2>3. Missing("done", (DOMAIN new) \cup (DOMAIN g))
          = Missing("tenants", DOMAIN g)
    BY <1>6, <2>1, <2>2, MissingSent
  <2>4. QED BY <1>3, <1>4, <1>6, <1>7, <2>3
<1>9. DOMAIN s.gauges \subseteq SentBy("done")
  BY <1>5, <1>6, <1>7
<1>10. ScrapeSound(s)
  BY <1>1, <1>4, <1>7, <1>8, <1>9 DEF ScrapeSound
<1>11. QED BY <1>1, <1>2, <1>10, FailureSound DEF s, new

LEMMA DeletionBlockedSound ==
  ASSUME ScrapeSound(scrape), CollectDeletionBlocked
  PROVE  ScrapeSound(scrape')
<1> DEFINE p == BlockedGauge(scrape.pcList, "blockedPipelineConfigs")
           c == BlockedGauge(scrape.cgList, "blockedCollectorGroups")
           new == Together(p, c)
           g == scrape.gauges
           s == Emit("tenants", new)
<1>1. scrape.step = "blocked" /\ scrape' = s
  BY DEF CollectDeletionBlocked
<1>2. scrape.pcList.failed \in BOOLEAN /\ scrape.cgList.failed \in BOOLEAN
  BY DEF ScrapeSound
<1>3. /\ DOMAIN p = IF scrape.pcList.failed THEN {} ELSE {"blockedPipelineConfigs"}
      /\ ~scrape.pcList.failed =>
           p["blockedPipelineConfigs"] = Cardinality(Blocked(scrape.pcList.items))
  <2>1. CASE scrape.pcList.failed
    <3>1. p = <<>> /\ DOMAIN <<>> = {}
      BY <2>1 DEF BlockedGauge
    <3>2. QED BY <2>1, <3>1
  <2>2. CASE ~scrape.pcList.failed
    <3>1. p = Gauge("blockedPipelineConfigs", Cardinality(Blocked(scrape.pcList.items)))
      BY <2>2 DEF BlockedGauge
    <3>2. QED BY <2>2, <3>1 DEF Gauge
  <2>3. QED BY <1>2, <2>1, <2>2
<1>4. /\ DOMAIN c = IF scrape.cgList.failed THEN {} ELSE {"blockedCollectorGroups"}
      /\ ~scrape.cgList.failed =>
           c["blockedCollectorGroups"] = Cardinality(Blocked(scrape.cgList.items))
  <2>1. CASE scrape.cgList.failed
    <3>1. c = <<>> /\ DOMAIN <<>> = {}
      BY <2>1 DEF BlockedGauge
    <3>2. QED BY <2>1, <3>1
  <2>2. CASE ~scrape.cgList.failed
    <3>1. c = Gauge("blockedCollectorGroups", Cardinality(Blocked(scrape.cgList.items)))
      BY <2>2 DEF BlockedGauge
    <3>2. QED BY <2>2, <3>1 DEF Gauge
  <2>3. QED BY <1>2, <2>1, <2>2
<1> HIDE DEF p, c
<1>5. /\ DOMAIN new \subseteq BlockedGauges
      /\ "blockedPipelineConfigs" \in DOMAIN new <=> ~scrape.pcList.failed
      /\ "blockedCollectorGroups" \in DOMAIN new <=> ~scrape.cgList.failed
  <2>1. DOMAIN new = (DOMAIN p) \cup (DOMAIN c)
    BY DEF Together
  <2> HIDE DEF new
  <2>2. DOMAIN new \subseteq BlockedGauges
    BY <1>3, <1>4, <2>1 DEF BlockedGauges
  <2>3. "blockedPipelineConfigs" \in DOMAIN new <=> ~scrape.pcList.failed
    <3>1. "blockedPipelineConfigs" \in DOMAIN p <=> ~scrape.pcList.failed
      BY <1>3
    <3>2. "blockedPipelineConfigs" \notin DOMAIN c
      BY <1>4
    <3>3. QED BY <2>1, <3>1, <3>2
  <2>4. "blockedCollectorGroups" \in DOMAIN new <=> ~scrape.cgList.failed
    <3>1. "blockedCollectorGroups" \in DOMAIN c <=> ~scrape.cgList.failed
      BY <1>4
    <3>2. "blockedCollectorGroups" \notin DOMAIN p
      BY <1>3
    <3>3. QED BY <2>1, <3>1, <3>2
  <2>5. QED BY <2>2, <2>3, <2>4
<1>6. /\ ~scrape.pcList.failed =>
           new["blockedPipelineConfigs"] = Cardinality(Blocked(scrape.pcList.items))
      /\ ~scrape.cgList.failed =>
           new["blockedCollectorGroups"] = Cardinality(Blocked(scrape.cgList.items))
  <2>1. /\ \A n \in DOMAIN p : new[n] = p[n]
        /\ \A n \in (DOMAIN c) \ (DOMAIN p) : new[n] = c[n]
    BY DEF Together
  <2>2. "blockedCollectorGroups" \notin DOMAIN p
    BY <1>3
  <2> HIDE DEF new
  <2>3. QED BY <1>3, <1>4, <2>1, <2>2
<1> HIDE DEF new
<1>7. /\ s.step = "tenants" /\ s.gauges = Together(new, g)
      /\ s.pcList = scrape.pcList /\ s.cgList = scrape.cgList
      /\ s.errors = scrape.errors /\ Shaped(s)
  <2>1. Sends(s, "tenants", new)
    BY Emitted
  <2> HIDE DEF s
  <2>2. QED BY <2>1 DEF Sends
<1> HIDE DEF s
<1>8. /\ SentBy("tenants") = SentBy("blocked") \cup BlockedGauges
      /\ SentBy("blocked") \cap BlockedGauges = {}
      /\ {"valid", "invalid", "Pending", "active", "tenants"} \cap BlockedGauges = {}
  BY DEF SentBy, PipelineConfigGauges, PhaseGauges, GroupGauges, BlockedGauges
<1>9. /\ DOMAIN g \subseteq SentBy("blocked")
      /\ scrape.errors = Cardinality(Missing("blocked", DOMAIN g))
  BY <1>1 DEF ScrapeSound
<1>10. /\ DOMAIN s.gauges = (DOMAIN new) \cup (DOMAIN g)
       /\ \A n \in DOMAIN new : s.gauges[n] = new[n]
       /\ \A n \in (DOMAIN g) \ (DOMAIN new) : s.gauges[n] = g[n]
  <2> HIDE DEF g
  <2>1. QED BY <1>7 DEF Together
<1>11. Missing("tenants", DOMAIN s.gauges) = Missing("blocked", DOMAIN g)
  BY <1>5, <1>8, <1>9, <1>10 DEF Missing
<1>12. /\ DOMAIN s.gauges \subseteq SentBy("tenants")
       /\ "blockedPipelineConfigs" \in BlockedGauges
       /\ "blockedCollectorGroups" \in BlockedGauges
  BY <1>5, <1>8, <1>9, <1>10 DEF BlockedGauges
<1>13. /\ "blockedPipelineConfigs" \in DOMAIN s.gauges <=> ~scrape.pcList.failed
       /\ "blockedCollectorGroups" \in DOMAIN s.gauges <=> ~scrape.cgList.failed
       /\ ~scrape.pcList.failed => s.gauges["blockedPipelineConfigs"]
                                     = Cardinality(Blocked(scrape.pcList.items))
       /\ ~scrape.cgList.failed => s.gauges["blockedCollectorGroups"]
                                     = Cardinality(Blocked(scrape.cgList.items))
  BY <1>5, <1>6, <1>8, <1>9, <1>10, <1>12
<1>14. \A n \in {"valid", "invalid", "active"} :
         /\ n \in DOMAIN s.gauges <=> n \in DOMAIN g
         /\ n \in DOMAIN g => s.gauges[n] = g[n]
  <2>1. \A n \in {"valid", "invalid", "active"} : n \notin DOMAIN new
    BY <1>5, <1>8
  <2>2. QED BY <1>10, <2>1
<1>15. ScrapeSound(s)
  <2>1. /\ "valid" \in DOMAIN s.gauges <=> "valid" \in DOMAIN g
        /\ "invalid" \in DOMAIN s.gauges <=> "invalid" \in DOMAIN g
        /\ "active" \in DOMAIN s.gauges <=> "active" \in DOMAIN g
        /\ "valid" \in DOMAIN g => s.gauges["valid"] = g["valid"]
        /\ "invalid" \in DOMAIN g => s.gauges["invalid"] = g["invalid"]
        /\ "active" \in DOMAIN g => s.gauges["active"] = g["active"]
    BY <1>14
  <2>2. s.errors = Cardinality(Missing("tenants", DOMAIN s.gauges))
    BY <1>7, <1>9, <1>11
  <2>3. QED BY <1>1, <1>7, <1>12, <1>13, <2>1, <2>2 DEF ScrapeSound
<1>16. QED BY <1>1, <1>15

\* Before a scrape, and after a restart.
LEMMA NotScrapedSound == ScrapeSound(NotScraped)
<1>1. /\ NotScraped.step = "idle" /\ DOMAIN NotScraped.gauges = {}
      /\ NotScraped.errors = 0 /\ NotScraped.pcList.failed
      /\ NotScraped.cgList.failed /\ Shaped(NotScraped)
  <2>1. NotScraped.step = "idle" /\ NotScraped.errors = 0
    BY DEF NotScraped
  <2>2. DOMAIN NotScraped.gauges = {}
    BY DEF NotScraped
  <2>3. NotScraped.pcList.failed /\ NotScraped.cgList.failed
    BY DEF NotScraped, NoList
  <2>4. Shaped(NotScraped)
    BY DEF NotScraped, Shaped
  <2>5. QED BY <2>1, <2>2, <2>3, <2>4
<1>2. SentBy("idle") = {}
  BY DEF SentBy
<1>3. Missing("idle", {}) = {}
  BY <1>2 DEF Missing
<1>4. Cardinality(Missing("idle", {})) = 0
  BY <1>3, FS_EmptySet
<1>5. QED BY <1>1, <1>2, <1>4 DEF ScrapeSound, NotScraped, NoList

LEMMA ScrapeStep ==
  ASSUME ScrapeSound(scrape), [FleetNext]_fleetVars
  PROVE  ScrapeSound(scrape)'
<1>1. CASE UNCHANGED scrape
  BY <1>1
<1>2. CASE Scrape
  <2>1. \/ CollectPipelineConfigs \/ CollectCollectorGroupBindings
        \/ CollectCollectorGroups \/ CollectDeletionBlocked
        \/ CollectRegisteredTenants
    BY <1>2 DEF Scrape, CollectMore
  <2>2. ScrapeSound(scrape')
    BY <2>1, PipelineConfigsSound, BindingsSound, GroupsSound,
       DeletionBlockedSound, TenantsSound
  <2>3. QED BY <2>2
<1>3. CASE FleetRestart
  <2>1. scrape' = NotScraped
    BY <1>3 DEF FleetRestart
  <2>2. QED BY <2>1, NotScrapedSound
<1>4. UNCHANGED scrape \/ Scrape \/ FleetRestart
  BY DEF FleetNext, fleetVars, OperatorStep, RegistryRpc, Poll, PollStep
<1>5. QED BY <1>1, <1>2, <1>3, <1>4

\* The gauges of one scrape agree with one another, whatever moved in the cache
\* between its lists and whichever of them failed.
THEOREM ScrapesAgree == FleetSpec => []ScrapeConsistent
<1>1. FleetInit => ScrapeSound(scrape)
  BY NotScrapedSound DEF FleetInit, ScrapeInit
<1>2. ASSUME ScrapeSound(scrape) PROVE ScrapeConsistent
  <2>1. SUFFICES ASSUME scrape.step = "done" PROVE ScrapeConsistent
    BY DEF ScrapeConsistent
  <2> DEFINE S == {"valid", "Pending", "active", "tenants"}
             sent == DOMAIN scrape.gauges
  <2>2. S \subseteq SentBy("done")
    BY DEF SentBy, PipelineConfigGauges, PhaseGauges, GroupGauges
  <2>3. Missing("done", sent) = S \ sent
    BY <2>2 DEF Missing
  <2>4. scrape.errors = Cardinality(S \ sent)
    BY <1>2, <2>1, <2>3 DEF ScrapeSound
  <2>5. QED BY <1>2, <2>1, <2>4 DEF ScrapeSound, ScrapeConsistent
<1>3. QED BY <1>1, <1>2, ScrapeStep, PTL DEF FleetSpec
=============================================================================
