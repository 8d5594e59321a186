----------------------------- MODULE RestProofs -----------------------------
(***************************************************************************)
(* When the operator comes to rest, everything is as the specs ask.        *)
(*                                                                         *)
(* A request leaves the work queue when a reconcile takes it, and nothing  *)
(* but an event, an error or a restart brings it back. So the proof goes   *)
(* over what is still due: an object that is not as it should be is queued *)
(* or being reconciled, or an event of it is on its way.                   *)
(***************************************************************************)
EXTENDS WriteProofs

RestInv ==
  /\ SoundInv /\ EventsInOrder /\ LastEventStored
  /\ NothingForgotten /\ ReadsFresh

-----------------------------------------------------------------------------
(* The events on their way.                                                *)

\* The watch of each kind after a write that changes something.
LEMMA PutAppends ==
  ASSUME SoundInv, NEW o \in Objects, NEW v, Put(o, v), v # store[o]
  PROVE  \E e : \E n \in Nat :
           /\ e.object = o /\ e.version = store'[o]
           /\ KindOf(o) \in Kinds /\ n = Len(watch[KindOf(o)])
           /\ Len(watch'[KindOf(o)]) = n + 1 /\ watch'[KindOf(o)][n + 1] = e
           /\ \A i \in 1 .. n : watch'[KindOf(o)][i] = watch[KindOf(o)][i]
           /\ \A k \in Kinds \ {KindOf(o)} : watch'[k] = watch[k]
<1> DEFINE E == [object : Objects, version : AnyVersion]
           w == [v EXCEPT !.rv = store[o].rv + 1]
           e == [object |-> o, version |-> w]
           q == KindOf(o)
           n == Len(watch[q])
<1>1. /\ store' = [store EXCEPT ![o] = w]
      /\ watch' = [watch EXCEPT ![q] = Append(@, e)]
  BY DEF Put
<1>2. /\ q \in Kinds /\ watch \in [Kinds -> Seq(E)]
      /\ store \in [Objects -> AnyVersion]
  BY DEF KindOf, Kinds, SoundInv, TypeInv, TypeOK, ApiTypeOK, WatchTypeOK,
         StoreTypeOK
<1>3. e.object = o /\ e.version = w
  OBVIOUS
<1> HIDE DEF E, w, e, q
<1>4. store'[o] = w
  BY <1>1, <1>2
<1>5. watch[q] \in Seq(E)
  BY <1>2
<1>6. /\ n \in Nat /\ Len(watch'[q]) = n + 1 /\ watch'[q][n + 1] = e
      /\ \A i \in 1 .. n : watch'[q][i] = watch[q][i]
  BY <1>1, <1>2, <1>5
<1>7. \A k \in Kinds \ {q} : watch'[k] = watch[k]
  BY <1>1, <1>2
<1> HIDE DEF n
<1>8. n = Len(watch[q])
  BY DEF n
<1>9. QED BY <1>2, <1>3, <1>4, <1>6, <1>7, <1>8 DEF q

\* A write takes no event away, and adds one if it changes something.
LEMMA PutPending ==
  ASSUME SoundInv, NEW o \in Objects, NEW v, Put(o, v)
  PROVE  /\ \A x \in Objects : Pending(x) => Pending(x)'
         /\ v # store[o] => Pending(o)'
<1>1. CASE v = store[o]
  BY <1>1 DEF Put, Pending
<1>2. CASE v # store[o]
  <2>1. PICK e : \E n \in Nat :
           /\ e.object = o /\ e.version = store'[o]
           /\ KindOf(o) \in Kinds /\ n = Len(watch[KindOf(o)])
           /\ Len(watch'[KindOf(o)]) = n + 1 /\ watch'[KindOf(o)][n + 1] = e
           /\ \A i \in 1 .. n : watch'[KindOf(o)][i] = watch[KindOf(o)][i]
           /\ \A k \in Kinds \ {KindOf(o)} : watch'[k] = watch[k]
    BY <1>2, PutAppends
  <2>2. ASSUME NEW x \in Objects, Pending(x) PROVE Pending(x)'
    <3>1. KindOf(x) \in Kinds
      BY DEF KindOf, Kinds
    <3>2. CASE KindOf(x) = KindOf(o)
      BY <2>1, <2>2, <3>2 DEF Pending
    <3>3. CASE KindOf(x) # KindOf(o)
      BY <2>1, <2>2, <3>1, <3>3 DEF Pending
    <3>4. QED BY <3>2, <3>3
  <2>3. Pending(o)'
    BY <2>1 DEF Pending
  <2>4. QED BY <2>2, <2>3
<1>3. QED BY <1>1, <1>2

\* After a write its event is the last one of the object.
LEMMA PutLastEvent ==
  ASSUME SoundInv, EventsInOrder, LastEventStored, NEW o \in Objects,
         NEW v \in Version(o), Put(o, v), UNCHANGED cache
  PROVE  LastEventStored'
<1>1. CASE v = store[o]
  BY <1>1 DEF Put, LastEventStored, Pending
<1>2. CASE v # store[o]
  <2> DEFINE q == KindOf(o)
  <2>1. PICK e : \E n \in Nat :
           /\ e.object = o /\ e.version = store'[o]
           /\ KindOf(o) \in Kinds /\ n = Len(watch[KindOf(o)])
           /\ Len(watch'[KindOf(o)]) = n + 1 /\ watch'[KindOf(o)][n + 1] = e
           /\ \A i \in 1 .. n : watch'[KindOf(o)][i] = watch[KindOf(o)][i]
           /\ \A k \in Kinds \ {KindOf(o)} : watch'[k] = watch[k]
    BY <1>2, PutAppends
  <2>2. PICK n \in Nat :
           /\ e.object = o /\ e.version = store'[o]
           /\ q \in Kinds /\ n = Len(watch[q])
           /\ Len(watch'[q]) = n + 1 /\ watch'[q][n + 1] = e
           /\ \A i \in 1 .. n : watch'[q][i] = watch[q][i]
           /\ \A k \in Kinds \ {q} : watch'[k] = watch[k]
    BY <2>1
  <2>3. \A x \in Objects \ {o} : store'[x] = store[x]
    BY PutStore DEF SoundInv, TypeInv, TypeOK, ApiTypeOK
  <2>4. \A k \in Kinds : \A i \in 1 .. Len(watch[k]) :
          watch[k][i].object \in Objects /\ KindOf(watch[k][i].object) = k
    BY EventFields DEF EventsInOrder, SoundInv, TypeInv, TypeOK, ApiTypeOK
  <2>5. ASSUME NEW k \in Kinds, NEW i \in 1 .. Len(watch'[k])
        PROVE  \/ watch'[k][i].version = store'[watch'[k][i].object]
               \/ \E j \in i + 1 .. Len(watch'[k]) :
                    watch'[k][j].object = watch'[k][i].object
    <3>1. CASE k # q
      <4>1. watch'[k] = watch[k]
        BY <2>2, <3>1
      <4>2. watch[k][i].object \in Objects \ {o}
        BY <2>4, <2>5, <3>1, <4>1
      <4>3. QED BY <2>3, <2>5, <4>1, <4>2 DEF LastEventStored
    <3>2. CASE k = q /\ i = n + 1
      BY <2>2, <3>2
    <3>3. CASE k = q /\ i \in 1 .. n
      <4>1. watch'[q][i] = watch[q][i] /\ watch[q][i].object \in Objects
        BY <2>2, <2>4, <3>3
      <4>2. CASE watch[q][i].object = o
        <5>1. n + 1 \in i + 1 .. Len(watch'[q])
          BY <2>2, <3>3
        <5>2. QED BY <2>2, <3>3, <4>1, <4>2, <5>1
      <4>3. CASE watch[q][i].object # o
        <5>1. store'[watch[q][i].object] = store[watch[q][i].object]
          BY <2>3, <4>1, <4>3
        <5>2. \/ watch[q][i].version = store[watch[q][i].object]
              \/ \E j \in i + 1 .. n : watch[q][j].object = watch[q][i].object
          BY <2>2, <3>3 DEF LastEventStored
        <5>3. \A j \in i + 1 .. n : /\ j \in i + 1 .. Len(watch'[q])
                                    /\ watch'[q][j] = watch[q][j]
          <6>1. \A j \in i + 1 .. n : j \in 1 .. n /\ j \in i + 1 .. n + 1
            BY <3>3
          <6>2. QED BY <2>2, <6>1
        <5>4. QED BY <3>3, <4>1, <5>1, <5>2, <5>3
      <4>4. QED BY <4>2, <4>3
    <3>4. k = q => i = n + 1 \/ i \in 1 .. n
      BY <2>2
    <3>5. QED BY <3>1, <3>2, <3>3, <3>4
  <2>6. ASSUME NEW x \in Objects
        PROVE  cache'[x] = store'[x] \/ Pending(x)'
    <3>1. x # o => store'[x] = store[x]
      BY <2>3
    <3>2. QED BY <1>2, <3>1, PutPending DEF LastEventStored
  <2>7. QED BY <2>5, <2>6 DEF LastEventStored
<1>3. QED BY <1>1, <1>2

\* An event that is delivered: what it was about, and what is left.
LEMMA DeliverEvents ==
  ASSUME SoundInv, EventsInOrder, LastEventStored, NEW q \in Kinds, NEW reqs,
         Deliver(q, reqs)
  PROVE  /\ Head(watch[q]).object \in Objects
         /\ \A x \in Objects \ {Head(watch[q]).object} :
              cache'[x] = cache[x] /\ (Pending(x) => Pending(x)')
         /\ LastEventStored'
<1> DEFINE E == [object : Objects, version : AnyVersion]
           e == Head(watch[q])
           n == Len(watch[q])
<1> USE DEF SoundInv, TypeInv, TypeOK, ApiTypeOK
<1>1. /\ watch \in [Kinds -> Seq(E)] /\ watch[q] \in Seq(E) /\ watch[q] # <<>>
      /\ cache' = [cache EXCEPT ![e.object] = e.version]
      /\ watch' = [watch EXCEPT ![q] = Tail(watch[q])] /\ store' = store
  BY DEF Deliver, WatchTypeOK
<1>2. 1 \in 1 .. n /\ e = watch[q][1] /\ e.object \in Objects
  BY <1>1, FirstEvent
<1> HIDE DEF E, e
<1>3. /\ n \in Nat /\ Len(Tail(watch[q])) = n - 1
      /\ \A i \in 1 .. n - 1 : Tail(watch[q])[i] = watch[q][i + 1]
  BY <1>1
<1>4. /\ watch'[q] = Tail(watch[q])
      /\ \A k \in Kinds \ {q} : watch'[k] = watch[k]
      /\ cache'[e.object] = e.version
      /\ \A o \in Objects \ {e.object} : cache'[o] = cache[o]
  BY <1>1, <1>2 DEF CacheTypeOK
<1>5. n = Len(watch[q])
  OBVIOUS
<1> HIDE DEF n, SoundInv, TypeInv, TypeOK, ApiTypeOK
<1>6. /\ Len(watch'[q]) = n - 1
      /\ \A i \in 2 .. n : i - 1 \in 1 .. n - 1 /\ watch'[q][i - 1] = watch[q][i]
      /\ \A i \in 1 .. n - 1 : i + 1 \in 2 .. n /\ watch'[q][i] = watch[q][i + 1]
  <2>1. /\ \A i \in 2 .. n : i - 1 \in 1 .. n - 1 /\ (i - 1) + 1 = i
        /\ \A i \in 1 .. n - 1 : i + 1 \in 2 .. n
    BY <1>3
  <2>2. QED BY <1>3, <1>4, <2>1
<1>7. KindOf(e.object) = q
  BY <1>2, <1>5 DEF EventsInOrder
<1>8. ASSUME NEW x \in Objects, NEW i \in 2 .. n, KindOf(x) = q,
             watch[q][i].object = x
      PROVE  Pending(x)'
  BY <1>6, <1>8 DEF Pending
<1>9. ASSUME NEW x \in Objects, x # e.object, Pending(x) PROVE Pending(x)'
  <2>1. CASE KindOf(x) = q
    <3>1. PICK i \in 1 .. n : watch[q][i].object = x
      BY <1>5, <1>9, <2>1 DEF Pending
    <3>2. i \in 2 .. n
      <4>1. i # 1
        BY <1>2, <1>9, <3>1
      <4>2. QED BY <1>3, <3>1, <4>1
    <3>3. QED BY <1>8, <2>1, <3>1, <3>2
  <2>2. CASE KindOf(x) # q
    <3>1. KindOf(x) \in Kinds
      BY DEF KindOf, Kinds
    <3>2. watch'[KindOf(x)] = watch[KindOf(x)]
      BY <1>4, <2>2, <3>1
    <3>3. QED BY <1>9, <3>2 DEF Pending
  <2>3. QED BY <2>1, <2>2
<1>10. ASSUME NEW k \in Kinds, NEW i \in 1 .. Len(watch'[k])
       PROVE  \/ watch'[k][i].version = store'[watch'[k][i].object]
              \/ \E j \in i + 1 .. Len(watch'[k]) :
                   watch'[k][j].object = watch'[k][i].object
  <2>1. CASE k # q
    BY <1>1, <1>4, <1>10, <2>1 DEF LastEventStored
  <2>2. CASE k = q
    <3>1. i \in 1 .. n - 1
      BY <1>6, <1>10, <2>2
    <3>2. i + 1 \in 1 .. n /\ watch'[q][i] = watch[q][i + 1]
      BY <1>3, <1>6, <3>1
    <3>3. \/ watch[q][i + 1].version = store[watch[q][i + 1].object]
          \/ \E j \in (i + 1) + 1 .. n :
               watch[q][j].object = watch[q][i + 1].object
      BY <1>5, <3>2 DEF LastEventStored
    <3>4. ASSUME NEW j \in (i + 1) + 1 .. n
          PROVE  /\ j - 1 \in i + 1 .. Len(watch'[q])
                 /\ watch'[q][j - 1] = watch[q][j]
      <4>1. j \in 2 .. n /\ j - 1 \in i + 1 .. n - 1
        BY <1>3, <3>1
      <4>2. QED BY <1>6, <4>1
    <3>5. QED BY <1>1, <2>2, <3>2, <3>3, <3>4
  <2>3. QED BY <2>1, <2>2
<1>11. ASSUME NEW x \in Objects PROVE cache'[x] = store'[x] \/ Pending(x)'
  <2>1. CASE x # e.object
    BY <1>1, <1>4, <1>9, <2>1 DEF LastEventStored
  <2>2. CASE x = e.object
    <3>1. \/ e.version = store[x]
          \/ \E j \in 1 + 1 .. n : watch[q][j].object = x
      BY <1>2, <1>5, <2>2 DEF LastEventStored
    <3>2. CASE e.version = store[x]
      BY <1>1, <1>4, <2>2, <3>2
    <3>3. CASE \E j \in 1 + 1 .. n : watch[q][j].object = x
      BY <1>7, <1>8, <2>2, <3>3
    <3>4. QED BY <3>1, <3>2, <3>3
  <2>3. QED BY <2>1, <2>2
<1>12. LastEventStored'
  BY <1>10, <1>11 DEF LastEventStored
<1>13. QED BY <1>2, <1>4, <1>9, <1>12 DEF e

\* Nothing but a delivery and a restart takes events away.
LEMMA WriteStepPending ==
  ASSUME SoundInv, WriteStep
  PROVE  \A x \in Objects : Pending(x) => Pending(x)'
<1>1. CASE UNCHANGED <<store, watch>>
  BY <1>1 DEF Pending
<1>2. QED BY <1>1, PutPending DEF WriteStep

\* Every step.
LEMMA LastEventStep ==
  ASSUME SoundInv, EventsInOrder, LastEventStored, [Next]_vars
  PROVE  LastEventStored'
<1>1. CASE WriteStep /\ UNCHANGED cache
  <2>1. CASE UNCHANGED <<store, watch>>
    BY <1>1, <2>1 DEF LastEventStored, Pending
  <2>2. ASSUME NEW o \in Objects, NEW v, Put(o, v), Written(o, v)
        PROVE  LastEventStored'
    BY <1>1, <2>2, PutLastEvent DEF Written
  <2>3. QED BY <1>1, <2>1, <2>2 DEF WriteStep
<1>2. ASSUME NEW k \in Kinds, NEW reqs, Deliver(k, reqs)
      PROVE  LastEventStored'
  BY <1>2, DeliverEvents
<1>3. CASE Relist
  <2>1. \A k \in Kinds : 1 .. Len(watch'[k]) = {}
    BY <1>3 DEF Relist
  <2>2. cache' = store'
    BY <1>3 DEF Relist
  <2>3. QED BY <2>1, <2>2 DEF LastEventStored
<1>4. QED BY <1>1, <1>2, <1>3, EveryStepMoves DEF Moves

-----------------------------------------------------------------------------
(* What is due.                                                            *)

\* Done depends on the cache only.
LEMMA DoneKept ==
  ASSUME UNCHANGED cache, NEW o
  PROVE  Done(o, cache[o]) => Done(o, cache[o])'
BY DEF Done, ConfigDone, GroupDone, BindingDone, EmptyContentStatus,
       HashedContentStatus, PrevPC, PrevCG, NewPC, NewCG

\* A step that leaves the cache and the reconcile of bindings alone: what was
\* due stays so, unless it has become done.
LEMMA Untouched ==
  ASSUME SoundInv, NothingForgotten, ReadsFresh, UNCHANGED <<cache, worker>>,
         \A x \in Objects : Due(x) =>
           \/ Due(x)'
           \/ /\ worker = Idle \/ x \in Counted
              /\ cache[x].exists => Done(x, cache[x])
  PROVE  NothingForgotten' /\ ReadsFresh'
<1>1. \A x \in Objects : Done(x, cache[x]) => Done(x, cache[x])'
  BY DoneKept
<1>2. NothingForgotten'
  BY <1>1 DEF NothingForgotten
<1>3. ASSUME worker # Idle PROVE ReadsFresh'
  <2>1. worker.key \in Objects /\ worker.key \notin Counted
    BY <1>3, WorkingFields, BindingVersions DEF SoundInv, TypeInv, TypeOK
  <2>2. Due(worker.key) => Due(worker.key)'
    BY <1>3, <2>1
  <2>3. QED BY <1>3, <2>2 DEF ReadsFresh
<1>4. worker = Idle => ReadsFresh'
  BY DEF ReadsFresh
<1>5. QED BY <1>2, <1>3, <1>4

\* A reconcile of o that ends with a write of its own object: o is due again,
\* or the write changed nothing.
LEMMA ReturnUpdateDue ==
  ASSUME SoundInv, NEW o \in Objects, NEW w, ReturnUpdate(o, cache[o], w),
         cache[o] = store[o] /\ store[o].exists /\ w = store[o]
           => Done(o, cache[o])
  PROVE  \A x \in Objects : Due(x) =>
           Due(x)' \/ (x = o /\ Done(x, cache[x]))
<1>1. CASE Answer(o, cache[o]) = "OK"
  <2>1. /\ cache[o] = store[o] /\ store[o].exists
        /\ Put(o, w) /\ queue' = queue \ {o}
    BY <1>1, CachedPast, Accepted DEF ReturnUpdate
  <2>2. /\ \A x \in Objects : Pending(x) => Pending(x)'
        /\ w # store[o] => Pending(o)'
    BY <2>1, PutPending
  <2>3. QED BY <2>1, <2>2 DEF Due
<1>2. CASE Answer(o, cache[o]) # "OK"
  BY <1>2 DEF ReturnUpdate, Due, Pending
<1>3. QED BY <1>1, <1>2

\* The finalizer is added or taken: a change.
LEMMA FinalizerChanges ==
  ASSUME SoundInv, NEW o \in Objects, store[o].exists
  PROVE  /\ ~store[o].finalizer => WithFinalizer(o) # store[o]
         /\ store[o].deleting => WithoutFinalizer(o) # store[o]
<1>1. store[o] \in Version(o)
  BY StoredFields
<1>2. WithFinalizer(o).finalizer
  BY <1>1 DEF WithFinalizer, Version, VersionOf
<1>3. store[o].deleting => ~WithoutFinalizer(o).exists
  BY DEF WithoutFinalizer, Gone
<1>4. QED BY <1>2, <1>3

\* A reconcile of a PipelineConfig.
LEMMA PipelineConfigDue ==
  ASSUME SoundInv, NEW p \in PipelineConfigs, ReconcilePipelineConfig(p)
  PROVE  \A x \in Objects : Due(x) =>
           Due(x)' \/ (x = p /\ (cache[x].exists => Done(x, cache[x])))
<1> DEFINE pc == cache[p]
<1>1. p \in Objects /\ p \notin Bindings /\ p \notin CollectorGroups
  BY NamesDistinct DEF Objects
<1>2. CASE ~pc.exists /\ queue' = queue \ {p} /\ UNCHANGED <<store, watch>>
  BY <1>2 DEF Due, Pending
<1>3. CASE UNCHANGED <<store, watch, queue>>
  BY <1>3 DEF Due, Pending
<1>4. CASE /\ pc.exists /\ pc.deleting
           /\ ReturnUpdate(p, pc, WithoutFinalizer(p))
  BY <1>1, <1>4, ReturnUpdateDue, FinalizerChanges
<1>5. CASE /\ pc.exists /\ ~pc.finalizer
           /\ ReturnUpdate(p, pc, WithFinalizer(p))
  BY <1>1, <1>5, ReturnUpdateDue, FinalizerChanges
<1>6. ASSUME NEW s, ReturnUpdate(p, pc, WithStatus(p, s)), ~pc.deleting,
             pc.finalizer,
             s = IF pc.spec.content = EmptyContent THEN EmptyContentStatus(pc)
                 ELSE HashedContentStatus(pc)
      PROVE  \A x \in Objects : Due(x) =>
               Due(x)' \/ (x = p /\ (cache[x].exists => Done(x, cache[x])))
  <2>1. pc = store[p] /\ WithStatus(p, s) = store[p] => pc.status = s
    BY <1>1, StatusFields
  <2>2. pc = store[p] /\ WithStatus(p, s) = store[p] => Done(p, pc)
    BY <1>1, <1>6, <2>1 DEF Done, ConfigDone
  <2>3. QED BY <1>1, <1>6, <2>2, ReturnUpdateDue
<1>7. QED
  BY <1>2, <1>3, <1>4, <1>5, <1>6
     DEF ReconcilePipelineConfig, PipelineConfigDeletion

\* A reconcile of a CollectorGroup.
LEMMA CollectorGroupDue ==
  ASSUME SoundInv, NEW g \in CollectorGroups, ReconcileCollectorGroup(g)
  PROVE  \A x \in Objects : Due(x) =>
           Due(x)' \/ (x = g /\ (cache[x].exists => Done(x, cache[x])))
<1> DEFINE cg == cache[g]
           s == [cg.status EXCEPT !.observedGeneration = cg.generation]
<1>1. g \in Objects /\ g \notin Bindings /\ g \notin PipelineConfigs
  BY NamesDistinct DEF Objects
<1>2. CASE ~cg.exists /\ queue' = queue \ {g} /\ UNCHANGED <<store, watch>>
  BY <1>2 DEF Due, Pending
<1>3. CASE UNCHANGED <<store, watch, queue>>
  BY <1>3 DEF Due, Pending
<1>4. CASE /\ cg.exists /\ cg.deleting
           /\ ReturnUpdate(g, cg, WithoutFinalizer(g))
  BY <1>1, <1>4, ReturnUpdateDue, FinalizerChanges
<1>5. CASE /\ cg.exists /\ ~cg.finalizer
           /\ ReturnUpdate(g, cg, WithFinalizer(g))
  BY <1>1, <1>5, ReturnUpdateDue, FinalizerChanges
<1>6. CASE /\ ~cg.deleting /\ cg.finalizer
           /\ ReturnUpdate(g, cg, WithStatus(g, s))
  <2>1. cg = store[g] /\ WithStatus(g, s) = store[g] => cg.status = s
    BY <1>1, StatusFields
  <2>2. cg.status \in CollectorGroupStatus /\ cg.generation \in Nat
    BY <1>1, VersionFields
       DEF SoundInv, TypeInv, TypeOK, ApiTypeOK, CacheTypeOK, StatusSet
  <2>3. s.observedGeneration = cg.generation
    BY <2>2 DEF CollectorGroupStatus
  <2> HIDE DEF s
  <2>4. cg = store[g] /\ WithStatus(g, s) = store[g] => Done(g, cg)
    BY <1>1, <1>6, <2>1, <2>3 DEF Done, GroupDone
  <2>5. QED BY <1>1, <1>6, <2>4, ReturnUpdateDue
<1>7. QED
  BY <1>2, <1>3, <1>4, <1>5, <1>6
     DEF ReconcileCollectorGroup, CollectorGroupDeletion

\* A worker takes a binding.
LEMMA StartDue ==
  ASSUME SoundInv, NothingForgotten, ReadsFresh, NEW b \in Bindings,
         StartReconcile(b)
  PROVE  NothingForgotten' /\ ReadsFresh'
<1>1. b \in Objects /\ worker = Idle /\ UNCHANGED cache
  BY BindingVersions DEF StartReconcile, Started
<1>2. CASE /\ ~cache[b].exists /\ queue' = queue \ {b}
           /\ UNCHANGED <<store, watch, worker>>
  <2>1. \A x \in Objects : Due(x) => Due(x)' \/ (x = b /\ ~cache[x].exists)
    BY <1>2 DEF Due, Pending
  <2>2. QED BY <1>1, <1>2, <2>1, Untouched
<1>3. CASE /\ cache[b].exists /\ ~cache[b].finalizer /\ UNCHANGED worker
           /\ ReturnUpdate(b, cache[b], WithFinalizer(b))
  <2>1. \A x \in Objects : Due(x) => Due(x)' \/ (x = b /\ Done(x, cache[x]))
    BY <1>1, <1>3, ReturnUpdateDue, FinalizerChanges
  <2>2. QED BY <1>1, <1>3, <2>1, Untouched
<1>4. ASSUME NEW step \in DeletionSteps \cup {"validateRefs"}, Started(b, step)
      PROVE  NothingForgotten' /\ ReadsFresh'
  <2>1. /\ worker' # Idle /\ worker'.key = b /\ worker'.binding = cache'[b]
        /\ worker'.step \in DeletionSteps \cup {"validateRefs"}
    BY <1>1, <1>4 DEF Started, Idle, DeletionSteps
  <2>2. \A x \in Objects \ {b} : Due(x) => Due(x)'
    BY <1>4 DEF Started, Due, Pending
  <2>3. \A x \in Objects : Done(x, cache[x]) => Done(x, cache[x])'
    BY <1>1, DoneKept
  <2>4. NothingForgotten'
    BY <1>1, <2>1, <2>2, <2>3 DEF NothingForgotten
  <2>5. ReadsFresh'
    BY <2>1 DEF ReadsFresh
  <2>6. QED BY <2>4, <2>5
<1>5. FromDeletePC(cache[b]) \in DeletionSteps
  BY DEF FromDeletePC, FromDeleteCG, DeletionSteps
<1>6. QED BY <1>2, <1>3, <1>4, <1>5 DEF StartReconcile, bindingVars

\* A reconcile of a binding ends: the binding is due again, or done.
LEMMA EndDue ==
  ASSUME SoundInv, NothingForgotten, NEW b, worker.key = b, worker' = Idle,
         UNCHANGED cache, \A x \in Objects : Due(x) => Due(x)',
         Due(b)' \/ (cache[b].exists => Done(b, cache[b]))
  PROVE  NothingForgotten' /\ ReadsFresh'
<1>1. \A x \in Objects : Done(x, cache[x]) => Done(x, cache[x])'
  BY DoneKept
<1>2. NothingForgotten'
  BY <1>1 DEF NothingForgotten
<1>3. ReadsFresh'
  BY DEF ReadsFresh
<1>4. QED BY <1>2, <1>3

\* An error is returned.
LEMMA FailDue ==
  ASSUME SoundInv, NothingForgotten, worker # Idle, WriteStep, Fail,
         UNCHANGED cache
  PROVE  NothingForgotten' /\ ReadsFresh'
<1>1. PICK b : worker.key = b
  OBVIOUS
<1>2. \A x \in Objects : Due(x) => Due(x)'
  BY WriteStepPending DEF Fail, Due
<1>3. Due(b)' /\ worker' = Idle
  BY <1>1 DEF Fail, Due
<1>4. QED BY <1>1, <1>2, <1>3, EndDue

\* A reconcile of a binding goes on to its next step.
LEMMA GoOnDue ==
  ASSUME SoundInv, NothingForgotten, ReadsFresh, worker # Idle, worker' # Idle,
         worker'.key = worker.key, worker'.binding = worker.binding,
         WriteStep, UNCHANGED <<cache, queue>>,
         worker'.step \in Steps \ (DeletionSteps \cup {"validateRefs"}) =>
           \/ /\ worker'.hash = worker.hash
              /\ worker.step \in Steps \ (DeletionSteps \cup {"validateRefs"})
           \/ /\ cache[NewPC(worker.binding)].exists
              /\ worker'.hash = cache[NewPC(worker.binding)].status.contentHash
  PROVE  NothingForgotten' /\ ReadsFresh'
<1>1. \A x \in Objects : Due(x) => Due(x)'
  BY WriteStepPending DEF Due
<1>2. \A x \in Objects : Done(x, cache[x]) => Done(x, cache[x])'
  BY DoneKept
<1>3. NothingForgotten'
  BY <1>1, <1>2 DEF NothingForgotten
<1>4. PICK b \in Objects : worker.key = b
  BY WorkingFields, BindingVersions DEF SoundInv, TypeInv, TypeOK
<1>5. Due(b)' => ReadsFresh'
  BY <1>4 DEF ReadsFresh, Due, Pending
<1>6. CASE Due(b)
  BY <1>1, <1>3, <1>5, <1>6
<1>7. CASE ~Due(b)
  <2>1. ~Due(worker.key)
    BY <1>4, <1>7
  <2>2. QED BY <1>3, <2>1 DEF ReadsFresh, NewPC
<1>8. QED BY <1>3, <1>6, <1>7

\* The counters.
LEMMA CountersDue ==
  ASSUME SoundInv, NothingForgotten, ReadsFresh, WriteStep, UNCHANGED cache,
         ManageCounters \/ HandleDeletion
  PROVE  NothingForgotten' /\ ReadsFresh'
<1>1. /\ worker # Idle
      /\ \E o \in Counted : \E step \in Steps :
           StepSound(step, worker.binding) /\ CounterMove(o, step)
  BY ManageCountersStep DEF SoundInv, TypeInv, TypeOK
<1>2. PICK o \in Counted, step \in Steps :
        StepSound(step, worker.binding) /\ CounterMove(o, step)
  BY <1>1
<1>3. /\ StepSound(worker.step, worker.binding) /\ worker.step \in Steps
      /\ worker.step # "validateRefs"
  BY <1>1, WorkingFields
     DEF SoundInv, TypeInv, TypeOK, WorkerSound, ManageCounters, HandleDeletion
<1>4. worker = [step |-> worker.step, key |-> worker.key,
                binding |-> worker.binding, hash |-> worker.hash,
                charged |-> worker.charged, released |-> worker.released]
  BY <1>1, WorkingFields DEF SoundInv, TypeInv, TypeOK
<1>5. CASE Fail
  BY <1>1, <1>5, FailDue
<1>6. CASE ~Fail
  <2>1. /\ worker'.step = step /\ worker'.key = worker.key
        /\ worker'.binding = worker.binding /\ worker'.hash = worker.hash
        /\ UNCHANGED queue
    BY <1>2, <1>4, <1>6
       DEF CounterMove, Decrement, Increment, Skip, Goto, Adjust
  <2>2. worker' # Idle
    BY <2>1 DEF Idle, Steps
  <2>3. step \in Steps \ (DeletionSteps \cup {"validateRefs"})
        => worker.step \in Steps \ (DeletionSteps \cup {"validateRefs"})
    BY <1>2, <1>3 DEF StepSound
  <2>4. QED BY <1>1, <2>1, <2>2, <2>3, GoOnDue
<1>7. QED BY <1>5, <1>6

\* The last write of a reconcile changes nothing only if all is done.
LEMMA UpdateStatusDue ==
  ASSUME SoundInv, NothingForgotten, ReadsFresh, UNCHANGED cache,
         worker # Idle, UpdateStatus, Answer(worker.key, worker.binding) = "OK"
  PROVE  NothingForgotten' /\ ReadsFresh'
<1> DEFINE v == worker.binding
           s == SyncedStatus(v, worker.hash)
<1>1. PICK b \in Objects : worker.key = b
  BY BindingAccepted
<1>2. /\ b \in Bindings /\ store[b].exists /\ v = store[b]
      /\ b \notin PipelineConfigs /\ b \notin Counted
  BY <1>1, BindingAccepted
<1>3. /\ Put(b, WithStatus(b, s)) /\ worker' = Idle
      /\ queue' = RequeueForEviction(b, s.registeredTenants)
      /\ worker.step = "updateStatus"
  BY <1>1 DEF UpdateStatus
<1>4. queue \subseteq queue'
  BY <1>3 DEF RequeueForEviction
<1>5. /\ s.phase = "Active" /\ s.configHash = worker.hash
      /\ s.boundPipelineConfigRef = NewPC(v)
      /\ s.boundCollectorGroupRef = NewCG(v)
      /\ s.observedGeneration = v.generation
  BY DEF SyncedStatus, DerivePhase
<1> HIDE DEF s
<1>6. /\ \A x \in Objects : Pending(x) => Pending(x)'
      /\ WithStatus(b, s) # store[b] => Pending(b)'
  BY <1>3, PutPending
<1>7. \A x \in Objects : Due(x) => Due(x)'
  BY <1>4, <1>6 DEF Due
<1>8. CASE Due(b) \/ WithStatus(b, s) # store[b]
  BY <1>1, <1>3, <1>6, <1>7, <1>8, EndDue DEF Due
<1>9. CASE ~Due(b) /\ WithStatus(b, s) = store[b]
  <2>1. v.status = s
    BY <1>1, <1>2, <1>9, StatusFields
  <2>2. /\ v = cache[b] /\ cache[NewPC(v)].exists
        /\ worker.hash = cache[NewPC(v)].status.contentHash
    BY <1>1, <1>3, <1>9 DEF ReadsFresh, Steps, DeletionSteps
  <2>3. ~v.deleting /\ v.finalizer
    BY <1>3, StoredFields, <1>1, <1>2
       DEF SoundInv, TypeInv, WorkerSound, StepSound, DeletionSteps
  <2>4. BindingDone(v)
    BY <1>5, <2>1, <2>2, <2>3 DEF BindingDone, PrevPC, PrevCG
  <2>5. Done(b, cache[b])
    BY <1>2, <2>2, <2>4 DEF Done, Counted
  <2>6. QED BY <1>1, <1>3, <1>7, <2>5, EndDue
<1>10. QED BY <1>8, <1>9

\* The steps of a reconcile of a binding.
LEMMA WorkerDue ==
  ASSUME SoundInv, NothingForgotten, ReadsFresh, WorkerStep
  PROVE  NothingForgotten' /\ ReadsFresh'
<1> DEFINE v == worker.binding
<1>1. worker # Idle
  BY DEF WorkerStep, ValidateRefs, ManageCounters, HandleDeletion,
         UpdateStatus, FinishDeletion, Idle
<1>2. WriteStep /\ UNCHANGED cache
  BY WorkerWrites DEF WorkerStep, ValidateRefs, ManageCounters, HandleDeletion,
         UpdateStatus, FinishDeletion
<1>3. CASE Fail
  BY <1>1, <1>2, <1>3, FailDue
<1>4. CASE ManageCounters \/ HandleDeletion
  BY <1>2, <1>4, CountersDue
<1>5. CASE ValidateRefs /\ ~Fail
  <2>1. worker = [step |-> worker.step, key |-> worker.key,
                  binding |-> worker.binding, hash |-> worker.hash,
                  charged |-> worker.charged, released |-> worker.released]
    BY <1>1, WorkingFields DEF SoundInv, TypeInv, TypeOK
  <2>2. /\ RefsCheck(v) = "RefsResolved" /\ UNCHANGED queue
        /\ worker'.step = FromReleasePC(v) /\ worker'.key = worker.key
        /\ worker'.binding = v
        /\ worker'.hash = cache[NewPC(v)].status.contentHash
    BY <1>5, <2>1 DEF ValidateRefs, SetRefsInvalid
  <2>3. cache[NewPC(v)].exists
    BY <2>2 DEF RefsCheck
  <2>4. worker' # Idle
    BY <2>2 DEF Idle, FromReleasePC, FromReleaseCG, FromChargePC, FromChargeCG
  <2>5. QED BY <1>1, <1>2, <2>2, <2>3, <2>4, GoOnDue
<1>6. CASE UpdateStatus /\ ~Fail
  BY <1>1, <1>2, <1>6, UpdateStatusDue DEF UpdateStatus
<1>7. CASE FinishDeletion /\ ~Fail
  <2>1. PICK b : worker.key = b
    OBVIOUS
  <2>2. /\ Answer(b, v) = "OK" /\ Put(b, WithoutFinalizer(b))
        /\ worker' = Idle /\ UNCHANGED queue /\ worker.step = "removeFinalizer"
    BY <1>7, <2>1 DEF FinishDeletion
  <2>3. b \in Objects /\ store[b].exists /\ v = store[b]
    BY <1>1, <2>1, <2>2, BindingAccepted
  <2>4. v.deleting
    BY <1>1, <2>2 DEF SoundInv, TypeInv, WorkerSound, StepSound, DeletionSteps
  <2>5. Pending(b)' /\ \A x \in Objects : Pending(x) => Pending(x)'
    BY <2>2, <2>3, <2>4, FinalizerChanges, PutPending
  <2>6. QED BY <1>2, <2>1, <2>2, <2>5, EndDue DEF Due
<1>8. QED BY <1>3, <1>4, <1>5, <1>6, <1>7 DEF WorkerStep

\* The delivery of an event adds the requests of whatever depends on it.
LEMMA InformerDue ==
  ASSUME SoundInv, EventsInOrder, LastEventStored, NothingForgotten,
         ReadsFresh, NEW k \in Kinds, Informer(k)
  PROVE  NothingForgotten' /\ ReadsFresh'
<1>o. PICK o : o = Head(watch[k]).object
  OBVIOUS
<1>1. /\ watch[k] # <<>> /\ Deliver(k, Requests(o)) /\ UNCHANGED worker
      /\ queue' = queue \cup Requests(o)
  BY <1>o DEF Informer, Deliver, bindingVars
<1>2. /\ o \in Objects
      /\ \A x \in Objects \ {o} : cache'[x] = cache[x]
                                  /\ (Pending(x) => Pending(x)')
  BY <1>o, <1>1, DeliverEvents
<1>3. Due(o)'
  BY <1>1 DEF Requests, Due
<1>4. \A x \in Objects : Due(x) => Due(x)'
  BY <1>1, <1>2, <1>3 DEF Due
<1>5. ASSUME NEW b \in Bindings, b # o, cache[b].exists, ~Due(b)'
      PROVE  /\ NewPC(cache[b]) \in Objects \ {o}
             /\ cache'[NewPC(cache[b])] = cache[NewPC(cache[b])]
  <2>1. NewPC(cache[b]) \in PipelineConfigs
    BY <1>5, BindingVersions, BindingRefs
       DEF SoundInv, TypeInv, TypeOK, ApiTypeOK, CacheTypeOK
  <2>2. b \notin Requests(o)
    BY <1>1, <1>5 DEF Due
  <2>3. NewPC(cache[b]) # o
    BY <1>5, <2>1, <2>2 DEF Requests, EnqueueBindingsForPipelineConfig, NewPC
  <2>4. QED BY <1>2, <2>1, <2>3 DEF Objects
<1>6. ASSUME NEW x \in Objects, ~Due(x)', cache[x].exists, Done(x, cache[x])
      PROVE  Done(x, cache[x])'
  <2>1. x # o /\ cache'[x] = cache[x]
    BY <1>2, <1>3, <1>6
  <2>2. x \in Bindings => BindingDone(cache[x])'
    <3>1. SUFFICES ASSUME x \in Bindings PROVE BindingDone(cache[x])'
      OBVIOUS
    <3>2. cache'[NewPC(cache[x])] = cache[NewPC(cache[x])]
      BY <1>5, <1>6, <2>1, <3>1
    <3>3. BindingDone(cache[x])
      BY <1>6, <3>1 DEF Done
    <3>4. QED BY <2>1, <3>2, <3>3 DEF BindingDone, NewPC, PrevPC, NewCG, PrevCG
  <2>3. x \in PipelineConfigs => ConfigDone(cache[x])'
    BY <1>6, <2>1 DEF Done, ConfigDone, EmptyContentStatus, HashedContentStatus
  <2>4. x \in CollectorGroups => GroupDone(cache[x])'
    BY <1>6, <2>1 DEF Done, GroupDone
  <2>5. QED BY <2>2, <2>3, <2>4 DEF Done
<1>7. NothingForgotten'
  <2> SUFFICES ASSUME NEW x \in Objects, ~Due(x)',
                      ~(worker # Idle /\ worker.key = x), cache'[x].exists
               PROVE  Done(x, cache[x])'
    BY <1>1 DEF NothingForgotten
  <2>1. x # o /\ cache'[x] = cache[x] /\ ~Due(x)
    BY <1>2, <1>3, <1>4
  <2>2. Done(x, cache[x])
    BY <2>1 DEF NothingForgotten
  <2>3. QED BY <1>6, <2>1, <2>2
<1>8. ASSUME worker # Idle PROVE ReadsFresh'
  <2> DEFINE v == worker.binding
  <2>1. PICK b \in Bindings : worker.key = b /\ b \in Objects
    BY <1>8, WorkingFields, BindingVersions DEF SoundInv, TypeInv, TypeOK
  <2>2. CASE Due(b)'
    BY <1>1, <2>1, <2>2 DEF ReadsFresh
  <2>3. CASE ~Due(b)'
    <3>1. ~Due(worker.key) /\ b # o /\ cache'[b] = cache[b]
      BY <1>2, <1>3, <1>4, <2>1, <2>3
    <3>2. /\ v = cache[b]
          /\ worker.step \in Steps \ (DeletionSteps \cup {"validateRefs"}) =>
               /\ cache[NewPC(v)].exists
               /\ worker.hash = cache[NewPC(v)].status.contentHash
      BY <1>8, <2>1, <3>1 DEF ReadsFresh
    <3>3. v.exists
      BY <1>8 DEF SoundInv, TypeInv, WorkerSound, StepSound
    <3>4. cache'[NewPC(v)] = cache[NewPC(v)]
      BY <1>5, <2>3, <3>1, <3>2, <3>3
    <3>5. QED BY <1>1, <2>1, <3>1, <3>2, <3>4 DEF ReadsFresh, NewPC
  <2>4. QED BY <2>2, <2>3
<1>9. worker = Idle => ReadsFresh'
  BY <1>1 DEF ReadsFresh
<1>10. QED BY <1>7, <1>8, <1>9

-----------------------------------------------------------------------------
(* Every step.                                                             *)

\* The registry, the users, the clock and the resyncs take nothing from the
\* work queue.
LEMMA OthersDue ==
  ASSUME SoundInv, NothingForgotten, ReadsFresh, WriteStep,
         queue \subseteq queue', UNCHANGED <<cache, worker>>
  PROVE  NothingForgotten' /\ ReadsFresh'
<1>1. \A x \in Objects : Due(x) => Due(x)'
  BY WriteStepPending DEF Due
<1>2. QED BY <1>1, Untouched

LEMMA RestStep == RestInv /\ [Next]_vars => RestInv'
<1> SUFFICES ASSUME RestInv, [Next]_vars
             PROVE  NothingForgotten' /\ ReadsFresh'
  BY SoundStep, InOrderStep, LastEventStep DEF RestInv
<1> USE DEF RestInv
<1>1. ASSUME NEW p \in PipelineConfigs, PipelineConfigController(p)
      PROVE  NothingForgotten' /\ ReadsFresh'
  <2>1. ReconcilePipelineConfig(p) /\ UNCHANGED <<cache, worker>> /\ p \in Counted
    BY <1>1 DEF PipelineConfigController, ReconcilePipelineConfig, NoteRemoval,
                Counted
  <2>2. \A x \in Objects : Due(x) =>
          Due(x)' \/ (x = p /\ (cache[x].exists => Done(x, cache[x])))
    BY <2>1, PipelineConfigDue
  <2>3. QED BY <2>1, <2>2, Untouched
<1>2. ASSUME NEW g \in CollectorGroups, CollectorGroupController(g)
      PROVE  NothingForgotten' /\ ReadsFresh'
  <2>1. ReconcileCollectorGroup(g) /\ UNCHANGED <<cache, worker>> /\ g \in Counted
    BY <1>2 DEF CollectorGroupController, ReconcileCollectorGroup, NoteRemoval,
                Counted
  <2>2. \A x \in Objects : Due(x) =>
          Due(x)' \/ (x = g /\ (cache[x].exists => Done(x, cache[x])))
    BY <2>1, CollectorGroupDue
  <2>3. QED BY <2>1, <2>2, Untouched
<1>3. ASSUME NEW b \in Bindings, BindingTake(b)
      PROVE  NothingForgotten' /\ ReadsFresh'
  BY <1>3, StartDue DEF BindingTake
<1>4. CASE BindingWork
  BY <1>4, WorkerDue DEF BindingWork
<1>5. ASSUME NEW k \in Kinds, Informer(k)
      PROVE  NothingForgotten' /\ ReadsFresh'
  BY <1>5, InformerDue
<1>6. ASSUME NEW k \in Kinds, Resync(k)
      PROVE  NothingForgotten' /\ ReadsFresh'
  BY <1>6, OthersDue DEF Resync, Requeue, bindingVars, WriteStep
<1>7. ASSUME NEW c \in Collectors, RegistryCall(c)
      PROVE  NothingForgotten' /\ ReadsFresh'
  <2>1. UNCHANGED apiVars
    BY <1>7 DEF RegistryCall, Register, Unregister
  <2>2. QED BY <1>7, <2>1, OthersDue
    DEF RegistryCall, bindingVars, apiVars, WriteStep
<1>8. ASSUME NEW c \in Collectors, RegistryWork(c)
      PROVE  NothingForgotten' /\ ReadsFresh'
  <2>1. UNCHANGED <<cache, queue, worker>>
    BY <1>8, RegistryStepOrderly
       DEF RegistryWork, bindingVars, SoundInv, TypeInv, TypeOK
  <2>2. QED BY <1>8, <2>1, RegistryWrites, OthersDue
<1>9. CASE Restart
  <2>1. /\ cache' = store /\ queue' = {o \in Objects : store[o].exists}
        /\ worker' = Idle
    BY <1>9 DEF Restart, Relist
  <2>2. QED BY <2>1 DEF NothingForgotten, ReadsFresh, Due
<1>10. ASSUME NEW o \in Objects, User(o)
       PROVE  NothingForgotten' /\ ReadsFresh'
  <2>1. UNCHANGED <<cache, queue, worker>>
    BY <1>10 DEF User, NoteRemoval
  <2>2. WriteStep
    BY <1>10, <2>1, UserWrites DEF User
  <2>3. QED BY <2>1, <2>2, OthersDue
<1>11. CASE Clock \/ UNCHANGED vars
  BY <1>11, OthersDue
     DEF Clock, Tick, vars, apiVars, bindingVars, WriteStep
<1>12. QED
  BY <1>1, <1>2, <1>3, <1>4, <1>5, <1>6, <1>7, <1>8, <1>9, <1>10, <1>11 DEF Next

LEMMA RestInit == Init => RestInv
<1> SUFFICES ASSUME Init PROVE RestInv
  OBVIOUS
<1>1. /\ \A k \in Kinds : 1 .. Len(watch[k]) = {}
      /\ cache = store /\ queue = {o \in Objects : store[o].exists}
      /\ worker = Idle
  BY DEF Init, ApiInit, BindingInit
<1>2. LastEventStored
  BY <1>1 DEF LastEventStored
<1>3. NothingForgotten /\ ReadsFresh
  BY <1>1 DEF NothingForgotten, ReadsFresh, Due
<1>4. QED BY <1>2, <1>3, SoundInit, InOrderInit DEF RestInv

\* At rest the cache is the store, and every object is done.
LEMMA AtRest ==
  ASSUME RestInv, Quiet, NEW o \in Objects, store[o].exists
  PROVE  cache = store /\ Done(o, store[o])
<1>1. \A x \in Objects : ~Pending(x)
  <2>1. \A x \in Objects : KindOf(x) \in Kinds
    BY DEF KindOf, Kinds
  <2>2. \A k \in Kinds : 1 .. Len(watch[k]) = {}
    BY DEF Quiet
  <2>3. QED BY <2>1, <2>2 DEF Pending
<1>2. \A x \in Objects : cache[x] = store[x]
  BY <1>1 DEF RestInv, LastEventStored
<1>3. cache = store
  BY <1>2 DEF RestInv, SoundInv, TypeInv, TypeOK, ApiTypeOK, StoreTypeOK,
              CacheTypeOK
<1>4. QED BY <1>1, <1>3 DEF RestInv, NothingForgotten, Due, Quiet

\* The operator comes to rest only when everything is as the specs ask: no
\* reconcile drops a request too early, none misses a change made while it was
\* running, and no order of events, refused writes, user operations and
\* restarts leaves an object behind that nobody will look at again.
THEOREM RestIsSettled == Spec => []QuietMeansSettled
<1>1. RestInv => QuietMeansSettled
  <2> SUFFICES ASSUME RestInv, Quiet, NEW o \in Objects, store[o].exists
               PROVE  LET v == store[o] IN
                      /\ ~v.deleting /\ v.finalizer
                      /\ v.status.observedGeneration = v.generation
                      /\ o \in PipelineConfigs =>
                           \/ /\ v.spec.content = EmptyContent
                              /\ v.status.contentValid = "False"
                           \/ /\ v.status.contentValid = "True"
                              /\ v.status.contentHash = Sha256(v.spec.content)
                      /\ o \in Bindings =>
                           /\ v.status.phase = "Active"
                           /\ PrevPC(v) = NewPC(v) /\ PrevCG(v) = NewCG(v)
                           /\ store[NewPC(v)].exists
                           /\ v.status.configHash =
                                store[NewPC(v)].status.contentHash
    BY DEF QuietMeansSettled
  <2> DEFINE v == store[o]
  <2>1. cache = store /\ Done(o, v)
    BY AtRest
  <2>2. CASE o \in PipelineConfigs
    <3>1. o \notin Bindings /\ v.status \in PipelineConfigStatus
          /\ v.generation \in Nat
      BY <2>2, StoredFields, VersionFields, NamesDistinct DEF StatusSet, RestInv
    <3>2. ConfigDone(v)
      BY <2>1, <2>2 DEF Done
    <3>3. /\ v.status.observedGeneration = v.generation
          /\ \/ /\ v.spec.content = EmptyContent
                /\ v.status.contentValid = "False"
             \/ /\ v.status.contentValid = "True"
                /\ v.status.contentHash = Sha256(v.spec.content)
      BY <3>1, <3>2 DEF ConfigDone, EmptyContentStatus, HashedContentStatus,
                        PipelineConfigStatus
    <3>4. QED BY <3>1, <3>2, <3>3 DEF ConfigDone
  <2>3. CASE o \in CollectorGroups
    BY <2>1, <2>3, NamesDistinct DEF Done, GroupDone
  <2>4. CASE o \in Bindings
    BY <2>1, <2>4, NamesDistinct DEF Done, BindingDone
  <2>5. QED BY <2>2, <2>3, <2>4 DEF Objects
<1>2. QED BY <1>1, RestInit, RestStep, PTL DEF Spec
=============================================================================
