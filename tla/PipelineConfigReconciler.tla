---------------------- MODULE PipelineConfigReconciler ----------------------
(***************************************************************************)
(* internal/controller/pipelineconfig_controller.go.                       *)
(*                                                                         *)
(* A reconcile reads one object from the cache and makes at most one write *)
(* with the resourceVersion it read. The read and the write are one step:  *)
(* the write is accepted only if nothing was stored in between, and a      *)
(* refused write has no effect whenever it happens.                        *)
(***************************************************************************)
EXTENDS KubeApi

\* Status of a PipelineConfig whose content is empty: the hash stays.
EmptyContentStatus(pc) ==
  [pc.status EXCEPT !.contentValid = "False",
                    !.observedGeneration = pc.generation]

\* Mistake: a hash that is already set is not computed again.
HashedContentStatusOnce(pc) ==
  [pc.status EXCEPT !.contentHash =
                      IF @ = NoHash THEN Sha256(pc.spec.content) ELSE @,
                    !.contentValid = "True",
                    !.observedGeneration = pc.generation]

HashedContentStatus(pc) ==
  [pc.status EXCEPT !.contentHash = Sha256(pc.spec.content),
                    !.contentValid = "True",
                    !.observedGeneration = pc.generation]

\* Mistakes in the deletion path: the counter is not looked at, zero counts
\* as active, the write does not carry the resourceVersion that was read.
PipelineConfigDeletionAnyway(p) ==
  /\ cache[p].exists /\ cache[p].deleting
  /\ ReturnUpdate(p, cache[p], WithoutFinalizer(p))

PipelineConfigDeletionOffByOne(p) ==
  LET pc == cache[p] IN
  /\ pc.exists /\ pc.deleting
  /\ IF pc.status.activeBindings >= 0
     THEN UNCHANGED <<store, watch, queue>>
     ELSE ReturnUpdate(p, pc, WithoutFinalizer(p))

PipelineConfigDeletionUnchecked(p) ==
  LET pc == cache[p] IN
  /\ pc.exists /\ pc.deleting
  /\ IF pc.status.activeBindings > 0 \/ ~store[p].exists
     THEN UNCHANGED <<store, watch, queue>>
     ELSE ReturnUpdate(p, store[p], WithoutFinalizer(p))

PipelineConfigDeletion(p) ==
  LET pc == cache[p] IN
  /\ pc.exists /\ pc.deleting
  /\ IF pc.status.activeBindings > 0
     THEN UNCHANGED <<store, watch, queue>>   \* RequeueAfter: 30s
     ELSE ReturnUpdate(p, pc, WithoutFinalizer(p))

ReconcilePipelineConfig(p) ==
  LET pc == cache[p] IN
  /\ p \in queue
  /\ \/ /\ ~pc.exists
        /\ queue' = queue \ {p}
        /\ UNCHANGED <<store, watch>>
     \/ PipelineConfigDeletion(p)
     \/ /\ pc.exists /\ ~pc.deleting /\ ~pc.finalizer
        /\ ReturnUpdate(p, pc, WithFinalizer(p))
     \/ /\ pc.exists /\ ~pc.deleting /\ pc.finalizer
        /\ pc.spec.content = EmptyContent
        /\ ReturnUpdate(p, pc, WithStatus(p, EmptyContentStatus(pc)))
     \/ /\ pc.exists /\ ~pc.deleting /\ pc.finalizer
        /\ pc.spec.content # EmptyContent
        /\ ReturnUpdate(p, pc, WithStatus(p, HashedContentStatus(pc)))
  /\ UNCHANGED <<cache, now>>
=============================================================================
