---------------------- MODULE CollectorGroupReconciler ----------------------
(***************************************************************************)
(* internal/controller/collectorgroup_controller.go. As for PipelineConfig *)
(* the read and the single write of a reconcile are one step.              *)
(***************************************************************************)
EXTENDS KubeApi

CollectorGroupDeletion(g) ==
  LET cg == cache[g] IN
  /\ cg.exists /\ cg.deleting
  /\ IF cg.status.activeBindings > 0
     THEN UNCHANGED <<store, watch, queue>>   \* RequeueAfter: 30s
     ELSE ReturnUpdate(g, cg, WithoutFinalizer(g))

ReconcileCollectorGroup(g) ==
  LET cg == cache[g] IN
  /\ g \in queue
  /\ \/ /\ ~cg.exists
        /\ queue' = queue \ {g}
        /\ UNCHANGED <<store, watch>>
     \/ CollectorGroupDeletion(g)
     \/ /\ cg.exists /\ ~cg.deleting /\ ~cg.finalizer
        /\ ReturnUpdate(g, cg, WithFinalizer(g))
     \/ /\ cg.exists /\ ~cg.deleting /\ cg.finalizer
        /\ ReturnUpdate(g, cg, WithStatus(g,
             [cg.status EXCEPT !.observedGeneration = cg.generation]))
  /\ UNCHANGED <<cache, now>>
=============================================================================
