----------------------------- MODULE MCOperator -----------------------------
EXTENDS OperatorClaims, TLC

CONSTANTS p1, p2, g1, b1, t1, c1, k1, k2, b2, t2, c2

PC(c) == [content |-> c]
CG == [description |-> "text"]
GroupBinding(p, g) ==
  [pipelineConfigRef |-> p, collectorGroupRef |-> g, tenantRef |-> NoRef]
TenantBinding(p, t) ==
  [pipelineConfigRef |-> p, collectorGroupRef |-> NoRef, tenantRef |-> t]

MCTenantOf == [c \in Collectors |-> IF c = c1 THEN t1 ELSE t2]
MCGroupOf ==
  [c \in Collectors |-> IF g1 \in CollectorGroups THEN g1 ELSE NoRef]

\* Two configurations, a group and a binding of it, created before start.
GroupFleet ==
  {p1 :> PC(k1) @@ p2 :> PC(k1) @@ g1 :> CG @@ b1 :> GroupBinding(p1, g1)}

\* One configuration, a group and a binding of it.
SmallFleet == {p1 :> PC(k1) @@ g1 :> CG @@ b1 :> GroupBinding(p1, g1)}

\* Two tenant bindings that share a configuration.
SharedFleet ==
  {p1 :> PC(k1) @@ b1 :> TenantBinding(p1, t1) @@ b2 :> TenantBinding(p1, t2)}

\* One configuration and a tenant binding of it.
TenantFleet == {p1 :> PC(k1) @@ b1 :> TenantBinding(p1, t1)}

\* One configuration and a binding of it to a group that is not there.
OrphanFleet == {p1 :> PC(k1) @@ b1 :> GroupBinding(p1, g1)}
=============================================================================
