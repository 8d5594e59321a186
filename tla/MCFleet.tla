------------------------------- MODULE MCFleet -------------------------------
EXTENDS MCOperator, FleetClaims

\* One collector has a tenant, the other one is in a group.
PolledTenantOf == [c \in Collectors |-> IF c = c1 THEN t1 ELSE NoRef]
PolledGroupOf == [c \in Collectors |-> IF c = c2 THEN g1 ELSE NoRef]
=============================================================================
