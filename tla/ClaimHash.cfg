SPECIFICATION Spec
CONSTANTS
  p1 = p1  p2 = p2  g1 = g1  b1 = b1  b2 = b2  t1 = t1  t2 = t2
  c1 = c1  c2 = c2  k1 = k1  k2 = k2
  PipelineConfigs = {p1}
  CollectorGroups = {}
  Bindings = {b1}
  Tenants = {t1}
  Collectors = {c1}
  Contents = {k1}
  TenantOf <- MCTenantOf
  GroupOf <- MCGroupOf
  InitialSpecs <- TenantFleet
  Reconciled = {p1}
  CollectorTTL = 0
  MaxUserOps = 1
  MaxCalls = 0
  MaxRestarts = 0
  MaxResyncs = 0
  MaxTime = 1
  MaxDrift = 0
INVARIANTS
  HashIsOfContent
CHECK_DEADLOCK FALSE
