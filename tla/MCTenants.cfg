SPECIFICATION FairSpec
CONSTANTS
  p1 = p1  p2 = p2  g1 = g1  b1 = b1  b2 = b2  t1 = t1  t2 = t2
  c1 = c1  c2 = c2  k1 = k1  k2 = k2
  PipelineConfigs = {p1}
  CollectorGroups = {g1}
  Bindings = {b1}
  Tenants = {t1, t2}
  Collectors = {c1, c2}
  Contents = {k1}
  TenantOf <- MCTenantOf
  GroupOf <- MCGroupOf
  InitialSpecs <- SmallFleet
  Reconciled = {p1, g1}
  CollectorTTL = 1
  MaxUserOps = 0
  MaxCalls = 2
  MaxRestarts = 0
  MaxResyncs = 0
  MaxTime = 2
  MaxDrift = 0
INVARIANTS
  TenantsListedOnce
PROPERTIES
  EvictsOnlyStale
  StaleTenantsEvicted
  CallsEnd
CHECK_DEADLOCK FALSE
