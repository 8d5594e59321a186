------------------------- MODULE CollectorRegistry -------------------------
(***************************************************************************)
(* internal/adapter/kubernetes/collectorregistry.go, called by the         *)
(* RegisterCollector, GetConfig and UnregisterCollector handlers of        *)
(* internal/service/collector_service.go.                                  *)
(*                                                                         *)
(* A call reads a binding from the cache, edits a copy of its              *)
(* registeredTenants and sends the difference as a JSON merge patch        *)
(* (client.MergeFrom without optimistic lock). Such a patch carries no     *)
(* resourceVersion and replaces the list as a whole. The API server        *)
(* answers Conflict only when it gives up on its own retries.              *)
(***************************************************************************)
EXTENDS KubeApi

CONSTANTS
  TenantOf,    \* the tenant attribute of each collector, NoRef if unset
  GroupOf      \* its collector_group attribute

ASSUME AttributesAssumption ==
  /\ TenantOf \in [Collectors -> Tenants \cup {NoRef}]
  /\ GroupOf \in [Collectors -> CollectorGroups \cup {NoRef}]

VARIABLE rpc   \* the registry call each collector has in progress

MaxPatchRetries == 3

NoCall == [step |-> "idle"]

\* A call: op, the attempt it is in, and once a binding is chosen its key,
\* the list that was read (base) and the list to be written (edited).
Waiting == [step : {"findBinding"}, attempt : 0 .. MaxPatchRetries - 1]
Refetching == [step : {"refetch"}, attempt : 0 .. MaxPatchRetries - 1,
               key : Bindings]
Patching == [step : {"patch"}, op : {"register", "unregister"},
             attempt : 0 .. MaxPatchRetries - 1, key : Bindings,
             base : SUBSET RegisteredTenant, edited : SUBSET RegisteredTenant]

RegistryInit == rpc = [c \in Collectors |-> NoCall]

RegistryTypeOK ==
  rpc \in [Collectors -> {NoCall} \cup Waiting \cup Refetching \cup Patching]

Return(c) == rpc' = [rpc EXCEPT ![c] = NoCall]

-----------------------------------------------------------------------------
(* Register.                                                               *)

TenantBindings(t) ==
  {b \in Bindings : t # NoRef /\ cache[b].exists /\ cache[b].spec.tenantRef = t}

GroupBindings(g) ==
  {b \in Bindings :
     g # NoRef /\ cache[b].exists /\ cache[b].spec.collectorGroupRef = g}

\* The bindings findBinding may return: the cache lists matches in no order.
FindBinding(t, g) ==
  IF TenantBindings(t) # {} THEN TenantBindings(t) ELSE GroupBindings(g)

\* Mistake: the entry is appended without looking for an older one.
AppendTenant(tenants, t) == tenants \cup {t}

UpsertTenant(tenants, t) == {e \in tenants : e.id # t.id} \cup {t}

ReadForRegister(c, attempt) ==
  LET found == FindBinding(TenantOf[c], GroupOf[c])
      entry == [id |-> TenantOf[c], collectorId |-> c, lastSeenAt |-> now]
  IN \/ found = {} /\ Return(c)
     \/ \E b \in found :
          LET base == cache[b].status.registeredTenants IN
          rpc' = [rpc EXCEPT ![c] =
                    [step |-> "patch", op |-> "register", attempt |-> attempt,
                     key |-> b, base |-> base,
                     edited |-> UpsertTenant(base, entry)]]

\* A collector without a tenant attribute is refused before anything is read.
Register(c) ==
  /\ rpc[c] = NoCall /\ TenantOf[c] # NoRef
  /\ ReadForRegister(c, 0)
  /\ UNCHANGED apiVars

RetryRegister(c) ==
  /\ rpc[c].step = "findBinding"
  /\ ReadForRegister(c, rpc[c].attempt)
  /\ UNCHANGED apiVars

-----------------------------------------------------------------------------
(* Unregister.                                                             *)

EntriesOf(tenants, c) == {t \in tenants : t.collectorId = c}

\* The first binding in the listing that holds an entry of c.
Unregister(c) ==
  LET holding == {b \in Bindings : cache[b].exists
                    /\ EntriesOf(cache[b].status.registeredTenants, c) # {}}
  IN /\ rpc[c] = NoCall
     /\ \E b \in holding :
          rpc' = [rpc EXCEPT ![c] =
                    [step |-> "refetch", attempt |-> 0, key |-> b]]
     /\ UNCHANGED apiVars

\* Get and slices.Delete of the entry found by indexTenantByCollectorID.
Refetch(c) ==
  LET v == cache[rpc[c].key]
      base == v.status.registeredTenants
  IN /\ rpc[c].step = "refetch"
     /\ \/ /\ ~v.exists \/ EntriesOf(base, c) = {}
           /\ Return(c)
        \/ /\ v.exists
           /\ \E t \in EntriesOf(base, c) :
                rpc' = [rpc EXCEPT ![c] =
                          [step |-> "patch", op |-> "unregister",
                           attempt |-> rpc[c].attempt, key |-> rpc[c].key,
                           base |-> base, edited |-> base \ {t}]]
     /\ UNCHANGED apiVars

-----------------------------------------------------------------------------
(* Status().Patch and the retry loop around it.                            *)

PatchTenants(b, base, edited) ==
  IF store[b].exists /\ edited # base
  THEN Put(b, WithStatus(b,
         [store[b].status EXCEPT !.registeredTenants = edited]))
  ELSE UNCHANGED <<store, watch>>

Patch(c) ==
  /\ rpc[c].step = "patch"
  /\ PatchTenants(rpc[c].key, rpc[c].base, rpc[c].edited)
  /\ Return(c)
  /\ UNCHANGED <<cache, queue, now>>

\* Mistake: the attempts are not counted.
PatchConflictForever(c) ==
  /\ rpc[c].step = "patch" /\ store[rpc[c].key].exists
  /\ rpc' = [rpc EXCEPT ![c] =
       IF rpc[c].op = "register"
       THEN [step |-> "findBinding", attempt |-> rpc[c].attempt]
       ELSE [step |-> "refetch", attempt |-> rpc[c].attempt,
             key |-> rpc[c].key]]
  /\ UNCHANGED apiVars

PatchConflict(c) ==
  /\ rpc[c].step = "patch" /\ store[rpc[c].key].exists
  /\ \/ /\ rpc[c].attempt < MaxPatchRetries - 1
        /\ rpc' = [rpc EXCEPT ![c] =
             IF rpc[c].op = "register"
             THEN [step |-> "findBinding", attempt |-> rpc[c].attempt + 1]
             ELSE [step |-> "refetch", attempt |-> rpc[c].attempt + 1,
                   key |-> rpc[c].key]]
     \/ /\ rpc[c].attempt = MaxPatchRetries - 1
        /\ Return(c)
  /\ UNCHANGED apiVars

RegistryStep(c) == RetryRegister(c) \/ Refetch(c) \/ Patch(c) \/ PatchConflict(c)
=============================================================================
