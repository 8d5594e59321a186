----------------------------- MODULE ConfigFeed -----------------------------
(***************************************************************************)
(* What a fleet of collectors is promised by the service that configures   *)
(* it, whatever caches, controllers, restarts and lost answers there are   *)
(* between the two.                                                        *)
(*                                                                         *)
(* Every configuration is a growing sequence of versions. A collector      *)
(* receives versions of a configuration in their order, possibly skipping  *)
(* some, and each comes with the digest of its own content or of that of   *)
(* an earlier version.                                                     *)
(***************************************************************************)
EXTENDS Naturals, Sequences

CONSTANTS
  Configs,      \* the configurations
  Collectors,   \* the collectors
  Contents,     \* what a version may contain
  Digest,       \* the digest of each content
  Withdrawn,    \* what a version contains that takes a configuration away
  Nothing       \* what a collector holds before it receives anything

VARIABLES
  feed,   \* the contents of the versions of each configuration
  held    \* what each collector holds, and the versions it got it from

vars == <<feed, held>>

Init ==
  /\ \A p \in Configs : Len(feed[p]) <= 1
  /\ held = [c \in Collectors |-> Nothing]

Publish(p) ==
  /\ UNCHANGED held
  /\ \E x \in Contents \cup {Withdrawn} :
       feed' = [feed EXCEPT ![p] = Append(@, x)]

\* A collector is not sent what it says it has.
Receive(c, p) ==
  /\ UNCHANGED feed /\ held'[c].hash # held[c].hash
  /\ \E n \in DOMAIN feed[p] : \E m \in 1 .. n :
       /\ held[c].seen[p] <= n /\ feed[p][n] # Withdrawn
       /\ feed[p][m] \in DOMAIN Digest
       /\ held' = [held EXCEPT ![c] =
            [content |-> feed[p][n], hash |-> Digest[feed[p][m]],
             seen |-> [@.seen EXCEPT ![p] = n]]]

Next ==
  \/ \E p \in Configs : Publish(p)
  \/ \E c \in Collectors, p \in Configs : Receive(c, p)

Spec == Init /\ [][Next]_vars
=============================================================================
