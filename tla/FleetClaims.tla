---------------------------- MODULE FleetClaims ----------------------------
(***************************************************************************)
(* What the repository's documentation says of the configurations that     *)
(* collectors receive and the code does not keep.                          *)
(***************************************************************************)
EXTENDS Fleet

\* README.md: a poll is answered with notModified when the collector "already
\* has the configuration body", at least when the content is not empty and the
\* operator has observed it.
NotModifiedMeansHeld ==
  [][\A c \in Collectors, p \in PipelineConfigs :
       LET resolved == poll[c].answer IN
       /\ metrics'.notModified # metrics.notModified
       /\ poll'[c] # poll[c] /\ poll[c].step = "resolved" /\ resolved.config = p
       /\ resolved.content # EmptyContent
       /\ cache[p].rv = resolved.version
       /\ cache[p].status.observedGeneration = cache[p].generation
       => held[c].content = resolved.content]_fleetVars
=============================================================================
