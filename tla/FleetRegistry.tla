--------------------------- MODULE FleetRegistry ---------------------------
(***************************************************************************)
(* What the remote controller's fleet promises: for every aircraft the     *)
(* newest pairing the owner accepted, and whether the owner revoked it;    *)
(* and the aircraft the owner chose to fly.  Each operation is one step.   *)
(***************************************************************************)
EXTENDS Naturals

CONSTANTS Aircraft, NoAircraft

VARIABLES
    registry,   \* per aircraft: is it registered, with which pairing
    chosen      \* the aircraft to fly, if several could be

\* A pairing of a higher generation, or the first one.
Pair(u) ==
    /\ registry[u].state \in {"EMPTY", "ACTIVE"}
    /\ \E p \in [state : {"ACTIVE"},
                 generation : {registry'[u].generation},
                 key : {registry'[u].key}] :
         /\ p.generation > registry[u].generation
         /\ registry' = [registry EXCEPT ![u] = p]
    /\ UNCHANGED chosen

\* Revoking and restoring keep the pairing.
Judge(u, from, to) ==
    /\ registry[u].state = from
    /\ registry' = [registry EXCEPT ![u].state = to]
    /\ UNCHANGED chosen

\* Only a revoked aircraft may be forgotten.
Forget(u) ==
    /\ registry[u].state = "REVOKED"
    /\ registry'[u].state = "EMPTY"
    /\ \A v \in Aircraft \ {u} : registry'[v] = registry[v]
    /\ UNCHANGED chosen

Choose(u) ==
    /\ registry[u].state = "ACTIVE"
    /\ chosen' = u
    /\ UNCHANGED registry

\* The choice is dropped only because its aircraft was revoked.
Drop ==
    /\ chosen # NoAircraft
    /\ registry[chosen].state = "REVOKED"
    /\ chosen' = NoAircraft
    /\ UNCHANGED registry

Next ==
    \/ \E u \in Aircraft :
         \/ Pair(u)
         \/ Judge(u, "ACTIVE", "REVOKED")
         \/ Judge(u, "REVOKED", "ACTIVE")
         \/ Forget(u)
         \/ Choose(u)
    \/ Drop
=============================================================================
