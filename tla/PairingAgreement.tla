-------------------------- MODULE PairingAgreement --------------------------
(***************************************************************************)
(* What pairing promises: the gateways draw keys one after the other, the  *)
(* remote controller stores for a gateway only keys that it has drawn,     *)
(* never an earlier one after a later one and at most one in an exchange,  *)
(* and a gateway confirms only what was stored and is still its newest.    *)
(***************************************************************************)
EXTENDS Naturals

VARIABLES
    drawn,          \* the keys that gateways have drawn; key.salt counts them
    stored,         \* the key that the remote controller holds for a gateway
    committed,      \* the keys it has stored so far, with their exchanges
    acknowledged    \* those that a gateway has confirmed

agreementVars == <<drawn, stored, committed, acknowledged>>

\* k is the key of a confirmation, or of a stored pairing.
KeyOf(c) == [gw |-> c.gw, key |-> c.key]

\* Of gateway g, "keys" has nothing later than the key.
IsLatest(key, g, keys) == \A k \in keys : k.gw = g => k.key.salt <= key.salt

\* A remote controller of the earlier firmware may hold one pairing already.
Init ==
    /\ stored \subseteq drawn
    /\ committed = {} /\ acknowledged = {}

\* The owner gives a gateway another passphrase.
Draw(k) ==
    /\ \A l \in drawn : l.key.salt < k.key.salt
    /\ drawn' = drawn \cup {k}
    /\ UNCHANGED <<stored, committed, acknowledged>>

\* An exchange stores its key in place of the one before, also when it reports
\* a failure after that.
Commit(c) ==
    /\ KeyOf(c) \in drawn
    /\ IsLatest(c.key, c.gw, stored)
    /\ \A d \in committed : d.nonce # c.nonce
    /\ stored' = {k \in stored : k.gw # c.gw} \cup {KeyOf(c)}
    /\ committed' = committed \cup {c}
    /\ UNCHANGED <<drawn, acknowledged>>

\* The gateway confirms that it will use the key from now on.
Acknowledge(c) ==
    /\ IsLatest(c.key, c.gw, drawn)
    /\ acknowledged' = acknowledged \cup {c}
    /\ UNCHANGED <<drawn, stored, committed>>

Next ==
    \/ \E k \in drawn' \ drawn : Draw(k)
    \/ \E c \in committed' \ committed : Commit(c)
    \/ \E c \in committed : Acknowledge(c)

Spec == Init /\ [][Next]_agreementVars
=============================================================================
