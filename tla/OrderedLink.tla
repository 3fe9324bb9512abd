---------------------------- MODULE OrderedLink ----------------------------
(***************************************************************************)
(* What one direction of the radio link promises its receiver: of what the *)
(* peer sends, in however many boots, some is lost, and the rest comes in  *)
(* the order it was sent, none twice, and all of it sent to the receiver's *)
(* present boot.                                                           *)
(***************************************************************************)
EXTENDS Naturals

VARIABLES
    sent,   \* the messages sent so far
    last,   \* the last one delivered, or Nothing
    boot    \* the receiver's session number, 0 while it is down

linkVars == <<sent, last, boot>>

\* The sender's session, the message's number in it, and the receiver's
\* session it is meant for.
Message == [session : Nat \ {0}, seq : Nat \ {0}, to : Nat]

Nothing == [session |-> 0, seq |-> 0, to |-> 0]

\* m is of a later session than n, or later in the same.
After(m, n) ==
    \/ m.session > n.session
    \/ m.session = n.session /\ m.seq > n.seq

Init == sent = {} /\ last = Nothing /\ boot = 0

\* Whatever restarts there are, a sender never repeats a number.
Send(m) ==
    /\ m \in Message
    /\ \A n \in sent : After(m, n)
    /\ sent' = sent \cup {m}
    /\ UNCHANGED <<last, boot>>

Deliver(m) ==
    /\ m.to = boot /\ boot # 0
    /\ After(m, last)
    /\ last' = m
    /\ UNCHANGED <<sent, boot>>

\* The receiver starts under a number for which nothing has been sent yet.
Start ==
    /\ boot = 0 /\ boot' \in Nat \ {0}
    /\ \A m \in sent : m.to < boot'
    /\ UNCHANGED <<sent, last>>

Stop ==
    /\ boot # 0 /\ boot' = 0
    /\ UNCHANGED <<sent, last>>

Next ==
    \/ \E m \in sent' \ sent : Send(m)
    \/ \E m \in sent : Deliver(m)
    \/ Start
    \/ Stop

Spec == Init /\ [][Next]_linkVars
=============================================================================
