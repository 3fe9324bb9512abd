---------------------------- MODULE CommandSlot ----------------------------
(***************************************************************************)
(* What the gateway promises about its flight-controller commands: it      *)
(* works on one ARM, DISARM or RTL at a time, and replaces the one it is   *)
(* working on only by a more conservative one.                             *)
(***************************************************************************)
EXTENDS Naturals

VARIABLE op     \* the operation whose outcome is awaited, or "none"

Operation == {"arm", "disarm", "rtl"}

Rank == [none |-> 0, arm |-> 1, disarm |-> 2, rtl |-> 3]

Init == op = "none"

\* An operation starts on an idle slot or supersedes a lower-ranked one.
\* Nothing supersedes an operation with ARM: ARM has the lowest rank.
Begin(k) ==
    /\ Rank[k] > Rank[op]
    /\ op' = k

\* The operation is confirmed, refused or timed out.
End ==
    /\ op # "none"
    /\ op' = "none"

Next == End \/ \E k \in Operation : Begin(k)

Spec == Init /\ [][Next]_op

\* No operation is awaited for ever.
FairSpec == Spec /\ WF_op(End)
=============================================================================
