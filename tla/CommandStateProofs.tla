------------------------- MODULE CommandStateProofs -------------------------
(***************************************************************************)
(* Theorems about the pending-command flags, for every timeout and every   *)
(* bound on ages.                                                          *)
(***************************************************************************)
EXTENDS CommandState, TLAPS

\* Ageing a stored time yields a time, and never makes it look unstored.
LEMMA OlderLemma ==
    ASSUME NEW a \in Age
    PROVE  /\ Older(a) \in Age
           /\ a # None => Older(a) # None
BY AgeAssumption DEF Older, Age, None

CommandInv == CommandTypeOK /\ OnePending /\ PendingIsTimed

\* The two ages a stored time can be set to.
LEMMA AgeValues == None \in Age /\ 0 \in Age /\ 0 # None
BY AgeAssumption DEF Age, None

LEMMA CommandInitInv == CommandInit => CommandInv
<1>1. CommandInit => CommandTypeOK
    BY AgeValues DEF CommandInit, CommandTypeOK
<1>2. CommandInit => OnePending /\ PendingIsTimed
    BY DEF CommandInit, OnePending, PendingIsTimed
<1>3. QED
    BY <1>1, <1>2 DEF CommandInv

LEMMA CommandStepInv == CommandInv /\ [CommandNext]_commandVars => CommandInv'
<1> SUFFICES ASSUME CommandInv, [CommandNext]_commandVars
             PROVE  CommandInv'
    OBVIOUS
<1> USE DEF CommandInv, CommandTypeOK, OnePending, PendingIsTimed
<1>1. CASE StartArm
    BY <1>1, AgeValues DEF StartArm, CanStartArm
<1>2. CASE StartDisarm
    BY <1>2, AgeValues DEF StartDisarm, CanStartDisarm
<1>3. CASE StartRtl
    BY <1>3, AgeValues DEF StartRtl, CanStartRtl
<1>4. CASE ConfirmArm
    BY <1>4, AgeValues DEF ConfirmArm, CanConfirmArm
<1>5. CASE ConfirmDisarm
    BY <1>5, AgeValues DEF ConfirmDisarm
<1>6. CASE ConfirmRtl \/ RejectRtl
    <2>1. FinishRtl
        BY <1>6 DEF ConfirmRtl, RejectRtl
    <2>2. QED
        BY <2>1, AgeValues DEF FinishRtl
<1>7. CASE TimeoutArm
    BY <1>7, AgeValues DEF TimeoutArm, ArmExpired
<1>8. CASE TimeoutDisarm
    BY <1>8, AgeValues DEF TimeoutDisarm, DisarmExpired
<1>9. CASE TimeoutRtl
    BY <1>9, AgeValues DEF TimeoutRtl, RtlExpired
<1>10. CASE CommandReset
    BY <1>10, AgeValues DEF CommandReset
<1>11. CASE CommandTick
    <2>1. /\ Older(armAge) \in Age /\ Older(disarmAge) \in Age
          /\ Older(rtlAge) \in Age
          /\ armAge # None => Older(armAge) # None
          /\ disarmAge # None => Older(disarmAge) # None
          /\ rtlAge # None => Older(rtlAge) # None
        BY OlderLemma
    <2>2. QED
        BY <1>11, <2>1 DEF CommandTick
<1>12. CASE UNCHANGED commandVars
    BY <1>12 DEF commandVars
<1>13. QED
    BY <1>1, <1>2, <1>3, <1>4, <1>5, <1>6, <1>7, <1>8, <1>9, <1>10, <1>11,
       <1>12 DEF CommandNext, CommandTimeouts

\* The flags have their types, at most one is set, and each set flag has the
\* start time its timeout needs, whatever order the tasks take the lock in.
THEOREM CommandInvariant == CommandSpec => []CommandInv
BY CommandInitInv, CommandStepInv, PTL DEF CommandSpec

\* Whatever the order of the operations, the flags and times keep their types.
THEOREM CommandTypeCorrect == CommandSpec => []CommandTypeOK
<1>1. CommandInv => CommandTypeOK
    BY DEF CommandInv
<1>2. QED
    BY <1>1, CommandInvariant, PTL

\* Only one flight-controller command is ever pending.
THEOREM OnePendingTheorem == CommandSpec => []OnePending
<1>1. CommandInv => OnePending
    BY DEF CommandInv
<1>2. QED
    BY <1>1, CommandInvariant, PTL

\* Every pending command has the start time its timeout reads.
THEOREM PendingIsTimedTheorem == CommandSpec => []PendingIsTimed
<1>1. CommandInv => PendingIsTimed
    BY DEF CommandInv
<1>2. QED
    BY <1>1, CommandInvariant, PTL

-----------------------------------------------------------------------------
\* Every operation on the flags is an operation of the one-command slot, or
\* leaves the slot alone.
LEMMA SlotStep ==
    CommandInv /\ [CommandNext]_commandVars => [Slot!Next]_SlotOp
<1> SUFFICES ASSUME CommandInv, [CommandNext]_commandVars
             PROVE  [Slot!Next]_SlotOp
    OBVIOUS
<1> USE DEF CommandInv, CommandTypeOK, OnePending
<1> USE DEF SlotOp, Slot!Next, Slot!Begin, Slot!End, Slot!Rank, Slot!Operation
<1>1. CASE StartArm
    <2>1. Slot!Begin("arm")
        BY <1>1 DEF StartArm, CanStartArm
    <2>2. QED
        BY <2>1
<1>2. CASE StartDisarm
    <2>1. Slot!Begin("disarm")
        BY <1>2 DEF StartDisarm, CanStartDisarm
    <2>2. QED
        BY <2>1
<1>3. CASE StartRtl
    <2>1. Slot!Begin("rtl")
        BY <1>3 DEF StartRtl, CanStartRtl
    <2>2. QED
        BY <2>1
<1>4. CASE ConfirmArm
    BY <1>4 DEF ConfirmArm, CanConfirmArm
<1>5. CASE ConfirmDisarm
    BY <1>5 DEF ConfirmDisarm
<1>6. CASE ConfirmRtl \/ RejectRtl
    BY <1>6 DEF ConfirmRtl, RejectRtl, FinishRtl
<1>7. CASE TimeoutArm
    BY <1>7 DEF TimeoutArm, ArmExpired
<1>8. CASE TimeoutDisarm
    BY <1>8 DEF TimeoutDisarm, DisarmExpired
<1>9. CASE TimeoutRtl
    BY <1>9 DEF TimeoutRtl, RtlExpired
<1>10. CASE CommandReset
    BY <1>10 DEF CommandReset
<1>11. CASE CommandTick
    BY <1>11 DEF CommandTick
<1>12. CASE UNCHANGED commandVars
    BY <1>12 DEF commandVars
<1>13. QED
    BY <1>1, <1>2, <1>3, <1>4, <1>5, <1>6, <1>7, <1>8, <1>9, <1>10, <1>11,
       <1>12 DEF CommandNext, CommandTimeouts

\* The three flags implement a slot for one operation, which is superseded
\* only by a more conservative operation: no ARM ever replaces a DISARM.
THEOREM SlotRefinement == CommandSpec => SlotSafety
<1>1. CommandInit => Slot!Init
    BY DEF CommandInit, Slot!Init, SlotOp
<1>2. QED
    BY <1>1, SlotStep, CommandInvariant, PTL
       DEF CommandSpec, SlotSafety, Slot!Spec
=============================================================================
