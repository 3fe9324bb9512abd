---------------------------- MODULE CommandState ----------------------------
(***************************************************************************)
(* The pending-command flags of the gateway (drone_gateway/main/main.c).   *)
(* Every operation below is one critical section under                     *)
(* gateway_command_state_mux, called by link_rx_task, mavlink_rx_task and  *)
(* gateway_status_tx_task.  A boolean-returning try/confirm/timeout        *)
(* function is the action of its success; its failure changes nothing.     *)
(*                                                                         *)
(* A stored command time t is represented by its age: None stands for the  *)
(* value 0, and Age counts ticks up to MaxAge, beyond which all ages are   *)
(* alike for every timeout.                                                *)
(***************************************************************************)
EXTENDS Integers

CONSTANTS
    ArmTimeout,         \* GATEWAY_ARM_TIMEOUT_MS
    DisarmTimeout,      \* GATEWAY_DISARM_TIMEOUT_MS
    RtlTimeout,         \* GATEWAY_RTL_TIMEOUT_MS
    MaxAge              \* bound: ages saturate here

ASSUME AgeAssumption == MaxAge \in Nat

ASSUME CommandTimeoutAssumption ==
    /\ ArmTimeout \in 0 .. MaxAge
    /\ DisarmTimeout \in 0 .. MaxAge
    /\ RtlTimeout \in 0 .. MaxAge

VARIABLES armPending, disarmPending, rtlPending,    \* gateway_*_pending
          armAge, disarmAge, rtlAge                 \* gateway_*_command_time_us

commandVars == <<armPending, disarmPending, rtlPending,
                 armAge, disarmAge, rtlAge>>

None == -1
Age == None .. MaxAge

\* A plausible bug: the age of a time that was never stored.
OlderUnchecked(a) == a + 1

\* One tick of esp_timer_get_time() seen by a stored time.
Older(a) == IF a = None \/ a = MaxAge THEN a ELSE a + 1

CommandTypeOK ==
    /\ armPending \in BOOLEAN /\ disarmPending \in BOOLEAN
    /\ rtlPending \in BOOLEAN
    /\ armAge \in Age /\ disarmAge \in Age /\ rtlAge \in Age

CommandInit ==
    /\ armPending = FALSE /\ disarmPending = FALSE /\ rtlPending = FALSE
    /\ armAge = None /\ disarmAge = None /\ rtlAge = None

-----------------------------------------------------------------------------
CanStartArm == ~armPending /\ ~disarmPending /\ ~rtlPending
CanStartDisarm == ~disarmPending /\ ~rtlPending
CanStartRtl == ~rtlPending

\* A plausible bug: the time is not stored.
StartArmUntimed ==
    /\ CanStartArm
    /\ armPending' = TRUE
    /\ UNCHANGED <<disarmPending, rtlPending, armAge, disarmAge, rtlAge>>

\* gateway_command_state_try_start_arm
StartArm ==
    /\ CanStartArm
    /\ armPending' = TRUE
    /\ armAge' = 0
    /\ UNCHANGED <<disarmPending, rtlPending, disarmAge, rtlAge>>

\* A plausible bug: the pending ARM is not cancelled.
StartDisarmKeepsArm ==
    /\ CanStartDisarm
    /\ disarmPending' = TRUE
    /\ disarmAge' = 0
    /\ UNCHANGED <<armPending, rtlPending, armAge, rtlAge>>

\* gateway_command_state_try_start_disarm: a pending ARM is cancelled, its
\* time is left behind.
StartDisarm ==
    /\ CanStartDisarm
    /\ armPending' = FALSE
    /\ disarmPending' = TRUE
    /\ disarmAge' = 0
    /\ UNCHANGED <<rtlPending, armAge, rtlAge>>

\* A plausible bug: only ARM is cancelled.
StartRtlKeepsDisarm ==
    /\ CanStartRtl
    /\ armPending' = FALSE
    /\ rtlPending' = TRUE
    /\ rtlAge' = 0
    /\ UNCHANGED <<disarmPending, armAge, disarmAge>>

\* gateway_command_state_try_start_rtl: RTL cancels both.
StartRtl ==
    /\ CanStartRtl
    /\ armPending' = FALSE
    /\ disarmPending' = FALSE
    /\ rtlPending' = TRUE
    /\ rtlAge' = 0
    /\ UNCHANGED <<armAge, disarmAge>>

\* gateway_command_state_confirm_arm
CanConfirmArm == armPending /\ ~disarmPending /\ ~rtlPending

ConfirmArm ==
    /\ CanConfirmArm
    /\ armPending' = FALSE
    /\ armAge' = None
    /\ UNCHANGED <<disarmPending, rtlPending, disarmAge, rtlAge>>

\* gateway_command_state_confirm_disarm
ConfirmDisarm ==
    /\ disarmPending
    /\ armPending' = FALSE /\ disarmPending' = FALSE
    /\ armAge' = None /\ disarmAge' = None
    /\ UNCHANGED <<rtlPending, rtlAge>>

\* gateway_command_state_confirm_rtl and gateway_command_state_reject_rtl
\* have the same body.
FinishRtl ==
    /\ rtlPending
    /\ rtlPending' = FALSE
    /\ rtlAge' = None
    /\ UNCHANGED <<armPending, disarmPending, armAge, disarmAge>>

ConfirmRtl == FinishRtl
RejectRtl == FinishRtl

\* The timeouts compare the age of a stored, nonzero time.
ArmExpired == armPending /\ armAge # None /\ armAge >= ArmTimeout
DisarmExpired == disarmPending /\ disarmAge # None /\ disarmAge >= DisarmTimeout
RtlExpired == rtlPending /\ rtlAge # None /\ rtlAge >= RtlTimeout

\* gateway_command_state_timeout_arm
TimeoutArm ==
    /\ ArmExpired
    /\ armPending' = FALSE
    /\ armAge' = None
    /\ UNCHANGED <<disarmPending, rtlPending, disarmAge, rtlAge>>

\* gateway_command_state_timeout_disarm
TimeoutDisarm ==
    /\ DisarmExpired
    /\ disarmPending' = FALSE
    /\ disarmAge' = None
    /\ UNCHANGED <<armPending, rtlPending, armAge, rtlAge>>

\* gateway_command_state_timeout_rtl
TimeoutRtl ==
    /\ RtlExpired
    /\ rtlPending' = FALSE
    /\ rtlAge' = None
    /\ UNCHANGED <<armPending, disarmPending, armAge, disarmAge>>

\* A restart of the gateway: the flags are RAM.
CommandReset ==
    /\ armPending' = FALSE /\ disarmPending' = FALSE /\ rtlPending' = FALSE
    /\ armAge' = None /\ disarmAge' = None /\ rtlAge' = None

\* Time passes for the three stored times.
CommandTick ==
    /\ armAge' = Older(armAge)
    /\ disarmAge' = Older(disarmAge)
    /\ rtlAge' = Older(rtlAge)
    /\ UNCHANGED <<armPending, disarmPending, rtlPending>>

-----------------------------------------------------------------------------
CommandTimeouts == TimeoutArm \/ TimeoutDisarm \/ TimeoutRtl

CommandNext ==
    \/ StartArm \/ StartDisarm \/ StartRtl
    \/ ConfirmArm \/ ConfirmDisarm \/ ConfirmRtl \/ RejectRtl
    \/ CommandTimeouts
    \/ CommandReset
    \/ CommandTick

CommandSpec == CommandInit /\ [][CommandNext]_commandVars

\* gateway_status_tx_task runs the three timeout checks every 200 ms, and
\* time advances: an expired command is noticed.
CommandFairness ==
    /\ WF_commandVars(CommandTick)
    /\ WF_commandVars(TimeoutArm)
    /\ WF_commandVars(TimeoutDisarm)
    /\ WF_commandVars(TimeoutRtl)

FairCommandSpec == CommandSpec /\ CommandFairness

-----------------------------------------------------------------------------
\* "Only one FC command may be pending at a time" (main.c, try_start_arm).
\* Each flag is set by a different function, called by different tasks.
OnePending ==
    /\ ~(armPending /\ disarmPending)
    /\ ~(armPending /\ rtlPending)
    /\ ~(disarmPending /\ rtlPending)

\* A pending command has a start time.  The timeouts skip a zero time, so a
\* command pending without one would be pending until the next reboot.
PendingIsTimed ==
    /\ armPending => armAge # None
    /\ disarmPending => disarmAge # None
    /\ rtlPending => rtlAge # None

\* The operation the flags stand for.
SlotOp == IF rtlPending THEN "rtl"
          ELSE IF disarmPending THEN "disarm"
          ELSE IF armPending THEN "arm"
          ELSE "none"

Slot == INSTANCE CommandSlot WITH op <- SlotOp

\* The flags implement the one-command slot: an operation is superseded
\* only by a more conservative one, and the timeouts end each of them.
SlotSafety == Slot!Spec
SlotFairness == Slot!FairSpec
=============================================================================
