--------------------------- MODULE GatewayControl ---------------------------
(***************************************************************************)
(* The airborne gateway's control authority (drone_gateway/main/main.c):   *)
(* accepted RC packets, the commands they cause, the failsafe supervisor,  *)
(* the recovery lock and the flight controller's heartbeats.               *)
(*                                                                         *)
(* Three FreeRTOS tasks share the state: "link" (link_rx_task), "mavrx"    *)
(* (mavlink_rx_task) and "status" (gateway_status_tx_task).  A handler is  *)
(* cut where another task can act between two of its effects; pc[t] is     *)
(* the next step of task t.  mavlink_tx_task keeps no state: the frame it  *)
(* would write now is the operator SendsOverride.                          *)
(*                                                                         *)
(* Time is counted in status periods (200 ms): a stored time is its age.   *)
(***************************************************************************)
EXTENDS CommandState, Sequences

CONSTANTS
    RcPacketTimeout,        \* gateway_runtime_config.rc_packet_timeout_ms
    FcHeartbeatTimeout,     \* gateway_runtime_config.fc_heartbeat_timeout_ms
    RcFailsafeTimeout,      \* GATEWAY_RC_FAILSAFE_DISARM_TIMEOUT_MS
    FcFailsafeTimeout,      \* GATEWAY_FC_FAILSAFE_DISARM_TIMEOUT_MS
    RecoveryHold,           \* GATEWAY_SESSION_RECOVERY_HOLD_MS
    ActionRepeat,           \* GATEWAY_ACTION_STATUS_REPEAT_COUNT
    FailsafeAction,         \* "DISARM": the bench build; else failsafe_policy
    MaxInFlight,            \* bound: commands in the FC UART at once
    Interleaved,            \* FALSE: a handler runs to completion
    LossyUart,              \* a command to the FC may be lost
    FcRefuses,              \* the FC may refuse a command
    FcArmsAlone,            \* the FC may be armed by somebody else
    Reboots                 \* the gateway may restart

ASSUME TimeoutAssumption ==
    /\ RcPacketTimeout \in 0 .. MaxAge - 1
    /\ FcHeartbeatTimeout \in 0 .. MaxAge - 1
    /\ RcFailsafeTimeout \in 0 .. MaxAge - 1
    /\ FcFailsafeTimeout \in 0 .. MaxAge - 1
    /\ RecoveryHold \in 0 .. MaxAge
    /\ ActionRepeat \in Nat \ {0}
    /\ MaxInFlight \in Nat \ {0}

ASSUME BuildAssumption ==
    /\ FailsafeAction \in {"DISARM", "FC_NATIVE", "RTL"}
    /\ {Interleaved, LossyUart, FcRefuses, FcArmsAlone, Reboots}
         \subseteq BOOLEAN

RcState == {"DISARMED", "ARMED", "FAILSAFE"}
FcCommand == {"ARM", "DISARM", "RTL"}
Task == {"link", "mavrx", "status"}

\* gateway_action_t, without the dry-run answers of other builds.
Action ==
    {"NONE", "ARM_REAL_SENT", "ARM_CONFIRMED", "ARM_DENIED", "ARM_TIMEOUT",
     "DISARM_REAL_SENT", "DISARM_CONFIRMED", "DISARM_DENIED",
     "DISARM_TIMEOUT", "RTL_SENT", "RTL_CONFIRMED", "RTL_DENIED",
     "RTL_TIMEOUT", "RECOVER_DRY_RUN", "FAILSAFE_DRY_RUN"}

Label == {"wait", "process", "startArm", "sendArm", "operatorDisarm",
          "safety", "reserveDisarm", "sendDisarm", "reserveRtl", "sendRtl",
          "finish", "sample", "check", "confirm"}

VARIABLES
    \* the flight controller and the UART (external)
    fc,                 \* [armed, rtl]: what the FC really does
    toFc,               \* commands written to the UART, oldest first
    heartbeat,          \* an FC heartbeat on its way, or NoHeartbeat
    rtlRefused,         \* a negative RTL acknowledgement is on its way
    \* what the gateway knows of the FC
    fcIsArmed,          \* fc_is_armed
    fcAge,              \* last_fc_heartbeat_us
    \* what the gateway knows of the RC
    rcAge,              \* last_good_packet_time_us, ..._last_remote_packet_time_us
    lastRemoteState,    \* gateway_last_remote_state
    hasSession,         \* has_session of link_handle_mathos_frame
    previousState,      \* previous_state of gateway_process_rc_state_action
    packet,             \* the RC packet link_rx_task is handling
    latest,             \* the packet in rc_packet_queue or mavlink_tx_task
    \* supervision
    recoveryRequired,   \* gateway_session_recovery_required
    holdAge,            \* gateway_session_recovery_disarmed_since_us
    recoveryLastAge,    \* recovery_last_packet_us
    latched,            \* gateway_safety_disarm_latched
    sample,             \* locals of gateway_failsafe_safety_check
    action, repeat,     \* gateway_last_action and its repeat counter
    \* scheduling
    pc,                 \* next step of each task
    statusRan,          \* gateway_status_tx_task has run in this tick
    spaced,             \* has the supervisor run since the last heartbeat?
    \* history, read by properties only
    mayArm,             \* DISARMED accepted since the last ARM command
    calmAge,            \* how long the accepted packets have been safe
    told,               \* failsafe command written since the last disarmed heartbeat
    exposed,            \* periods an emergency of an armed FC went untold
    trust               \* was the FC known disarmed in this session?

fcVars == <<fc, toFc, heartbeat, rtlRefused>>
fcViewVars == <<fcIsArmed, fcAge>>
rcViewVars == <<rcAge, lastRemoteState, hasSession, packet>>
recoveryVars == <<recoveryRequired, holdAge, recoveryLastAge>>
actionVars == <<action, repeat>>
scheduleVars == <<statusRan, spaced>>
historyVars == <<mayArm, calmAge, told, exposed, trust>>
vars == <<commandVars, fcVars, fcViewVars, rcViewVars, previousState, latest,
          recoveryVars, latched, sample, actionVars, pc, scheduleVars,
          historyVars>>

NoHeartbeat == [armed |-> FALSE, rtl |-> FALSE, sent |-> FALSE]
NoPacket == [state |-> "DISARMED", high |-> FALSE, new |-> FALSE]
NoLatest == [have |-> FALSE, state |-> "DISARMED", high |-> FALSE]
NoSample == [rcLost |-> FALSE, fcLost |-> FALSE, requested |-> FALSE]

TypeOK ==
    /\ CommandTypeOK
    /\ fc \in [armed : BOOLEAN, rtl : BOOLEAN]
    /\ toFc \in Seq(FcCommand)
    /\ heartbeat \in [armed : BOOLEAN, rtl : BOOLEAN, sent : BOOLEAN]
    /\ rtlRefused \in BOOLEAN
    /\ fcIsArmed \in BOOLEAN /\ fcAge \in Age
    /\ rcAge \in Age
    /\ lastRemoteState \in RcState /\ previousState \in RcState
    /\ hasSession \in BOOLEAN
    /\ packet \in [state : RcState, high : BOOLEAN, new : BOOLEAN]
    /\ latest \in [have : BOOLEAN, state : RcState, high : BOOLEAN]
    /\ recoveryRequired \in BOOLEAN
    /\ holdAge \in Age /\ recoveryLastAge \in Age
    /\ latched \in BOOLEAN
    /\ sample \in [rcLost : BOOLEAN, fcLost : BOOLEAN, requested : BOOLEAN]
    /\ action \in Action /\ repeat \in 0 .. ActionRepeat
    /\ pc \in [Task -> Label]
    /\ statusRan \in BOOLEAN /\ spaced \in {"new", "running", "done"}
    /\ mayArm \in BOOLEAN /\ calmAge \in Age
    /\ told \in BOOLEAN /\ exposed \in 0 .. 2
    /\ trust \in {"unheard", "armed", "disarmed"}

\* The gateway's RAM after a start; the FC may be in any state by then.
GatewayInit ==
    /\ fcIsArmed = FALSE /\ fcAge = None
    /\ rcAge = None /\ lastRemoteState = "DISARMED"
    /\ hasSession = FALSE /\ previousState = "DISARMED"
    /\ packet = NoPacket /\ latest = NoLatest
    /\ recoveryRequired = FALSE /\ holdAge = None /\ recoveryLastAge = None
    /\ latched = FALSE /\ sample = NoSample
    /\ action = "NONE" /\ repeat = 0
    /\ pc = [t \in Task |-> "wait"]
    /\ mayArm = FALSE /\ calmAge = None /\ told = FALSE
    /\ exposed = 0 /\ trust = "unheard"

Init ==
    /\ CommandInit
    /\ GatewayInit
    /\ fc \in [armed : BOOLEAN, rtl : {FALSE}]
    /\ toFc = <<>> /\ heartbeat = NoHeartbeat /\ rtlRefused = FALSE
    /\ statusRan = FALSE /\ spaced = "done"

-----------------------------------------------------------------------------
(* Helpers *)

\* May task t start a handler?
Idle(t) == pc[t] = "wait"
MayStart(t) == Idle(t) /\ (Interleaved \/ \A u \in Task : Idle(u))
Goto(t, label) == pc' = [pc EXCEPT ![t] = label]

\* The packet handler goes on after a safety action, the supervisor is done.
After(t) == IF t = "link" THEN "finish" ELSE "wait"

\* gateway_action_publish
Publish(a) ==
    /\ action' = a
    /\ repeat' = IF a = "NONE" THEN 0 ELSE ActionRepeat

\* gateway_action_tick_after_status_send
ActionTick(sendOk) ==
    IF ~sendOk \/ action = "NONE"
    THEN UNCHANGED actionVars
    ELSE LET left == IF repeat > 0 THEN repeat - 1 ELSE 0 IN
         /\ repeat' = left
         /\ action' = IF left = 0 THEN "NONE" ELSE action

\* Every age comparison is false for a time that was never stored.
Within(age, limit) == age # None /\ age <= limit
Beyond(age, limit) == age # None /\ age > limit

\* fc_heartbeat_is_fresh
FcFresh == Within(fcAge, FcHeartbeatTimeout)

\* mavlink_send_message: the frame enters the UART behind earlier ones.
Write(c) ==
    /\ Len(toFc) < MaxInFlight
    /\ toFc' = Append(toFc, c)

-----------------------------------------------------------------------------
(* link_rx_task: an authenticated, in-order RC packet has been accepted.    *)

\* The first statements of handle_valid_rc_packet.  The first packet of a
\* gateway uptime always opens a session, so gateway_process_rc_state_action
\* never sees its first packet with new_session false.
LinkAccept(state, high, new) ==
    /\ MayStart("link")
    /\ new \/ hasSession
    /\ packet' = [state |-> state, high |-> high, new |-> new]
    /\ hasSession' = TRUE
    /\ rcAge' = 0
    /\ lastRemoteState' = state
    /\ Goto("link", "process")
    /\ mayArm' = IF state = "DISARMED" THEN TRUE ELSE mayArm /\ ~new
    /\ calmAge' = IF state # "DISARMED" \/ high THEN None
                  ELSE IF calmAge = None \/ Beyond(rcAge, RcPacketTimeout) THEN 0
                  ELSE calmAge
    /\ UNCHANGED <<commandVars, fcVars, fcViewVars, previousState, latest,
                   recoveryVars, latched, sample, actionVars, scheduleVars,
                   told, exposed, trust>>

\* What every branch of gateway_process_rc_state_action leaves alone.
ProcessUnchanged ==
    UNCHANGED <<commandVars, fcVars, fcViewVars, rcViewVars, latest, holdAge,
                recoveryLastAge, sample, scheduleVars, mayArm, calmAge,
                told, exposed>>

\* Branch new_session: the packet is only a baseline.
LinkNewSession ==
    /\ pc["link"] = "process" /\ packet.new
    /\ previousState' = packet.state
    /\ trust' = IF fcAge = None THEN "unheard"
                ELSE IF fcIsArmed THEN "armed" ELSE "disarmed"
    /\ \/ \* an ARM of the previous session is pending: cancel it
          /\ armPending
          /\ recoveryRequired' = TRUE
          /\ Goto("link", "reserveDisarm")
          /\ UNCHANGED <<latched, actionVars>>
       \/ \* the FC is armed: apply the failsafe action
          /\ ~armPending /\ fcIsArmed
          /\ recoveryRequired' = TRUE
          /\ latched' = TRUE
          /\ Goto("link", "safety")
          /\ UNCHANGED actionVars
       \/ \* a session must begin DISARMED
          /\ ~armPending /\ ~fcIsArmed /\ packet.state # "DISARMED"
          /\ recoveryRequired' = TRUE
          /\ Publish("ARM_DENIED")
          /\ Goto("link", "finish")
          /\ UNCHANGED latched
       \/ \* safe case
          /\ ~armPending /\ ~fcIsArmed /\ packet.state = "DISARMED"
          /\ Goto("link", "finish")
          /\ UNCHANGED <<recoveryRequired, latched, actionVars>>
    /\ ProcessUnchanged

\* A plausible bug: the transition is not remembered, and seen again.
RequestsForgetful(from, to) ==
    /\ pc["link"] = "process" /\ ~packet.new
    /\ packet.state # previousState
    /\ previousState \in from /\ packet.state = to
    /\ UNCHANGED <<previousState, recoveryRequired, trust>>
    /\ ProcessUnchanged

\* The operator's transitions, from the packet before to this packet.
Requests(from, to) ==
    /\ pc["link"] = "process" /\ ~packet.new
    /\ packet.state # previousState
    /\ previousState \in from /\ packet.state = to
    /\ previousState' = to
    /\ UNCHANGED <<recoveryRequired, trust>>
    /\ ProcessUnchanged

LinkSameState ==
    /\ pc["link"] = "process" /\ ~packet.new
    /\ packet.state = previousState
    /\ Goto("link", "finish")
    /\ UNCHANGED <<previousState, recoveryRequired, latched, actionVars, trust>>
    /\ ProcessUnchanged

\* The checks of an ARM request, before it looks at the FC's state.
ArmRefused == recoveryRequired \/ ~FcFresh \/ packet.high

\* DISARMED -> ARMED
LinkArmRequest ==
    /\ Requests({"DISARMED"}, "ARMED")
    /\ UNCHANGED latched
    /\ \/ /\ ArmRefused
          /\ Publish("ARM_DENIED") /\ Goto("link", "finish")
       \/ /\ ~ArmRefused /\ fcIsArmed
          /\ Publish("ARM_CONFIRMED") /\ Goto("link", "finish")
       \/ /\ ~ArmRefused /\ ~fcIsArmed
          /\ Goto("link", "startArm") /\ UNCHANGED actionVars

\* FAILSAFE -> ARMED resumes control; it is not an ARM command.
LinkRecoverRequest ==
    /\ Requests({"FAILSAFE"}, "ARMED")
    /\ Publish("RECOVER_DRY_RUN") /\ Goto("link", "finish")
    /\ UNCHANGED latched

\* ARMED or FAILSAFE -> DISARMED
LinkDisarmRequest ==
    /\ Requests({"ARMED", "FAILSAFE"}, "DISARMED")
    /\ UNCHANGED latched
    /\ \/ /\ ~FcFresh
          /\ Publish("DISARM_DENIED") /\ Goto("link", "finish")
       \/ /\ FcFresh /\ disarmPending
          /\ Publish("DISARM_REAL_SENT") /\ Goto("link", "finish")
       \/ /\ FcFresh /\ ~disarmPending /\ ~fcIsArmed /\ ~armPending
          /\ Publish("DISARM_CONFIRMED") /\ Goto("link", "finish")
       \/ /\ FcFresh /\ ~disarmPending /\ (fcIsArmed \/ armPending)
          /\ Goto("link", "operatorDisarm") /\ UNCHANGED actionVars

\* DISARMED or ARMED -> FAILSAFE
LinkFailsafeRequest ==
    /\ Requests({"DISARMED", "ARMED"}, "FAILSAFE")
    /\ Publish("FAILSAFE_DRY_RUN")
    /\ latched' = (latched \/ fcIsArmed)
    /\ Goto("link", IF fcIsArmed THEN "safety" ELSE "finish")

\* gateway_command_state_try_start_arm, under the lock
LinkStartArm ==
    /\ pc["link"] = "startArm"
    /\ \/ StartArm /\ Goto("link", "sendArm") /\ UNCHANGED actionVars
       \/ /\ ~CanStartArm /\ UNCHANGED commandVars
          /\ Publish("ARM_DENIED") /\ Goto("link", "finish")
    /\ UNCHANGED <<fcVars, fcViewVars, rcViewVars, previousState, latest,
                   recoveryVars, latched, sample, scheduleVars, historyVars>>

\* gateway_send_arm_disarm_command(true)
LinkSendArm ==
    /\ pc["link"] = "sendArm"
    /\ Write("ARM")
    /\ Publish("ARM_REAL_SENT")
    /\ Goto("link", "finish")
    /\ mayArm' = FALSE
    /\ UNCHANGED <<commandVars, fc, heartbeat, rtlRefused, fcViewVars,
                   rcViewVars, previousState, latest, recoveryVars, latched,
                   sample, scheduleVars, calmAge, told, exposed, trust>>

\* The operator's DISARM, reserved under the lock.
LinkOperatorDisarm ==
    /\ pc["link"] = "operatorDisarm"
    /\ \/ StartDisarm /\ Goto("link", "sendDisarm") /\ UNCHANGED actionVars
       \/ /\ ~CanStartDisarm /\ UNCHANGED commandVars
          /\ Publish(IF disarmPending THEN "DISARM_REAL_SENT"
                                      ELSE "DISARM_DENIED")
          /\ Goto("link", "finish")
    /\ UNCHANGED <<fcVars, fcViewVars, rcViewVars, previousState, latest,
                   recoveryVars, latched, sample, scheduleVars, historyVars>>

\* A plausible bug: a silence between two safe packets is not noticed.
SafeForRecoveryNow ==
    /\ packet.state = "DISARMED" /\ ~packet.high
    /\ FcFresh /\ ~fcIsArmed
    /\ ~armPending /\ ~disarmPending /\ ~rtlPending

\* A plausible bug: the FC's own state is not asked.
SafeForRecoveryRcOnly ==
    /\ recoveryLastAge = None \/ recoveryLastAge <= RcPacketTimeout
    /\ packet.state = "DISARMED" /\ ~packet.high
    /\ ~armPending /\ ~disarmPending /\ ~rtlPending

\* What every packet of the hold time must find.
SafeForRecovery ==
    /\ recoveryLastAge = None \/ recoveryLastAge <= RcPacketTimeout
    /\ packet.state = "DISARMED" /\ ~packet.high
    /\ FcFresh /\ ~fcIsArmed
    /\ ~armPending /\ ~disarmPending /\ ~rtlPending

\* A plausible bug: every safe packet starts the hold again.
RecoveryCheckRestarts ==
    \/ /\ ~recoveryRequired
       /\ holdAge' = None /\ recoveryLastAge' = None
       /\ UNCHANGED recoveryRequired
    \/ /\ recoveryRequired
       /\ holdAge' = IF SafeForRecovery THEN 0 ELSE None
       /\ recoveryLastAge' = 0
       /\ UNCHANGED recoveryRequired

\* gateway_session_recovery_check
RecoveryCheck ==
    \/ /\ ~recoveryRequired
       /\ holdAge' = None /\ recoveryLastAge' = None
       /\ UNCHANGED recoveryRequired
    \/ /\ recoveryRequired /\ ~SafeForRecovery
       /\ holdAge' = None /\ recoveryLastAge' = 0
       /\ UNCHANGED recoveryRequired
    \/ /\ recoveryRequired /\ SafeForRecovery
       /\ holdAge = None \/ holdAge < RecoveryHold
       /\ holdAge' = IF holdAge = None THEN 0 ELSE holdAge
       /\ recoveryLastAge' = 0
       /\ UNCHANGED recoveryRequired
    \/ /\ recoveryRequired /\ SafeForRecovery
       /\ holdAge # None /\ holdAge >= RecoveryHold
       /\ recoveryRequired' = FALSE
       /\ holdAge' = None /\ recoveryLastAge' = None

\* A plausible bug: a packet that waits in the queue is not overwritten.
LinkFinishQueued ==
    /\ pc["link"] = "finish"
    /\ RecoveryCheck
    /\ latest' = IF latest.have THEN latest
                 ELSE [have |-> TRUE, state |-> packet.state, high |-> packet.high]
    /\ packet' = NoPacket
    /\ Goto("link", "wait")
    /\ UNCHANGED <<commandVars, fcVars, fcViewVars, rcAge, lastRemoteState,
                   hasSession, previousState, latched, sample, actionVars,
                   scheduleVars, historyVars>>

\* The recovery check and xQueueOverwrite end the handler.
LinkFinish ==
    /\ pc["link"] = "finish"
    /\ RecoveryCheck
    /\ latest' = [have |-> TRUE, state |-> packet.state, high |-> packet.high]
    /\ packet' = NoPacket
    /\ Goto("link", "wait")
    /\ UNCHANGED <<commandVars, fcVars, fcViewVars, rcAge, lastRemoteState,
                   hasSession, previousState, latched, sample, actionVars,
                   scheduleVars, historyVars>>

-----------------------------------------------------------------------------
(* gateway_apply_failsafe_action, called by the packet handler and by the   *)
(* failsafe supervisor: t is the calling task.                              *)

\* The checks of gateway_start_real_disarm_for_safety (bench build).
SafetyDisarm(t) ==
    /\ FailsafeAction = "DISARM"
    /\ \/ /\ ~fcIsArmed /\ ~armPending
          /\ Publish("DISARM_CONFIRMED")
          /\ latched' = FALSE
          /\ Goto(t, After(t))
       \/ /\ fcIsArmed \/ armPending
          /\ Goto(t, IF disarmPending THEN After(t) ELSE "reserveDisarm")
          /\ UNCHANGED <<latched, actionVars>>

\* The checks of gateway_start_rtl_for_safety (policy RTL).
SafetyRtl(t) ==
    /\ FailsafeAction = "RTL"
    /\ \/ /\ ~fcIsArmed
          /\ Publish("DISARM_CONFIRMED")
          /\ latched' = FALSE
          /\ Goto(t, After(t))
       \/ /\ fcIsArmed
          /\ Goto(t, IF rtlPending THEN After(t) ELSE "reserveRtl")
          /\ UNCHANGED <<latched, actionVars>>

\* Policy FC_NATIVE only releases the override channels.
SafetyNative(t) ==
    /\ FailsafeAction = "FC_NATIVE"
    /\ Goto(t, After(t))
    /\ UNCHANGED <<latched, actionVars>>

Safety(t) ==
    /\ pc[t] = "safety"
    /\ SafetyDisarm(t) \/ SafetyRtl(t) \/ SafetyNative(t)
    /\ UNCHANGED <<commandVars, fcVars, fcViewVars, rcViewVars, previousState,
                   latest, recoveryVars, sample, scheduleVars, historyVars>>

\* try_start_disarm and try_start_rtl; a failure ends the safety action.
ReserveSafety(t) ==
    /\ \/ /\ pc[t] = "reserveDisarm"
          /\ \/ StartDisarm /\ Goto(t, "sendDisarm")
             \/ ~CanStartDisarm /\ UNCHANGED commandVars /\ Goto(t, After(t))
       \/ /\ pc[t] = "reserveRtl"
          /\ \/ StartRtl /\ Goto(t, "sendRtl")
             \/ ~CanStartRtl /\ UNCHANGED commandVars /\ Goto(t, After(t))
    /\ UNCHANGED <<fcVars, fcViewVars, rcViewVars, previousState, latest,
                   recoveryVars, latched, sample, actionVars, scheduleVars,
                   historyVars>>

\* gateway_send_arm_disarm_command(false) and gateway_send_rtl_command
SendSafety(t) ==
    /\ \/ /\ pc[t] = "sendDisarm"
          /\ Write("DISARM") /\ Publish("DISARM_REAL_SENT")
       \/ /\ pc[t] = "sendRtl"
          /\ Write("RTL") /\ Publish("RTL_SENT")
    /\ Goto(t, After(t))
    /\ told' = TRUE
    /\ UNCHANGED <<commandVars, fc, heartbeat, rtlRefused, fcViewVars,
                   rcViewVars, previousState, latest, recoveryVars, latched,
                   sample, scheduleVars, mayArm, calmAge, exposed, trust>>

-----------------------------------------------------------------------------
(* gateway_status_tx_task                                                   *)

\* A status packet is sent, then the timeouts are checked.  One command is
\* pending at most, so at most one of the three checks finds one expired.
StatusReport ==
    /\ MayStart("status") /\ ~statusRan
    /\ \/ TimeoutArm /\ Publish("ARM_TIMEOUT")
       \/ TimeoutDisarm /\ Publish("DISARM_TIMEOUT")
       \/ TimeoutRtl /\ Publish("RTL_TIMEOUT")
       \/ /\ ~ArmExpired /\ ~DisarmExpired /\ ~RtlExpired
          /\ UNCHANGED commandVars
          /\ \E sendOk \in BOOLEAN : ActionTick(sendOk)
    /\ statusRan' = TRUE
    /\ spaced' = IF spaced = "new" /\ ~heartbeat.sent THEN "running" ELSE spaced
    /\ Goto("status", "sample")
    /\ UNCHANGED <<fcVars, fcViewVars, rcViewVars, previousState, latest,
                   recoveryVars, latched, sample, historyVars>>

\* gateway_failsafe_safety_check reads the ages and the RC state first ...
StatusSample ==
    /\ pc["status"] = "sample"
    /\ sample' = [rcLost |-> Beyond(rcAge, RcFailsafeTimeout),
                  fcLost |-> Beyond(fcAge, FcFailsafeTimeout),
                  requested |-> lastRemoteState = "FAILSAFE"]
    /\ Goto("status", "check")
    /\ UNCHANGED <<commandVars, fcVars, fcViewVars, rcViewVars, previousState,
                   latest, recoveryVars, latched, actionVars, scheduleVars,
                   historyVars>>

\* A plausible bug: the latch outlives the emergency it was set for.
ReleaseLatchNever ==
    /\ ~fcIsArmed
    /\ Goto("status", "wait")
    /\ UNCHANGED <<latched, lastRemoteState>>

\* The supervisor's early returns.
ReleaseLatch ==
    /\ ~fcIsArmed
    /\ latched' = FALSE
    /\ Goto("status", "wait")
    /\ UNCHANGED lastRemoteState

NothingToAnswer ==
    /\ fcIsArmed
    /\ latched \/ sample = NoSample
    /\ Goto("status", "wait")
    /\ UNCHANGED <<latched, lastRemoteState>>

AnswerEmergency ==
    /\ fcIsArmed /\ ~latched /\ sample # NoSample
    /\ latched' = TRUE
    /\ lastRemoteState' = IF sample.requested THEN lastRemoteState
                                              ELSE "FAILSAFE"
    /\ Goto("status", "safety")

\* ... and acts on them after reading fc_is_armed and the latch.
StatusCheck ==
    /\ pc["status"] = "check"
    /\ sample' = NoSample
    /\ spaced' = IF spaced = "running" THEN "done" ELSE spaced
    /\ ReleaseLatch \/ NothingToAnswer \/ AnswerEmergency
    /\ UNCHANGED <<commandVars, fcVars, fcViewVars, rcAge, hasSession, packet,
                   previousState, latest, recoveryVars, actionVars,
                   statusRan, historyVars>>

-----------------------------------------------------------------------------
(* mavlink_rx_task                                                          *)

MavHeartbeat ==
    /\ MayStart("mavrx") /\ heartbeat.sent
    /\ fcAge' = 0
    /\ fcIsArmed' = heartbeat.armed
    /\ Goto("mavrx", "confirm")
    /\ told' = (told /\ heartbeat.armed)
    /\ trust' = IF heartbeat.armed THEN trust ELSE "disarmed"
    /\ UNCHANGED <<commandVars, fcVars, rcViewVars, previousState, latest,
                   recoveryVars, latched, sample, actionVars, scheduleVars,
                   mayArm, calmAge, exposed>>

\* The heartbeat confirms what is pending: at most one of the three.
MavConfirm ==
    /\ pc["mavrx"] = "confirm"
    /\ \/ fcIsArmed /\ ConfirmArm /\ Publish("ARM_CONFIRMED")
       \/ ~fcIsArmed /\ ConfirmDisarm /\ Publish("DISARM_CONFIRMED")
       \/ heartbeat.rtl /\ ConfirmRtl /\ Publish("RTL_CONFIRMED")
       \/ /\ ~(fcIsArmed /\ CanConfirmArm)
          /\ ~(~fcIsArmed /\ disarmPending)
          /\ ~(heartbeat.rtl /\ rtlPending)
          /\ UNCHANGED <<commandVars, actionVars>>
    /\ heartbeat' = NoHeartbeat
    /\ Goto("mavrx", "wait")
    /\ UNCHANGED <<fc, toFc, rtlRefused, fcViewVars, rcViewVars,
                   previousState, latest, recoveryVars, latched, sample,
                   scheduleVars, historyVars>>

\* A COMMAND_ACK refuses RTL; those of ARM and DISARM are only logged.
MavRtlRefused ==
    /\ MayStart("mavrx") /\ rtlRefused
    /\ rtlRefused' = FALSE
    /\ \/ RejectRtl /\ Publish("RTL_DENIED")
       \/ ~rtlPending /\ UNCHANGED <<commandVars, actionVars>>
    /\ UNCHANGED <<fc, toFc, heartbeat, fcViewVars, rcViewVars, previousState,
                   latest, recoveryVars, latched, sample, pc, scheduleVars,
                   historyVars>>

-----------------------------------------------------------------------------
(* mavlink_tx_task writes the pilot's sticks to the FC when this holds, and *)
(* releases the override channels when it does not.                         *)

SendsOverride ==
    /\ latest.have /\ latest.state = "ARMED"
    /\ Within(rcAge, RcPacketTimeout)
    /\ FcFresh
    /\ ~recoveryRequired

-----------------------------------------------------------------------------
(* The flight controller, the UART, time and restarts (external).           *)

GatewayUnchanged ==
    UNCHANGED <<commandVars, fcViewVars, rcViewVars, previousState, latest,
                recoveryVars, latched, sample, actionVars, pc, historyVars>>

\* The FC takes the oldest command and obeys it, or refuses.
FcExecute ==
    /\ toFc # <<>>
    /\ toFc' = Tail(toFc)
    /\ \/ /\ Head(toFc) = "ARM"
          /\ fc' = [fc EXCEPT !.armed = TRUE] /\ UNCHANGED rtlRefused
       \/ /\ Head(toFc) = "DISARM"
          /\ fc' = [fc EXCEPT !.armed = FALSE] /\ UNCHANGED rtlRefused
       \/ /\ Head(toFc) = "RTL"
          /\ fc' = [fc EXCEPT !.rtl = TRUE] /\ UNCHANGED rtlRefused
       \/ /\ FcRefuses
          /\ rtlRefused' = (rtlRefused \/ Head(toFc) = "RTL")
          /\ UNCHANGED fc
    /\ UNCHANGED <<heartbeat, scheduleVars>>
    /\ GatewayUnchanged

UartDrops ==
    /\ LossyUart /\ toFc # <<>>
    /\ toFc' = Tail(toFc)
    /\ UNCHANGED <<fc, heartbeat, rtlRefused, scheduleVars>>
    /\ GatewayUnchanged

\* A heartbeat samples the FC; it may reach the gateway later in the tick.
\* Heartbeats come every second, so a whole supervisor run fits in between.
FcHeartbeat ==
    /\ spaced = "done"
    /\ heartbeat' = [armed |-> fc.armed, rtl |-> fc.rtl, sent |-> TRUE]
    /\ spaced' = "new"
    /\ UNCHANGED <<fc, toFc, rtlRefused, statusRan>>
    /\ GatewayUnchanged

\* The FC disarms after landing, or leaves RTL.
FcActsAlone ==
    /\ \/ fc.armed /\ fc' = [fc EXCEPT !.armed = FALSE]
       \/ fc.rtl /\ fc' = [fc EXCEPT !.rtl = FALSE]
       \/ FcArmsAlone /\ ~fc.armed /\ fc' = [fc EXCEPT !.armed = TRUE]
    /\ UNCHANGED <<toFc, heartbeat, rtlRefused, scheduleVars>>
    /\ GatewayUnchanged

\* What the failsafe supervisor treats as an emergency of an armed FC.
Emergency ==
    \/ Beyond(rcAge, RcFailsafeTimeout)
    \/ Beyond(fcAge, FcFailsafeTimeout)
    \/ lastRemoteState = "FAILSAFE"

\* One status period passes.  Commands and heartbeats cross the UART, and
\* every task finishes its handler, within the period they started in.
Tick ==
    /\ \A t \in Task : Idle(t)
    /\ toFc = <<>> /\ ~heartbeat.sent /\ ~rtlRefused
    /\ statusRan
    /\ CommandTick
    /\ fcAge' = Older(fcAge) /\ rcAge' = Older(rcAge)
    /\ holdAge' = Older(holdAge)
    /\ recoveryLastAge' = Older(recoveryLastAge)
    /\ calmAge' = Older(calmAge)
    /\ exposed' = IF fcIsArmed /\ Emergency /\ ~told
                  THEN IF exposed < 2 THEN exposed + 1 ELSE 2
                  ELSE 0
    /\ statusRan' = FALSE
    /\ UNCHANGED <<fcVars, fcIsArmed, lastRemoteState, hasSession, packet, spaced,
                   previousState, latest, recoveryRequired, latched, sample,
                   actionVars, pc, mayArm, told, trust>>

\* Power loss or reset: RAM is lost, what the UART carries to the FC is not.
GatewayRestart ==
    /\ Reboots
    /\ CommandReset
    /\ fcIsArmed' = FALSE /\ fcAge' = None
    /\ rcAge' = None /\ lastRemoteState' = "DISARMED"
    /\ hasSession' = FALSE /\ previousState' = "DISARMED"
    /\ packet' = NoPacket /\ latest' = NoLatest
    /\ recoveryRequired' = FALSE /\ holdAge' = None /\ recoveryLastAge' = None
    /\ latched' = FALSE /\ sample' = NoSample
    /\ action' = "NONE" /\ repeat' = 0
    /\ pc' = [t \in Task |-> "wait"]
    /\ mayArm' = FALSE /\ calmAge' = None /\ told' = FALSE
    /\ exposed' = 0 /\ trust' = "unheard"
    /\ heartbeat' = NoHeartbeat /\ rtlRefused' = FALSE
    /\ statusRan' = FALSE /\ spaced' = "done"
    /\ UNCHANGED <<fc, toFc>>

-----------------------------------------------------------------------------
LinkStep ==
    \/ LinkNewSession \/ LinkSameState
    \/ LinkArmRequest \/ LinkRecoverRequest
    \/ LinkDisarmRequest \/ LinkFailsafeRequest
    \/ LinkStartArm \/ LinkSendArm \/ LinkOperatorDisarm
    \/ LinkFinish

SafetyStep(t) == Safety(t) \/ ReserveSafety(t) \/ SendSafety(t)

Next ==
    \/ \E state \in RcState, high, new \in BOOLEAN : LinkAccept(state, high, new)
    \/ LinkStep
    \/ \E t \in {"link", "status"} : SafetyStep(t)
    \/ StatusReport \/ StatusSample \/ StatusCheck
    \/ MavHeartbeat \/ MavConfirm \/ MavRtlRefused
    \/ FcExecute \/ UartDrops \/ FcHeartbeat \/ FcActsAlone
    \/ Tick
    \/ GatewayRestart

Spec == Init /\ [][Next]_vars

\* FreeRTOS runs every ready task, the FC empties its UART and time passes.
\* Packets and heartbeats may stop coming: no fairness on them.  A tick is
\* possible again and again, not continuously: strong fairness.
Fairness ==
    /\ WF_vars(LinkStep)
    /\ WF_vars(SafetyStep("link")) /\ WF_vars(SafetyStep("status"))
    /\ SF_vars(StatusReport)
    /\ WF_vars(StatusSample) /\ WF_vars(StatusCheck)
    /\ SF_vars(MavHeartbeat) /\ WF_vars(MavConfirm) /\ SF_vars(MavRtlRefused)
    /\ WF_vars(FcExecute)
    /\ SF_vars(Tick)

FairSpec == Spec /\ Fairness

-----------------------------------------------------------------------------
(* Properties *)

Settled == \A t \in Task : Idle(t)

ArmWritten == /\ Len(toFc') = Len(toFc) + 1
              /\ toFc'[Len(toFc')] = "ARM"

\* No automatic re-arm: every ARM command answers an ARMED packet at low
\* throttle, outside the recovery lock, and between it and the previous ARM
\* command the gateway accepted a DISARMED packet of the running session.
ArmOnlyOnRequest ==
    [][ArmWritten => /\ mayArm /\ hasSession
                     /\ packet.state = "ARMED" /\ ~packet.high
                     /\ ~recoveryRequired]_vars

\* A cancelled ARM is not sent: a safety DISARM is to "Atomically cancel a
\* pending ARM and reserve DISARM", so no ARM command follows the DISARM that
\* cancelled it.
CancelledArmIsNotSent == [][ArmWritten => ~disarmPending]_vars

\* The recovery lock opens (other than by a restart) only after packets that
\* were all DISARMED at low throttle, none later than the packet timeout,
\* for the whole hold time.
RecoveryIsEarned ==
    [][recoveryRequired /\ ~recoveryRequired' /\ hasSession'
         => calmAge # None /\ calmAge >= RecoveryHold]_vars

\* A pilot does not get the sticks of an FC that was known to be armed when
\* his session appeared, before it has been known disarmed ("Never trust the
\* new session as continuous pilot control", main.c:3089).  A session that
\* appears before the FC's first heartbeat is not covered: the code takes the
\* FC for disarmed.
ControlIsEarnedOnceHeard == SendsOverride /\ fcIsArmed => trust # "armed"

\* The sticks are those of the last accepted packet, except while the handler
\* is at the next one: between two packets nothing is sent for a pilot whose
\* RC has meanwhile reported DISARMED or FAILSAFE.  The handler refreshes the
\* packet time first and the queue last, and the supervisor may declare the
\* failsafe at any moment in between.
SticksAreCurrent ==
    SendsOverride /\ Idle("link")
      => previousState = "ARMED" /\ lastRemoteState \in {"ARMED", "FAILSAFE"}

\* The supervisor answers every emergency within two of its periods: an FC
\* known to be armed, with the RC silent or in FAILSAFE or with its own
\* heartbeats lost, has been told to disarm (or to return) since it last
\* reported disarmed.
EmergencyIsAnswered == exposed < 2

\* Where commands arrive and are obeyed, losing the RC link ends with the
\* FC disarmed, unless the link comes back or the gateway restarts.
LinkLossDisarms ==
    Beyond(rcAge, RcFailsafeTimeout) /\ fcIsArmed
      ~> ~fc.armed \/ ~Beyond(rcAge, RcFailsafeTimeout)

\* The recovery lock is not a dead end: while the pilot keeps the RC DISARMED
\* at low throttle and the FC keeps reporting disarmed, it opens.
Steady ==
    /\ Within(rcAge, RcPacketTimeout) /\ FcFresh /\ ~fcIsArmed /\ CanStartArm
    /\ latest.have /\ latest.state = "DISARMED" /\ ~latest.high
    /\ packet.state = "DISARMED" /\ ~packet.high /\ ~packet.new

RecoveryOpens == <>[]Steady => []<>~recoveryRequired
=============================================================================
