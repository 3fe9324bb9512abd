----------------------- MODULE GatewayEmergencyProofs -----------------------
(***************************************************************************)
(* The failsafe supervisor answers every emergency: the proof that         *)
(* EmergencyIsAnswered holds for every timeout, every interleaving of the  *)
(* three tasks, a lossy UART, restarts and a flight controller that arms   *)
(* by itself.  In the bench build it holds as it stands; in the RTL build  *)
(* it holds as long as no RTL is left pending from an earlier flight.      *)
(*                                                                         *)
(* Two races could leave an emergency unanswered: a command believed to be *)
(* on its way that nobody has sent (ReservedInv), and a latch left behind  *)
(* by an earlier emergency that makes the supervisor skip the next one     *)
(* (LatchInv).  That a period is enough follows from the spacing of the    *)
(* heartbeats: the armed state a run of the supervisor samples is still    *)
(* the one it acts on (CheckInv, ExposedInv).                              *)
(***************************************************************************)
EXTENDS GatewayControlProofs

\* The failsafe action is a command to the FC: the bench build disarms it, the
\* RTL build sends it home.
CommandBuild == FailsafeAction \in {"DISARM", "RTL"}

\* No RTL is pending when the FC is first reported armed.  The RTL build does
\* not ensure it: an RTL that ends with a landing stays pending until it times
\* out, and an emergency of an FC armed before that is latched, not answered.
NoLeftoverStep == ~fcIsArmed /\ fcIsArmed' => ~rtlPending
NoLeftoverRtl == [][NoLeftoverStep]_vars

-----------------------------------------------------------------------------
(* The inductive invariant.                                                 *)

RtlLabel == {"reserveRtl", "sendRtl"}

\* Where the tasks can be.  Only the RTL build reserves an RTL.
LabelInv ==
    /\ pc["mavrx"] \in {"wait", "confirm"}
    /\ pc["status"] \in {"wait", "sample", "check", "safety",
                         "reserveDisarm", "sendDisarm"} \cup RtlLabel
    /\ pc["link"] \in {"wait", "process", "startArm", "sendArm",
                       "operatorDisarm", "safety", "reserveDisarm",
                       "sendDisarm", "finish"} \cup RtlLabel
    /\ FailsafeAction # "RTL" =>
          /\ ~rtlPending
          /\ pc["link"] \notin RtlLabel /\ pc["status"] \notin RtlLabel

\* A whole run of the supervisor fits between two heartbeats: while one is on
\* its way or being handled, the run that may follow it has not begun.
SpacingInv ==
    /\ heartbeat.sent => spaced = "new"
    /\ pc["mavrx"] = "confirm" => heartbeat.sent
    /\ spaced = "running" => pc["status"] \in {"sample", "check"}
    /\ pc["status"] # "wait" => statusRan

Sending == pc["link"] = "sendDisarm" \/ pc["status"] = "sendDisarm"
SendingRtl == pc["link"] = "sendRtl" \/ pc["status"] = "sendRtl"

\* A task is inside gateway_apply_failsafe_action, or sends a DISARM.
AnswerLabel == {"safety", "reserveDisarm", "sendDisarm"} \cup RtlLabel
Answering == pc["link"] \in AnswerLabel \/ pc["status"] \in AnswerLabel

Confirming == pc["mavrx"] = "confirm" /\ ~fcIsArmed

\* A task that finds a DISARM pending may rely on it: it has been sent, is
\* being sent, or is about to be confirmed.  So may one that finds an RTL
\* pending for an armed FC.
ReservedInv ==
    /\ disarmPending => told \/ Sending \/ Confirming
    /\ rtlPending => told \/ SendingRtl \/ ~fcIsArmed

\* The latch silences the supervisor only for an emergency that was or is
\* being answered.  One left from an earlier flight is released by a
\* supervisor run before the next heartbeat can report the FC armed.
LatchInv ==
    /\ latched /\ fcIsArmed => told \/ Answering
    /\ latched /\ ~fcIsArmed =>
          spaced # "done" /\ (heartbeat.sent => pc["mavrx"] = "confirm")

\* The RC state the supervisor reads is the last accepted packet's, or the
\* failsafe it has declared itself.
RemoteInv ==
    lastRemoteState \in
        {IF pc["link"] = "process" THEN packet.state ELSE previousState,
         "FAILSAFE"}

\* link_rx_task is about to see a packet that asks for the failsafe action.
Asking ==
    /\ pc["link"] = "process" /\ packet.state = "FAILSAFE"
    /\ packet.new \/ previousState # "FAILSAFE"

\* An emergency of an armed FC that no task has answered or is answering.
Open == fcIsArmed /\ ~told /\ Emergency /\ ~Answering /\ ~Asking

\* The supervisor's checks of this period are done.
Checked == statusRan /\ pc["status"] \notin {"sample", "check"}

\* A supervisor run leaves no emergency open but one a heartbeat has just
\* revealed.
CheckInv ==
    /\ pc["status"] = "check" /\ Open /\ spaced # "new" => sample # NoSample
    /\ Checked /\ Open => spaced = "new"

\* An emergency left open for a period keeps its armed FC until the next run
\* of the supervisor, and is not open after it.
ExposedInv ==
    exposed # 0 =>
        /\ exposed = 1
        /\ ~statusRan => fcIsArmed /\ spaced = "new" /\ ~heartbeat.sent
        /\ statusRan /\ ~Checked => fcIsArmed /\ spaced = "running"
        /\ Checked =>
              /\ ~Open
              /\ ~fcIsArmed => /\ spaced = "new"
                               /\ heartbeat.sent => pc["mavrx"] = "confirm"

-----------------------------------------------------------------------------
(* Where each step leaves the tasks.                                        *)

\* A task moves itself and nobody else.
LEMMA GotoMoves ==
    ASSUME TypeOK, NEW t \in Task, NEW l \in Label, Goto(t, l)
    PROVE  /\ pc'[t] = l
           /\ \A u \in Task : u # t => pc'[u] = pc[u]
BY DEF TypeOK, Goto, Task

\* The packet handler's moves.
LEMMA LinkMoves ==
    ASSUME TypeOK, NEW l \in Label, Goto("link", l)
    PROVE  /\ pc'["link"] = l
           /\ pc'["status"] = pc["status"] /\ pc'["mavrx"] = pc["mavrx"]
BY GotoMoves DEF Task

\* The supervisor's moves.
LEMMA StatusMoves ==
    ASSUME TypeOK, NEW l \in Label, Goto("status", l)
    PROVE  /\ pc'["status"] = l
           /\ pc'["link"] = pc["link"] /\ pc'["mavrx"] = pc["mavrx"]
BY GotoMoves DEF Task

\* The moves of the FC's reader.
LEMMA MavMoves ==
    ASSUME TypeOK, NEW l \in Label, Goto("mavrx", l)
    PROVE  /\ pc'["mavrx"] = l
           /\ pc'["link"] = pc["link"] /\ pc'["status"] = pc["status"]
BY GotoMoves DEF Task

\* Only the RTL build takes its tasks to the RTL path.
LEMMA LabelInvStep ==
    ASSUME TypeOK, LabelInv, [Next]_vars
    PROVE  LabelInv'
<1> USE DEF LabelInv, RtlLabel, Label, commandVars
<1>1. ASSUME NEW state \in RcState, NEW high \in BOOLEAN, NEW new \in BOOLEAN,
             LinkAccept(state, high, new)
      PROVE  LabelInv'
    BY <1>1, LinkMoves DEF LinkAccept
<1>2. CASE LinkStep
    <2>1. CASE LinkNewSession \/ LinkSameState \/ LinkFinish
        BY <2>1, LinkMoves DEF LinkNewSession, LinkSameState, LinkFinish,
           ProcessUnchanged
    <2>2. CASE LinkArmRequest \/ LinkRecoverRequest \/ LinkDisarmRequest
               \/ LinkFailsafeRequest
        BY <2>2, LinkMoves DEF LinkArmRequest, LinkRecoverRequest,
           LinkDisarmRequest, LinkFailsafeRequest, Requests, ProcessUnchanged
    <2>3. CASE LinkStartArm \/ LinkSendArm \/ LinkOperatorDisarm
        BY <2>3, LinkMoves DEF LinkStartArm, LinkSendArm, LinkOperatorDisarm,
           StartArm, StartDisarm
    <2>4. QED
        BY <1>2, <2>1, <2>2, <2>3 DEF LinkStep
<1>3. CASE SafetyStep("link")
    BY <1>3, LinkMoves DEF SafetyStep, Safety, SafetyDisarm, SafetyRtl,
       SafetyNative, ReserveSafety, SendSafety, StartDisarm, StartRtl, After
<1>4. CASE SafetyStep("status")
    BY <1>4, StatusMoves DEF SafetyStep, Safety, SafetyDisarm, SafetyRtl,
       SafetyNative, ReserveSafety, SendSafety, StartDisarm, StartRtl, After
<1>5. CASE StatusReport \/ StatusSample \/ StatusCheck
    BY <1>5, StatusMoves DEF StatusReport, StatusSample, StatusCheck,
       ReleaseLatch, NothingToAnswer, AnswerEmergency,
       TimeoutArm, TimeoutDisarm, TimeoutRtl
<1>6. CASE MavHeartbeat \/ MavConfirm \/ MavRtlRefused
    BY <1>6, MavMoves DEF MavHeartbeat, MavConfirm, MavRtlRefused,
       ConfirmArm, ConfirmDisarm, ConfirmRtl, RejectRtl, FinishRtl
<1>7. CASE FcExecute \/ UartDrops \/ FcHeartbeat \/ FcActsAlone
    BY <1>7 DEF FcExecute, UartDrops, FcHeartbeat, FcActsAlone,
       GatewayUnchanged
<1>8. CASE Tick \/ UNCHANGED vars
    BY <1>8 DEF Tick, CommandTick, vars
<1>9. CASE GatewayRestart
    BY <1>9 DEF GatewayRestart, CommandReset, Task
<1>10. QED
    BY <1>1, <1>2, <1>3, <1>4, <1>5, <1>6, <1>7, <1>8, <1>9 DEF Next

\* Heartbeats and supervisor runs keep their distance.
LEMMA SpacingInvStep ==
    ASSUME TypeOK, LabelInv, SpacingInv, [Next]_vars
    PROVE  SpacingInv'
<1> USE DEF SpacingInv, RtlLabel, Label, scheduleVars, fcVars
<1>1. ASSUME NEW state \in RcState, NEW high \in BOOLEAN, NEW new \in BOOLEAN,
             LinkAccept(state, high, new)
      PROVE  SpacingInv'
    BY <1>1, LinkMoves DEF LinkAccept
<1>2. CASE LinkStep
    <2>1. CASE LinkNewSession \/ LinkSameState \/ LinkFinish
        BY <2>1, LinkMoves DEF LinkNewSession, LinkSameState, LinkFinish,
           ProcessUnchanged
    <2>2. CASE LinkArmRequest \/ LinkRecoverRequest \/ LinkDisarmRequest
               \/ LinkFailsafeRequest
        BY <2>2, LinkMoves DEF LinkArmRequest, LinkRecoverRequest,
           LinkDisarmRequest, LinkFailsafeRequest, Requests, ProcessUnchanged
    <2>3. CASE LinkStartArm \/ LinkSendArm \/ LinkOperatorDisarm
        BY <2>3, LinkMoves DEF LinkStartArm, LinkSendArm, LinkOperatorDisarm
    <2>4. QED
        BY <1>2, <2>1, <2>2, <2>3 DEF LinkStep
<1>3. CASE SafetyStep("link")
    BY <1>3, LinkMoves DEF SafetyStep, Safety, SafetyDisarm, SafetyRtl,
       SafetyNative, ReserveSafety, SendSafety, After
<1>4. CASE SafetyStep("status")
    BY <1>4, StatusMoves DEF SafetyStep, Safety, SafetyDisarm, SafetyRtl,
       SafetyNative, ReserveSafety, SendSafety, After
<1>5. CASE StatusReport
    BY <1>5, StatusMoves DEF StatusReport, MayStart, Idle
<1>6. CASE StatusSample \/ StatusCheck
    BY <1>6, StatusMoves DEF StatusSample, StatusCheck,
       ReleaseLatch, NothingToAnswer, AnswerEmergency
<1>7. CASE MavHeartbeat \/ MavConfirm \/ MavRtlRefused
    BY <1>7, MavMoves DEF MavHeartbeat, MavConfirm, MavRtlRefused,
       NoHeartbeat, MayStart, Idle
<1>8. CASE FcExecute \/ UartDrops \/ FcHeartbeat \/ FcActsAlone
    BY <1>8 DEF FcExecute, UartDrops, FcHeartbeat, FcActsAlone,
       GatewayUnchanged
<1>9. CASE Tick \/ UNCHANGED vars
    BY <1>9 DEF Tick, vars, Idle, Task
<1>10. CASE GatewayRestart
    BY <1>10 DEF GatewayRestart, Task, NoHeartbeat
<1>11. QED
    BY <1>1, <1>2, <1>3, <1>4, <1>5, <1>6, <1>7, <1>8, <1>9, <1>10 DEF Next

\* Whoever reserves a DISARM sends it; only a heartbeat confirms it.
LEMMA ReservedInvStep ==
    ASSUME TypeOK, OnePending, LabelInv, SpacingInv, ReservedInv,
           NoLeftoverStep, [Next]_vars
    PROVE  ReservedInv'
<1> USE DEF LabelInv, RtlLabel, ReservedInv, Sending, SendingRtl, Confirming, Label, commandVars,
        fcViewVars, historyVars
<1>1. ASSUME NEW state \in RcState, NEW high \in BOOLEAN, NEW new \in BOOLEAN,
             LinkAccept(state, high, new)
      PROVE  ReservedInv'
    BY <1>1, LinkMoves DEF LinkAccept, MayStart, Idle
<1>2. CASE LinkStep
    <2>1. CASE LinkNewSession \/ LinkSameState \/ LinkFinish
        BY <2>1, LinkMoves DEF LinkNewSession, LinkSameState, LinkFinish,
           ProcessUnchanged
    <2>2. CASE LinkArmRequest \/ LinkRecoverRequest \/ LinkDisarmRequest
               \/ LinkFailsafeRequest
        BY <2>2, LinkMoves DEF LinkArmRequest, LinkRecoverRequest,
           LinkDisarmRequest, LinkFailsafeRequest, Requests, ProcessUnchanged
    <2>3. CASE LinkStartArm \/ LinkSendArm
        BY <2>3, LinkMoves DEF LinkStartArm, LinkSendArm, StartArm
    <2>4. CASE LinkOperatorDisarm
        BY <2>4, LinkMoves DEF LinkOperatorDisarm, StartDisarm
    <2>5. QED
        BY <1>2, <2>1, <2>2, <2>3, <2>4 DEF LinkStep
<1>3. CASE SafetyStep("link")
    BY <1>3, LinkMoves DEF SafetyStep, Safety, SafetyDisarm, SafetyRtl,
       SafetyNative, ReserveSafety, SendSafety, After, StartDisarm, StartRtl
<1>4. CASE SafetyStep("status")
    BY <1>4, StatusMoves DEF SafetyStep, Safety, SafetyDisarm, SafetyRtl,
       SafetyNative, ReserveSafety, SendSafety, After, StartDisarm, StartRtl
<1>5. CASE StatusReport \/ StatusSample \/ StatusCheck
    BY <1>5, StatusMoves DEF StatusReport, StatusSample, StatusCheck,
       ReleaseLatch, NothingToAnswer, AnswerEmergency,
       TimeoutArm, TimeoutDisarm, TimeoutRtl, MayStart, Idle
<1>6. CASE MavHeartbeat
    BY <1>6, MavMoves DEF MavHeartbeat, MayStart, Idle, NoLeftoverStep
<1>7. CASE MavConfirm
    BY <1>7, MavMoves DEF MavConfirm, ConfirmArm, ConfirmDisarm, ConfirmRtl,
       FinishRtl, CanConfirmArm, OnePending
<1>8. CASE MavRtlRefused
    BY <1>8 DEF MavRtlRefused, RejectRtl, FinishRtl
<1>9. CASE FcExecute \/ UartDrops \/ FcHeartbeat \/ FcActsAlone
    BY <1>9 DEF FcExecute, UartDrops, FcHeartbeat, FcActsAlone,
       GatewayUnchanged
<1>10. CASE Tick \/ UNCHANGED vars
    BY <1>10 DEF Tick, CommandTick, vars
<1>11. CASE GatewayRestart
    BY <1>11 DEF GatewayRestart, CommandReset
<1>12. QED
    BY <1>1, <1>2, <1>3, <1>4, <1>5, <1>6, <1>7, <1>8, <1>9, <1>10, <1>11
       DEF Next

\* A task that sets the latch answers; one that finds a DISARM pending, or
\* cannot reserve one, relies on ReservedInv.
LEMMA LatchInvStep ==
    ASSUME CommandBuild, TypeOK, LabelInv, SpacingInv, ReservedInv, LatchInv,
           [Next]_vars
    PROVE  LatchInv'
<1> USE DEF LabelInv, LatchInv, Answering, AnswerLabel, RtlLabel, Label, fcVars, fcViewVars,
        scheduleVars, historyVars
<1>1. ASSUME NEW state \in RcState, NEW high \in BOOLEAN, NEW new \in BOOLEAN,
             LinkAccept(state, high, new)
      PROVE  LatchInv'
    BY <1>1, LinkMoves DEF LinkAccept, MayStart, Idle
<1>2. CASE LinkStep
    <2>1. CASE LinkNewSession \/ LinkSameState \/ LinkFinish
        BY <2>1, LinkMoves DEF LinkNewSession, LinkSameState, LinkFinish,
           ProcessUnchanged
    <2>2. CASE LinkArmRequest \/ LinkRecoverRequest \/ LinkDisarmRequest
        BY <2>2, LinkMoves DEF LinkArmRequest, LinkRecoverRequest,
           LinkDisarmRequest, Requests, ProcessUnchanged
    <2>3. CASE LinkFailsafeRequest
        <3>1. /\ latched' = (latched \/ fcIsArmed)
              /\ pc["link"] = "process"
              /\ UNCHANGED <<fcIsArmed, told, spaced, heartbeat>>
            BY <2>3 DEF LinkFailsafeRequest, Requests, ProcessUnchanged
        <3>2. /\ fcIsArmed => pc'["link"] = "safety"
              /\ pc'["mavrx"] = pc["mavrx"] /\ pc'["status"] = pc["status"]
            BY <2>3, LinkMoves DEF LinkFailsafeRequest
        <3>3. QED
            BY <3>1, <3>2
    <2>4. CASE LinkStartArm \/ LinkSendArm \/ LinkOperatorDisarm
        BY <2>4, LinkMoves DEF LinkStartArm, LinkSendArm, LinkOperatorDisarm
    <2>5. QED
        BY <1>2, <2>1, <2>2, <2>3, <2>4 DEF LinkStep
<1>3. CASE SafetyStep("link")
    <2> USE DEF ReservedInv, Sending, SendingRtl, Confirming, After
    <2>1. CASE Safety("link")
        BY <2>1, LinkMoves DEF Safety, SafetyDisarm, SafetyRtl, SafetyNative,
           CommandBuild
    <2>2. CASE ReserveSafety("link")
        BY <2>2, LinkMoves DEF ReserveSafety, StartDisarm, StartRtl,
           CanStartDisarm, CanStartRtl
    <2>3. CASE SendSafety("link")
        BY <2>3, LinkMoves DEF SendSafety
    <2>4. QED
        BY <1>3, <2>1, <2>2, <2>3 DEF SafetyStep
<1>4. CASE SafetyStep("status")
    <2> USE DEF ReservedInv, Sending, SendingRtl, Confirming, After
    <2>1. CASE Safety("status")
        BY <2>1, StatusMoves DEF Safety, SafetyDisarm, SafetyRtl,
           SafetyNative, CommandBuild
    <2>2. CASE ReserveSafety("status")
        BY <2>2, StatusMoves DEF ReserveSafety, StartDisarm, StartRtl,
           CanStartDisarm, CanStartRtl
    <2>3. CASE SendSafety("status")
        BY <2>3, StatusMoves DEF SendSafety
    <2>4. QED
        BY <1>4, <2>1, <2>2, <2>3 DEF SafetyStep
<1>5. CASE StatusReport \/ StatusSample
    BY <1>5, StatusMoves DEF StatusReport, StatusSample, MayStart, Idle
<1>6. CASE StatusCheck
    BY <1>6, StatusMoves DEF StatusCheck, ReleaseLatch, NothingToAnswer,
       AnswerEmergency
<1>7. CASE MavHeartbeat
    BY <1>7, MavMoves DEF MavHeartbeat, MayStart, Idle, SpacingInv
<1>8. CASE MavConfirm \/ MavRtlRefused
    BY <1>8, MavMoves DEF MavConfirm, MavRtlRefused, NoHeartbeat
<1>9. CASE FcExecute \/ UartDrops \/ FcHeartbeat \/ FcActsAlone
    BY <1>9 DEF FcExecute, UartDrops, FcHeartbeat, FcActsAlone,
       GatewayUnchanged
<1>10. CASE Tick \/ UNCHANGED vars
    BY <1>10 DEF Tick, vars
<1>11. CASE GatewayRestart
    BY <1>11 DEF GatewayRestart
<1>12. QED
    BY <1>1, <1>2, <1>3, <1>4, <1>5, <1>6, <1>7, <1>8, <1>9, <1>10, <1>11
       DEF Next

\* The packet handler settles on the state of the packet it accepted.
LEMMA RemoteInvStep ==
    ASSUME TypeOK, LabelInv, RemoteInv, [Next]_vars
    PROVE  RemoteInv'
<1> USE DEF RemoteInv, Label, rcViewVars
<1>1. ASSUME NEW state \in RcState, NEW high \in BOOLEAN, NEW new \in BOOLEAN,
             LinkAccept(state, high, new)
      PROVE  RemoteInv'
    BY <1>1, LinkMoves DEF LinkAccept
<1>2. CASE LinkStep
    <2>1. CASE LinkNewSession \/ LinkSameState \/ LinkFinish
        BY <2>1, LinkMoves DEF LinkNewSession, LinkSameState, LinkFinish,
           ProcessUnchanged
    <2>2. CASE LinkArmRequest \/ LinkRecoverRequest \/ LinkDisarmRequest
               \/ LinkFailsafeRequest
        BY <2>2, LinkMoves DEF LinkArmRequest, LinkRecoverRequest,
           LinkDisarmRequest, LinkFailsafeRequest, Requests, ProcessUnchanged
    <2>3. CASE LinkStartArm \/ LinkSendArm \/ LinkOperatorDisarm
        BY <2>3, LinkMoves DEF LinkStartArm, LinkSendArm, LinkOperatorDisarm
    <2>4. QED
        BY <1>2, <2>1, <2>2, <2>3 DEF LinkStep
<1>3. CASE SafetyStep("link")
    BY <1>3, LinkMoves DEF SafetyStep, Safety, SafetyDisarm, SafetyRtl,
       SafetyNative, ReserveSafety, SendSafety, After
<1>4. CASE SafetyStep("status")
    BY <1>4, StatusMoves DEF SafetyStep, Safety, SafetyDisarm, SafetyRtl,
       SafetyNative, ReserveSafety, SendSafety, After
<1>5. CASE StatusReport \/ StatusSample \/ StatusCheck
    BY <1>5, StatusMoves DEF StatusReport, StatusSample, StatusCheck,
       ReleaseLatch, NothingToAnswer, AnswerEmergency
<1>6. CASE MavHeartbeat \/ MavConfirm \/ MavRtlRefused
    BY <1>6, MavMoves DEF MavHeartbeat, MavConfirm, MavRtlRefused
<1>7. CASE FcExecute \/ UartDrops \/ FcHeartbeat \/ FcActsAlone
    BY <1>7 DEF FcExecute, UartDrops, FcHeartbeat, FcActsAlone,
       GatewayUnchanged
<1>8. CASE Tick \/ UNCHANGED vars
    BY <1>8 DEF Tick, vars
<1>9. CASE GatewayRestart
    BY <1>9 DEF GatewayRestart, Task
<1>10. QED
    BY <1>1, <1>2, <1>3, <1>4, <1>5, <1>6, <1>7, <1>8, <1>9 DEF Next

-----------------------------------------------------------------------------
(* How an emergency comes to be open.                                       *)

\* A heartbeat reports that a disarmed FC is armed now.
Revealed == MavHeartbeat /\ ~fcIsArmed /\ heartbeat.armed

\* A time that was just stored is beyond no timeout.
LEMMA FreshIsWithin ==
    /\ ~Beyond(0, RcFailsafeTimeout)
    /\ ~Beyond(0, FcFailsafeTimeout)
BY TimeoutAssumption, AgeAssumption DEF Beyond, None

\* Only time and the FC's own arming open an emergency: a packet that asks for
\* the failsafe action is followed by it, and a safety action ends with a
\* DISARM that is sent or already on its way.
LEMMA OpenStep ==
    ASSUME CommandBuild, TypeOK, LabelInv, ReservedInv, RemoteInv,
           [Next]_vars, Open', ~Open, ~Tick
    PROVE  Revealed
<1> SUFFICES ASSUME ~Revealed PROVE FALSE
    OBVIOUS
<1> USE DEF LabelInv, Open, Answering, AnswerLabel, RtlLabel, Asking, Emergency, Label, rcViewVars,
        fcViewVars, historyVars
<1>1. ASSUME NEW state \in RcState, NEW high \in BOOLEAN, NEW new \in BOOLEAN,
             LinkAccept(state, high, new)
      PROVE  FALSE
    <2>1. /\ pc["link"] = "wait" /\ pc'["link"] = "process"
          /\ pc'["status"] = pc["status"]
          /\ packet' = [state |-> state, high |-> high, new |-> new]
          /\ rcAge' = 0 /\ lastRemoteState' = state
          /\ UNCHANGED <<fcIsArmed, fcAge, previousState, told>>
        BY <1>1, LinkMoves DEF LinkAccept, MayStart, Idle
    <2>2. ~Emergency
        BY <2>1
    <2>3. state = "FAILSAFE"
        BY <2>1, <2>2, FreshIsWithin
    <2>4. previousState = "FAILSAFE"
        BY <2>1, <2>3
    <2>5. QED
        BY <2>1, <2>2, <2>4 DEF RemoteInv
<1>2. CASE LinkStep
    <2>1. CASE LinkNewSession
        BY <2>1, LinkMoves DEF LinkNewSession, ProcessUnchanged
    <2>2. CASE LinkSameState \/ LinkFinish
        BY <2>2, LinkMoves DEF LinkSameState, LinkFinish, ProcessUnchanged
    <2>3. CASE LinkArmRequest \/ LinkRecoverRequest \/ LinkDisarmRequest
               \/ LinkFailsafeRequest
        BY <2>3, LinkMoves DEF LinkArmRequest, LinkRecoverRequest,
           LinkDisarmRequest, LinkFailsafeRequest, Requests, ProcessUnchanged
    <2>4. CASE LinkStartArm \/ LinkSendArm \/ LinkOperatorDisarm
        BY <2>4, LinkMoves DEF LinkStartArm, LinkSendArm, LinkOperatorDisarm
    <2>5. QED
        BY <1>2, <2>1, <2>2, <2>3, <2>4 DEF LinkStep
<1>3. CASE SafetyStep("link")
    <2> USE DEF ReservedInv, Sending, SendingRtl, Confirming, After
    <2>1. CASE Safety("link")
        BY <2>1, LinkMoves DEF Safety, SafetyDisarm, SafetyRtl, SafetyNative,
           CommandBuild
    <2>2. CASE ReserveSafety("link")
        BY <2>2, LinkMoves DEF ReserveSafety, CanStartDisarm, CanStartRtl
    <2>3. CASE SendSafety("link")
        BY <2>3, LinkMoves DEF SendSafety
    <2>4. QED
        BY <1>3, <2>1, <2>2, <2>3 DEF SafetyStep
<1>4. CASE SafetyStep("status")
    <2> USE DEF ReservedInv, Sending, SendingRtl, Confirming, After
    <2>1. CASE Safety("status")
        BY <2>1, StatusMoves DEF Safety, SafetyDisarm, SafetyRtl,
           SafetyNative, CommandBuild
    <2>2. CASE ReserveSafety("status")
        BY <2>2, StatusMoves DEF ReserveSafety, CanStartDisarm, CanStartRtl
    <2>3. CASE SendSafety("status")
        BY <2>3, StatusMoves DEF SendSafety
    <2>4. QED
        BY <1>4, <2>1, <2>2, <2>3 DEF SafetyStep
<1>5. CASE StatusReport \/ StatusSample
    BY <1>5, StatusMoves DEF StatusReport, StatusSample, MayStart, Idle
<1>6. CASE StatusCheck
    BY <1>6, StatusMoves DEF StatusCheck, ReleaseLatch, NothingToAnswer,
       AnswerEmergency
<1>7. CASE MavHeartbeat
    <2>1. /\ pc'["link"] = pc["link"] /\ pc'["status"] = pc["status"]
          /\ fcAge' = 0 /\ fcIsArmed' = heartbeat.armed
          /\ UNCHANGED <<rcAge, lastRemoteState, packet, previousState>>
        BY <1>7, MavMoves DEF MavHeartbeat
    <2>2. heartbeat.armed /\ fcIsArmed
        BY <1>7, <2>1 DEF Revealed
    <2>3. told' => told
        BY <1>7 DEF MavHeartbeat
    <2>4. told => told'
        BY <1>7, <2>2 DEF MavHeartbeat
    <2>5. Emergency' => Emergency
        BY <2>1, FreshIsWithin
    <2>6. QED
        BY <2>1, <2>2, <2>4, <2>5
<1>8. CASE MavConfirm \/ MavRtlRefused
    BY <1>8, MavMoves DEF MavConfirm, MavRtlRefused
<1>9. CASE FcExecute \/ UartDrops \/ FcHeartbeat \/ FcActsAlone
    BY <1>9 DEF FcExecute, UartDrops, FcHeartbeat, FcActsAlone,
       GatewayUnchanged
<1>10. CASE UNCHANGED vars
    BY <1>10 DEF vars
<1>11. CASE GatewayRestart
    BY <1>11 DEF GatewayRestart
<1>12. QED
    BY <1>1, <1>2, <1>3, <1>4, <1>5, <1>6, <1>7, <1>8, <1>9, <1>10, <1>11
       DEF Next

-----------------------------------------------------------------------------
(* The supervisor's runs.                                                   *)

\* A run of the supervisor ends with nothing open, unless a heartbeat came
\* between its sample and its check.
LEMMA CheckCloses ==
    ASSUME TypeOK, LabelInv, LatchInv, CheckInv, StatusCheck, Open'
    PROVE  spaced = "new"
<1>1. /\ pc["status"] = "check" /\ pc'["link"] = pc["link"]
      /\ UNCHANGED <<fcIsArmed, fcAge, rcAge, told, packet, previousState>>
    BY StatusMoves DEF StatusCheck, ReleaseLatch, NothingToAnswer,
       AnswerEmergency, Label, fcViewVars, historyVars
<1>2. fcIsArmed
    BY <1>1 DEF Open
<1>3. ~AnswerEmergency
    BY StatusMoves DEF AnswerEmergency, Open, Answering, AnswerLabel, Label
<1>4. NothingToAnswer
    BY <1>2, <1>3 DEF StatusCheck, ReleaseLatch
<1>5. pc'["status"] = "wait" /\ lastRemoteState' = lastRemoteState
    BY <1>4, StatusMoves DEF NothingToAnswer, Label
<1>6. Open
    BY <1>1, <1>5 DEF Open, Answering, AnswerLabel, RtlLabel, Asking,
       Emergency
<1>7. ~latched
    BY <1>6 DEF Open, LatchInv
<1>8. sample = NoSample
    BY <1>4, <1>7 DEF NothingToAnswer
<1>9. QED
    BY <1>1, <1>6, <1>8 DEF CheckInv

\* Once the supervisor's checks of the period are done they stay done until
\* the next period; its sample outlives no check.
LEMMA CheckedStep ==
    ASSUME TypeOK, LabelInv, SpacingInv, [Next]_vars, ~Tick, ~StatusReport,
           ~StatusCheck, ~GatewayRestart
    PROVE  /\ statusRan' = statusRan
           /\ Checked' <=> Checked
           /\ pc'["status"] = "check" =>
                StatusSample \/ (pc["status"] = "check" /\ sample' = sample)
           /\ spaced' = spaced \/ FcHeartbeat
<1> USE DEF LabelInv, RtlLabel, Checked, Label, scheduleVars
<1>1. ASSUME NEW state \in RcState, NEW high \in BOOLEAN, NEW new \in BOOLEAN,
             LinkAccept(state, high, new)
      PROVE  /\ UNCHANGED <<statusRan, spaced, sample>>
             /\ pc'["status"] = pc["status"]
    BY <1>1, LinkMoves DEF LinkAccept
<1>2. CASE LinkStep
    BY <1>2, LinkMoves DEF LinkStep, LinkNewSession, LinkSameState,
       LinkArmRequest, LinkRecoverRequest, LinkDisarmRequest,
       LinkFailsafeRequest, LinkStartArm, LinkSendArm, LinkOperatorDisarm,
       LinkFinish, Requests, ProcessUnchanged
<1>3. CASE SafetyStep("link")
    BY <1>3, LinkMoves DEF SafetyStep, Safety, SafetyDisarm, SafetyRtl,
       SafetyNative, ReserveSafety, SendSafety, After
<1>4. CASE SafetyStep("status")
    BY <1>4, StatusMoves DEF SafetyStep, Safety, SafetyDisarm, SafetyRtl,
       SafetyNative, ReserveSafety, SendSafety, After
<1>5. CASE StatusSample
    BY <1>5, StatusMoves DEF StatusSample
<1>6. CASE MavHeartbeat \/ MavConfirm \/ MavRtlRefused
    BY <1>6, MavMoves DEF MavHeartbeat, MavConfirm, MavRtlRefused
<1>7. CASE FcExecute \/ UartDrops \/ FcHeartbeat \/ FcActsAlone
    BY <1>7 DEF FcExecute, UartDrops, FcHeartbeat, FcActsAlone,
       GatewayUnchanged
<1>8. CASE UNCHANGED vars
    BY <1>8 DEF vars
<1>9. QED
    BY <1>1, <1>2, <1>3, <1>4, <1>5, <1>6, <1>7, <1>8 DEF Next

\* The gateway learns of the FC from heartbeats only, and an emergency's age
\* is counted at ticks only.
LEMMA QuietStep ==
    ASSUME TypeOK, [Next]_vars, ~Tick, ~MavHeartbeat, ~GatewayRestart
    PROVE  /\ UNCHANGED <<fcIsArmed, exposed>>
           /\ heartbeat' = heartbeat \/ FcHeartbeat \/ ~heartbeat'.sent
           /\ pc'["mavrx"] = pc["mavrx"] \/ ~heartbeat'.sent
<1> USE DEF Label, fcVars, fcViewVars, historyVars
<1>1. ASSUME NEW state \in RcState, NEW high \in BOOLEAN, NEW new \in BOOLEAN,
             LinkAccept(state, high, new)
      PROVE  /\ UNCHANGED <<fcIsArmed, exposed, heartbeat>>
             /\ pc'["mavrx"] = pc["mavrx"]
    BY <1>1, LinkMoves DEF LinkAccept
<1>2. CASE LinkStep
    BY <1>2, LinkMoves DEF LinkStep, LinkNewSession, LinkSameState,
       LinkArmRequest, LinkRecoverRequest, LinkDisarmRequest,
       LinkFailsafeRequest, LinkStartArm, LinkSendArm, LinkOperatorDisarm,
       LinkFinish, Requests, ProcessUnchanged
<1>3. CASE SafetyStep("link")
    BY <1>3, LinkMoves DEF SafetyStep, Safety, SafetyDisarm, SafetyRtl,
       SafetyNative, ReserveSafety, SendSafety, After
<1>4. CASE SafetyStep("status")
    BY <1>4, StatusMoves DEF SafetyStep, Safety, SafetyDisarm, SafetyRtl,
       SafetyNative, ReserveSafety, SendSafety, After
<1>5. CASE StatusReport \/ StatusSample \/ StatusCheck
    BY <1>5, StatusMoves DEF StatusReport, StatusSample, StatusCheck,
       ReleaseLatch, NothingToAnswer, AnswerEmergency
<1>6. CASE MavConfirm \/ MavRtlRefused
    BY <1>6, MavMoves DEF MavConfirm, MavRtlRefused, NoHeartbeat
<1>7. CASE FcExecute \/ UartDrops \/ FcHeartbeat \/ FcActsAlone
    BY <1>7 DEF FcExecute, UartDrops, FcHeartbeat, FcActsAlone,
       GatewayUnchanged
<1>8. CASE UNCHANGED vars
    BY <1>8 DEF vars
<1>9. QED
    BY <1>1, <1>2, <1>3, <1>4, <1>5, <1>6, <1>7, <1>8 DEF Next

\* The conditions the supervisor sampled are those it acts on, or a heartbeat
\* came in between.
LEMMA CheckInvStep ==
    ASSUME CommandBuild, TypeOK, LabelInv, SpacingInv, ReservedInv, LatchInv,
           RemoteInv, CheckInv, [Next]_vars
    PROVE  CheckInv'
<1>1. CASE Tick \/ GatewayRestart
    <2>1. ~statusRan' /\ pc'["status"] = "wait"
        BY <1>1 DEF Tick, GatewayRestart, Idle, Task
    <2>2. QED
        BY <2>1 DEF CheckInv, Checked
<1>2. CASE StatusReport
    <2>1. pc'["status"] = "sample"
        BY <1>2, StatusMoves DEF StatusReport, Label
    <2>2. QED
        BY <2>1 DEF CheckInv, Checked
<1>3. CASE StatusCheck
    <2>1. pc'["status"] # "check"
        BY <1>3, StatusMoves DEF StatusCheck, ReleaseLatch, NothingToAnswer,
           AnswerEmergency, Label
    <2>2. spaced = "new" => spaced' = "new"
        BY <1>3 DEF StatusCheck
    <2>3. QED
        BY <1>3, <2>1, <2>2, CheckCloses DEF CheckInv
<1>4. CASE ~Tick /\ ~GatewayRestart /\ ~StatusReport /\ ~StatusCheck
    <2> SUFFICES ASSUME Open' PROVE CheckInv'
        BY DEF CheckInv
    <2>1. CASE Revealed
        <3>1. spaced' = "new"
            BY <2>1 DEF Revealed, MavHeartbeat, scheduleVars, SpacingInv
        <3>2. QED
            BY <3>1 DEF CheckInv
    <2>2. CASE FcHeartbeat
        <3>1. spaced' = "new"
            BY <2>2 DEF FcHeartbeat
        <3>2. QED
            BY <3>1 DEF CheckInv
    <2>3. CASE ~Revealed /\ ~FcHeartbeat
        <3>1. Open /\ spaced' = spaced /\ (Checked' <=> Checked)
            BY <1>4, <2>3, OpenStep, CheckedStep
        <3>2. CASE StatusSample
            <4>1. Emergency
                BY <3>1 DEF Open
            <4>2. sample' # NoSample
                BY <3>2, <4>1 DEF StatusSample, NoSample, Emergency
            <4>3. QED
                BY <3>1, <4>2 DEF CheckInv
        <3>3. CASE ~StatusSample
            BY <1>4, <3>1, <3>3, CheckedStep DEF CheckInv
        <3>4. QED
            BY <3>2, <3>3
    <2>4. QED
        BY <2>1, <2>2, <2>3
<1>5. QED
    BY <1>1, <1>2, <1>3, <1>4

\* An emergency is exposed for one period at most.
LEMMA ExposedInvStep ==
    ASSUME CommandBuild, TypeOK, LabelInv, SpacingInv, ReservedInv, LatchInv,
           RemoteInv, CheckInv, ExposedInv, [Next]_vars
    PROVE  ExposedInv'
<1> SUFFICES ASSUME exposed' # 0 PROVE ExposedInv'
    BY DEF ExposedInv
<1>1. CASE Tick
    <2>1. /\ Checked /\ pc["link"] = "wait" /\ pc["status"] = "wait"
          /\ ~heartbeat.sent
        BY <1>1 DEF Tick, Idle, Task, Checked
    <2>2. fcIsArmed /\ Emergency /\ ~told
        BY <1>1 DEF Tick
    <2>3. Open
        BY <2>1, <2>2 DEF Open, Answering, AnswerLabel, RtlLabel, Asking
    <2>4. exposed = 0 /\ spaced = "new"
        BY <2>1, <2>3 DEF ExposedInv, CheckInv
    <2>5. exposed' = 1
        BY <1>1, <2>2, <2>4 DEF Tick
    <2>6. ~statusRan' /\ UNCHANGED <<fcIsArmed, spaced, heartbeat>>
        BY <1>1 DEF Tick, fcVars
    <2>7. QED
        BY <2>1, <2>2, <2>4, <2>5, <2>6 DEF ExposedInv, Checked
<1>2. CASE GatewayRestart
    BY <1>2 DEF GatewayRestart
<1>3. CASE MavHeartbeat
    <2>1. /\ heartbeat.sent /\ spaced = "new" /\ pc["mavrx"] = "wait"
          /\ pc'["mavrx"] = "confirm" /\ pc'["status"] = pc["status"]
          /\ UNCHANGED <<spaced, heartbeat, exposed, statusRan>>
        BY <1>3, MavMoves DEF MavHeartbeat, MayStart, Idle, Label, SpacingInv,
           fcVars, scheduleVars
    <2>2. exposed = 1 /\ Checked
        BY <2>1 DEF ExposedInv, Checked
    <2>3. Checked' /\ statusRan'
        BY <2>1, <2>2 DEF Checked
    <2>4. ~Open /\ fcIsArmed
        BY <2>1, <2>2 DEF ExposedInv
    <2>5. ~Tick
        BY <1>3 DEF Tick, MavHeartbeat
    <2>6. ~Open'
        BY <2>4, <2>5, OpenStep DEF Revealed
    <2>7. QED
        BY <2>1, <2>2, <2>3, <2>6 DEF ExposedInv
<1>4. CASE StatusReport
    <2>1. /\ ~statusRan /\ statusRan' /\ pc'["status"] = "sample"
          /\ spaced' = IF spaced = "new" /\ ~heartbeat.sent
                       THEN "running" ELSE spaced
          /\ UNCHANGED <<fcIsArmed, exposed>>
        BY <1>4, StatusMoves DEF StatusReport, Label, fcViewVars, historyVars
    <2>2. QED
        BY <2>1 DEF ExposedInv, Checked
<1>5. CASE StatusCheck
    <2>1. /\ pc["status"] = "check"
          /\ UNCHANGED <<fcIsArmed, exposed, statusRan>>
        BY <1>5 DEF StatusCheck, fcViewVars, historyVars
    <2>2. pc'["status"] \notin {"sample", "check"}
        BY <1>5, StatusMoves DEF StatusCheck, ReleaseLatch, NothingToAnswer,
           AnswerEmergency, Label
    <2>3. statusRan /\ statusRan' /\ ~Checked /\ Checked'
        BY <2>1, <2>2 DEF SpacingInv, Checked
    <2>4. exposed = 1 /\ fcIsArmed /\ spaced = "running"
        BY <2>1, <2>3 DEF ExposedInv
    <2>5. ~Open'
        BY <1>5, <2>4, CheckCloses
    <2>6. QED
        BY <2>1, <2>3, <2>4, <2>5 DEF ExposedInv
<1>6. CASE /\ ~Tick /\ ~GatewayRestart /\ ~MavHeartbeat
           /\ ~StatusReport /\ ~StatusCheck
    <2>1. /\ UNCHANGED <<fcIsArmed, exposed, statusRan>>
          /\ Checked' <=> Checked
          /\ spaced' = spaced \/ FcHeartbeat
          /\ heartbeat' = heartbeat \/ FcHeartbeat \/ ~heartbeat'.sent
          /\ pc'["mavrx"] = pc["mavrx"] \/ ~heartbeat'.sent
        BY <1>6, CheckedStep, QuietStep
    <2>2. Open' => Open
        BY <1>6, OpenStep DEF Revealed
    <2>3. CASE FcHeartbeat
        <3>1. spaced = "done"
            BY <2>3 DEF FcHeartbeat
        <3>2. exposed = 1 /\ Checked /\ fcIsArmed /\ ~Open
            BY <2>1, <3>1 DEF ExposedInv, Checked
        <3>3. statusRan'
            BY <2>1, <3>2 DEF Checked
        <3>4. QED
            BY <2>1, <2>2, <3>2, <3>3 DEF ExposedInv
    <2>4. CASE ~FcHeartbeat
        BY <2>1, <2>2, <2>4 DEF ExposedInv
    <2>5. QED
        BY <2>3, <2>4
<1>7. QED
    BY <1>1, <1>2, <1>3, <1>4, <1>5, <1>6

-----------------------------------------------------------------------------
\* The inductive invariant of the theorems below.
EmergencyInv ==
    /\ TypeOK /\ LabelInv /\ SpacingInv /\ ReservedInv /\ LatchInv
    /\ RemoteInv /\ CheckInv /\ ExposedInv

\* It holds when the gateway starts.
LEMMA EmergencyInitInv == Init => EmergencyInv
<1> SUFFICES ASSUME Init PROVE EmergencyInv
    OBVIOUS
<1>1. TypeOK
    BY InitTypes, CommandInitInv, TypeParts DEF Init, CommandInv
<1>2. /\ \A t \in Task : pc[t] = "wait"
      /\ ~rtlPending /\ ~disarmPending /\ ~latched /\ ~fcIsArmed
      /\ ~statusRan /\ spaced = "done" /\ ~heartbeat.sent
      /\ lastRemoteState = previousState /\ exposed = 0
    BY DEF Init, GatewayInit, CommandInit, NoHeartbeat
<1>3. /\ pc["link"] = "wait" /\ pc["status"] = "wait" /\ pc["mavrx"] = "wait"
    BY <1>2 DEF Task
<1>4. QED
    BY <1>1, <1>2, <1>3 DEF EmergencyInv, LabelInv, RtlLabel, SpacingInv,
       ReservedInv, LatchInv, RemoteInv, CheckInv, Checked, Open, ExposedInv

\* Every step keeps it, unless it reports the FC armed under a pending RTL.
LEMMA EmergencyStepInv ==
    ASSUME CommandBuild, EmergencyInv, OnePending, TypeOK', NoLeftoverStep,
           [Next]_vars
    PROVE  EmergencyInv'
BY LabelInvStep, SpacingInvStep, ReservedInvStep, LatchInvStep,
   RemoteInvStep, CheckInvStep, ExposedInvStep DEF EmergencyInv

\* A step that changes nothing reports nothing.
LEMMA StutterLeavesNothing ==
    ASSUME [NoLeftoverStep]_vars
    PROVE  NoLeftoverStep
BY DEF NoLeftoverStep, vars, fcViewVars

\* Under the hypothesis of the theorem the invariant holds in every state.
LEMMA EmergencyInvHolds ==
    ASSUME CommandBuild
    PROVE  Spec /\ NoLeftoverRtl => []EmergencyInv
<1>1. ASSUME EmergencyInv, OnePending, TypeOK', [NoLeftoverStep]_vars,
             [Next]_vars
      PROVE  EmergencyInv'
    BY <1>1, EmergencyStepInv, StutterLeavesNothing
<1>2. QED
    BY <1>1, EmergencyInitInv, TypeCorrect, GatewayOnePending, PTL
       DEF Spec, NoLeftoverRtl

\* The bench build never has an RTL pending.
LEMMA BenchHasNoRtl ==
    ASSUME FailsafeAction = "DISARM"
    PROVE  Spec => NoLeftoverRtl
<1>1. Init => LabelInv
    BY EmergencyInitInv DEF EmergencyInv
<1>2. ASSUME TypeOK, LabelInv, [Next]_vars
      PROVE  LabelInv'
    BY <1>2, LabelInvStep
<1>3. ASSUME LabelInv PROVE [NoLeftoverStep]_vars
    BY <1>3 DEF LabelInv, NoLeftoverStep
<1>4. QED
    BY <1>1, <1>2, <1>3, TypeCorrect, PTL DEF Spec, NoLeftoverRtl

\* The supervisor answers every emergency within two of its periods, in every
\* interleaving of the tasks: an FC known to be armed while the RC is silent
\* or in FAILSAFE, or its own heartbeats are lost, has been told to disarm or
\* to return since it last reported disarmed.  The one gap is an RTL that is
\* still pending from before the FC was armed.
THEOREM EmergencyAnsweredUnlessRtlLeft ==
    ASSUME FailsafeAction \in {"DISARM", "RTL"}
    PROVE  Spec /\ NoLeftoverRtl => []EmergencyIsAnswered
<1>1. CommandBuild
    BY DEF CommandBuild
<1>2. EmergencyInv => EmergencyIsAnswered
    BY DEF EmergencyInv, ExposedInv, EmergencyIsAnswered
<1>3. QED
    BY <1>1, <1>2, EmergencyInvHolds, PTL

\* What the tasks rely on when they do nothing.  The supervisor skips an armed
\* FC whose emergency is latched, and a safety action stops at a command that
\* is already pending: that FC has been told, or a task is telling it.
NothingIsForgotten ==
    fcIsArmed =>
        /\ latched => told \/ Answering
        /\ disarmPending => told \/ Sending
        /\ rtlPending => told \/ SendingRtl

\* The latch and the pending commands of an armed FC stand for a failsafe
\* command that was or is being written, with the same gap.
THEOREM LatchIsHonest ==
    ASSUME FailsafeAction \in {"DISARM", "RTL"}
    PROVE  Spec /\ NoLeftoverRtl => []NothingIsForgotten
<1>1. CommandBuild
    BY DEF CommandBuild
<1>2. EmergencyInv => NothingIsForgotten
    BY DEF EmergencyInv, LatchInv, ReservedInv, Confirming, NothingIsForgotten
<1>3. QED
    BY <1>1, <1>2, EmergencyInvHolds, PTL

\* In the bench build, where the failsafe action is a DISARM, there is no such
\* gap: every emergency is answered.
THEOREM EmergencyAlwaysAnswered ==
    ASSUME FailsafeAction = "DISARM"
    PROVE  Spec => []EmergencyIsAnswered
<1>1. Spec /\ NoLeftoverRtl => []EmergencyIsAnswered
    BY EmergencyAnsweredUnlessRtlLeft
<1>2. Spec => NoLeftoverRtl
    BY BenchHasNoRtl
<1>3. QED
    BY <1>1, <1>2, PTL
-----------------------------------------------------------------------------
(* The sticks that go out are the last packet's.                            *)

\* The handler has settled on its packet when it publishes it, and what
\* mavlink_tx_task holds between two packets is the packet published last.
PacketInv ==
    /\ pc["link"] \notin {"wait", "process"} => packet.state = previousState
    /\ pc["link"] = "wait" /\ latest.have => latest.state = previousState

\* Only the packet handler changes what it settled on and what it published.
LEMMA PacketInvStep ==
    ASSUME TypeOK, LabelInv, PacketInv, [Next]_vars
    PROVE  PacketInv'
<1> USE DEF PacketInv, LabelInv, RtlLabel, Label, rcViewVars
<1>1. ASSUME NEW state \in RcState, NEW high \in BOOLEAN, NEW new \in BOOLEAN,
             LinkAccept(state, high, new)
      PROVE  PacketInv'
    BY <1>1, LinkMoves DEF LinkAccept
<1>2. CASE LinkStep
    <2>1. CASE LinkNewSession \/ LinkSameState
        BY <2>1, LinkMoves DEF LinkNewSession, LinkSameState, ProcessUnchanged
    <2>2. CASE LinkArmRequest \/ LinkRecoverRequest \/ LinkDisarmRequest
               \/ LinkFailsafeRequest
        BY <2>2, LinkMoves DEF LinkArmRequest, LinkRecoverRequest,
           LinkDisarmRequest, LinkFailsafeRequest, Requests, ProcessUnchanged
    <2>3. CASE LinkStartArm \/ LinkSendArm \/ LinkOperatorDisarm
        BY <2>3, LinkMoves DEF LinkStartArm, LinkSendArm, LinkOperatorDisarm
    <2>4. CASE LinkFinish
        BY <2>4, LinkMoves DEF LinkFinish
    <2>5. QED
        BY <1>2, <2>1, <2>2, <2>3, <2>4 DEF LinkStep
<1>3. CASE SafetyStep("link")
    BY <1>3, LinkMoves DEF SafetyStep, Safety, SafetyDisarm, SafetyRtl,
       SafetyNative, ReserveSafety, SendSafety, After
<1>4. CASE SafetyStep("status")
    BY <1>4, StatusMoves DEF SafetyStep, Safety, SafetyDisarm, SafetyRtl,
       SafetyNative, ReserveSafety, SendSafety, After
<1>5. CASE StatusReport \/ StatusSample \/ StatusCheck
    BY <1>5, StatusMoves DEF StatusReport, StatusSample, StatusCheck,
       ReleaseLatch, NothingToAnswer, AnswerEmergency
<1>6. CASE MavHeartbeat \/ MavConfirm \/ MavRtlRefused
    BY <1>6, MavMoves DEF MavHeartbeat, MavConfirm, MavRtlRefused
<1>7. CASE FcExecute \/ UartDrops \/ FcHeartbeat \/ FcActsAlone
    BY <1>7 DEF FcExecute, UartDrops, FcHeartbeat, FcActsAlone,
       GatewayUnchanged
<1>8. CASE Tick \/ UNCHANGED vars
    BY <1>8 DEF Tick, vars
<1>9. CASE GatewayRestart
    BY <1>9 DEF GatewayRestart, Task, NoLatest
<1>10. QED
    BY <1>1, <1>2, <1>3, <1>4, <1>5, <1>6, <1>7, <1>8, <1>9 DEF Next

\* In every build the sticks sent between two packets are the last accepted
\* packet's: once DISARMED or FAILSAFE has been accepted and handled, no older
\* ARMED packet's sticks go out, however the tasks interleave.
THEOREM SticksAlwaysCurrent == Spec => []SticksAreCurrent
<1>1. Init => LabelInv /\ RemoteInv
    BY EmergencyInitInv DEF EmergencyInv
<1>2. Init => PacketInv
    BY DEF Init, GatewayInit, PacketInv, NoLatest, Task
<1>3. ASSUME TypeOK, LabelInv, RemoteInv, PacketInv, [Next]_vars
      PROVE  LabelInv' /\ RemoteInv' /\ PacketInv'
    BY <1>3, LabelInvStep, RemoteInvStep, PacketInvStep
<1>4. ASSUME RemoteInv, PacketInv PROVE SticksAreCurrent
    <2> SUFFICES ASSUME SendsOverride, Idle("link")
                 PROVE  /\ previousState = "ARMED"
                        /\ lastRemoteState \in {"ARMED", "FAILSAFE"}
        BY DEF SticksAreCurrent
    <2>1. previousState = "ARMED"
        BY <1>4 DEF PacketInv, SendsOverride, Idle
    <2>2. QED
        BY <1>4, <2>1 DEF RemoteInv, Idle
<1>5. QED
    BY <1>1, <1>2, <1>3, <1>4, TypeCorrect, PTL DEF Spec
=============================================================================
