------------------------ MODULE GatewayControlProofs ------------------------
(***************************************************************************)
(* Theorems about GatewayControl, for every timeout, build and environment *)
(* its assumptions allow.                                                  *)
(***************************************************************************)
EXTENDS GatewayControl, CommandStateProofs

-----------------------------------------------------------------------------
(* The gateway's steps, seen from the pending-command flags.               *)

\* Whatever a task does, it touches the flags through one lock-protected
\* operation at a time.
LEMMA StepIsCommandStep == [Next]_vars => [CommandNext]_commandVars
<1> SUFFICES ASSUME [Next]_vars PROVE [CommandNext]_commandVars
    OBVIOUS
<1> USE DEF CommandNext, CommandTimeouts
<1>1. ASSUME NEW state \in RcState, NEW high \in BOOLEAN, NEW new \in BOOLEAN,
             LinkAccept(state, high, new)
      PROVE  UNCHANGED commandVars
    BY <1>1 DEF LinkAccept
<1>2. CASE LinkStep
    BY <1>2 DEF LinkStep, LinkNewSession, LinkSameState, LinkArmRequest,
                LinkRecoverRequest, LinkDisarmRequest, LinkFailsafeRequest,
                LinkStartArm, LinkSendArm, LinkOperatorDisarm, LinkFinish,
                Requests, ProcessUnchanged
<1>3. ASSUME NEW t \in {"link", "status"}, SafetyStep(t)
      PROVE  [CommandNext]_commandVars
    BY <1>3 DEF SafetyStep, Safety, ReserveSafety, SendSafety
<1>4. CASE StatusReport \/ StatusSample \/ StatusCheck
    BY <1>4 DEF StatusReport, StatusSample, StatusCheck
<1>5. CASE MavHeartbeat \/ MavConfirm \/ MavRtlRefused
    BY <1>5 DEF MavHeartbeat, MavConfirm, MavRtlRefused
<1>6. CASE FcExecute \/ UartDrops \/ FcHeartbeat \/ FcActsAlone
    BY <1>6 DEF FcExecute, UartDrops, FcHeartbeat, FcActsAlone,
                GatewayUnchanged
<1>7. CASE Tick
    BY <1>7 DEF Tick
<1>8. CASE GatewayRestart
    BY <1>8 DEF GatewayRestart
<1>9. CASE UNCHANGED vars
    BY <1>9 DEF vars
<1>10. QED
    BY <1>1, <1>2, <1>3, <1>4, <1>5, <1>6, <1>7, <1>8, <1>9 DEF Next

LEMMA GatewayIsCommandState == Spec => CommandSpec
<1>1. Init => CommandInit
    BY DEF Init
<1>2. QED
    BY <1>1, StepIsCommandStep, PTL DEF Spec, CommandSpec

\* The gateway never awaits two commands of the flight controller at once.
THEOREM GatewayOnePending == Spec => []OnePending
BY GatewayIsCommandState, OnePendingTheorem, PTL

\* The gateway's commands form a one-command slot, in which nothing is
\* superseded by a less conservative command.
THEOREM GatewaySlot == Spec => SlotSafety
BY GatewayIsCommandState, SlotRefinement, PTL

-----------------------------------------------------------------------------
(* Types.                                                                   *)

\* What a step does to the flags is the business of CommandStepInv.
LinkTypes ==
    /\ rcAge \in Age
    /\ lastRemoteState \in RcState /\ previousState \in RcState
    /\ hasSession \in BOOLEAN
    /\ packet \in [state : RcState, high : BOOLEAN, new : BOOLEAN]
    /\ latest \in [have : BOOLEAN, state : RcState, high : BOOLEAN]
    /\ recoveryRequired \in BOOLEAN
    /\ holdAge \in Age /\ recoveryLastAge \in Age

FcTypes ==
    /\ fc \in [armed : BOOLEAN, rtl : BOOLEAN]
    /\ toFc \in Seq(FcCommand)
    /\ heartbeat \in [armed : BOOLEAN, rtl : BOOLEAN, sent : BOOLEAN]
    /\ rtlRefused \in BOOLEAN
    /\ fcIsArmed \in BOOLEAN /\ fcAge \in Age

TaskTypes ==
    /\ latched \in BOOLEAN
    /\ sample \in [rcLost : BOOLEAN, fcLost : BOOLEAN, requested : BOOLEAN]
    /\ action \in Action /\ repeat \in 0 .. ActionRepeat
    /\ pc \in [Task -> Label]
    /\ statusRan \in BOOLEAN /\ spaced \in {"new", "running", "done"}

HistoryTypes ==
    /\ mayArm \in BOOLEAN /\ calmAge \in Age
    /\ told \in BOOLEAN /\ exposed \in 0 .. 2
    /\ trust \in {"unheard", "armed", "disarmed"}

LEMMA TypeParts ==
    TypeOK <=> CommandTypeOK /\ LinkTypes /\ FcTypes /\ TaskTypes /\ HistoryTypes
BY DEF TypeOK, LinkTypes, FcTypes, TaskTypes, HistoryTypes

LEMMA InitTypes == Init => LinkTypes /\ FcTypes /\ TaskTypes /\ HistoryTypes
<1> SUFFICES ASSUME Init PROVE LinkTypes /\ FcTypes /\ TaskTypes /\ HistoryTypes
    OBVIOUS
<1>1. LinkTypes
    BY AgeValues DEF Init, GatewayInit, LinkTypes, NoPacket, NoLatest, RcState
<1>2. FcTypes
    <2>1. fc \in [armed : BOOLEAN, rtl : BOOLEAN]
        BY DEF Init
    <2>2. toFc \in Seq(FcCommand)
        BY DEF Init
    <2>3. QED
        BY <2>1, <2>2, AgeValues
           DEF Init, GatewayInit, FcTypes, NoHeartbeat
<1>3. TaskTypes
    <2>1. repeat \in 0 .. ActionRepeat
        BY TimeoutAssumption DEF Init, GatewayInit
    <2>2. pc \in [Task -> Label]
        BY DEF Init, GatewayInit, Label
    <2>3. QED
        BY <2>1, <2>2 DEF Init, GatewayInit, TaskTypes, NoSample, Action
<1>4. HistoryTypes
    <2>1. exposed \in 0 .. 2
        BY DEF Init, GatewayInit
    <2>2. QED
        BY <2>1, AgeValues DEF Init, GatewayInit, HistoryTypes
<1>5. QED
    BY <1>1, <1>2, <1>3, <1>4

LEMMA LinkTypesStep == LinkTypes /\ [Next]_vars => LinkTypes'
<1> SUFFICES ASSUME LinkTypes, [Next]_vars PROVE LinkTypes'
    OBVIOUS
<1> USE AgeValues DEF LinkTypes, rcViewVars, recoveryVars, NoPacket, NoLatest
<1>1. ASSUME NEW state \in RcState, NEW high \in BOOLEAN, NEW new \in BOOLEAN,
             LinkAccept(state, high, new)
      PROVE  LinkTypes'
    BY <1>1 DEF LinkAccept
<1>2. CASE LinkStep
    <2>1. CASE LinkNewSession
        BY <2>1 DEF LinkNewSession, ProcessUnchanged
    <2>2. CASE LinkSameState
        BY <2>2 DEF LinkSameState, ProcessUnchanged
    <2>3. ASSUME NEW from, NEW to \in RcState, Requests(from, to)
          PROVE  LinkTypes'
        BY <2>3 DEF Requests, ProcessUnchanged
    <2>4. CASE LinkArmRequest \/ LinkRecoverRequest \/ LinkDisarmRequest
               \/ LinkFailsafeRequest
        BY <2>3, <2>4 DEF LinkArmRequest, LinkRecoverRequest,
           LinkDisarmRequest, LinkFailsafeRequest, RcState
    <2>5. CASE LinkStartArm \/ LinkSendArm \/ LinkOperatorDisarm
        BY <2>5 DEF LinkStartArm, LinkSendArm, LinkOperatorDisarm
    <2>6. CASE LinkFinish
        <3>1. recoveryRequired' \in BOOLEAN
            BY <2>6 DEF LinkFinish, RecoveryCheck
        <3>2. holdAge' \in Age /\ recoveryLastAge' \in Age
            BY <2>6 DEF LinkFinish, RecoveryCheck
        <3>3. packet' \in [state : RcState, high : BOOLEAN, new : BOOLEAN]
            BY <2>6 DEF LinkFinish, RcState
        <3>4. latest' \in [have : BOOLEAN, state : RcState, high : BOOLEAN]
            BY <2>6 DEF LinkFinish
        <3>5. QED
            BY <2>6, <3>1, <3>2, <3>3, <3>4 DEF LinkFinish
    <2>7. QED
        BY <1>2, <2>1, <2>2, <2>4, <2>5, <2>6 DEF LinkStep
<1>3. ASSUME NEW t \in {"link", "status"}, SafetyStep(t)
      PROVE  LinkTypes'
    BY <1>3 DEF SafetyStep, Safety, ReserveSafety, SendSafety
<1>4. CASE StatusReport \/ StatusSample
    BY <1>4 DEF StatusReport, StatusSample
<1>5. CASE StatusCheck
    BY <1>5 DEF StatusCheck, ReleaseLatch, NothingToAnswer, AnswerEmergency,
                RcState
<1>6. CASE MavHeartbeat \/ MavConfirm \/ MavRtlRefused
    BY <1>6 DEF MavHeartbeat, MavConfirm, MavRtlRefused
<1>7. CASE FcExecute \/ UartDrops \/ FcHeartbeat \/ FcActsAlone
    BY <1>7 DEF FcExecute, UartDrops, FcHeartbeat, FcActsAlone,
                GatewayUnchanged
<1>8. CASE Tick
    BY <1>8, OlderLemma DEF Tick
<1>9. CASE GatewayRestart
    BY <1>9 DEF GatewayRestart, RcState
<1>10. CASE UNCHANGED vars
    BY <1>10 DEF vars
<1>11. QED
    BY <1>1, <1>2, <1>3, <1>4, <1>5, <1>6, <1>7, <1>8, <1>9, <1>10 DEF Next

LEMMA WriteType ==
    ASSUME toFc \in Seq(FcCommand), NEW c \in FcCommand, Write(c)
    PROVE  toFc' \in Seq(FcCommand)
BY DEF Write

LEMMA FcTypesStep == FcTypes /\ [Next]_vars => FcTypes'
<1> SUFFICES ASSUME FcTypes, [Next]_vars PROVE FcTypes'
    OBVIOUS
<1> USE AgeValues DEF FcTypes, fcVars, fcViewVars, NoHeartbeat
<1>1. ASSUME NEW state \in RcState, NEW high \in BOOLEAN, NEW new \in BOOLEAN,
             LinkAccept(state, high, new)
      PROVE  FcTypes'
    BY <1>1 DEF LinkAccept
<1>2. CASE LinkStep
    <2>1. CASE LinkSendArm
        BY <2>1, WriteType DEF LinkSendArm, FcCommand
    <2>2. CASE LinkStep /\ ~LinkSendArm
        BY <2>2 DEF LinkStep, LinkNewSession, LinkSameState, LinkArmRequest,
           LinkRecoverRequest, LinkDisarmRequest, LinkFailsafeRequest,
           LinkStartArm, LinkOperatorDisarm, LinkFinish, Requests,
           ProcessUnchanged
    <2>3. QED
        BY <1>2, <2>1, <2>2
<1>3. ASSUME NEW t \in {"link", "status"}, SafetyStep(t)
      PROVE  FcTypes'
    <2>1. CASE Safety(t) \/ ReserveSafety(t)
        BY <2>1 DEF Safety, ReserveSafety
    <2>2. CASE SendSafety(t)
        BY <2>2, WriteType DEF SendSafety, FcCommand
    <2>3. QED
        BY <1>3, <2>1, <2>2 DEF SafetyStep
<1>4. CASE StatusReport \/ StatusSample \/ StatusCheck
    BY <1>4 DEF StatusReport, StatusSample, StatusCheck
<1>5. CASE MavHeartbeat \/ MavConfirm \/ MavRtlRefused
    <2>1. CASE MavHeartbeat
        <3>1. fcAge' \in Age
            BY <2>1 DEF MavHeartbeat
        <3>2. fcIsArmed' \in BOOLEAN
            <4>1. heartbeat.armed \in BOOLEAN
                OBVIOUS
            <4>2. fcIsArmed' = heartbeat.armed
                BY <2>1 DEF MavHeartbeat
            <4>3. QED
                BY <4>1, <4>2, Zenon
        <3>3. QED
            BY <2>1, <3>1, <3>2 DEF MavHeartbeat
    <2>2. CASE MavConfirm
        BY <2>2 DEF MavConfirm
    <2>3. CASE MavRtlRefused
        BY <2>3 DEF MavRtlRefused
    <2>4. QED
        BY <1>5, <2>1, <2>2, <2>3
<1>6. CASE FcExecute
    <2>1. toFc' \in Seq(FcCommand)
        BY <1>6 DEF FcExecute
    <2>2. fc' \in [armed : BOOLEAN, rtl : BOOLEAN]
        BY <1>6 DEF FcExecute
    <2>3. rtlRefused' \in BOOLEAN
        BY <1>6 DEF FcExecute
    <2>4. QED
        BY <1>6, <2>1, <2>2, <2>3 DEF FcExecute, GatewayUnchanged
<1>7. CASE UartDrops
    BY <1>7 DEF UartDrops, GatewayUnchanged
<1>8. CASE FcHeartbeat \/ FcActsAlone
    <2>1. fc' \in [armed : BOOLEAN, rtl : BOOLEAN]
        BY <1>8 DEF FcHeartbeat, FcActsAlone
    <2>2. heartbeat' \in [armed : BOOLEAN, rtl : BOOLEAN, sent : BOOLEAN]
        <3>1. fc.armed \in BOOLEAN /\ fc.rtl \in BOOLEAN
            OBVIOUS
        <3>2. [armed |-> fc.armed, rtl |-> fc.rtl, sent |-> TRUE]
                \in [armed : BOOLEAN, rtl : BOOLEAN, sent : BOOLEAN]
            BY <3>1
        <3>3. QED
            BY <1>8, <3>2 DEF FcHeartbeat, FcActsAlone
    <2>3. QED
        BY <1>8, <2>1, <2>2 DEF FcHeartbeat, FcActsAlone, GatewayUnchanged
<1>9. CASE Tick
    BY <1>9, OlderLemma DEF Tick
<1>10. CASE GatewayRestart
    BY <1>10 DEF GatewayRestart
<1>11. CASE UNCHANGED vars
    BY <1>11 DEF vars
<1>12. QED
    BY <1>1, <1>2, <1>3, <1>4, <1>5, <1>6, <1>7, <1>8, <1>9, <1>10, <1>11
       DEF Next

\* A published action is repeated a bounded number of times.
LEMMA PublishType ==
    ASSUME NEW a \in Action, Publish(a)
    PROVE  action' \in Action /\ repeat' \in 0 .. ActionRepeat
<1>1. action' \in Action
    BY DEF Publish
<1>2. repeat' \in 0 .. ActionRepeat
    BY TimeoutAssumption DEF Publish
<1>3. QED
    BY <1>1, <1>2

LEMMA ActionTickType ==
    ASSUME action \in Action, repeat \in 0 .. ActionRepeat,
           NEW sendOk \in BOOLEAN, ActionTick(sendOk)
    PROVE  action' \in Action /\ repeat' \in 0 .. ActionRepeat
<1>1. action' \in Action
    BY DEF ActionTick, actionVars, Action
<1>2. repeat' \in 0 .. ActionRepeat
    BY TimeoutAssumption DEF ActionTick, actionVars
<1>3. QED
    BY <1>1, <1>2

LEMMA GotoType ==
    ASSUME pc \in [Task -> Label], NEW t \in Task, NEW l \in Label, Goto(t, l)
    PROVE  pc' \in [Task -> Label]
BY DEF Goto

LEMMA TaskTypesStep == TaskTypes /\ [Next]_vars => TaskTypes'
<1> SUFFICES ASSUME TaskTypes, [Next]_vars PROVE TaskTypes'
    OBVIOUS
<1> DEFINE ActionTypes == action \in Action /\ repeat \in 0 .. ActionRepeat
<1> DEFINE PcType == pc \in [Task -> Label]
<1> DEFINE RestTypes ==
        /\ latched \in BOOLEAN
        /\ sample \in [rcLost : BOOLEAN, fcLost : BOOLEAN, requested : BOOLEAN]
        /\ statusRan \in BOOLEAN /\ spaced \in {"new", "running", "done"}
<1>0. ActionTypes /\ PcType /\ RestTypes
    BY DEF TaskTypes
<1> HIDE DEF ActionTypes, PcType, RestTypes
<1>1. ActionTypes'
    <2>1. UNCHANGED actionVars => ActionTypes'
        BY <1>0 DEF ActionTypes, actionVars
    <2>2. ASSUME NEW a \in Action, Publish(a) PROVE ActionTypes'
        BY <2>2, PublishType DEF ActionTypes
    <2>3. CASE \E state \in RcState, high, new \in BOOLEAN :
                   LinkAccept(state, high, new)
        BY <2>3, <2>1 DEF LinkAccept
    <2>4. CASE LinkStep
        BY <2>4, <2>1, <2>2
           DEF LinkStep, LinkNewSession, LinkSameState, LinkArmRequest,
               LinkRecoverRequest, LinkDisarmRequest, LinkFailsafeRequest,
               LinkStartArm, LinkSendArm, LinkOperatorDisarm, LinkFinish,
               Action
    <2>5. ASSUME NEW t \in {"link", "status"}, SafetyStep(t)
          PROVE  ActionTypes'
        BY <2>5, <2>1, <2>2 DEF SafetyStep, Safety, SafetyDisarm, SafetyRtl,
           SafetyNative, ReserveSafety, SendSafety, Action
    <2>6. CASE StatusReport
        BY <2>6, <2>2, <1>0, ActionTickType
           DEF StatusReport, ActionTypes, Action
    <2>7. CASE StatusSample \/ StatusCheck
        BY <2>7, <2>1 DEF StatusSample, StatusCheck
    <2>8. CASE MavHeartbeat \/ MavConfirm \/ MavRtlRefused
        BY <2>8, <2>1, <2>2 DEF MavHeartbeat, MavConfirm, MavRtlRefused, Action
    <2>9. CASE FcExecute \/ UartDrops \/ FcHeartbeat \/ FcActsAlone
        BY <2>9, <2>1 DEF FcExecute, UartDrops, FcHeartbeat, FcActsAlone,
                          GatewayUnchanged
    <2>10. CASE Tick \/ UNCHANGED vars
        BY <2>10, <2>1 DEF Tick, vars
    <2>11. CASE GatewayRestart
        <3>1. action' = "NONE" /\ repeat' = 0
            BY <2>11 DEF GatewayRestart
        <3>2. 0 \in 0 .. ActionRepeat
            BY TimeoutAssumption
        <3>3. QED
            BY <3>1, <3>2 DEF ActionTypes, Action
    <2>12. QED
        BY <2>3, <2>4, <2>5, <2>6, <2>7, <2>8, <2>9, <2>10, <2>11 DEF Next
<1>2. PcType'
    <2>1. pc' = pc => PcType'
        BY <1>0 DEF PcType
    <2>2. ASSUME NEW t \in Task, NEW l \in Label, Goto(t, l) PROVE PcType'
        BY <2>2, <1>0, GotoType DEF PcType
    <2> USE DEF Task, Label
    <2>3. ASSUME NEW state \in RcState, NEW high \in BOOLEAN,
                 NEW new \in BOOLEAN, LinkAccept(state, high, new)
          PROVE  PcType'
        BY <2>3, <2>2 DEF LinkAccept
    <2>4. CASE LinkStep
        BY <2>4, <2>2
           DEF LinkStep, LinkNewSession, LinkSameState, LinkArmRequest,
               LinkRecoverRequest, LinkDisarmRequest, LinkFailsafeRequest,
               LinkStartArm, LinkSendArm, LinkOperatorDisarm, LinkFinish
    <2>5. ASSUME NEW t \in {"link", "status"}, SafetyStep(t) PROVE PcType'
        BY <2>5, <2>2 DEF SafetyStep, Safety, SafetyDisarm, SafetyRtl,
           SafetyNative, ReserveSafety, SendSafety, After
    <2>6. CASE StatusReport \/ StatusSample \/ StatusCheck
        BY <2>6, <2>2 DEF StatusReport, StatusSample, StatusCheck,
                          ReleaseLatch, NothingToAnswer, AnswerEmergency
    <2>7. CASE MavHeartbeat \/ MavConfirm \/ MavRtlRefused
        BY <2>7, <2>1, <2>2 DEF MavHeartbeat, MavConfirm, MavRtlRefused
    <2>8. CASE FcExecute \/ UartDrops \/ FcHeartbeat \/ FcActsAlone
        BY <2>8, <2>1 DEF FcExecute, UartDrops, FcHeartbeat, FcActsAlone,
                          GatewayUnchanged
    <2>9. CASE Tick \/ UNCHANGED vars
        BY <2>9, <2>1 DEF Tick, vars
    <2>10. CASE GatewayRestart
        BY <2>10 DEF GatewayRestart, PcType
    <2>11. QED
        BY <2>3, <2>4, <2>5, <2>6, <2>7, <2>8, <2>9, <2>10 DEF Next
<1>3. RestTypes'
    <2> USE <1>0 DEF RestTypes, scheduleVars, NoSample
    <2>1. ASSUME NEW state \in RcState, NEW high \in BOOLEAN,
                 NEW new \in BOOLEAN, LinkAccept(state, high, new)
          PROVE  RestTypes'
        BY <2>1 DEF LinkAccept
    <2>2. CASE LinkStep
        BY <2>2
           DEF LinkStep, LinkNewSession, LinkSameState, LinkArmRequest,
               LinkRecoverRequest, LinkDisarmRequest, LinkFailsafeRequest,
               LinkStartArm, LinkSendArm, LinkOperatorDisarm, LinkFinish,
               Requests, ProcessUnchanged
    <2>3. ASSUME NEW t \in {"link", "status"}, SafetyStep(t)
          PROVE  RestTypes'
        BY <2>3 DEF SafetyStep, Safety, SafetyDisarm, SafetyRtl,
           SafetyNative, ReserveSafety, SendSafety
    <2>4. CASE StatusReport \/ StatusCheck
        <3>1. CASE StatusReport
            BY <3>1 DEF StatusReport
        <3>2. CASE StatusCheck
            BY <3>2 DEF StatusCheck, ReleaseLatch, NothingToAnswer,
                        AnswerEmergency
        <3>3. QED
            BY <2>4, <3>1, <3>2
    <2>5. CASE StatusSample
        <3>1. Beyond(rcAge, RcFailsafeTimeout) \in BOOLEAN
              /\ Beyond(fcAge, FcFailsafeTimeout) \in BOOLEAN
            BY DEF Beyond
        <3>2. QED
            BY <2>5, <3>1 DEF StatusSample
    <2>6. CASE MavHeartbeat \/ MavConfirm \/ MavRtlRefused
        BY <2>6 DEF MavHeartbeat, MavConfirm, MavRtlRefused
    <2>7. CASE FcExecute \/ UartDrops \/ FcHeartbeat \/ FcActsAlone
        BY <2>7 DEF FcExecute, UartDrops, FcHeartbeat, FcActsAlone,
                    GatewayUnchanged
    <2>8. CASE Tick \/ UNCHANGED vars
        BY <2>8 DEF Tick, vars
    <2>9. CASE GatewayRestart
        BY <2>9 DEF GatewayRestart
    <2>10. QED
        BY <2>1, <2>2, <2>3, <2>4, <2>5, <2>6, <2>7, <2>8, <2>9 DEF Next
<1>4. QED
    BY <1>1, <1>2, <1>3 DEF TaskTypes, ActionTypes, PcType, RestTypes

LEMMA HistoryTypesStep == HistoryTypes /\ FcTypes /\ [Next]_vars => HistoryTypes'
<1> SUFFICES ASSUME HistoryTypes, FcTypes, [Next]_vars PROVE HistoryTypes'
    OBVIOUS
<1> USE DEF HistoryTypes, historyVars
<1>1. ASSUME NEW state \in RcState, NEW high \in BOOLEAN, NEW new \in BOOLEAN,
             LinkAccept(state, high, new)
      PROVE  HistoryTypes'
    <2>1. calmAge' \in Age
        BY <1>1, AgeValues DEF LinkAccept
    <2>2. mayArm' \in BOOLEAN
        BY <1>1 DEF LinkAccept
    <2>3. QED
        BY <1>1, <2>1, <2>2 DEF LinkAccept
<1>2. CASE LinkStep
    BY <1>2 DEF LinkStep, LinkNewSession, LinkSameState, LinkArmRequest,
                LinkRecoverRequest, LinkDisarmRequest, LinkFailsafeRequest,
                LinkStartArm, LinkSendArm, LinkOperatorDisarm, LinkFinish,
                Requests, ProcessUnchanged
<1>3. ASSUME NEW t \in {"link", "status"}, SafetyStep(t)
      PROVE  HistoryTypes'
    BY <1>3 DEF SafetyStep, Safety, ReserveSafety, SendSafety
<1>4. CASE StatusReport \/ StatusSample \/ StatusCheck
    BY <1>4 DEF StatusReport, StatusSample, StatusCheck
<1>5. CASE MavHeartbeat
    <2>1. trust' \in {"unheard", "armed", "disarmed"}
        BY <1>5 DEF MavHeartbeat
    <2>2. told' \in BOOLEAN
        BY <1>5 DEF MavHeartbeat
    <2>3. QED
        BY <1>5, <2>1, <2>2 DEF MavHeartbeat
<1>6. CASE MavConfirm \/ MavRtlRefused
    BY <1>6 DEF MavConfirm, MavRtlRefused
<1>7. CASE FcExecute \/ UartDrops \/ FcHeartbeat \/ FcActsAlone
    BY <1>7 DEF FcExecute, UartDrops, FcHeartbeat, FcActsAlone,
                GatewayUnchanged
<1>8. CASE Tick
    <2>1. exposed' \in 0 .. 2
        <3>1. exposed \in 0 .. 2
            OBVIOUS
        <3>2. exposed' = 0 \/ exposed' = 2 \/ (exposed < 2 /\ exposed' = exposed + 1)
            BY <1>8 DEF Tick
        <3>3. QED
            BY <3>1, <3>2
    <2>2. calmAge' \in Age
        BY <1>8, OlderLemma DEF Tick
    <2>3. QED
        BY <1>8, <2>1, <2>2 DEF Tick
<1>9. CASE GatewayRestart
    <2>1. exposed' \in 0 .. 2
        BY <1>9 DEF GatewayRestart
    <2>2. calmAge' \in Age
        BY <1>9, AgeValues DEF GatewayRestart
    <2>3. QED
        BY <1>9, <2>1, <2>2 DEF GatewayRestart
<1>10. CASE UNCHANGED vars
    BY <1>10 DEF vars
<1>11. QED
    BY <1>1, <1>2, <1>3, <1>4, <1>5, <1>6, <1>7, <1>8, <1>9, <1>10 DEF Next

\* Every variable keeps its type, for every choice of timeouts, failsafe
\* action and environment.
THEOREM TypeCorrect == Spec => []TypeOK
<1>1. Init => TypeOK
    BY InitTypes, CommandInitInv, TypeParts DEF Init, CommandInv
<1>2. TypeOK /\ [Next]_vars /\ CommandInv' => TypeOK'
    <2>1. TypeOK' <=> (CommandTypeOK /\ LinkTypes /\ FcTypes /\ TaskTypes
                        /\ HistoryTypes)'
        BY DEF TypeOK, LinkTypes, FcTypes, TaskTypes, HistoryTypes
    <2>2. QED
        BY <2>1, TypeParts, LinkTypesStep, FcTypesStep, TaskTypesStep,
           HistoryTypesStep DEF CommandInv
<1>3. QED
    BY <1>1, <1>2, GatewayIsCommandState, CommandInvariant, PTL DEF Spec

-----------------------------------------------------------------------------
(* No automatic re-arm.                                                     *)

\* A packet under way in link_rx_task belongs to a session, and on its way to
\* an ARM command it carries everything the command must answer.  While the
\* last processed packet is DISARMED, ARM may be requested once more.
ArmInv ==
    /\ pc["link"] # "wait" => hasSession
    /\ pc["link"] \in {"startArm", "sendArm"} =>
         /\ mayArm
         /\ packet.state = "ARMED" /\ ~packet.high
         /\ previousState = "ARMED"
         /\ ~recoveryRequired
    /\ packet.state = "DISARMED" /\ pc["link"] = "process" => mayArm
    /\ hasSession /\ previousState = "DISARMED"
         => mayArm \/ (pc["link"] = "process" /\ packet.new)

\* The steps of the other tasks move neither the packet handler nor what it
\* reads: the invariants below are stated over these variables.
linkVars == <<pc["link"], rcAge, hasSession, previousState, packet,
              recoveryRequired, holdAge, recoveryLastAge, mayArm, calmAge>>

OthersStep ==
    \/ SafetyStep("status")
    \/ StatusReport \/ StatusSample \/ StatusCheck
    \/ MavHeartbeat \/ MavConfirm \/ MavRtlRefused
    \/ FcExecute \/ UartDrops \/ FcHeartbeat \/ FcActsAlone

\* A task that is not "link" leaves the packet handler's program counter.
LEMMA GotoOther ==
    ASSUME TypeOK, NEW t \in Task \ {"link"}, NEW l \in Label, Goto(t, l)
    PROVE  pc'["link"] = pc["link"]
BY DEF TypeOK, Goto, Task

LEMMA OthersKeepLink == TypeOK /\ OthersStep => UNCHANGED linkVars
<1> SUFFICES ASSUME TypeOK, OthersStep PROVE UNCHANGED linkVars
    OBVIOUS
<1> USE DEF linkVars, rcViewVars, recoveryVars, historyVars
<1>1. pc'["link"] = pc["link"]
    <2> USE GotoOther DEF Task, Label
    <2>1. CASE SafetyStep("status")
        BY <2>1 DEF SafetyStep, Safety, SafetyDisarm, SafetyRtl,
                    SafetyNative, ReserveSafety, SendSafety, After
    <2>2. CASE StatusReport \/ StatusSample \/ StatusCheck
        BY <2>2 DEF StatusReport, StatusSample, StatusCheck, ReleaseLatch,
                    NothingToAnswer, AnswerEmergency
    <2>3. CASE MavHeartbeat \/ MavConfirm \/ MavRtlRefused
        BY <2>3 DEF MavHeartbeat, MavConfirm, MavRtlRefused
    <2>4. CASE FcExecute \/ UartDrops \/ FcHeartbeat \/ FcActsAlone
        BY <2>4 DEF FcExecute, UartDrops, FcHeartbeat, FcActsAlone,
                    GatewayUnchanged
    <2>5. QED
        BY <2>1, <2>2, <2>3, <2>4 DEF OthersStep
<1>2. CASE SafetyStep("status")
    BY <1>1, <1>2 DEF SafetyStep, Safety, ReserveSafety, SendSafety
<1>3. CASE StatusReport \/ StatusSample \/ StatusCheck
    BY <1>1, <1>3 DEF StatusReport, StatusSample, StatusCheck
<1>4. CASE MavHeartbeat \/ MavConfirm \/ MavRtlRefused
    BY <1>1, <1>4 DEF MavHeartbeat, MavConfirm, MavRtlRefused
<1>5. CASE FcExecute \/ UartDrops \/ FcHeartbeat \/ FcActsAlone
    BY <1>1, <1>5 DEF FcExecute, UartDrops, FcHeartbeat, FcActsAlone,
                GatewayUnchanged
<1>6. QED
    BY <1>2, <1>3, <1>4, <1>5 DEF OthersStep

\* The packet handler's own step label.
LEMMA GotoLink ==
    ASSUME TypeOK, NEW l \in Label, Goto("link", l)
    PROVE  pc'["link"] = l
BY DEF TypeOK, Goto, Task

LEMMA ArmInvStep == TypeOK /\ ArmInv /\ [Next]_vars => ArmInv'
<1> SUFFICES ASSUME TypeOK, ArmInv, [Next]_vars PROVE ArmInv'
    OBVIOUS
<1> USE GotoLink DEF ArmInv, Label
<1>1. ASSUME NEW state \in RcState, NEW high \in BOOLEAN, NEW new \in BOOLEAN,
             LinkAccept(state, high, new)
      PROVE  ArmInv'
    BY <1>1 DEF LinkAccept, MayStart, Idle, recoveryVars
<1>2. CASE LinkNewSession
    BY <1>2 DEF LinkNewSession, ProcessUnchanged, rcViewVars
<1>3. CASE LinkSameState
    BY <1>3 DEF LinkSameState, ProcessUnchanged, rcViewVars
<1>4. CASE LinkArmRequest
    BY <1>4 DEF LinkArmRequest, ArmRefused, Requests, ProcessUnchanged,
                rcViewVars
<1>5. CASE LinkRecoverRequest
    BY <1>5 DEF LinkRecoverRequest, Requests, ProcessUnchanged, rcViewVars
<1>6. CASE LinkDisarmRequest
    BY <1>6 DEF LinkDisarmRequest, Requests, ProcessUnchanged, rcViewVars
<1>7. CASE LinkFailsafeRequest
    BY <1>7 DEF LinkFailsafeRequest, Requests, ProcessUnchanged, rcViewVars
<1>8. CASE LinkStartArm
    BY <1>8 DEF LinkStartArm, rcViewVars, recoveryVars, historyVars
<1>9. CASE LinkSendArm
    BY <1>9 DEF LinkSendArm, rcViewVars, recoveryVars
<1>10. CASE LinkOperatorDisarm
    BY <1>10 DEF LinkOperatorDisarm, rcViewVars, recoveryVars, historyVars
<1>11. CASE LinkFinish
    BY <1>11 DEF LinkFinish, historyVars
<1>12. CASE SafetyStep("link")
    BY <1>12 DEF SafetyStep, Safety, SafetyDisarm, SafetyRtl, SafetyNative,
       ReserveSafety, SendSafety, After, rcViewVars, recoveryVars, historyVars
<1>13. CASE OthersStep
    BY <1>13, OthersKeepLink DEF linkVars
<1>14. CASE Tick
    BY <1>14 DEF Tick
<1>15. CASE GatewayRestart
    BY <1>15 DEF GatewayRestart, NoPacket, Task
<1>16. CASE UNCHANGED vars
    BY <1>16 DEF vars, rcViewVars, recoveryVars, historyVars
<1>17. QED
    BY <1>1, <1>2, <1>3, <1>4, <1>5, <1>6, <1>7, <1>8, <1>9, <1>10, <1>11,
       <1>12, <1>13, <1>14, <1>15, <1>16 DEF Next, LinkStep, OthersStep

LEMMA ArmInvariant == Spec => []ArmInv
<1>1. Init => ArmInv
    BY DEF Init, GatewayInit, ArmInv, Task, NoPacket
<1>2. QED
    BY <1>1, ArmInvStep, TypeCorrect, PTL DEF Spec

\* Only LinkSendArm writes an ARM command.
LEMMA OnlySendArmWrites ==
    TypeOK /\ [Next]_vars /\ ArmWritten => LinkSendArm
<1> SUFFICES ASSUME TypeOK, [Next]_vars, ArmWritten, ~LinkSendArm
             PROVE  FALSE
    OBVIOUS
<1>1. /\ toFc \in Seq(FcCommand)
      /\ Len(toFc') = Len(toFc) + 1
      /\ toFc'[Len(toFc')] = "ARM"
    BY DEF TypeOK, ArmWritten
<1>2. toFc' # toFc
    BY <1>1
<1>3. ~(toFc # <<>> /\ toFc' = Tail(toFc))
    BY <1>1
<1>4. ASSUME NEW c \in FcCommand, Write(c)
      PROVE  c = "ARM"
    BY <1>1, <1>4 DEF Write
<1> USE <1>2, <1>3 DEF fcVars
<1>5. ASSUME NEW state \in RcState, NEW high \in BOOLEAN, NEW new \in BOOLEAN,
             LinkAccept(state, high, new)
      PROVE  FALSE
    BY <1>5 DEF LinkAccept
<1>6. CASE LinkStep
    BY <1>6 DEF LinkStep, LinkNewSession, LinkSameState, LinkArmRequest,
                LinkRecoverRequest, LinkDisarmRequest, LinkFailsafeRequest,
                LinkStartArm, LinkOperatorDisarm, LinkFinish,
                Requests, ProcessUnchanged
<1>7. ASSUME NEW t \in {"link", "status"}, SafetyStep(t)
      PROVE  FALSE
    BY <1>7, <1>4 DEF SafetyStep, Safety, ReserveSafety, SendSafety, FcCommand
<1>8. CASE StatusReport \/ StatusSample \/ StatusCheck
    BY <1>8 DEF StatusReport, StatusSample, StatusCheck
<1>9. CASE MavHeartbeat \/ MavConfirm \/ MavRtlRefused
    BY <1>9 DEF MavHeartbeat, MavConfirm, MavRtlRefused
<1>10. CASE FcExecute \/ UartDrops \/ FcHeartbeat \/ FcActsAlone
    BY <1>10 DEF FcExecute, UartDrops, FcHeartbeat, FcActsAlone
<1>11. CASE Tick \/ GatewayRestart \/ UNCHANGED vars
    BY <1>11 DEF Tick, GatewayRestart, vars
<1>12. QED
    BY <1>5, <1>6, <1>7, <1>8, <1>9, <1>10, <1>11 DEF Next

\* No automatic re-arm: an ARM command answers an ARMED packet at low
\* throttle, outside the recovery lock, after a DISARMED packet of the same
\* session.
THEOREM ArmingIsRequested == Spec => ArmOnlyOnRequest
<1>1. TypeOK /\ ArmInv /\ [Next]_vars =>
        (ArmWritten => /\ mayArm /\ hasSession
                       /\ packet.state = "ARMED" /\ ~packet.high
                       /\ ~recoveryRequired)
    BY OnlySendArmWrites DEF LinkSendArm, ArmInv
<1>2. QED
    BY <1>1, ArmInvariant, TypeCorrect, PTL DEF Spec, ArmOnlyOnRequest

-----------------------------------------------------------------------------
(* No control of an aircraft that was found armed.                          *)

\* While the FC has not been seen disarmed since a session that found it
\* armed, the recovery lock holds: it opens on a disarmed FC only.
TrustInv == trust = "armed" => fcIsArmed /\ recoveryRequired

LEMMA TrustInvStep == TypeOK /\ TrustInv /\ [Next]_vars => TrustInv'
<1> SUFFICES ASSUME TypeOK, TrustInv, [Next]_vars PROVE TrustInv'
    OBVIOUS
<1> USE DEF TrustInv, fcViewVars, recoveryVars, historyVars
<1>1. ASSUME NEW state \in RcState, NEW high \in BOOLEAN, NEW new \in BOOLEAN,
             LinkAccept(state, high, new)
      PROVE  TrustInv'
    BY <1>1 DEF LinkAccept
<1>2. CASE LinkNewSession
    BY <1>2 DEF LinkNewSession, ProcessUnchanged
<1>3. CASE LinkFinish
    BY <1>3 DEF LinkFinish, RecoveryCheck, SafeForRecovery
<1>4. CASE LinkStep /\ ~LinkNewSession /\ ~LinkFinish
    BY <1>4 DEF LinkStep, LinkSameState, LinkArmRequest, LinkRecoverRequest,
                LinkDisarmRequest, LinkFailsafeRequest, LinkStartArm,
                LinkSendArm, LinkOperatorDisarm, Requests, ProcessUnchanged
<1>5. ASSUME NEW t \in {"link", "status"}, SafetyStep(t)
      PROVE  TrustInv'
    BY <1>5 DEF SafetyStep, Safety, ReserveSafety, SendSafety
<1>6. CASE StatusReport \/ StatusSample \/ StatusCheck
    BY <1>6 DEF StatusReport, StatusSample, StatusCheck
<1>7. CASE MavHeartbeat
    BY <1>7 DEF MavHeartbeat
<1>8. CASE MavConfirm \/ MavRtlRefused
    BY <1>8 DEF MavConfirm, MavRtlRefused
<1>9. CASE FcExecute \/ UartDrops \/ FcHeartbeat \/ FcActsAlone
    BY <1>9 DEF FcExecute, UartDrops, FcHeartbeat, FcActsAlone,
                GatewayUnchanged
<1>10. CASE Tick \/ GatewayRestart \/ UNCHANGED vars
    BY <1>10 DEF Tick, GatewayRestart, vars
<1>11. QED
    BY <1>1, <1>2, <1>3, <1>4, <1>5, <1>6, <1>7, <1>8, <1>9, <1>10 DEF Next

\* The pilot's sticks never reach an armed FC in a session that found it
\* armed, until the FC has reported itself disarmed.
THEOREM ControlOfFoundArmed == Spec => []ControlIsEarnedOnceHeard
<1>1. Init => TrustInv
    BY DEF Init, GatewayInit, TrustInv
<1>2. TrustInv => ControlIsEarnedOnceHeard
    BY DEF TrustInv, ControlIsEarnedOnceHeard, SendsOverride
<1>3. QED
    BY <1>1, <1>2, TrustInvStep, TypeCorrect, PTL DEF Spec

-----------------------------------------------------------------------------
(* The recovery lock.                                                       *)

SafePacket == packet.state = "DISARMED" /\ ~packet.high
Timely == recoveryLastAge = None \/ recoveryLastAge <= RcPacketTimeout

\* The hold is never older than the calm it stands for.  Between packets the
\* lock's last-packet time is the link's; while a packet is under way the
\* link's has moved on, and a hold counts only if the packet was in time.
HoldInv ==
    /\ Idle("link") /\ holdAge # None =>
         /\ calmAge # None
         /\ holdAge <= calmAge
         /\ recoveryLastAge = rcAge
    /\ ~Idle("link") => rcAge = 0
    /\ ~Idle("link") /\ SafePacket => calmAge # None
    /\ ~Idle("link") /\ SafePacket /\ Timely /\ holdAge # None
         => holdAge <= calmAge

\* Ageing keeps the order of two stored times.
LEMMA OlderMonotone ==
    ASSUME NEW a \in Age, NEW b \in Age, a # None, b # None, a <= b
    PROVE  Older(a) <= Older(b)
BY AgeAssumption DEF Older, Age, None

\* A time is stored if and only if it still is after a tick.
LEMMA OlderNone ==
    ASSUME NEW a \in Age
    PROVE  Older(a) = None <=> a = None
BY AgeAssumption DEF Older, Age, None

\* A step that keeps these variables, and the packet handler busy if it was,
\* keeps the invariant.
holdVars == <<packet, rcAge, holdAge, recoveryLastAge, calmAge>>

LEMMA HoldInvKept ==
    ASSUME HoldInv, UNCHANGED holdVars, Idle("link")' <=> Idle("link")
    PROVE  HoldInv'
BY DEF HoldInv, holdVars, SafePacket, Timely

LEMMA HoldInvStep == TypeOK /\ HoldInv /\ [Next]_vars => HoldInv'
<1> SUFFICES ASSUME TypeOK, HoldInv, [Next]_vars PROVE HoldInv'
    OBVIOUS
<1>0. /\ rcAge \in Age /\ holdAge \in Age /\ recoveryLastAge \in Age
      /\ calmAge \in Age
    BY DEF TypeOK
<1>1. ASSUME NEW state \in RcState, NEW high \in BOOLEAN, NEW new \in BOOLEAN,
             LinkAccept(state, high, new)
      PROVE  HoldInv'
    <2>1. /\ Idle("link") /\ ~Idle("link")'
          /\ packet' = [state |-> state, high |-> high, new |-> new]
          /\ rcAge' = 0
          /\ UNCHANGED <<holdAge, recoveryLastAge>>
        BY <1>1, GotoLink DEF LinkAccept, MayStart, Idle, recoveryVars, Label
    <2>2. SafePacket' => calmAge' # None
        BY <1>1, <2>1, <1>0 DEF LinkAccept, SafePacket, None
    <2>3. ASSUME SafePacket', Timely', holdAge' # None
          PROVE  holdAge' <= calmAge'
        <3>1. /\ calmAge # None /\ holdAge <= calmAge
              /\ recoveryLastAge = rcAge
            BY <2>1, <2>3 DEF HoldInv
        <3>2. ~Beyond(rcAge, RcPacketTimeout)
            BY <2>1, <2>3, <3>1, <1>0, TimeoutAssumption, AgeAssumption
               DEF Beyond, Timely, Age, None
        <3>3. state = "DISARMED" /\ ~high
            BY <2>1, <2>3 DEF SafePacket
        <3>4. calmAge' = calmAge
            BY <1>1, <3>1, <3>2, <3>3 DEF LinkAccept
        <3>5. QED
            BY <2>1, <3>1, <3>4
    <2>4. QED
        BY <2>1, <2>2, <2>3 DEF HoldInv
<1>2. CASE LinkFinish
    <2>1. /\ ~Idle("link") /\ Idle("link")'
          /\ UNCHANGED <<rcAge, calmAge>>
        BY <1>2, GotoLink DEF LinkFinish, Idle, historyVars, Label
    <2>2. rcAge = 0
        BY <2>1 DEF HoldInv
    <2>3. ASSUME holdAge' # None
          PROVE  /\ SafePacket /\ Timely
                 /\ holdAge' = IF holdAge = None THEN 0 ELSE holdAge
                 /\ recoveryLastAge' = 0
        BY <1>2, <2>3
           DEF LinkFinish, RecoveryCheck, SafeForRecovery, SafePacket, Timely
    <2>4. ASSUME holdAge' # None
          PROVE  /\ calmAge' # None /\ holdAge' <= calmAge'
                 /\ recoveryLastAge' = rcAge'
        <3>1. calmAge # None
            BY <2>1, <2>3, <2>4 DEF HoldInv
        <3>2. CASE holdAge = None
            BY <2>1, <2>2, <2>3, <2>4, <3>1, <3>2, <1>0, AgeAssumption
               DEF Age, None
        <3>3. CASE holdAge # None
            BY <2>1, <2>2, <2>3, <2>4, <3>1, <3>3 DEF HoldInv
        <3>4. QED
            BY <3>2, <3>3
    <2>5. QED
        BY <2>1, <2>4 DEF HoldInv
<1>3. CASE LinkStep /\ ~LinkFinish
    <2>1. ~Idle("link") /\ ~Idle("link")'
        BY <1>3, GotoLink
           DEF LinkStep, LinkNewSession, LinkSameState, LinkArmRequest,
               LinkRecoverRequest, LinkDisarmRequest, LinkFailsafeRequest,
               LinkStartArm, LinkSendArm, LinkOperatorDisarm, Requests,
               Idle, Label
    <2>2. UNCHANGED holdVars
        BY <1>3 DEF LinkStep, LinkNewSession, LinkSameState, LinkArmRequest,
           LinkRecoverRequest, LinkDisarmRequest, LinkFailsafeRequest,
           LinkStartArm, LinkSendArm, LinkOperatorDisarm, Requests,
           ProcessUnchanged, holdVars, rcViewVars, recoveryVars, historyVars
    <2>3. QED
        BY <2>1, <2>2, HoldInvKept
<1>4. CASE SafetyStep("link")
    <2>1. ~Idle("link") /\ ~Idle("link")'
        BY <1>4, GotoLink DEF SafetyStep, Safety, SafetyDisarm, SafetyRtl,
           SafetyNative, ReserveSafety, SendSafety, After, Idle, Label
    <2>2. UNCHANGED holdVars
        BY <1>4 DEF SafetyStep, Safety, ReserveSafety, SendSafety, holdVars,
           rcViewVars, recoveryVars, historyVars
    <2>3. QED
        BY <2>1, <2>2, HoldInvKept
<1>5. CASE OthersStep
    BY <1>5, OthersKeepLink, HoldInvKept DEF linkVars, holdVars, Idle
<1>6. CASE Tick
    <2>1. /\ Idle("link") /\ UNCHANGED <<pc, packet>>
          /\ rcAge' = Older(rcAge) /\ holdAge' = Older(holdAge)
          /\ recoveryLastAge' = Older(recoveryLastAge)
          /\ calmAge' = Older(calmAge)
        BY <1>6 DEF Tick, Task
    <2>2. ASSUME holdAge' # None
          PROVE  /\ calmAge' # None /\ holdAge' <= calmAge'
                 /\ recoveryLastAge' = rcAge'
        <3>1. holdAge # None
            BY <1>0, <2>1, <2>2, OlderNone
        <3>2. /\ calmAge # None /\ holdAge <= calmAge
              /\ recoveryLastAge = rcAge
            BY <2>1, <3>1 DEF HoldInv
        <3>3. Older(holdAge) <= Older(calmAge) /\ Older(calmAge) # None
            BY <1>0, <3>1, <3>2, OlderMonotone, OlderNone
        <3>4. QED
            BY <2>1, <3>2, <3>3
    <2>3. Idle("link")'
        BY <2>1 DEF Idle
    <2>4. QED
        BY <2>2, <2>3 DEF HoldInv
<1>7. CASE GatewayRestart
    BY <1>7 DEF GatewayRestart, HoldInv, Idle, Task
<1>8. CASE UNCHANGED vars
    BY <1>8, HoldInvKept
       DEF vars, holdVars, rcViewVars, recoveryVars, historyVars, Idle
<1>9. QED
    BY <1>1, <1>2, <1>3, <1>4, <1>5, <1>6, <1>7, <1>8 DEF Next, OthersStep

\* The recovery lock opens only after a full hold time of DISARMED packets at
\* low throttle that came in time.
THEOREM RecoveryTakesTheHold == Spec => RecoveryIsEarned
<1>1. Init => HoldInv
    BY DEF Init, GatewayInit, HoldInv, Idle, Task
<1>2. Spec => []HoldInv
    BY <1>1, HoldInvStep, TypeCorrect, PTL DEF Spec
<1>3. ASSUME TypeOK, HoldInv, [Next]_vars,
             recoveryRequired, ~recoveryRequired', hasSession'
      PROVE  calmAge # None /\ calmAge >= RecoveryHold
    <2>1. LinkFinish
        BY <1>3 DEF Next, LinkStep, LinkAccept, LinkNewSession, LinkSameState,
           LinkArmRequest, LinkRecoverRequest, LinkDisarmRequest,
           LinkFailsafeRequest, LinkStartArm, LinkSendArm, LinkOperatorDisarm,
           Requests, SafetyStep, Safety, ReserveSafety, SendSafety,
           StatusReport, StatusSample, StatusCheck, MavHeartbeat, MavConfirm,
           MavRtlRefused, FcExecute, UartDrops, FcHeartbeat, FcActsAlone,
           GatewayUnchanged, Tick, GatewayRestart, recoveryVars, vars
    <2>2. /\ SafePacket /\ Timely /\ ~Idle("link")
          /\ holdAge # None /\ holdAge >= RecoveryHold
        BY <1>3, <2>1 DEF LinkFinish, RecoveryCheck, SafeForRecovery,
           SafePacket, Timely, Idle
    <2>3. calmAge # None /\ holdAge <= calmAge
        BY <1>3, <2>2 DEF HoldInv
    <2>4. /\ calmAge \in Age /\ holdAge \in Age
          /\ RecoveryHold \in 0 .. MaxAge
        BY <1>3, TimeoutAssumption DEF TypeOK
    <2>5. QED
        BY <2>2, <2>3, <2>4, AgeAssumption DEF Age, None
<1>4. QED
    BY <1>2, <1>3, TypeCorrect, PTL DEF Spec, RecoveryIsEarned

=============================================================================
