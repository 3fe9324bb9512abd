---------------------------- MODULE RemoteControl ----------------------------
(***************************************************************************)
(* The remote controller (RC) in flight: the pilot's buttons, the switches *)
(* and links that end his control, and the gateway's answers.              *)
(* (remote_controller main.c, secure gateway mode.)                        *)
(*                                                                         *)
(* The command state, the command status and the aircraft's state are each *)
(* set under a lock, but a task reads one and sets another later: each     *)
(* task is cut at its accesses to them.  What goes wrong around the RC,    *)
(* and what the gateway reports, is left to the environment.               *)
(***************************************************************************)
EXTENDS Naturals, FiniteSets

CONSTANTS
    Watcher,            \* the tasks that may enter the failsafe by themselves
    Condition           \* what may be wrong with switches, links and tasks

AllWatchers == {"arm_safety", "system_health", "task_supervisor"}
AllConditions == {"master", "permission", "link", "input", "stalled"}

ASSUME RemoteAssumption ==
    Watcher \subseteq AllWatchers /\ Condition \subseteq AllConditions

RcState == {"DISARMED", "ARMED", "FAILSAFE"}
CommandStatus == {"IDLE", "ARMING", "DISARMING", "DENIED", "TIMEOUT"}
Button == {"ARM", "DISARM", "FAILSAFE", "RECOVER"}

\* The gateway's actions; "NONE" also stands for the RTL actions and the dry
\* runs, which change nothing here.
Action == {"NONE", "ARM_REAL_SENT", "ARM_CONFIRMED", "ARM_DENIED",
           "ARM_TIMEOUT", "DISARM_REAL_SENT", "DISARM_CONFIRMED",
           "DISARM_DENIED", "DISARM_TIMEOUT"}
Report == [armed : BOOLEAN, action : Action]

\* What a task is about to set; Keep is no state and no status.
Keep == "keep"
Plan == [command : RcState \cup {Keep}, aircraft : RcState \cup {Keep},
         status : CommandStatus \cup {Keep}]
NoPlan == [command |-> Keep, aircraft |-> Keep, status |-> Keep]

\* The tasks that set the command state; auto_clear sets the status only.
Commander == Watcher \cup {"controller", "status_rx"}
Task == Commander \cup {"auto_clear"}
Label == {"idle", "saw", "enter", "set", "ask", "clear", "reset",
          "write", "tell"}

VARIABLES
    command,        \* drone_command_state
    status,         \* command_status
    aircraft,       \* drone_state
    latch,          \* arm_boot_latch_active
    stallFault,     \* FAULT_TASK_STALLED
    wrong,          \* which conditions are wrong now
    pc,             \* where each task is
    plan,           \* what controller and status_rx are about to set
    released        \* history: the permission switch was off since the start

stateVars == <<command, status, aircraft>>
switchVars == <<latch, stallFault, wrong, released>>
vars == <<stateVars, switchVars, pc, plan>>

RemoteTypeOK ==
    /\ command \in RcState /\ status \in CommandStatus
    /\ aircraft \in {"DISARMED", "ARMED"}
    /\ latch \in BOOLEAN /\ stallFault \in BOOLEAN
    /\ wrong \subseteq Condition
    /\ pc \in [Task -> Label]
    /\ plan \in [{"controller", "status_rx"} -> Plan]
    /\ released \in BOOLEAN

Goes(t, label) == pc' = [pc EXCEPT ![t] = label]

-----------------------------------------------------------------------------
(* The environment.                                                        *)

\* A switch is moved, a link or an input is lost or comes back, a task stalls
\* or runs again.
Changes(c) ==
    /\ wrong' = IF c \in wrong THEN wrong \ {c} ELSE wrong \cup {c}
    /\ released' = (released \/ "permission" \in wrong')
    /\ UNCHANGED <<stateVars, latch, stallFault, pc, plan>>

-----------------------------------------------------------------------------
(* enter_failsafe, in whichever task calls it.                             *)

\* Where a task goes on after the call.
Return(t) == Goes(t, IF t = "status_rx" THEN "reset" ELSE "idle")

EnterReads(t) ==
    /\ pc[t] = "enter"
    /\ IF command = "FAILSAFE" THEN Return(t) ELSE Goes(t, "set")
    /\ UNCHANGED <<stateVars, switchVars, plan>>

EnterSets(t) ==
    /\ pc[t] = "set"
    /\ command' = "FAILSAFE"
    /\ Goes(t, "ask")
    /\ UNCHANGED <<status, aircraft, switchVars, plan>>

EnterAsks(t) ==
    /\ pc[t] = "ask"
    /\ IF status = "ARMING" THEN Goes(t, "clear") ELSE Return(t)
    /\ UNCHANGED <<stateVars, switchVars, plan>>

EnterClears(t) ==
    /\ t \in Commander /\ pc[t] = "clear"
    /\ status' = "IDLE"
    /\ Return(t)
    /\ UNCHANGED <<command, aircraft, switchVars, plan>>

Entering(t) == EnterReads(t) \/ EnterSets(t) \/ EnterAsks(t) \/ EnterClears(t)

-----------------------------------------------------------------------------
(* The tasks that watch the RC's surroundings.                             *)

\* What each of them looks at.
Cause(w) == CASE w = "arm_safety"      -> {"master", "permission"}
              [] w = "system_health"   -> {"link", "input"}
              [] w = "task_supervisor" -> {"stalled"}
Sees(w) == Cause(w) \cap wrong # {}

\* system_health reads the command state first and its causes later, the
\* other two the other way round.
LooksFirst(w) == IF w = "system_health" THEN command = "ARMED" ELSE Sees(w)
LooksThen(w) == IF w = "system_health" THEN Sees(w) ELSE command = "ARMED"

\* arm_safety also ends the boot latch, the supervisor sets or clears its fault.
Watch(w) ==
    /\ pc[w] = "idle"
    /\ IF LooksFirst(w) THEN Goes(w, "saw") ELSE UNCHANGED pc
    /\ latch' = (latch /\ ~(w = "arm_safety" /\ "permission" \in wrong))
    /\ stallFault' = IF w = "task_supervisor" THEN Sees(w) ELSE stallFault
    /\ UNCHANGED <<stateVars, wrong, released, plan>>

WatchChecks(w) ==
    /\ pc[w] = "saw"
    /\ Goes(w, IF LooksThen(w) THEN "enter" ELSE "idle")
    /\ UNCHANGED <<stateVars, switchVars, plan>>

-----------------------------------------------------------------------------
(* controller_task: the pilot's buttons.                                   *)

\* A plausible bug: the boot latch is not looked at.
PreArmUnlatched ==
    /\ command # "FAILSAFE"
    /\ wrong \cap {"master", "permission", "input", "link"} = {}
    /\ ~stallFault

\* get_arm_status is READY.  (The sticks may also be out of place.)
PreArm ==
    /\ command # "FAILSAFE"
    /\ wrong \cap {"master", "permission", "input", "link"} = {}
    /\ ~latch /\ ~stallFault

\* recover_checks_pass; the same report that sets the aircraft's state says
\* whether it is armed.
RecoverChecks ==
    /\ wrong \cap {"master", "permission", "input", "link"} = {}
    /\ ~latch /\ ~stallFault
    /\ aircraft = "ARMED"

Sets(c, s) == [NoPlan EXCEPT !.command = c, !.status = s]

\* What the button is to change, from the state it finds.
Granted(b) ==
    CASE b = "ARM" /\ command = "DISARMED" /\ PreArm -> Sets("ARMED", "ARMING")
      [] b = "RECOVER" /\ command = "FAILSAFE" /\ RecoverChecks
            -> Sets("ARMED", "IDLE")
      [] b = "DISARM" /\ command = "ARMED" -> Sets("DISARMED", "DISARMING")
      [] b = "DISARM" /\ command = "FAILSAFE" /\ "permission" \in wrong
            -> Sets("DISARMED", Keep)
      [] OTHER -> NoPlan

Press(b) ==
    /\ pc["controller"] = "idle"
    /\ \/ /\ b = "FAILSAFE" /\ command = "ARMED"
          /\ Goes("controller", "enter") /\ UNCHANGED plan
       \/ /\ Granted(b) # NoPlan
          /\ plan' = [plan EXCEPT !["controller"] = Granted(b)]
          /\ Goes("controller", "write")
       \/ /\ b \in {"ARM", "RECOVER"} \/ Granted(b) = NoPlan
          /\ b = "FAILSAFE" => command # "ARMED"
          /\ UNCHANGED <<pc, plan>>
    /\ UNCHANGED <<stateVars, switchVars>>

-----------------------------------------------------------------------------
(* gateway_status_rx_task and gateway_status_apply_to_remote.              *)

\* A plausible bug: the confirmation of an ARM is obeyed whenever it comes.
EffectUnasked(r) ==
    LET both(c, s) == [command |-> c, aircraft |-> c, status |-> s]
    IN  CASE r.action = "ARM_REAL_SENT" /\ status = "ARMING"
               -> [NoPlan EXCEPT !.status = "ARMING"]
          [] r.action = "ARM_CONFIRMED" /\ r.armed
               -> both("ARMED", "IDLE")
          [] r.action = "ARM_DENIED" /\ status = "ARMING"
               -> both("DISARMED", "DENIED")
          [] r.action = "ARM_TIMEOUT" /\ status = "ARMING"
               -> both("DISARMED", "TIMEOUT")
          [] r.action = "DISARM_REAL_SENT" /\ status = "DISARMING"
               -> [NoPlan EXCEPT !.status = "DISARMING"]
          [] r.action = "DISARM_CONFIRMED" /\ status = "DISARMING"
             /\ command # "FAILSAFE"
               -> both("DISARMED", "IDLE")
          [] r.action = "DISARM_DENIED" /\ status = "DISARMING"
               -> Sets("DISARMED", "DENIED")
          [] r.action = "DISARM_TIMEOUT" /\ status = "DISARMING"
               -> Sets("DISARMED", "TIMEOUT")
          [] OTHER -> NoPlan

\* What an action of the gateway is to change, from the status and the
\* command state read before.
Effect(r) ==
    LET both(c, s) == [command |-> c, aircraft |-> c, status |-> s]
    IN  CASE r.action = "ARM_REAL_SENT" /\ status = "ARMING"
               -> [NoPlan EXCEPT !.status = "ARMING"]
          [] r.action = "ARM_CONFIRMED" /\ r.armed /\ status = "ARMING"
               -> both("ARMED", "IDLE")
          [] r.action = "ARM_DENIED" /\ status = "ARMING"
               -> both("DISARMED", "DENIED")
          [] r.action = "ARM_TIMEOUT" /\ status = "ARMING"
               -> both("DISARMED", "TIMEOUT")
          [] r.action = "DISARM_REAL_SENT" /\ status = "DISARMING"
               -> [NoPlan EXCEPT !.status = "DISARMING"]
          [] r.action = "DISARM_CONFIRMED" /\ status = "DISARMING"
             /\ command # "FAILSAFE"
               -> both("DISARMED", "IDLE")
          [] r.action = "DISARM_DENIED" /\ status = "DISARMING"
               -> Sets("DISARMED", "DENIED")
          [] r.action = "DISARM_TIMEOUT" /\ status = "DISARMING"
               -> Sets("DISARMED", "TIMEOUT")
          [] OTHER -> NoPlan

Hears(r) ==
    /\ pc["status_rx"] = "idle"
    /\ aircraft' = IF r.armed THEN "ARMED" ELSE "DISARMED"
    /\ plan' = [plan EXCEPT !["status_rx"] = Effect(r)]
    /\ Goes("status_rx", IF Effect(r) = NoPlan THEN "idle" ELSE "write")
    /\ UNCHANGED <<command, status, switchVars>>

\* The first status of a new gateway session finds the RC or the aircraft
\* armed: the failsafe is entered and the command status set to IDLE.  What
\* that status says is heard after that.
HearsNewSession ==
    /\ pc["status_rx"] = "idle"
    /\ command = "ARMED" \/ aircraft = "ARMED"
    /\ Goes("status_rx", "enter")
    /\ UNCHANGED <<stateVars, switchVars, plan>>

Resets ==
    /\ pc["status_rx"] = "reset"
    /\ status' = "IDLE" /\ Goes("status_rx", "idle")
    /\ UNCHANGED <<command, aircraft, switchVars, plan>>

\* The command state (and the aircraft's) is set, then the status.
Writes(t) ==
    LET p == plan[t]
    IN  /\ pc[t] = "write"
        /\ command' = IF p.command = Keep THEN command ELSE p.command
        /\ aircraft' = IF p.aircraft = Keep THEN aircraft ELSE p.aircraft
        /\ Goes(t, "tell")
        /\ UNCHANGED <<status, switchVars, plan>>

\* A plausible bug: a status is set though there is none to set.
TellsAlways(t) ==
    /\ pc[t] = "tell"
    /\ status' = plan[t].status
    /\ plan' = [plan EXCEPT ![t] = NoPlan]
    /\ Goes(t, "idle")
    /\ UNCHANGED <<command, aircraft, switchVars>>

Tells(t) ==
    /\ pc[t] = "tell"
    /\ status' = IF plan[t].status = Keep THEN status ELSE plan[t].status
    /\ plan' = [plan EXCEPT ![t] = NoPlan]
    /\ Goes(t, "idle")
    /\ UNCHANGED <<command, aircraft, switchVars>>

-----------------------------------------------------------------------------
(* command_status_auto_clear_task: a refusal shown long enough is cleared. *)

ClearReads ==
    /\ pc["auto_clear"] = "idle" /\ status \in {"DENIED", "TIMEOUT"}
    /\ Goes("auto_clear", "saw")
    /\ UNCHANGED <<stateVars, switchVars, plan>>

ClearChecks ==
    /\ pc["auto_clear"] = "saw"
    /\ Goes("auto_clear",
            IF command = "DISARMED" /\ aircraft = "ARMED" THEN "idle"
            ELSE "clear")
    /\ UNCHANGED <<stateVars, switchVars, plan>>

Clears ==
    /\ pc["auto_clear"] = "clear"
    /\ status' = "IDLE" /\ Goes("auto_clear", "idle")
    /\ UNCHANGED <<command, aircraft, switchVars, plan>>

-----------------------------------------------------------------------------
\* Power on, on the ground or in flight.
Init ==
    /\ command = "DISARMED" /\ status = "IDLE" /\ aircraft = "DISARMED"
    /\ wrong \in SUBSET Condition
    /\ released = ("permission" \in wrong)
    /\ latch = ("permission" \notin wrong)
    /\ stallFault = FALSE
    /\ pc = [t \in Task |-> "idle"]
    /\ plan = [t \in {"controller", "status_rx"} |-> NoPlan]

Controller ==
    Entering("controller") \/ Writes("controller") \/ Tells("controller")
StatusRx ==
    \/ Entering("status_rx") \/ Resets
    \/ Writes("status_rx") \/ Tells("status_rx")
Watching(w) == Watch(w) \/ WatchChecks(w) \/ Entering(w)
AutoClear == ClearReads \/ ClearChecks \/ Clears

Next ==
    \/ \E c \in Condition : Changes(c)
    \/ \E b \in Button : Press(b)
    \/ \E r \in Report : Hears(r)
    \/ HearsNewSession
    \/ Controller \/ StatusRx \/ AutoClear
    \/ \E w \in Watcher : Watching(w)

Spec == Init /\ [][Next]_vars

\* Every task runs; the pilot, the gateway and the surroundings need not.
Fairness ==
    /\ WF_vars(Controller) /\ WF_vars(StatusRx)
    /\ \A w \in Watcher : WF_vars(Watching(w))

FairSpec == Spec /\ Fairness

-----------------------------------------------------------------------------
(* Properties.                                                             *)

\* "If ARM permission switch was ON during boot, arming stays blocked until
\* the operator moves it OFF once" (main.c:3397), through whichever task.
ArmingNeedsReleasedSwitch == command = "ARMED" => released

\* Late answers may bring the RC back to ARMED behind a failsafe, but not for
\* as long as its cause lasts.
LossIsFinal ==
    \A w \in Watcher : <>[]Sees(w) => <>[](command # "ARMED")

\* A pilot who presses DISARM again and again, and nothing else, is obeyed,
\* whatever the gateway still reports of an earlier ARM.
PilotPrevails ==
    /\ <>[][\A b \in Button \ {"DISARM"} : ~Press(b)]_vars
    /\ WF_vars(Press("DISARM"))
    => <>[](command # "ARMED")

\* Neither armed, nor asking to be, nor about to do one or the other.
Quiet ==
    /\ command # "ARMED" /\ status # "ARMING"
    /\ \A t \in DOMAIN plan :
          plan[t].command # "ARMED" /\ plan[t].status # "ARMING"

\* Only the pilot's ARM or RECOVER can end that: no answer to an earlier ARM,
\* however late, and no other task arms the RC or makes it wait for an arming
\* (gateway_status_apply_to_remote acts on the status it finds, main.c:4310).
OnlyPilotArms ==
    [][Quiet /\ ~Quiet' => Press("ARM") \/ Press("RECOVER")]_vars

\* "keep FAILSAFE latched until the operator resets it intentionally"
\* (main.c:4331): nobody but the pilot takes the RC back from it to ARMED.
FailsafeIsLatched ==
    [][command = "FAILSAFE" /\ command' = "ARMED"
       => pc["controller"] = "write" /\ pc'["controller"] = "tell"]_vars
=============================================================================
