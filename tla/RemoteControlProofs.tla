-------------------------- MODULE RemoteControlProofs --------------------------
(***************************************************************************)
(* Theorems of RemoteControl, for every set of watching tasks and of       *)
(* conditions that may go wrong.                                           *)
(***************************************************************************)
EXTENDS RemoteControl, TLAPS

\* No plan makes the aircraft enter the failsafe.
PlansAircraft ==
    \A t \in {"controller", "status_rx"} : plan[t].aircraft # "FAILSAFE"

TypeInv == RemoteTypeOK /\ PlansAircraft

\* What a gateway action or a button plans is well-typed.
LEMMA EffectType ==
    ASSUME RemoteTypeOK, NEW r \in Report
    PROVE  /\ Effect(r) \in Plan
           /\ Effect(r).aircraft # "FAILSAFE"
BY DEF Effect, Sets, RemoteTypeOK, Plan, NoPlan, Keep, RcState, CommandStatus

LEMMA GrantedType ==
    ASSUME RemoteTypeOK, NEW b \in Button
    PROVE  /\ Granted(b) \in Plan
           /\ Granted(b).aircraft # "FAILSAFE"
BY DEF Granted, Sets, RemoteTypeOK, Plan, NoPlan, Keep, RcState, CommandStatus

\* Moving a task to a label keeps pc's type.
LEMMA GoesType ==
    ASSUME pc \in [Task -> Label], NEW t \in Task, NEW l \in Label, Goes(t, l)
    PROVE  pc' \in [Task -> Label]
BY DEF Goes

LEMMA TaskNames ==
    /\ {"controller", "status_rx", "auto_clear"} \subseteq Task
    /\ Watcher \subseteq Task
    /\ Commander \subseteq Task
    /\ {"idle", "saw", "enter", "set", "ask", "clear", "reset", "write", "tell"}
         = Label
BY DEF Task, Commander, Label

\* A call of enter_failsafe.
LEMMA EnteringType ==
    ASSUME TypeInv, NEW t \in Commander, Entering(t)
    PROVE  TypeInv'
<1> USE TaskNames DEF TypeInv, RemoteTypeOK, PlansAircraft, stateVars, switchVars
<1>1. CASE EnterReads(t)
  BY <1>1, GoesType DEF EnterReads, Return
<1>2. CASE EnterSets(t)
  BY <1>2, GoesType DEF EnterSets, RcState
<1>3. CASE EnterAsks(t)
  BY <1>3, GoesType DEF EnterAsks, Return
<1>4. CASE EnterClears(t)
  BY <1>4, GoesType DEF EnterClears, Return, CommandStatus
<1> QED
  BY <1>1, <1>2, <1>3, <1>4 DEF Entering

LEMMA WritesType ==
    ASSUME TypeInv, NEW t \in {"controller", "status_rx"}, Writes(t)
    PROVE  TypeInv'
<1> USE TaskNames DEF TypeInv, RemoteTypeOK, PlansAircraft, stateVars, switchVars
<1>1. plan[t] \in Plan /\ plan[t].aircraft # "FAILSAFE"
  OBVIOUS
<1>2. command' \in RcState /\ aircraft' \in {"DISARMED", "ARMED"}
  BY <1>1 DEF Writes, Plan, RcState, Keep
<1> QED
  BY <1>2, GoesType DEF Writes

LEMMA TellsType ==
    ASSUME TypeInv, NEW t \in {"controller", "status_rx"}, Tells(t)
    PROVE  TypeInv'
<1> USE TaskNames DEF TypeInv, RemoteTypeOK, PlansAircraft, stateVars, switchVars
<1>1. plan[t] \in Plan
  OBVIOUS
<1>2. status' \in CommandStatus
  BY <1>1 DEF Tells, Plan, CommandStatus, Keep
<1>3. NoPlan \in Plan /\ NoPlan.aircraft # "FAILSAFE"
  BY DEF NoPlan, Plan, Keep
<1>4. /\ plan' \in [{"controller", "status_rx"} -> Plan]
      /\ PlansAircraft'
  BY <1>3 DEF Tells
<1> QED
  BY <1>2, <1>4, GoesType DEF Tells

LEMMA PressType ==
    ASSUME TypeInv, NEW b \in Button, Press(b)
    PROVE  TypeInv'
<1> USE TaskNames DEF TypeInv, RemoteTypeOK, PlansAircraft, stateVars, switchVars
<1>1. Granted(b) \in Plan /\ Granted(b).aircraft # "FAILSAFE"
  BY GrantedType
<1>2. pc' \in [Task -> Label]
  BY GoesType DEF Press
<1>3. /\ plan' \in [{"controller", "status_rx"} -> Plan]
      /\ PlansAircraft'
  BY <1>1 DEF Press
<1> QED
  BY <1>2, <1>3 DEF Press

LEMMA HearsType ==
    ASSUME TypeInv, NEW r \in Report, Hears(r)
    PROVE  TypeInv'
<1> USE TaskNames DEF TypeInv, RemoteTypeOK, PlansAircraft, stateVars, switchVars
<1>1. Effect(r) \in Plan /\ Effect(r).aircraft # "FAILSAFE"
  BY EffectType
<1>2. pc' \in [Task -> Label]
  BY GoesType DEF Hears
<1>3. /\ plan' \in [{"controller", "status_rx"} -> Plan]
      /\ PlansAircraft'
  BY <1>1 DEF Hears
<1> QED
  BY <1>2, <1>3 DEF Hears

\* The steps of the watching tasks, of status_rx and of auto_clear that are
\* left.
LEMMA OthersType ==
    ASSUME TypeInv,
           \/ \E c \in Condition : Changes(c)
           \/ \E w \in Watcher : Watch(w) \/ WatchChecks(w)
           \/ HearsNewSession \/ Resets \/ AutoClear
    PROVE  TypeInv'
<1> USE TaskNames DEF TypeInv, RemoteTypeOK, PlansAircraft, stateVars, switchVars
<1>1. CASE \E c \in Condition : Changes(c)
  BY <1>1 DEF Changes
<1>2. ASSUME NEW w \in Watcher, Watch(w) PROVE TypeInv'
  <2>1. pc' \in [Task -> Label]
    BY <1>2, GoesType DEF Watch
  <2>2. latch' \in BOOLEAN /\ stallFault' \in BOOLEAN
    BY <1>2 DEF Watch, Sees
  <2> QED
    BY <1>2, <2>1, <2>2 DEF Watch
<1>3. ASSUME NEW w \in Watcher, WatchChecks(w) PROVE TypeInv'
  BY <1>3, GoesType DEF WatchChecks
<1>4. CASE HearsNewSession
  BY <1>4, GoesType DEF HearsNewSession
<1>5. CASE Resets
  BY <1>5, GoesType DEF Resets, CommandStatus
<1>6. CASE AutoClear
  <2>1. CASE ClearReads
    BY <2>1, GoesType DEF ClearReads
  <2>2. CASE ClearChecks
    BY <2>2, GoesType DEF ClearChecks
  <2>3. CASE Clears
    BY <2>3, GoesType DEF Clears, CommandStatus
  <2> QED
    BY <1>6, <2>1, <2>2, <2>3 DEF AutoClear
<1> QED
  BY <1>1, <1>2, <1>3, <1>4, <1>5, <1>6

LEMMA TypeStep == TypeInv /\ [Next]_vars => TypeInv'
<1> SUFFICES ASSUME TypeInv, [Next]_vars PROVE TypeInv'
  OBVIOUS
<1>1. CASE UNCHANGED vars
  BY <1>1 DEF vars, stateVars, switchVars, TypeInv, RemoteTypeOK, PlansAircraft
<1>2. CASE Next
  <2>1. ASSUME NEW b \in Button, Press(b) PROVE TypeInv'
    BY <2>1, PressType
  <2>2. ASSUME NEW r \in Report, Hears(r) PROVE TypeInv'
    BY <2>2, HearsType
  <2>3. CASE Controller
    BY <2>3, EnteringType, WritesType, TellsType DEF Controller, Commander
  <2>4. CASE StatusRx
    BY <2>4, EnteringType, WritesType, TellsType, OthersType
       DEF StatusRx, Commander
  <2>5. ASSUME NEW w \in Watcher, Watching(w) PROVE TypeInv'
    BY <2>5, EnteringType, OthersType DEF Watching, Commander
  <2> QED
    BY <1>2, <2>1, <2>2, <2>3, <2>4, <2>5, OthersType DEF Next
<1> QED
  BY <1>1, <1>2

LEMMA TypeInit == Init => TypeInv
<1> SUFFICES ASSUME Init PROVE TypeInv
  OBVIOUS
<1>1. NoPlan \in Plan /\ NoPlan.aircraft # "FAILSAFE"
  BY DEF NoPlan, Plan, Keep
<1>2. latch \in BOOLEAN /\ released \in BOOLEAN /\ stallFault \in BOOLEAN
  <2>1. released = ("permission" \in wrong) /\ latch = ("permission" \notin wrong)
    BY DEF Init
  <2>2. released \in BOOLEAN
    BY <2>1
  <2>3. latch = ~released
    BY <2>1, Zenon
  <2>4. latch \in BOOLEAN
    BY <2>2, <2>3
  <2>5. stallFault \in BOOLEAN
    BY DEF Init
  <2> QED
    BY <2>2, <2>4, <2>5
<1>3. pc \in [Task -> Label]
  BY DEF Init, Label
<1>4. plan \in [{"controller", "status_rx"} -> Plan] /\ PlansAircraft
  BY <1>1 DEF Init, PlansAircraft
<1>5. /\ command \in RcState /\ status \in CommandStatus
      /\ aircraft \in {"DISARMED", "ARMED"} /\ wrong \subseteq Condition
  BY DEF Init, RcState, CommandStatus
<1> QED
  BY <1>2, <1>3, <1>4, <1>5 DEF TypeInv, RemoteTypeOK

\* Every variable of the remote controller keeps its type.
THEOREM RemoteTypeCorrect == Spec => []RemoteTypeOK
<1>1. Spec => []TypeInv
  BY TypeInit, TypeStep, PTL DEF Spec
<1> QED
  BY <1>1, PTL DEF TypeInv

-----------------------------------------------------------------------------
(* The boot latch.  Whatever can still lead to ARMED, a status, a plan or   *)
(* the open latch, is there only once the permission switch has been off.   *)

Arms(p) == p.command = "ARMED" \/ p.status = "ARMING"

LatchInv ==
    /\ ~latch => released
    /\ command = "ARMED" \/ status = "ARMING" => released
    /\ \A t \in {"controller", "status_rx"} : Arms(plan[t]) => released

\* A gateway action arms only what the status says is being armed, a button
\* only with the latch open.
LEMMA EffectArms ==
    ASSUME RemoteTypeOK, LatchInv, NEW r \in Report, Arms(Effect(r))
    PROVE  released
BY DEF Effect, Sets, RemoteTypeOK, NoPlan, Keep, Arms, LatchInv

LEMMA GrantedArms ==
    ASSUME RemoteTypeOK, LatchInv, NEW b \in Button, Arms(Granted(b))
    PROVE  released
BY DEF Granted, PreArm, RecoverChecks, Sets, RemoteTypeOK, NoPlan, Keep, Arms,
       LatchInv

LEMMA LatchEntering ==
    ASSUME TypeInv, LatchInv, NEW t \in Commander, Entering(t)
    PROVE  LatchInv'
BY DEF TypeInv, LatchInv, Arms, Entering, EnterReads, EnterSets, EnterAsks,
       EnterClears, stateVars, switchVars

LEMMA LatchPlans ==
    ASSUME TypeInv, LatchInv, NEW t \in {"controller", "status_rx"},
           Writes(t) \/ Tells(t)
    PROVE  LatchInv'
<1>1. CASE Writes(t)
  BY <1>1 DEF Writes, TypeInv, LatchInv, Arms, stateVars, switchVars
<1>2. CASE Tells(t)
  <2>1. ~Arms(NoPlan)
    BY DEF Arms, NoPlan, Keep
  <2>2. \A u \in {"controller", "status_rx"} : Arms(plan'[u]) => Arms(plan[u])
    BY <1>2, <2>1 DEF Tells, TypeInv, RemoteTypeOK
  <2>3. status' = "ARMING" => status = "ARMING" \/ Arms(plan[t])
    BY <1>2 DEF Tells, Arms
  <2> QED
    BY <1>2, <2>2, <2>3 DEF Tells, LatchInv, stateVars, switchVars
<1> QED
  BY <1>1, <1>2

LEMMA LatchPress ==
    ASSUME TypeInv, LatchInv, NEW b \in Button, Press(b)
    PROVE  LatchInv'
<1>1. \A u \in {"controller", "status_rx"} :
        Arms(plan'[u]) => Arms(plan[u]) \/ Arms(Granted(b))
  BY DEF Press, TypeInv, RemoteTypeOK
<1>2. Arms(Granted(b)) => released
  BY GrantedArms DEF TypeInv
<1> QED
  BY <1>1, <1>2 DEF Press, LatchInv, stateVars, switchVars

LEMMA LatchHears ==
    ASSUME TypeInv, LatchInv, NEW r \in Report, Hears(r)
    PROVE  LatchInv'
<1>1. \A u \in {"controller", "status_rx"} :
        Arms(plan'[u]) => Arms(plan[u]) \/ Arms(Effect(r))
  BY DEF Hears, TypeInv, RemoteTypeOK
<1>2. Arms(Effect(r)) => released
  BY EffectArms DEF TypeInv
<1> QED
  BY <1>1, <1>2 DEF Hears, LatchInv, stateVars, switchVars

\* arm_safety opens the latch when it sees the switch off, which is then part
\* of the history.
LatchSeen == "permission" \in wrong => released

LEMMA LatchOthers ==
    ASSUME TypeInv, LatchInv, LatchSeen,
           \/ \E c \in Condition : Changes(c)
           \/ \E w \in Watcher : Watch(w) \/ WatchChecks(w)
           \/ HearsNewSession \/ Resets \/ AutoClear
    PROVE  LatchInv'
BY DEF TypeInv, RemoteTypeOK, LatchInv, LatchSeen, Arms, Changes, Watch,
       WatchChecks, HearsNewSession, Resets, AutoClear, ClearReads, ClearChecks,
       Clears, stateVars, switchVars

LEMMA LatchStep ==
    TypeInv /\ LatchInv /\ LatchSeen /\ [Next]_vars
    => LatchInv' /\ LatchSeen'
<1> SUFFICES ASSUME TypeInv, LatchInv, LatchSeen, [Next]_vars
             PROVE  LatchInv' /\ LatchSeen'
  OBVIOUS
<1>1. CASE UNCHANGED vars
  BY <1>1 DEF vars, stateVars, switchVars, LatchInv, LatchSeen, Arms
<1>2. CASE Next
  <2>1. LatchSeen'
    BY <1>2 DEF LatchSeen, Next, Changes, Press, Hears, HearsNewSession,
       Controller, StatusRx, AutoClear, Watching, Entering, EnterReads,
       EnterSets, EnterAsks, EnterClears, Resets, Writes, Tells, ClearReads,
       ClearChecks, Clears, Watch, WatchChecks, switchVars, RemoteTypeOK, TypeInv
  <2>2. ASSUME NEW b \in Button, Press(b) PROVE LatchInv'
    BY <2>2, LatchPress
  <2>3. ASSUME NEW r \in Report, Hears(r) PROVE LatchInv'
    BY <2>3, LatchHears
  <2>4. CASE Controller
    <3>1. CASE Entering("controller")
      BY <2>1, <3>1, LatchEntering DEF Commander
    <3>2. CASE Writes("controller") \/ Tells("controller")
      BY <2>1, <3>2, LatchPlans
    <3> QED
      BY <2>4, <3>1, <3>2 DEF Controller
  <2>5. CASE StatusRx
    <3>1. CASE Entering("status_rx")
      BY <2>1, <3>1, LatchEntering DEF Commander
    <3>2. CASE Writes("status_rx") \/ Tells("status_rx")
      BY <2>1, <3>2, LatchPlans
    <3>3. CASE Resets
      BY <2>1, <3>3, LatchOthers
    <3> QED
      BY <2>5, <3>1, <3>2, <3>3 DEF StatusRx
  <2>6. ASSUME NEW w \in Watcher, Watching(w) PROVE LatchInv'
    BY <2>6, LatchEntering, LatchOthers DEF Watching, Commander
  <2> QED
    BY <1>2, <2>1, <2>2, <2>3, <2>4, <2>5, <2>6, LatchOthers DEF Next
<1> QED
  BY <1>1, <1>2

LEMMA LatchInit == Init => LatchInv /\ LatchSeen
<1> SUFFICES ASSUME Init PROVE LatchInv /\ LatchSeen
  OBVIOUS
<1>1. released = ("permission" \in wrong) /\ latch = ("permission" \notin wrong)
  BY DEF Init
<1>2. (~latch => released) /\ LatchSeen
  BY <1>1, Zenon DEF LatchSeen
<1>3. command = "DISARMED" /\ status = "IDLE"
      /\ \A t \in {"controller", "status_rx"} : plan[t] = NoPlan
  BY DEF Init
<1>4. ~Arms(NoPlan)
  BY DEF Arms, NoPlan, Keep
<1> QED
  BY <1>2, <1>3, <1>4 DEF LatchInv

\* "If ARM permission switch was ON during boot, arming stays blocked until
\* the operator moves it OFF once": no button, no late answer and no race
\* between the tasks gets around it.
THEOREM ArmingNeedsReleased == Spec => []ArmingNeedsReleasedSwitch
<1>1. Spec => [](TypeInv /\ LatchInv /\ LatchSeen)
  BY TypeInit, TypeStep, LatchInit, LatchStep, PTL DEF Spec
<1>2. LatchInv => ArmingNeedsReleasedSwitch
  BY DEF LatchInv, ArmingNeedsReleasedSwitch
<1> QED
  BY <1>1, <1>2, PTL
-----------------------------------------------------------------------------
(* Who arms.  At rest, no task but the controller has a plan that leads to  *)
(* ARMED, and the controller makes one for ARM and for RECOVER only.        *)

LEMMA QuietPlans ==
    ASSUME RemoteTypeOK
    PROVE  Quiet <=> /\ command # "ARMED" /\ status # "ARMING"
                     /\ \A t \in {"controller", "status_rx"} : ~Arms(plan[t])
<1>1. DOMAIN plan = {"controller", "status_rx"}
  BY DEF RemoteTypeOK
<1> QED
  BY <1>1 DEF Quiet, Arms

\* A gateway action arms only an RC that is waiting for it, a button only when
\* it is ARM or RECOVER.
LEMMA EffectQuiet ==
    ASSUME status # "ARMING", NEW r \in Report
    PROVE  ~Arms(Effect(r))
BY DEF Effect, Sets, NoPlan, Keep, Arms

LEMMA GrantedQuiet ==
    ASSUME NEW b \in Button, Arms(Granted(b))
    PROVE  b \in {"ARM", "RECOVER"}
BY DEF Granted, Sets, NoPlan, Keep, Arms

LEMMA QuietEntering ==
    ASSUME TypeInv, Quiet, NEW t \in Commander, Entering(t)
    PROVE  Quiet'
BY DEF Quiet, Entering, EnterReads, EnterSets, EnterAsks, EnterClears,
       stateVars, switchVars

LEMMA QuietCarriesOut ==
    ASSUME TypeInv, TypeInv', Quiet, NEW t \in {"controller", "status_rx"},
           Writes(t) \/ Tells(t)
    PROVE  Quiet'
<1>1. \A u \in {"controller", "status_rx"} : ~Arms(plan[u])
  BY QuietPlans DEF TypeInv
<1>2. CASE Writes(t)
  <2>1. command' # "ARMED" /\ UNCHANGED <<status, plan>>
    BY <1>1, <1>2 DEF Writes, Quiet, Arms
  <2> QED
    BY <2>1 DEF Quiet
<1>3. CASE Tells(t)
  <2>1. command' # "ARMED" /\ status' # "ARMING"
    BY <1>1, <1>3 DEF Tells, Quiet, Arms
  <2>2. ~Arms(NoPlan)
    BY DEF Arms, NoPlan, Keep
  <2>3. \A u \in {"controller", "status_rx"} : ~Arms(plan'[u])
    BY <1>1, <1>3, <2>2 DEF Tells, TypeInv, RemoteTypeOK
  <2> QED
    BY <2>1, <2>3, QuietPlans DEF TypeInv, Quiet, Arms, RemoteTypeOK
<1> QED
  BY <1>2, <1>3

LEMMA QuietPress ==
    ASSUME TypeInv, Quiet, NEW b \in Button, Press(b),
           b \notin {"ARM", "RECOVER"}
    PROVE  Quiet'
<1>1. ~Arms(Granted(b))
  BY GrantedQuiet
<1> QED
  BY <1>1 DEF Press, Quiet, Arms, TypeInv, RemoteTypeOK, stateVars

LEMMA QuietHears ==
    ASSUME TypeInv, Quiet, NEW r \in Report, Hears(r)
    PROVE  Quiet'
<1>1. ~Arms(Effect(r))
  BY EffectQuiet DEF Quiet
<1> QED
  BY <1>1 DEF Hears, Quiet, Arms, TypeInv, RemoteTypeOK

LEMMA QuietOthers ==
    ASSUME TypeInv, Quiet,
           \/ \E c \in Condition : Changes(c)
           \/ \E w \in Watcher : Watch(w) \/ WatchChecks(w)
           \/ HearsNewSession \/ Resets \/ AutoClear
    PROVE  Quiet'
BY DEF Quiet, Changes, Watch, WatchChecks, HearsNewSession, Resets, AutoClear,
       ClearReads, ClearChecks, Clears, stateVars, switchVars

LEMMA QuietStep ==
    ASSUME TypeInv, TypeInv', Quiet, [Next]_vars, ~Quiet'
    PROVE  Press("ARM") \/ Press("RECOVER")
<1>1. CASE UNCHANGED vars
  BY <1>1 DEF vars, stateVars, Quiet
<1>2. CASE Next
  <2>1. ASSUME NEW b \in Button, Press(b) PROVE b \in {"ARM", "RECOVER"}
    BY <2>1, QuietPress
  <2>2. ASSUME NEW r \in Report, Hears(r) PROVE FALSE
    BY <2>2, QuietHears
  <2>3. ~Controller
    BY QuietEntering, QuietCarriesOut DEF Controller, Commander
  <2>4. ~StatusRx
    BY QuietEntering, QuietCarriesOut, QuietOthers DEF StatusRx, Commander
  <2>5. ASSUME NEW w \in Watcher, Watching(w) PROVE FALSE
    BY <2>5, QuietEntering, QuietOthers DEF Watching, Commander
  <2>6. \E b \in Button : Press(b)
    BY <1>2, <2>2, <2>3, <2>4, <2>5, QuietOthers DEF Next
  <2> QED
    BY <2>1, <2>6
<1> QED
  BY <1>1, <1>2

\* An RC that is neither armed nor asking to be becomes so by the pilot's ARM
\* or RECOVER only: no late answer and no other task does it.
THEOREM OnlyPilotEverArms == Spec => OnlyPilotArms
<1>1. Spec => []TypeInv
  BY TypeInit, TypeStep, PTL DEF Spec
<1>2. TypeInv /\ TypeInv' /\ [Next]_vars
      => [Quiet /\ ~Quiet' => Press("ARM") \/ Press("RECOVER")]_vars
  BY QuietStep
<1> QED
  BY <1>1, <1>2, PTL DEF Spec, OnlyPilotArms
=============================================================================
