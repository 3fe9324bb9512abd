--------------------------- MODULE RcStorageProofs ---------------------------
(***************************************************************************)
(* Theorems of RcStorage, for any number of aircraft, slots and keys, with *)
(* power lost and writes failing at any access.                            *)
(***************************************************************************)
EXTENDS RcStorage, FiniteSetTheorems, TLAPS

-----------------------------------------------------------------------------
(* Types.                                                                  *)

\* The last steps of a start in normal mode have an aircraft to fly.
Late == {"wrap", "agree", "retire", "reserve"}
ChosenInv == phase = "boot" /\ boot \in Late => chosen \in Slot

TypeInv == StorageTypeOK /\ ChosenInv

LEMMA ConstantTypes ==
    /\ Blank \in Record /\ NoJob \in Job /\ Unpaired \in Enrollment
    /\ 0 \in Slot /\ 0 \in 0 .. SlotCount /\ SlotCount \in 0 .. SlotCount
    /\ Slot \subseteq 0 .. SlotCount /\ Slot \subseteq Nat
BY FleetAssumption DEF Blank, Record, NoJob, Job, Step, Slot, Unpaired,
   Enrollment

\* A lookup that succeeds has found a slot.
LEMMA LookupFinds ==
    ASSUME NEW u
    PROVE  /\ Lookup(u) \in {"ok", "notFound", "conflict", "error"}
           /\ Lookup(u) = "ok" => SlotOf(u) \in Matches(u)
           /\ SlotOf(u) \in Matches(u)
              => /\ SlotOf(u) \in Slot /\ slot[SlotOf(u)].uid = u
                 /\ slot[SlotOf(u)].state \in {"ACTIVE", "REVOKED"}
           /\ Lookup(u) = "notFound" => Matches(u) = {}
BY DEF Lookup, SlotOf, Matches, Occupied

LEMMA WrittenType ==
    ASSUME StorageTypeOK, NEW s \in Slot, NEW r \in Record,
           NEW o \in SaveOutcome(s, r)
    PROVE  /\ o.flash \in [Slot -> Record]
           /\ o.says \in {"ok", "conflict", "error"}
<1>1. ASSUME r.counter # MaxCounter
      PROVE  Written(s, r) \in [Slot -> Record]
  <2>1. r.counter + 1 \in 0 .. MaxCounter
    BY <1>1, FleetAssumption DEF Record
  <2>2. [r EXCEPT !.counter = @ + 1] \in Record
    BY <2>1 DEF Record
  <2> QED
    BY <2>2 DEF Written, StorageTypeOK, FleetTypeOK
<1> QED
  BY <1>1 DEF SaveOutcome, StorageTypeOK, FleetTypeOK

LEMMA JobType ==
    ASSUME StorageTypeOK, NEW w \in Worker
    PROVE  job[w] \in Job /\ job[w].slot \in Slot /\ job[w].record \in Record
           /\ job[w].uid \in Uid \cup {Nobody}
BY DEF StorageTypeOK, FleetTypeOK, Job

\* The ways in which a task goes on.
LEMMA GoType ==
    ASSUME FleetTypeOK, NEW w \in Worker, NEW step \in Step, Go(w, step)
    PROVE  job' \in [Worker -> Job]
BY DEF Go, FleetTypeOK, Job
LEMMA EndType ==
    ASSUME FleetTypeOK, NEW w \in Worker,
           NEW code \in {"ok", "notFound", "conflict", "error"}, End(w, code)
    PROVE  /\ job' \in [Worker -> Job]
           /\ answer' \in [Worker -> {"none", "ok", "notFound", "conflict",
                                      "error"}]
BY ConstantTypes DEF End, FleetTypeOK

LEMMA HttpRequestType ==
    ASSUME FleetTypeOK, NEW u \in Uid,
           NEW kind \in {"revoke", "restore", "delete", "select"},
           HttpRequest(kind, u)
    PROVE  FleetTypeOK'
<1>1. CASE UNCHANGED answer /\ Lookup(u) = "ok"
  <2>1. SlotOf(u) \in Slot
    BY <1>1, LookupFinds
  <2> DEFINE record == [slot[SlotOf(u)] EXCEPT !.state = Judged(kind)]
             new == [kind |-> kind, at |-> FirstWrite(kind), uid |-> u,
                     slot |-> SlotOf(u), record |-> record]
  <2>2. record \in Record
    BY <2>1 DEF FleetTypeOK, Record, Judged
  <2>3. new \in Job
    BY <2>1, <2>2 DEF Job, Step, FirstWrite
  <2>4. job' = [job EXCEPT !["http"] = new] \/ End("http", "conflict")
    BY <1>1 DEF HttpRequest
  <2>5. "http" \in Worker
    BY DEF Worker
  <2>6. UNCHANGED <<slot, selected>>
    BY DEF HttpRequest
  <2> QED
    BY <1>1, <2>3, <2>4, <2>5, <2>6, EndType DEF FleetTypeOK
<1>2. CASE \E code \in {"ok", "notFound", "conflict", "error"} :
             End("http", code)
  BY <1>2, EndType DEF HttpRequest, FleetTypeOK, Worker
<1> QED
  BY <1>1, <1>2, LookupFinds DEF HttpRequest

LEMMA HttpStepType ==
    ASSUME StorageTypeOK, HttpStep
    PROVE  FleetTypeOK'
<1>1. "http" \in Worker
  BY DEF Worker
<1>2. FleetTypeOK /\ job["http"].slot \in Slot /\ job["http"].record \in Record
      /\ job["http"].uid \in Uid \cup {Nobody}
  BY <1>1, JobType DEF StorageTypeOK
<1>3. CASE HttpSaves
  <2>1. PICK o \in SaveOutcome(job["http"].slot, job["http"].record) :
          /\ slot' = o.flash
          /\ (Go("http", "clear") /\ UNCHANGED answer) \/ End("http", o.says)
    BY <1>3 DEF HttpSaves
  <2>2. o.flash \in [Slot -> Record] /\ o.says \in {"ok", "conflict", "error"}
    BY <1>2, WrittenType
  <2>3. "clear" \in Step
    BY DEF Step
  <2> QED
    BY <1>1, <1>2, <1>3, <2>1, <2>2, <2>3, GoType, EndType
       DEF HttpSaves, FleetTypeOK
<1>4. CASE HttpClears
  BY <1>1, <1>2, <1>4, EndType DEF HttpClears, FleetTypeOK
<1>5. CASE HttpSelects
  BY <1>1, <1>2, <1>5, EndType DEF HttpSelects, FleetTypeOK
<1>6. CASE HttpErases
  BY <1>1, <1>2, <1>6, EndType, ConstantTypes DEF HttpErases, FleetTypeOK
<1> QED
  BY <1>3, <1>4, <1>5, <1>6 DEF HttpStep

LEMMA PairStepType ==
    ASSUME StorageTypeOK, PairStep
    PROVE  FleetTypeOK'
<1>1. "pair" \in Worker
  BY DEF Worker
<1>2. FleetTypeOK /\ job["pair"].slot \in Slot /\ job["pair"].record \in Record
      /\ job["pair"].uid \in Uid \cup {Nobody} /\ job["pair"] \in Job
  BY <1>1, JobType DEF StorageTypeOK
<1> DEFINE u == job["pair"].uid
           offer == job["pair"].record
           Ends == \E code \in {"ok", "notFound", "conflict", "error"} :
                     End("pair", code)
<1>3. ASSUME Ends, UNCHANGED <<slot, selected>> PROVE FleetTypeOK'
  BY <1>1, <1>2, <1>3, EndType DEF FleetTypeOK
<1>4. ASSUME UNCHANGED <<slot, selected, answer>>, NEW new \in Job,
             job' = [job EXCEPT !["pair"] = new]
      PROVE  FleetTypeOK'
  BY <1>1, <1>2, <1>4 DEF FleetTypeOK
<1>5. CASE PairFinds
  <2>1. CASE Go("pair", "enlist") /\ UNCHANGED answer
    <3>1. "enlist" \in Step
      BY DEF Step
    <3> QED
      BY <1>1, <1>2, <1>5, <2>1, <3>1, GoType DEF PairFinds, FleetTypeOK
  <2>2. CASE Ends
    BY <1>3, <1>5, <2>2 DEF PairFinds
  <2>3. CASE ~Ends /\ Lookup(u) = "ok"
    <3> DEFINE stored == slot[SlotOf(u)]
               record == [stored EXCEPT !.generation = offer.generation,
                                        !.key = offer.key, !.wrap = offer.wrap]
               new == [job["pair"] EXCEPT !.at = "save", !.slot = SlotOf(u),
                                          !.record = record]
    <3>1. SlotOf(u) \in Slot /\ stored \in Record
      BY <2>3, <1>2, LookupFinds DEF FleetTypeOK
    <3>2. record \in Record
      BY <1>2, <3>1 DEF Record
    <3>3. new \in Job
      BY <1>2, <3>1, <3>2 DEF Job, Step
    <3>4. job' = [job EXCEPT !["pair"] = new]
      BY <1>5, <2>3 DEF PairFinds
    <3> QED
      BY <1>4, <1>5, <2>3, <3>3, <3>4 DEF PairFinds
  <2> QED
    BY <1>5, <2>1, <2>2, <2>3, LookupFinds DEF PairFinds
<1>6. CASE PairEnlists
  <2>1. CASE Ends
    BY <1>3, <1>6, <2>1 DEF PairEnlists
  <2>2. CASE ~Ends
    <3>1. PICK s \in FirstFree :
            job' = [job EXCEPT !["pair"] = [@ EXCEPT !.at = "save", !.slot = s]]
      BY <1>6, <2>2 DEF PairEnlists
    <3> DEFINE new == [job["pair"] EXCEPT !.at = "save", !.slot = s]
    <3>2. new \in Job
      BY <1>2, <3>1 DEF Job, Step, FirstFree, Free
    <3>3. UNCHANGED answer
      BY <1>6, <2>2 DEF PairEnlists
    <3>4. job' = [job EXCEPT !["pair"] = new]
      BY <3>1
    <3> QED
      BY <1>4, <1>6, <3>2, <3>3, <3>4 DEF PairEnlists
  <2> QED
    BY <2>1, <2>2
<1>7. CASE PairSaves
  <2>1. PICK o \in SaveOutcome(job["pair"].slot, offer) :
          /\ slot' = o.flash
          /\ (Go("pair", "verify") /\ UNCHANGED answer) \/ End("pair", o.says)
    BY <1>7 DEF PairSaves
  <2>2. o.flash \in [Slot -> Record] /\ o.says \in {"ok", "conflict", "error"}
    BY <1>2, WrittenType
  <2>3. "verify" \in Step
    BY DEF Step
  <2> QED
    BY <1>1, <1>2, <1>7, <2>1, <2>2, <2>3, GoType, EndType
       DEF PairSaves, FleetTypeOK
<1>8. CASE PairVerifies
  BY <1>3, <1>8 DEF PairVerifies
<1> QED
  BY <1>5, <1>6, <1>7, <1>8 DEF PairStep

LEMMA JobsLostType ==
    ASSUME JobsLost
    PROVE  /\ job' \in [Worker -> Job]
           /\ answer' \in [Worker -> {"none", "ok", "notFound", "conflict",
                                      "error"}]
BY ConstantTypes DEF JobsLost

\* A start, up to the choice of the mode.
LEMMA EarlyBootType ==
    ASSUME TypeInv,
           \/ \E m \in Mode : PowerOn(m)
           \/ BootLoads \/ BootMounts \/ BootCopies \/ BootCopiesSelected
           \/ BootRechecks \/ BootMovesCounter \/ BootMarks \/ BootProvisions
           \/ BootUnlocks \/ BootChooses
    PROVE  TypeInv'
<1> USE DEF TypeInv, StorageTypeOK, ChosenInv, Late, flashVars, ramVars,
            Booting, Then, Block, BootStep
<1>1. ASSUME UNCHANGED fleetVars PROVE FleetTypeOK'
  BY <1>1 DEF fleetVars, FleetTypeOK
<1>2. CASE \E m \in Mode : PowerOn(m)
  BY <1>1, <1>2 DEF PowerOn
<1>3. CASE BootLoads
  <2>1. runtime' \in Enrollment
    BY <1>3 DEF BootLoads, Loaded, Enrollment
  <2> QED
    BY <1>1, <1>3, <2>1 DEF BootLoads
<1>4. CASE BootMounts
  BY <1>1, <1>4 DEF BootMounts
<1>5. CASE BootCopies
  <2>1. CASE index = SlotCount
    <3>1. FleetTypeOK'
      BY <1>5, <2>1 DEF BootCopies, FleetTypeOK
    <3> QED
      BY <1>5, <2>1, <3>1 DEF BootCopies
  <2>2. CASE index # SlotCount
    <3>1. index \in Slot /\ index + 1 \in 0 .. SlotCount
      BY <2>2, FleetAssumption DEF Slot
    <3>2. index' \in 0 .. SlotCount
      BY <1>5, <2>2, <3>1 DEF BootCopies, CopyNext
    <3>3. Copied(index) \in [Slot -> Record]
      BY <3>1 DEF Copied, Source, FleetTypeOK
    <3>4. FleetTypeOK'
      BY <1>5, <2>2, <3>3 DEF BootCopies, CopyNext, FleetTypeOK
    <3> QED
      BY <1>5, <2>2, <3>2, <3>4 DEF BootCopies, CopyNext
  <2> QED
    BY <2>1, <2>2
<1>6. CASE BootCopiesSelected
  <2>1. FleetTypeOK'
    BY <1>6 DEF BootCopiesSelected, FleetTypeOK
  <2> QED
    BY <1>6, <2>1 DEF BootCopiesSelected
<1>7. CASE BootRechecks
  BY <1>1, <1>7 DEF BootRechecks
<1>8. CASE BootMovesCounter
  BY <1>1, <1>8 DEF BootMovesCounter
<1>9. CASE BootMarks
  BY <1>1, <1>9 DEF BootMarks
<1>10. CASE BootProvisions
  BY <1>1, <1>10 DEF BootProvisions, NewFmk
<1>11. CASE BootUnlocks
  BY <1>1, <1>11 DEF BootUnlocks, FmkLoads
<1>12. CASE BootChooses
  BY <1>1, <1>12 DEF BootChooses
<1> QED
  BY <1>2, <1>3, <1>4, <1>5, <1>6, <1>7, <1>8, <1>9, <1>10, <1>11, <1>12

\* Its steps in normal mode.
LEMMA LateBootType ==
    ASSUME TypeInv,
           \/ BootValidates \/ BootWraps \/ BootAgrees \/ BootRetires
           \/ BootReserves
    PROVE  TypeInv'
<1> USE DEF TypeInv, StorageTypeOK, ChosenInv, Late, flashVars, ramVars,
            Booting, Then, Block, BootStep
<1>1. ASSUME UNCHANGED fleetVars PROVE FleetTypeOK'
  BY <1>1 DEF fleetVars, FleetTypeOK
<1>2. CASE BootValidates
  <2>1. BootSlots \subseteq Slot
    BY DEF BootSlots, Active, Occupied
  <2> QED
    BY <1>1, <1>2, <2>1, ConstantTypes DEF BootValidates
<1>3. CASE BootWraps
  <2>1. chosen \in Slot /\ slot[chosen] \in Record
    BY <1>3 DEF BootWraps, FleetTypeOK
  <2>2. Wrapped(slot[chosen]) \in Record
    BY <2>1 DEF Wrapped, Record
  <2>3. FleetTypeOK'
    <3>1. slot' \in [Slot -> Record]
      BY <1>3, <2>1, <2>2, WrittenType DEF BootWraps, FleetTypeOK
    <3> QED
      BY <1>3, <3>1 DEF BootWraps, FleetTypeOK
  <2> QED
    BY <1>3, <2>1, <2>3 DEF BootWraps
<1>4. CASE BootAgrees
  BY <1>1, <1>4 DEF BootAgrees
<1>5. CASE BootRetires
  <2>1. slot[chosen].key \in Key \cup {Nobody}
    BY <1>5 DEF BootRetires, FleetTypeOK, Record
  <2>2. Metadata(runtime) \in Enrollment
    BY DEF Metadata, Enrollment
  <2>3. [runtime EXCEPT !.key = Nobody] \in Enrollment
    BY DEF Enrollment
  <2> QED
    BY <1>1, <1>5, <2>1, <2>2, <2>3 DEF BootRetires
<1>6. CASE BootReserves
  BY <1>1, <1>6 DEF BootReserves
<1> QED
  BY <1>2, <1>3, <1>4, <1>5, <1>6

LEMMA MaintenanceType ==
    ASSUME TypeInv, Maintenance
    PROVE  TypeInv'
<1> USE DEF TypeInv, StorageTypeOK, ChosenInv, flashVars, ramVars, bootVars
<1>1. CASE OwnerAsks
  <2>1. FleetTypeOK'
    BY <1>1, HttpRequestType DEF OwnerAsks, HttpArrives, Revoke, Restore,
       Delete, Select
  <2> QED
    BY <1>1, <2>1 DEF OwnerAsks
<1>2. CASE HttpWorks
  <2>1. overtaken' \in BOOLEAN
    BY <1>2 DEF HttpWorks, Overtakes
  <2> QED
    BY <1>2, <2>1, HttpStepType DEF HttpWorks
<1>3. CASE PairWorks
  <2>1. overtaken' \in BOOLEAN
    BY <1>3 DEF PairWorks, Overtakes
  <2> QED
    BY <1>3, <2>1, PairStepType DEF PairWorks
<1>4. ASSUME NEW u \in Uid, NEW g \in 1 .. MaxGeneration, NEW k \in Key,
             CommitEnrolls(u, g, k)
      PROVE  TypeInv'
  <2> DEFINE candidate == [format |-> "metadata", uid |-> u, generation |-> g,
                           key |-> Nobody]
             offer == [Blank EXCEPT !.uid = u, !.state = "ACTIVE",
                         !.generation = g, !.key = k, !.wrap = fmk]
             new == [NoJob EXCEPT !.kind = "pair", !.at = "find", !.uid = u,
                                  !.record = offer]
  <2>1. g \in 0 .. MaxGeneration
    BY FleetAssumption
  <2>2. candidate \in Enrollment
    BY <2>1 DEF Enrollment
  <2>3. new \in Job
    <3>1. offer \in Record
      BY <2>1, ConstantTypes DEF Record, Blank
    <3> QED
      BY <3>1, ConstantTypes DEF Job, NoJob, Step
  <2>4. job' \in [Worker -> Job]
    <3>1. job' = [job EXCEPT !["pair"] = new] \/ UNCHANGED job
      BY <1>4 DEF CommitEnrolls, PairBegins, fleetVars
    <3> QED
      BY <2>3, <3>1 DEF FleetTypeOK, Worker
  <2>5. FleetTypeOK'
    BY <1>4, <2>4 DEF CommitEnrolls, PairBegins, fleetVars, FleetTypeOK
  <2>6. commit' \in [at : {"idle", "store"}, key : Key \cup {Nobody}]
    BY <1>4 DEF CommitEnrolls
  <2> QED
    BY <1>4, <2>2, <2>5, <2>6 DEF CommitEnrolls
<1>5. CASE CommitEnds
  <2>1. runtime' \in Enrollment /\ installed' \in Key \cup {Nobody}
    BY <1>5 DEF CommitEnds, Loaded, Enrollment
  <2>2. FleetTypeOK'
    BY <1>5 DEF CommitEnds, fleetVars, FleetTypeOK
  <2> QED
    BY <1>5, <2>1, <2>2 DEF CommitEnds, NoCommit
<1> QED
  BY <1>1, <1>2, <1>3, <1>4, <1>5 DEF Maintenance

LEMMA OffType ==
    ASSUME TypeInv, PowerOff \/ EnrollmentDecays \/ RecordDecays
    PROVE  TypeInv'
<1> USE DEF TypeInv, StorageTypeOK, ChosenInv, flashVars, ramVars, bootVars
<1>1. CASE PowerOff
  <2>1. FleetTypeOK'
    BY <1>1, JobsLostType DEF PowerOff, RamCleared, FleetTypeOK
  <2> QED
    BY <1>1, <2>1, ConstantTypes DEF PowerOff, RamCleared, NoCommit
<1>2. CASE EnrollmentDecays
  <2>1. [Unpaired EXCEPT !.format = "unreadable"] \in Enrollment
    BY ConstantTypes DEF Unpaired, Enrollment
  <2>2. FleetTypeOK'
    BY <1>2 DEF EnrollmentDecays, fleetVars, FleetTypeOK
  <2> QED
    BY <1>2, <2>1, <2>2 DEF EnrollmentDecays
<1>3. CASE RecordDecays
  <2>1. [Blank EXCEPT !.state = "UNREADABLE"] \in Record
    BY ConstantTypes DEF Blank, Record
  <2>2. slot' \in [Slot -> Record]
    BY <1>3, <2>1 DEF RecordDecays, FleetTypeOK
  <2>3. FleetTypeOK'
    BY <1>3, <2>2 DEF RecordDecays, FleetTypeOK
  <2> QED
    BY <1>3, <2>3 DEF RecordDecays
<1> QED
  BY <1>1, <1>2, <1>3

LEMMA TypeInit == Init => TypeInv
<1> SUFFICES ASSUME Init PROVE TypeInv
  OBVIOUS
<1>1. PICK f \in EarlierFleet, u \in Uid \cup {Nobody}, n \in 0 .. 1 :
        /\ legacy = [slot |-> f, selected |-> u, session |-> n]
        /\ enrollment \in EnrollmentsOf(f)
  BY DEF Init
<1>2. f \in [Slot -> Record]
  <2>1. [uid : Uid, state : {"ACTIVE"}, generation : {1}, key : {EarlierKey},
         wrap : {0}, counter : {1}] \subseteq Record
    <3>1. 1 \in 0 .. MaxGeneration /\ 1 \in 0 .. MaxCounter
          /\ EarlierKey \in Key
      BY FleetAssumption, StorageAssumption
    <3> QED
      BY <3>1 DEF Record
  <2> QED
    BY <2>1, ConstantTypes DEF EarlierFleet
<1>3. EnrollmentsOf(f) \subseteq Enrollment
  BY <1>2, ConstantTypes DEF EnrollmentsOf, Enrollment, Record
<1>4. FleetTypeOK
  BY ConstantTypes DEF Init, FleetTypeOK
<1>5. /\ legacy \in [slot : [Slot -> Record], selected : Uid \cup {Nobody},
                     session : 0 .. 1]
      /\ enrollment \in Enrollment
  BY <1>1, <1>2, <1>3
<1>6. /\ index \in 0 .. SlotCount /\ chosen \in 0 .. SlotCount
      /\ runtime \in Enrollment /\ session \in 0 .. 1 /\ fmk \in Nat
  BY ConstantTypes DEF Init
<1>7. /\ boot \in BootStep /\ mode \in Mode /\ phase = "off"
      /\ migrated = FALSE /\ unlocked = FALSE /\ overtaken = FALSE
      /\ installed = Nobody /\ commit = [at |-> "idle", key |-> Nobody]
  BY DEF Init, BootStep, Mode, NoCommit
<1> QED
  BY <1>4, <1>5, <1>6, <1>7 DEF TypeInv, StorageTypeOK, ChosenInv

LEMMA TypeStep == TypeInv /\ [Next]_vars => TypeInv'
<1> SUFFICES ASSUME TypeInv, [Next]_vars PROVE TypeInv'
  OBVIOUS
<1>1. CASE UNCHANGED vars
  BY <1>1 DEF vars, fleetVars, flashVars, bootVars, ramVars, TypeInv,
     StorageTypeOK, FleetTypeOK, ChosenInv
<1> QED
  BY <1>1, EarlyBootType, LateBootType, MaintenanceType, OffType
     DEF Next, Starting

\* Every record, job and counter of the remote controller's storage keeps its
\* type; a slot is never looked up or written outside the partition.
THEOREM StorageTypeCorrect == Spec => []StorageTypeOK
<1>1. TypeInv => StorageTypeOK
  BY DEF TypeInv
<1> QED
  BY <1>1, TypeInit, TypeStep, PTL DEF Spec

-----------------------------------------------------------------------------
(* What moves what.                                                        *)

LEMMA SlotMoves ==
    ASSUME [Next]_vars
    PROVE  \/ UNCHANGED slot
           \/ BootCopies \/ BootWraps \/ HttpWorks \/ PairWorks \/ RecordDecays
BY DEF Next, vars, Starting, PowerOn, BootLoads, BootMounts, BootCopiesSelected,
   BootRechecks, BootMovesCounter, BootMarks, BootProvisions, BootUnlocks,
   BootChooses, BootValidates, BootAgrees, BootRetires, BootReserves,
   Maintenance, OwnerAsks, HttpArrives, Revoke, Restore, Delete, Select,
   HttpRequest, CommitEnrolls, PairBegins, CommitEnds, PowerOff,
   EnrollmentDecays, fleetVars

LEMMA JobMoves ==
    ASSUME [Next]_vars
    PROVE  \/ UNCHANGED job
           \/ OwnerAsks \/ HttpWorks \/ PairWorks \/ PowerOff
           \/ \E u \in Uid, g \in 1 .. MaxGeneration, k \in Key :
                CommitEnrolls(u, g, k)
BY DEF Next, vars, Starting, PowerOn, BootLoads, BootMounts, BootCopies,
   BootCopiesSelected, BootRechecks, BootMovesCounter, BootMarks,
   BootProvisions, BootUnlocks, BootChooses, BootValidates, BootWraps,
   BootAgrees, BootRetires, BootReserves, Maintenance, CommitEnds,
   EnrollmentDecays, RecordDecays, fleetVars

LEMMA FlashMoves ==
    ASSUME [Next]_vars
    PROVE  /\ UNCHANGED legacy
           /\ UNCHANGED fmk \/ BootProvisions
           /\ UNCHANGED migrated \/ BootMarks
           /\ UNCHANGED session \/ BootMovesCounter
BY DEF Next, vars, Starting, PowerOn, BootLoads, BootMounts, BootCopies,
   BootCopiesSelected, BootRechecks, BootMovesCounter, BootMarks,
   BootProvisions, BootUnlocks, BootChooses, BootValidates, BootWraps,
   BootAgrees, BootRetires, BootReserves, Maintenance, OwnerAsks, HttpWorks,
   PairWorks, CommitEnrolls, CommitEnds, PowerOff, EnrollmentDecays,
   RecordDecays, flashVars

\* A slot holds a record, counted.
Saved(held, r) ==
    /\ held.uid = r.uid /\ held.state = r.state
    /\ held.generation = r.generation /\ held.key = r.key
    /\ held.wrap = r.wrap /\ held.counter = r.counter + 1

LEMMA SaveKeeps ==
    ASSUME StorageTypeOK, NEW s \in Slot, NEW r \in Record,
           NEW o \in SaveOutcome(s, r)
    PROVE  /\ \A t \in Slot \ {s} : o.flash[t] = slot[t]
           /\ o.flash = slot \/ Saved(o.flash[s], r)
           /\ o.says = "ok" => Saved(o.flash[s], r)
<1>1. o.flash \in {slot, Written(s, r)}
      /\ (o.says = "ok" => o.flash = Written(s, r))
  BY DEF SaveOutcome
<1>2. slot \in [Slot -> Record]
  BY DEF StorageTypeOK, FleetTypeOK
<1>3. Saved(Written(s, r)[s], r)
  BY <1>2 DEF Saved, Written, Record
<1>4. \A t \in Slot \ {s} : Written(s, r)[t] = slot[t]
  BY <1>2 DEF Written
<1> QED
  BY <1>1, <1>3, <1>4

-----------------------------------------------------------------------------
(* Jobs run in maintenance mode only.                                      *)

IdleInv ==
    phase # "maintenance" =>
        (\A w \in Worker : job[w] = NoJob) /\ commit = NoCommit

LEMMA IdleStep == TypeInv /\ IdleInv /\ [Next]_vars => IdleInv'
<1> SUFFICES ASSUME TypeInv, IdleInv, [Next]_vars PROVE IdleInv'
  OBVIOUS
<1>1. CASE Starting
  <2>1. UNCHANGED <<job, commit>> /\ phase # "maintenance"
    BY <1>1 DEF Starting, PowerOn, BootLoads, BootMounts, BootCopies,
       BootCopiesSelected, BootRechecks, BootMovesCounter, BootMarks,
       BootProvisions, BootUnlocks, BootChooses, BootValidates, BootWraps,
       BootAgrees, BootRetires, BootReserves, Booting, fleetVars, ramVars
  <2> QED
    BY <2>1 DEF IdleInv
<1>2. CASE PowerOff
  BY <1>2 DEF PowerOff, RamCleared, JobsLost, IdleInv
<1>3. CASE Maintenance
  <2>1. UNCHANGED phase /\ (phase = "maintenance" \/ CommitEnds)
    BY <1>3 DEF Maintenance, OwnerAsks, HttpWorks, PairWorks, CommitEnrolls,
       CommitEnds
  <2>2. CommitEnds => phase = "maintenance"
    BY DEF CommitEnds, IdleInv, NoCommit
  <2> QED
    BY <2>1, <2>2 DEF IdleInv
<1>4. CASE UNCHANGED vars \/ EnrollmentDecays \/ RecordDecays
  BY <1>4 DEF vars, EnrollmentDecays, RecordDecays, fleetVars, ramVars, IdleInv
<1> QED
  BY <1>1, <1>2, <1>3, <1>4 DEF Next

-----------------------------------------------------------------------------
(* The copy of the earlier fleet.                                          *)

LegacyInv ==
    /\ \A s \in Slot : legacy.slot[s].wrap = 0
    /\ \A s, t \in Slot :
         /\ legacy.slot[s].state \in {"ACTIVE", "REVOKED"}
         /\ legacy.slot[t].state \in {"ACTIVE", "REVOKED"}
         /\ legacy.slot[s].uid = legacy.slot[t].uid
         => s = t

\* Before the copy is complete the new partition holds only copies.
Copying == {"load", "mount", "copy", "copySelected", "recheck", "counter",
            "mark"}
MigrationInv ==
    /\ LegacyInv
    /\ ~migrated =>
         /\ phase \in {"off", "boot", "blocked"}
         /\ phase = "boot" => boot \in Copying
         /\ \A s \in Occupied : slot[s] = legacy.slot[s]
    /\ phase = "boot" /\ boot \in {"counter", "mark"}
       => slot = legacy.slot /\ selected = legacy.selected
    /\ phase = "boot" /\ boot = "mark" => session >= legacy.session

LEMMA MigrationStep ==
    TypeInv /\ IdleInv /\ MigrationInv /\ [Next]_vars => MigrationInv'
<1> SUFFICES ASSUME TypeInv, IdleInv, MigrationInv, [Next]_vars
             PROVE  MigrationInv'
  OBVIOUS
<1>1. LegacyInv' /\ UNCHANGED legacy
  BY FlashMoves DEF LegacyInv, MigrationInv
<1> USE DEF MigrationInv, Copying, Booting, Then, Block
<1>2. ASSUME UNCHANGED <<slot, selected, migrated, session>>,
             \/ phase' \in {"off", "blocked"}
             \/ phase' = "boot" /\ boot' = "load"
             \/ UNCHANGED <<phase, boot>>
      PROVE  MigrationInv'
  BY <1>1, <1>2 DEF Occupied
<1>3. ASSUME UNCHANGED <<slot, selected>>, migrated',
             phase' = "boot" => boot' \notin {"counter", "mark"}
      PROVE  MigrationInv'
  BY <1>1, <1>3
<1>4. CASE BootCopies
  <2>1. ASSUME index \in Slot, slot[index].state = "EMPTY",
               slot' = Copied(index), UNCHANGED migrated,
               phase' = "blocked" \/ (phase' = "boot" /\ boot' = "copy")
        PROVE  MigrationInv'
    <3>1. \A s \in Occupied' : s \in Occupied \/ s = index
      BY <2>1 DEF Copied, Occupied, TypeInv, StorageTypeOK, FleetTypeOK
    <3>2. slot'[index] = legacy.slot[index]
          /\ \A s \in Slot \ {index} : slot'[s] = slot[s]
      BY <2>1 DEF Copied, Source, TypeInv, StorageTypeOK, FleetTypeOK
    <3>3. ~migrated => \A s \in Occupied' : slot'[s] = legacy'.slot[s]
      BY <1>1, <3>1, <3>2 DEF Occupied
    <3> QED
      BY <1>1, <1>4, <2>1, <3>3 DEF BootCopies
  <2>2. index # SlotCount => index \in Slot
    BY FleetAssumption DEF Slot, TypeInv, StorageTypeOK
  <2>3. CASE UNCHANGED slot
    <3>1. /\ UNCHANGED <<selected, migrated, session>>
          /\ \/ phase' = "blocked"
             \/ phase' = "boot" /\ boot' \in {"copy", "copySelected"}
      BY <1>4 DEF BootCopies, CopyNext, flashVars
    <3> QED
      BY <1>1, <1>4, <2>3, <3>1 DEF BootCopies, Occupied
  <2> QED
    BY <1>4, <2>1, <2>2, <2>3 DEF BootCopies, CopyNext, flashVars
<1>5. CASE BootCopiesSelected
  <2>1. /\ UNCHANGED <<slot, migrated, session>>
        /\ phase' = "blocked" \/ (phase' = "boot" /\ boot' = "recheck")
    BY <1>5 DEF BootCopiesSelected, flashVars
  <2> QED
    BY <1>1, <1>5, <2>1 DEF BootCopiesSelected, Occupied
<1>6. CASE BootRechecks
  <2>1. UNCHANGED <<slot, selected, migrated, session>>
    BY <1>6 DEF BootRechecks, flashVars, fleetVars
  <2>2. \/ phase' = "blocked"
        \/ /\ phase' = "boot" /\ boot' = "counter"
           /\ slot = legacy.slot /\ selected = legacy.selected
    BY <1>6 DEF BootRechecks
  <2> QED
    BY <1>1, <1>6, <2>1, <2>2 DEF BootRechecks, Occupied
<1>7. CASE BootMovesCounter
  <2>1. UNCHANGED <<slot, selected, migrated>>
    BY <1>7 DEF BootMovesCounter, fleetVars
  <2>2. \/ phase' = "blocked"
        \/ phase' = "boot" /\ boot' = "mark" /\ session' >= legacy.session
    BY <1>7 DEF BootMovesCounter, TypeInv, StorageTypeOK
  <2> QED
    BY <1>1, <1>7, <2>1, <2>2 DEF BootMovesCounter, Occupied
<1>8. CASE BootMarks
  <2>1. UNCHANGED <<slot, selected, session>>
    BY <1>8 DEF BootMarks, fleetVars
  <2>2. \/ phase' = "blocked"
        \/ phase' = "boot" /\ boot' = "provision" /\ migrated'
    BY <1>8 DEF BootMarks
  <2> QED
    BY <1>1, <1>8, <2>1, <2>2 DEF BootMarks, Occupied
<1>9. CASE \/ \E m \in Mode : PowerOn(m)
           \/ BootLoads \/ BootMounts
  <2>1. UNCHANGED <<slot, selected, migrated, session>>
    BY <1>9 DEF PowerOn, BootLoads, BootMounts, fleetVars, flashVars
  <2>2. \/ phase' = "blocked"
        \/ phase' = "boot" /\ boot' \in {"load", "mount", "copy"}
        \/ migrated /\ phase' = "boot" /\ boot' = "provision"
        \/ migrated /\ phase' = "recovery"
    BY <1>9 DEF PowerOn, BootLoads, BootMounts
  <2> QED
    BY <1>1, <1>9, <2>1, <2>2 DEF Occupied
<1>10. CASE \/ BootProvisions \/ BootUnlocks \/ BootChooses \/ BootValidates
            \/ BootAgrees \/ BootRetires \/ BootReserves
  <2>1. UNCHANGED <<slot, selected, migrated>> /\ migrated
    BY <1>10 DEF BootProvisions, BootUnlocks, BootChooses, BootValidates,
       BootAgrees, BootRetires, BootReserves, fleetVars, flashVars
  <2>2. phase' = "boot" => boot' \notin {"counter", "mark"}
    BY <1>10 DEF BootProvisions, BootUnlocks, BootChooses, BootValidates,
       BootAgrees, BootRetires, BootReserves
  <2> QED
    BY <1>3, <2>1, <2>2
<1>11. CASE BootWraps
  <2>1. migrated /\ UNCHANGED migrated
    BY <1>11 DEF BootWraps, flashVars
  <2>2. phase' = "boot" => boot' \notin {"counter", "mark"}
    BY <1>11 DEF BootWraps
  <2> QED
    BY <1>1, <2>1, <2>2
<1>12. CASE Maintenance
  <2>1. UNCHANGED phase /\ (phase = "maintenance" \/ CommitEnds)
    BY <1>12 DEF Maintenance, OwnerAsks, HttpWorks, PairWorks, CommitEnrolls,
       CommitEnds
  <2>2. phase = "maintenance" /\ phase' = "maintenance"
    BY <2>1 DEF CommitEnds, IdleInv, NoCommit
  <2>3. migrated /\ migrated'
    BY <2>2, FlashMoves DEF BootMarks
  <2> QED
    BY <1>1, <2>2, <2>3
<1>13. CASE RecordDecays
  <2>1. phase = "off" /\ phase' = "off" /\ UNCHANGED migrated
    BY <1>13 DEF RecordDecays, flashVars
  <2>2. \A s \in Occupied' : s \in Occupied /\ slot'[s] = slot[s]
    BY <1>13 DEF RecordDecays, Occupied, Blank, TypeInv, StorageTypeOK,
       FleetTypeOK
  <2> QED
    BY <1>1, <2>1, <2>2
<1>14. CASE UNCHANGED vars \/ PowerOff \/ EnrollmentDecays
  <2>1. UNCHANGED <<slot, selected, migrated, session>>
        /\ (phase' = "off" \/ UNCHANGED <<phase, boot>>)
    BY <1>14 DEF vars, PowerOff, EnrollmentDecays, fleetVars, flashVars,
       bootVars
  <2> QED
    BY <1>2, <2>1
<1> QED
  BY <1>4, <1>5, <1>6, <1>7, <1>8, <1>9, <1>10, <1>11, <1>12, <1>13, <1>14
     DEF Next, Starting
LEMMA MigrationInit == Init => MigrationInv
<1> SUFFICES ASSUME Init PROVE MigrationInv
  OBVIOUS
<1>1. PICK f \in EarlierFleet : legacy.slot = f
  BY DEF Init
<1>2. LegacyInv
  <2>1. \A s \in Slot : f[s].wrap = 0
    BY <1>1 DEF EarlierFleet, Blank
  <2>2. \A s \in Slot : f[s].state \in {"ACTIVE", "REVOKED"} => f[s] # Blank
    BY DEF Blank
  <2> QED
    BY <1>1, <2>1, <2>2 DEF EarlierFleet, LegacyInv
<1>3. Occupied = {}
  BY DEF Init, Blank, Occupied
<1> QED
  BY <1>2, <1>3 DEF Init, MigrationInv

\* The start that declares the copy complete has rechecked it: all records and
\* the selection are those of the old partition, and the session counter is
\* not behind, however often the copy was cut off and begun again.
THEOREM MigrationAlwaysExact == Spec => MigrationIsExact
<1> DEFINE Inv == TypeInv /\ IdleInv /\ MigrationInv
           Exact == ~migrated /\ migrated'
                    => /\ slot = legacy.slot /\ selected = legacy.selected
                       /\ session >= legacy.session
<1>1. Init => Inv
  BY TypeInit, MigrationInit DEF Init, IdleInv
<1>2. Inv /\ [Next]_vars => Inv'
  BY TypeStep, IdleStep, MigrationStep
<1>3. Inv /\ [Next]_vars => [Exact]_migrated
  <2> SUFFICES ASSUME Inv, [Next]_vars PROVE [Exact]_migrated
    OBVIOUS
  <2>1. UNCHANGED migrated \/ BootMarks
    BY FlashMoves
  <2>2. BootMarks => Exact
    BY DEF BootMarks, Booting, MigrationInv
  <2> QED
    BY <2>1, <2>2
<1>4. MigrationIsExact <=> [][Exact]_migrated
  BY DEF MigrationIsExact
<1> QED
  BY <1>1, <1>2, <1>3, <1>4, PTL DEF Spec
-----------------------------------------------------------------------------
(* Wrapped keys.                                                           *)

\* A record a task has yet to write is as readable as those in flash.
WrapInv ==
    /\ \A s \in Slot : slot[s].wrap \in {0, fmk}
    /\ \A w \in Worker : job[w].record.wrap \in {0, fmk}

\* The offer becomes the next record of the slot its aircraft has.
PairRotates ==
    LET s == SlotOf(job["pair"].uid)
        offer == job["pair"].record
    IN  job' = [job EXCEPT !["pair"] =
                  [@ EXCEPT !.at = "save", !.slot = s,
                            !.record = [slot[s] EXCEPT
                                          !.generation = offer.generation,
                                          !.key = offer.key,
                                          !.wrap = offer.wrap]]]

\* The record a task holds comes from flash or from the pairing.
LEMMA RecordMoves ==
    ASSUME TypeInv, [Next]_vars, NEW w \in Worker
    PROVE  \/ job'[w].record.wrap \in {job[w].record.wrap, Blank.wrap, fmk}
           \/ \E s \in Slot : job'[w].record.wrap = slot[s].wrap
<1> USE DEF TypeInv, StorageTypeOK, FleetTypeOK
<1>1. ASSUME NEW v \in Worker, NEW c, End(v, c) \/ UNCHANGED job
      PROVE  job'[w].record \in {job[w].record, Blank}
  BY <1>1 DEF End, NoJob
<1>2. ASSUME NEW v \in Worker, NEW step, Go(v, step)
      PROVE  job'[w].record = job[w].record
  BY <1>2 DEF Go, Job
<1>3. CASE OwnerAsks
  <2>1. PICK u \in Uid, kind \in {"revoke", "restore", "delete", "select"} :
          HttpRequest(kind, u)
    BY <1>3 DEF OwnerAsks, HttpArrives, Revoke, Restore, Delete, Select
  <2>2. CASE Lookup(u) = "ok" /\ slot[SlotOf(u)].state = Needed(kind)
    <3>1. SlotOf(u) \in Slot
      BY <2>2, LookupFinds
    <3>2. w = "http" => job'[w].record =
                          [slot[SlotOf(u)] EXCEPT !.state = Judged(kind)]
      BY <2>1, <2>2 DEF HttpRequest
    <3>3. w # "http" => job'[w] = job[w]
      BY <2>1, <2>2 DEF HttpRequest
    <3> QED
      BY <3>1, <3>2, <3>3 DEF Record
  <2>3. CASE ~(Lookup(u) = "ok" /\ slot[SlotOf(u)].state = Needed(kind))
    <3>1. \E c : End("http", c)
      BY <2>1, <2>3 DEF HttpRequest
    <3> QED
      BY <1>1, <3>1 DEF Worker
  <2> QED
    BY <2>2, <2>3
<1>4. CASE HttpWorks
  <2>1. Go("http", "clear") \/ \E c : End("http", c)
    BY <1>4 DEF HttpWorks, HttpStep, HttpSaves, HttpClears, HttpSelects,
       HttpErases
  <2> QED
    BY <1>1, <1>2, <2>1 DEF Worker
<1>5. CASE PairWorks
  <2>1. CASE PairFinds
    <3>1. \/ Go("pair", "enlist")
          \/ \E c : End("pair", c)
          \/ Lookup(job["pair"].uid) = "ok" /\ PairRotates
      BY <2>1 DEF PairFinds, PairRotates
    <3>2. ASSUME Lookup(job["pair"].uid) = "ok", PairRotates
          PROVE  job'[w].record.wrap = job[w].record.wrap
      <4>1. slot[SlotOf(job["pair"].uid)] \in Record
        BY <3>2, LookupFinds
      <4> QED
        BY <3>2, <4>1 DEF PairRotates, Record, Worker, Job
    <3> QED
      BY <1>1, <1>2, <3>1, <3>2 DEF Worker
  <2>2. CASE PairEnlists
    <3>1. \/ \E c : End("pair", c)
          \/ \E s : job' = [job EXCEPT !["pair"] =
                              [@ EXCEPT !.at = "save", !.slot = s]]
      BY <2>2 DEF PairEnlists
    <3>2. ASSUME NEW s, job' = [job EXCEPT !["pair"] =
                                  [@ EXCEPT !.at = "save", !.slot = s]]
          PROVE  job'[w].record = job[w].record
      BY <3>2 DEF Worker, Job
    <3> QED
      BY <1>1, <3>1, <3>2 DEF Worker
  <2>3. CASE PairSaves \/ PairVerifies
    <3>1. Go("pair", "verify") \/ \E c : End("pair", c)
      BY <2>3 DEF PairSaves, PairVerifies
    <3> QED
      BY <1>1, <1>2, <3>1 DEF Worker
  <2> QED
    BY <1>5, <2>1, <2>2, <2>3 DEF PairWorks, PairStep
<1>6. ASSUME NEW u \in Uid, NEW g \in 1 .. MaxGeneration, NEW k \in Key,
             CommitEnrolls(u, g, k)
      PROVE  job'[w].record = job[w].record \/ job'[w].record.wrap = fmk
  <2>1. CASE PairBegins(u, g, k, fmk)
    BY <2>1 DEF PairBegins, NoJob, Blank, Worker
  <2>2. CASE UNCHANGED fleetVars
    BY <2>2 DEF fleetVars
  <2> QED
    BY <1>6, <2>1, <2>2 DEF CommitEnrolls
<1>7. CASE PowerOff
  BY <1>7 DEF PowerOff, RamCleared, JobsLost, NoJob
<1> QED
  BY <1>3, <1>4, <1>5, <1>6, <1>7, JobMoves

LEMMA WrapStep ==
    TypeInv /\ IdleInv /\ MigrationInv /\ WrapInv /\ [Next]_vars => WrapInv'
<1> SUFFICES ASSUME TypeInv, IdleInv, MigrationInv, WrapInv, [Next]_vars
             PROVE  WrapInv'
  OBVIOUS
<1> USE DEF TypeInv, StorageTypeOK, FleetTypeOK
<1>1. fmk \in Nat /\ fmk' \in Nat /\ (fmk' = fmk \/ fmk = 0)
  <2>1. TypeInv'
    BY TypeStep
  <2> QED
    BY <2>1, FlashMoves DEF BootProvisions, FmkExists
<1>2. \A s \in Slot : slot'[s].wrap \in {0, fmk}
  <2>1. ASSUME NEW s \in Slot, NEW r \in Record, NEW o \in SaveOutcome(s, r),
               slot' = o.flash, r.wrap \in {0, fmk}
        PROVE  \A t \in Slot : slot'[t].wrap \in {0, fmk}
    BY <2>1, SaveKeeps DEF Saved, WrapInv
  <2>2. CASE UNCHANGED slot
    BY <2>2 DEF WrapInv
  <2>3. CASE BootCopies
    <3>1. \A s \in Slot : slot'[s] \in {slot[s], legacy.slot[s]}
      BY <2>3 DEF BootCopies, Copied, Source, CopyNext
    <3> QED
      BY <3>1 DEF WrapInv, MigrationInv, LegacyInv
  <2>4. CASE BootWraps
    <3>1. chosen \in Slot /\ Wrapped(slot[chosen]) \in Record
          /\ Wrapped(slot[chosen]).wrap = fmk
      <4>1. chosen \in Slot /\ slot[chosen] \in Record
        BY <2>4 DEF BootWraps, Booting, ChosenInv, Late
      <4> QED
        BY <1>1, <4>1 DEF Wrapped, Record
    <3>2. \/ UNCHANGED slot
          \/ \E o \in SaveOutcome(chosen, Wrapped(slot[chosen])) :
               slot' = o.flash
      BY <2>4 DEF BootWraps
    <3> QED
      BY <2>1, <2>2, <3>1, <3>2
  <2>5. CASE HttpWorks
    <3>1. \/ UNCHANGED slot
          \/ \E o \in SaveOutcome(job["http"].slot, job["http"].record) :
               slot' = o.flash
          \/ slot' = [slot EXCEPT ![job["http"].slot] = Blank]
      BY <2>5 DEF HttpWorks, HttpStep, HttpSaves, HttpClears, HttpSelects,
         HttpErases
    <3>2. "http" \in Worker /\ Blank.wrap = 0
      BY DEF Worker, Blank
    <3> QED
      BY <2>1, <2>2, <3>1, <3>2, JobType DEF WrapInv
  <2>6. CASE PairWorks
    <3>1. \/ UNCHANGED slot
          \/ \E o \in SaveOutcome(job["pair"].slot, job["pair"].record) :
               slot' = o.flash
      BY <2>6 DEF PairWorks, PairStep, PairFinds, PairEnlists, PairSaves,
         PairVerifies
    <3>2. "pair" \in Worker
      BY DEF Worker
    <3> QED
      BY <2>1, <2>2, <3>1, <3>2, JobType DEF WrapInv
  <2>7. CASE RecordDecays
    BY <2>7 DEF RecordDecays, Blank, WrapInv
  <2> QED
    BY <2>2, <2>3, <2>4, <2>5, <2>6, <2>7, SlotMoves
<1>3. \A w \in Worker : job'[w].record.wrap \in {0, fmk}
  <2> SUFFICES ASSUME NEW w \in Worker
               PROVE  job'[w].record.wrap \in {0, fmk}
    OBVIOUS
  <2>1. Blank.wrap = 0
    BY DEF Blank
  <2> QED
    BY <2>1, RecordMoves DEF WrapInv
<1>4. CASE fmk' = fmk
  BY <1>2, <1>3, <1>4 DEF WrapInv
<1>5. CASE fmk = 0
  BY <1>2, <1>3, <1>5 DEF WrapInv
<1> QED
  BY <1>1, <1>4, <1>5

\* Whatever start made the master key, and wherever power was lost in it, no
\* record is wrapped under a key other than the one in flash.
THEOREM WrappedAlwaysReadable == Spec => []WrappedIsReadable
<1> DEFINE Inv == TypeInv /\ IdleInv /\ MigrationInv /\ WrapInv
<1>1. Init => Inv
  <2>1. Init => WrapInv
    BY DEF Init, WrapInv, Blank, NoJob
  <2> QED
    BY <2>1, TypeInit, MigrationInit DEF Init, IdleInv
<1>2. Inv /\ [Next]_vars => Inv'
  BY TypeStep, IdleStep, MigrationStep, WrapStep
<1>3. Inv => WrappedIsReadable
  BY DEF WrapInv, WrappedIsReadable, Occupied
<1> QED
  BY <1>1, <1>2, <1>3, PTL DEF Spec
-----------------------------------------------------------------------------
(* One record for each aircraft.                                           *)

\* The copy begins only where it was not completed.
CopyInv ==
    phase = "boot" /\ boot \in {"copy", "copySelected", "recheck", "counter",
                               "mark"} => ~migrated

\* A request of the owner rewrites the record it found; the pairing writes the
\* only record of its aircraft, or a free slot when there is none.  Neither
\* can be made false by the other task.
HttpInv ==
    At("http", "save") =>
        LET j == job["http"]
        IN  /\ j.slot \in Occupied /\ slot[j.slot].uid = j.record.uid
            /\ j.record.state \in {"ACTIVE", "REVOKED"}

PairInv ==
    LET j == job["pair"]
    IN  /\ j.at \in {"find", "enlist", "save"}
           => j.record.uid = j.uid /\ j.record.state = "ACTIVE"
        /\ j.at = "save"
           => \A s \in Occupied : slot[s].uid = j.uid <=> s = j.slot

UniqueInv == CopyInv /\ HttpInv /\ PairInv /\ OneSlotPerAircraft

\* A write that keeps which slots are occupied, and by whom, or frees some.
LEMMA NoNewRecord ==
    ASSUME UniqueInv,
           \A s \in Occupied' : s \in Occupied /\ slot'[s].uid = slot[s].uid
    PROVE  OneSlotPerAircraft'
BY DEF UniqueInv, OneSlotPerAircraft

LEMMA SaveOccupies ==
    ASSUME StorageTypeOK, NEW s \in Slot, NEW r \in Record,
           NEW o \in SaveOutcome(s, r), slot' = o.flash,
           r.state \in {"ACTIVE", "REVOKED"}
    PROVE  /\ \A t \in Slot \ {s} : /\ t \in Occupied' <=> t \in Occupied
                                   /\ slot'[t] = slot[t]
           /\ \/ slot'[s] = slot[s] /\ (s \in Occupied' <=> s \in Occupied)
              \/ s \in Occupied' /\ slot'[s].uid = r.uid
BY SaveKeeps DEF Saved, Occupied

LEMMA CopyStep ==
    CopyInv /\ IdleInv /\ [Next]_vars => CopyInv'
<1> SUFFICES ASSUME CopyInv, IdleInv, [Next]_vars PROVE CopyInv'
  OBVIOUS
<1>1. CASE BootMarks
  BY <1>1 DEF BootMarks, Then, Block, CopyInv
<1>2. ASSUME UNCHANGED migrated, [Next]_vars PROVE CopyInv'
  <2> USE <1>2 DEF CopyInv, Booting, Then, Block
  <2>1. CASE Starting
    BY <2>1 DEF Starting, PowerOn, BootLoads, BootMounts, BootCopies, CopyNext,
       BootCopiesSelected, BootRechecks, BootMovesCounter, BootMarks,
       BootProvisions, BootUnlocks, BootChooses, BootValidates, BootWraps,
       BootAgrees, BootRetires, BootReserves
  <2>2. CASE Maintenance
    BY <2>2 DEF Maintenance, OwnerAsks, HttpWorks, PairWorks, CommitEnrolls,
       CommitEnds, bootVars
  <2>3. CASE UNCHANGED vars \/ PowerOff \/ EnrollmentDecays \/ RecordDecays
    BY <2>3 DEF vars, PowerOff, EnrollmentDecays, RecordDecays, bootVars
  <2> QED
    BY <1>2, <2>1, <2>2, <2>3 DEF Next
<1> QED
  BY <1>1, <1>2, FlashMoves

\* The steps of the owner's task.
LEMMA HttpUnique ==
    ASSUME TypeInv, UniqueInv, OwnerAsks \/ HttpWorks
    PROVE  HttpInv' /\ PairInv' /\ OneSlotPerAircraft'
<1> USE DEF TypeInv, UniqueInv
<1>1. "http" \in Worker /\ "pair" \in Worker /\ "http" # "pair"
      /\ job \in [Worker -> Job]
  BY DEF Worker, StorageTypeOK, FleetTypeOK
<1>2. job'["pair"] = job["pair"]
  BY <1>1 DEF OwnerAsks, HttpArrives, Revoke, Restore, Delete, Select,
     HttpRequest, HttpWorks, HttpStep, HttpSaves, HttpClears, HttpSelects,
     HttpErases, Go, End
<1>3. CASE OwnerAsks
  <2>1. UNCHANGED slot
    BY <1>3 DEF OwnerAsks, HttpArrives, Revoke, Restore, Delete, Select,
       HttpRequest
  <2>2. PICK u \in Uid, kind \in {"revoke", "restore", "delete", "select"} :
          HttpRequest(kind, u)
    BY <1>3 DEF OwnerAsks, HttpArrives, Revoke, Restore, Delete, Select
  <2>3. HttpInv'
    <3>1. CASE Lookup(u) = "ok" /\ slot[SlotOf(u)].state = Needed(kind)
      <4>1. SlotOf(u) \in Occupied /\ slot[SlotOf(u)] \in Record
        BY <3>1, LookupFinds DEF Matches, StorageTypeOK, FleetTypeOK, Occupied
      <4>2. job'["http"] =
              [kind |-> kind, at |-> FirstWrite(kind), uid |-> u,
               slot |-> SlotOf(u),
               record |-> [slot[SlotOf(u)] EXCEPT !.state = Judged(kind)]]
        BY <1>1, <2>2, <3>1 DEF HttpRequest
      <4>3. /\ job'["http"].slot = SlotOf(u)
            /\ job'["http"].record.uid = slot[SlotOf(u)].uid
            /\ job'["http"].record.state \in {"ACTIVE", "REVOKED"}
        BY <4>1, <4>2 DEF Record, Judged
      <4> QED
        BY <2>1, <4>1, <4>3 DEF HttpInv, Occupied
    <3>2. CASE ~(Lookup(u) = "ok" /\ slot[SlotOf(u)].state = Needed(kind))
      BY <1>1, <2>2, <3>2 DEF HttpRequest, End, HttpInv, At, NoJob
    <3> QED
      BY <3>1, <3>2
  <2> QED
    BY <1>2, <2>1, <2>3 DEF PairInv, OneSlotPerAircraft, Occupied
<1>4. CASE HttpWorks
  <2>1. ~At("http", "save")'
    BY <1>1, <1>4 DEF HttpWorks, HttpStep, HttpSaves, HttpClears, HttpSelects,
       HttpErases, Go, End, At, NoJob, Job
  <2>2. \A s \in Occupied' : s \in Occupied /\ slot'[s].uid = slot[s].uid
    <3>1. CASE HttpSaves
      <4>1. PICK o \in SaveOutcome(job["http"].slot, job["http"].record) :
              slot' = o.flash
        BY <3>1 DEF HttpSaves
      <4>2. job["http"].slot \in Slot /\ job["http"].record \in Record
        BY <1>1, JobType
      <4>3. HttpInv /\ At("http", "save")
        BY <3>1 DEF HttpSaves
      <4> QED
        BY <4>1, <4>2, <4>3, SaveOccupies DEF HttpInv, Occupied
    <3>2. CASE HttpErases
      BY <3>2 DEF HttpErases, Blank, Occupied, StorageTypeOK, FleetTypeOK
    <3>3. CASE HttpClears \/ HttpSelects
      BY <3>3 DEF HttpClears, HttpSelects, Occupied
    <3> QED
      BY <1>4, <3>1, <3>2, <3>3 DEF HttpWorks, HttpStep
  <2>3. PairInv'
    BY <1>2, <2>2 DEF PairInv
  <2> QED
    BY <2>1, <2>2, <2>3, NoNewRecord DEF HttpInv
<1> QED
  BY <1>3, <1>4
\* The steps of the pairing task.
LEMMA PairUnique ==
    ASSUME TypeInv, UniqueInv, PairWorks
    PROVE  HttpInv' /\ PairInv' /\ OneSlotPerAircraft'
<1> USE DEF TypeInv, UniqueInv
<1>1. "http" \in Worker /\ "pair" \in Worker /\ "http" # "pair"
      /\ job \in [Worker -> Job]
  BY DEF Worker, StorageTypeOK, FleetTypeOK
<1>2. job'["http"] = job["http"]
  BY <1>1 DEF PairWorks, PairStep, PairFinds, PairEnlists, PairSaves,
     PairVerifies, Go, End
<1>3. CASE UNCHANGED slot
  <2>1. HttpInv' /\ OneSlotPerAircraft'
    BY <1>2, <1>3 DEF HttpInv, OneSlotPerAircraft, Occupied, At
  <2>2. (\E c : End("pair", c)) => PairInv'
    BY <1>1 DEF End, NoJob, PairInv
  <2>3. Go("pair", "verify") => PairInv'
    BY <1>1 DEF Go, PairInv, Job
  <2>4. CASE PairFinds
    <3>1. \/ At("pair", "find") /\ Go("pair", "enlist")
          \/ \E c : End("pair", c)
          \/ /\ Lookup(job["pair"].uid) = "ok" /\ PairRotates
             /\ slot[SlotOf(job["pair"].uid)].state # "REVOKED"
      BY <2>4 DEF PairFinds, PairRotates
    <3>2. ASSUME At("pair", "find"), Go("pair", "enlist") PROVE PairInv'
      BY <1>1, <3>2 DEF At, Go, PairInv, Job
    <3>3. ASSUME Lookup(job["pair"].uid) = "ok", PairRotates,
                 slot[SlotOf(job["pair"].uid)].state # "REVOKED"
          PROVE  PairInv'
      <4> DEFINE u == job["pair"].uid
      <4>1. /\ SlotOf(u) \in Occupied /\ slot[SlotOf(u)].uid = u
            /\ slot[SlotOf(u)].state = "ACTIVE"
            /\ slot[SlotOf(u)] \in Record
        BY <3>3, LookupFinds DEF Occupied, StorageTypeOK, FleetTypeOK
      <4>2. /\ job'["pair"].uid = u /\ job'["pair"].slot = SlotOf(u)
            /\ job'["pair"].record.uid = u
            /\ job'["pair"].record.state = "ACTIVE"
        BY <1>1, <3>3, <4>1 DEF PairRotates, Job, Record
      <4>3. \A s \in Occupied : slot[s].uid = u <=> s = SlotOf(u)
        BY <4>1 DEF OneSlotPerAircraft
      <4> QED
        BY <1>3, <4>2, <4>3 DEF PairInv, Occupied
    <3> QED
      BY <2>1, <2>2, <3>1, <3>2, <3>3
  <2>5. CASE PairEnlists
    <3>1. \/ \E c : End("pair", c)
          \/ /\ Lookup(job["pair"].uid) = "notFound"
             /\ \E s \in FirstFree :
                  job' = [job EXCEPT !["pair"] =
                            [@ EXCEPT !.at = "save", !.slot = s]]
      BY <2>5 DEF PairEnlists
    <3>2. ASSUME Lookup(job["pair"].uid) = "notFound", NEW s \in FirstFree,
                 job' = [job EXCEPT !["pair"] =
                           [@ EXCEPT !.at = "save", !.slot = s]]
          PROVE  PairInv'
      <4>1. /\ job'["pair"].uid = job["pair"].uid
            /\ job'["pair"].slot = s
            /\ job'["pair"].record = job["pair"].record
        BY <1>1, <3>2 DEF Job
      <4>2. s \notin Occupied
        BY DEF FirstFree, Free, Occupied
      <4>3. \A t \in Occupied : slot[t].uid # job["pair"].uid
        BY <3>2, LookupFinds DEF Matches
      <4>4. At("pair", "enlist")
        BY <2>5 DEF PairEnlists
      <4> QED
        BY <1>3, <4>1, <4>2, <4>3, <4>4 DEF PairInv, Occupied, At
    <3> QED
      BY <2>1, <2>2, <3>1, <3>2
  <2>6. CASE PairSaves \/ PairVerifies
    <3>1. Go("pair", "verify") \/ \E c : End("pair", c)
      BY <2>6 DEF PairSaves, PairVerifies
    <3> QED
      BY <2>1, <2>2, <2>3, <3>1
  <2> QED
    BY <2>1, <2>4, <2>5, <2>6 DEF PairWorks, PairStep
<1>4. CASE PairSaves
  <2>1. PICK o \in SaveOutcome(job["pair"].slot, job["pair"].record) :
          /\ slot' = o.flash
          /\ Go("pair", "verify") \/ End("pair", o.says)
    BY <1>4 DEF PairSaves
  <2>2. /\ job["pair"].slot \in Slot /\ job["pair"].record \in Record
        /\ job["pair"].record.uid = job["pair"].uid
        /\ job["pair"].record.state = "ACTIVE"
        /\ \A s \in Occupied :
             slot[s].uid = job["pair"].uid <=> s = job["pair"].slot
    BY <1>1, <1>4, JobType DEF PairSaves, At, PairInv
  <2>3. /\ \A t \in Slot \ {job["pair"].slot} :
             (t \in Occupied' <=> t \in Occupied) /\ slot'[t] = slot[t]
        /\ LET s == job["pair"].slot
           IN  \/ slot'[s] = slot[s] /\ (s \in Occupied' <=> s \in Occupied)
               \/ s \in Occupied' /\ slot'[s].uid = job["pair"].uid
    BY <2>1, <2>2, SaveOccupies
  <2>4. job'["pair"].at \in {"verify", "idle"}
    BY <1>1, <2>1 DEF Go, End, NoJob, Job
  <2>5. HttpInv'
    BY <1>2, <2>2, <2>3 DEF HttpInv, At, Occupied
  <2>6. OneSlotPerAircraft'
    BY <2>2, <2>3 DEF OneSlotPerAircraft, Occupied
  <2> QED
    BY <2>4, <2>5, <2>6 DEF PairInv
<1> QED
  BY <1>3, <1>4 DEF PairWorks, PairStep, PairFinds, PairEnlists, PairVerifies

\* A start writes only copies and wrapped keys, and begins with idle tasks.
LEMMA BootUnique ==
    ASSUME TypeInv, IdleInv, MigrationInv, UniqueInv, BootCopies \/ BootWraps
    PROVE  HttpInv' /\ PairInv' /\ OneSlotPerAircraft'
<1>1. HttpInv' /\ PairInv'
  <2>1. UNCHANGED job /\ phase = "boot"
    BY DEF BootCopies, BootWraps, Booting
  <2>2. \A w \in Worker : job'[w].at = "idle"
    BY <2>1 DEF IdleInv, NoJob
  <2> QED
    BY <2>2 DEF HttpInv, PairInv, At, Worker
<1>2. CASE BootCopies
  <2>1. ~migrated
    BY <1>2 DEF BootCopies, Booting, UniqueInv, CopyInv
  <2>2. \A s \in Slot : slot'[s] \in {slot[s], legacy.slot[s]}
    BY <1>2 DEF BootCopies, Copied, Source, CopyNext, TypeInv, StorageTypeOK,
       FleetTypeOK
  <2>3. \A s \in Occupied' : slot'[s] = legacy.slot[s]
    BY <2>1, <2>2 DEF MigrationInv, Occupied
  <2> QED
    BY <1>1, <2>3 DEF MigrationInv, LegacyInv, OneSlotPerAircraft, Occupied
<1>3. CASE BootWraps
  <2>1. \A s \in Occupied' : s \in Occupied /\ slot'[s].uid = slot[s].uid
    <3>1. /\ chosen \in Slot /\ slot[chosen] \in Record
          /\ Wrapped(slot[chosen]) \in Record
          /\ Wrapped(slot[chosen]).uid = slot[chosen].uid
          /\ Wrapped(slot[chosen]).state = slot[chosen].state
      <4>1. chosen \in Slot /\ slot[chosen] \in Record /\ fmk \in Nat
        BY <1>3 DEF BootWraps, Booting, TypeInv, ChosenInv, Late,
           StorageTypeOK, FleetTypeOK
      <4> QED
        BY <4>1 DEF Wrapped, Record
    <3>2. \/ UNCHANGED slot
          \/ \E o \in SaveOutcome(chosen, Wrapped(slot[chosen])) :
               slot' = o.flash
      BY <1>3 DEF BootWraps
    <3>3. StorageTypeOK
      BY DEF TypeInv
    <3> QED
      BY <3>1, <3>2, <3>3, SaveKeeps DEF Saved, Occupied
  <2> QED
    BY <1>1, <2>1, NoNewRecord
<1> QED
  BY <1>2, <1>3

LEMMA UniqueStep ==
    TypeInv /\ IdleInv /\ MigrationInv /\ UniqueInv /\ [Next]_vars => UniqueInv'
<1> SUFFICES ASSUME TypeInv, IdleInv, MigrationInv, UniqueInv, [Next]_vars
             PROVE  HttpInv' /\ PairInv' /\ OneSlotPerAircraft'
  BY CopyStep DEF UniqueInv
<1>1. CASE UNCHANGED <<slot, job>>
  BY <1>1 DEF UniqueInv, HttpInv, PairInv, OneSlotPerAircraft, Occupied, At
<1>2. CASE RecordDecays
  <2>1. UNCHANGED job
        /\ \A s \in Occupied' : s \in Occupied /\ slot'[s].uid = slot[s].uid
    BY <1>2 DEF RecordDecays, Occupied, Blank, TypeInv, StorageTypeOK,
       FleetTypeOK
  <2>2. \A w \in Worker : job'[w].at = "idle"
    BY <1>2, <2>1 DEF RecordDecays, IdleInv, NoJob
  <2> QED
    BY <2>1, <2>2, NoNewRecord DEF HttpInv, PairInv, At, Worker
<1>3. CASE PowerOff
  BY <1>3 DEF PowerOff, RamCleared, JobsLost, NoJob, HttpInv, PairInv, At,
     Worker, OneSlotPerAircraft, Occupied, UniqueInv
<1>4. ASSUME NEW u \in Uid, NEW g \in 1 .. MaxGeneration, NEW k \in Key,
             CommitEnrolls(u, g, k), ~UNCHANGED job
      PROVE  HttpInv' /\ PairInv' /\ OneSlotPerAircraft'
  <2>1. PairBegins(u, g, k, fmk)
    BY <1>4 DEF CommitEnrolls, fleetVars
  <2>2. job \in [Worker -> Job] /\ "pair" \in Worker /\ "http" \in Worker
    BY DEF TypeInv, StorageTypeOK, FleetTypeOK, Worker
  <2>3. /\ job'["http"] = job["http"] /\ UNCHANGED slot
        /\ job'["pair"].at = "find" /\ job'["pair"].uid = u
        /\ job'["pair"].record.uid = u
        /\ job'["pair"].record.state = "ACTIVE"
    BY <2>1, <2>2 DEF PairBegins, NoJob, Blank
  <2> QED
    BY <2>3 DEF UniqueInv, HttpInv, PairInv, OneSlotPerAircraft, Occupied, At
<1> QED
  BY <1>1, <1>2, <1>3, <1>4, SlotMoves, JobMoves, HttpUnique, PairUnique,
     BootUnique

\* No aircraft ever has two records: requests of the owner and a pairing may
\* interleave at every access to flash, writes may fail or be cut off, and the
\* copy of the earlier fleet may be repeated.
THEOREM OneSlotAlways == Spec => []OneSlotPerAircraft
<1> DEFINE Inv == TypeInv /\ IdleInv /\ MigrationInv /\ UniqueInv
<1>1. Init => Inv
  <2>1. Init => UniqueInv
    BY DEF Init, UniqueInv, CopyInv, HttpInv, PairInv, OneSlotPerAircraft,
       Occupied, Blank, NoJob, At, Worker
  <2> QED
    BY <2>1, TypeInit, MigrationInit DEF Init, IdleInv
<1>2. Inv /\ [Next]_vars => Inv'
  BY TypeStep, IdleStep, MigrationStep, UniqueStep
<1>3. Inv => OneSlotPerAircraft
  BY DEF UniqueInv
<1> QED
  BY <1>1, <1>2, <1>3, PTL DEF Spec
-----------------------------------------------------------------------------
(* What is flown.                                                          *)

\* A start has come to one of these steps, or has ended in normal operation.
Reached(steps) == phase = "normal" \/ (phase = "boot" /\ boot \in steps)

\* Each step of a start adds what it has found out; nothing that a start has
\* found out can change before power is lost.
FlownInv ==
    /\ Reached(BootStep \ {"load"})
       => runtime.generation = enrollment.generation
    /\ Reached(Late) => BootSlots = {chosen} /\ chosen \in Slot
    /\ Reached({"agree", "retire", "reserve"}) => slot[chosen].wrap = fmk
    /\ Reached({"retire", "reserve"})
       => slot[chosen].generation = runtime.generation
    /\ Reached({"reserve"}) => installed = slot[chosen].key

\* The validation leaves one aircraft, whichever way it was determined.
LEMMA OneBootSlot ==
    ASSUME NEW s \in BootSlots
    PROVE  BootSlots = {s}
<1>1. IsFiniteSet(Active)
  <2>1. IsFiniteSet(Slot)
    BY FleetAssumption, FS_Interval DEF Slot
  <2> QED
    BY <2>1, FS_Subset DEF Active, Occupied
<1>2. CASE OperationStatus = "READY"
  <2>1. BootSlots = Active
    BY <1>2 DEF BootSlots
  <2>2. Cardinality(Active) = 1
    BY <1>2 DEF OperationStatus
  <2>3. PICK t : Active = {t}
    BY <1>1, <2>2, FS_Singleton
  <2> QED
    BY <2>1, <2>3
<1>3. CASE OperationStatus # "READY"
  BY <1>3 DEF BootSlots, StoreIsValid, Active
<1> QED
  BY <1>2, <1>3

\* It looks at which aircraft the slots are of and at their states only.
LEMMA BootSlotsKept ==
    ASSUME UNCHANGED selected,
           \A s \in Slot : /\ slot'[s].uid = slot[s].uid
                           /\ slot'[s].state = slot[s].state
    PROVE  BootSlots' = BootSlots
<1>1. Occupied' = Occupied
  BY DEF Occupied
<1>2. Active' = Active
  BY <1>1 DEF Active, Occupied
<1>3. OperationStatus' = OperationStatus
  BY <1>2 DEF OperationStatus
<1>4. StoreIsValid' <=> StoreIsValid
  <2>1. Readable' <=> Readable
    BY DEF Readable, Decodes
  <2>2. \A s, t \in Occupied : slot'[s].uid = slot'[t].uid
                             <=> slot[s].uid = slot[t].uid
    BY DEF Occupied
  <2> QED
    BY <1>1, <2>1, <2>2 DEF StoreIsValid
<1>5. {s \in Active' : slot'[s].uid = selected'} =
      {s \in Active : slot[s].uid = selected}
  BY <1>2 DEF Active, Occupied
<1> QED
  BY <1>2, <1>3, <1>4, <1>5 DEF BootSlots

LEMMA FlownStep ==
    TypeInv /\ IdleInv /\ FlownInv /\ [Next]_vars => FlownInv'
<1> SUFFICES ASSUME TypeInv, IdleInv, FlownInv, [Next]_vars
             PROVE  FlownInv'
  OBVIOUS
<1> USE DEF Booting, Then, Block, Reached, Late
<1>1. ASSUME phase' \notin {"boot", "normal"} PROVE FlownInv'
  BY <1>1 DEF FlownInv
<1>2. ASSUME UNCHANGED <<slot, selected, fmk, enrollment, runtime, phase, boot,
                         chosen, installed>>
      PROVE  FlownInv'
  <2>1. UNCHANGED BootSlots
    BY <1>2, BootSlotsKept
  <2> QED
    BY <1>2, <2>1 DEF FlownInv
<1>3. ASSUME phase' = "boot",
             boot' \in {"load", "mount", "copy", "copySelected", "recheck",
                        "counter", "mark", "provision", "unlock", "mode"},
             boot' = "load" \/ runtime'.generation = enrollment'.generation
      PROVE  FlownInv'
  BY <1>3 DEF FlownInv
<1>4. CASE \E m \in Mode : PowerOn(m)
  BY <1>3, <1>4 DEF PowerOn
<1>5. CASE BootLoads
  <2>1. runtime' = Loaded(enrollment) \/ phase' = "blocked"
    BY <1>5 DEF BootLoads
  <2>2. Loaded(enrollment).generation = enrollment.generation
    BY DEF Loaded, TypeInv, StorageTypeOK, Enrollment
  <2> QED
    BY <1>1, <1>3, <1>5, <2>1, <2>2 DEF BootLoads, flashVars
<1>6. CASE \/ BootMounts \/ BootCopies \/ BootCopiesSelected \/ BootRechecks
           \/ BootMovesCounter \/ BootMarks \/ BootProvisions \/ BootUnlocks
  <2>1. UNCHANGED <<enrollment, runtime>>
    BY <1>6 DEF BootMounts, BootCopies, BootCopiesSelected, BootRechecks,
       BootMovesCounter, BootMarks, BootProvisions, BootUnlocks, flashVars,
       ramVars
  <2>2. phase = "boot" /\ boot \in BootStep \ {"load"}
    BY <1>6 DEF BootMounts, BootCopies, BootCopiesSelected, BootRechecks,
       BootMovesCounter, BootMarks, BootProvisions, BootUnlocks, BootStep
  <2>3. \/ phase' \in {"blocked", "recovery"}
        \/ /\ phase' = "boot"
           /\ boot' \in {"copy", "copySelected", "recheck", "counter", "mark",
                         "provision", "unlock", "mode"}
    BY <1>6 DEF BootMounts, BootCopies, CopyNext, BootCopiesSelected,
       BootRechecks, BootMovesCounter, BootMarks, BootProvisions, BootUnlocks
  <2> QED
    BY <1>1, <1>3, <2>1, <2>2, <2>3 DEF FlownInv
<1>7. CASE BootChooses \/ BootValidates
  <2>1. UNCHANGED <<slot, selected, enrollment, runtime>>
    BY <1>7 DEF BootChooses, BootValidates, fleetVars, flashVars, ramVars
  <2>2. UNCHANGED BootSlots
    BY <2>1, BootSlotsKept
  <2>3. \/ phase' \notin {"boot", "normal"}
        \/ /\ phase' = "boot" /\ boot' = "validate"
        \/ /\ phase' = "boot" /\ boot' = "wrap" /\ chosen' \in BootSlots
    BY <1>7 DEF BootChooses, BootValidates
  <2>4. phase = "boot" /\ boot \in BootStep \ {"load"}
    BY <1>7 DEF BootChooses, BootValidates, BootStep
  <2>5. BootSlots \subseteq Slot
    BY DEF BootSlots, Active, Occupied
  <2> QED
    BY <1>1, <2>1, <2>2, <2>3, <2>4, <2>5, OneBootSlot DEF FlownInv
<1>8. CASE BootWraps
  <2>1. /\ chosen \in Slot /\ BootSlots = {chosen}
        /\ runtime.generation = enrollment.generation
    BY <1>8 DEF BootWraps, FlownInv, BootStep
  <2>2. /\ slot[chosen] \in Record /\ Wrapped(slot[chosen]) \in Record
        /\ Wrapped(slot[chosen]).uid = slot[chosen].uid
        /\ Wrapped(slot[chosen]).state = slot[chosen].state
        /\ Wrapped(slot[chosen]).wrap = fmk
    <3>1. slot[chosen] \in Record /\ fmk \in Nat
      BY <2>1 DEF TypeInv, StorageTypeOK, FleetTypeOK
    <3> QED
      BY <3>1 DEF Wrapped, Record
  <2>3. \/ /\ phase' = "boot" /\ boot' = "agree"
           /\ slot'[chosen].wrap = fmk
        \/ phase' = "blocked"
    <3>1. CASE slot[chosen].wrap # 0
      BY <1>8, <3>1 DEF BootWraps, Unwraps
    <3>2. CASE slot[chosen].wrap = 0
      <4>1. PICK o \in SaveOutcome(chosen, Wrapped(slot[chosen])) :
              /\ slot' = o.flash
              /\ IF o.says = "ok" THEN Then("agree") ELSE Block
        BY <1>8, <3>2 DEF BootWraps
      <4>2. o.says = "ok" => o.flash[chosen].wrap = fmk
        BY <2>1, <2>2, SaveKeeps DEF TypeInv, Saved
      <4> QED
        BY <1>8, <4>1, <4>2 DEF BootWraps
    <3> QED
      BY <3>1, <3>2
  <2>4. \A s \in Slot : /\ slot'[s].uid = slot[s].uid
                        /\ slot'[s].state = slot[s].state
    <3>1. \/ UNCHANGED slot
          \/ \E o \in SaveOutcome(chosen, Wrapped(slot[chosen])) :
               slot' = o.flash
      BY <1>8 DEF BootWraps
    <3>2. StorageTypeOK
      BY DEF TypeInv
    <3> QED
      BY <2>1, <2>2, <3>1, <3>2, SaveKeeps DEF Saved
  <2>5. UNCHANGED <<selected, fmk, enrollment, runtime, chosen>>
    BY <1>8 DEF BootWraps, flashVars, ramVars
  <2>6. BootSlots' = {chosen'}
    BY <2>1, <2>4, <2>5, BootSlotsKept
  <2> QED
    BY <1>1, <2>1, <2>3, <2>5, <2>6 DEF FlownInv
<1>9. CASE BootAgrees \/ BootRetires \/ BootReserves
  <2>1. UNCHANGED <<slot, selected, fmk, chosen>>
    BY <1>9 DEF BootAgrees, BootRetires, BootReserves, fleetVars, flashVars,
       ramVars
  <2>2. UNCHANGED BootSlots
    BY <2>1, BootSlotsKept
  <2>3. /\ BootSlots = {chosen} /\ chosen \in Slot /\ slot[chosen].wrap = fmk
        /\ runtime.generation = enrollment.generation
    BY <1>9 DEF BootAgrees, BootRetires, BootReserves, FlownInv, BootStep
  <2>4. CASE BootAgrees
    <3>1. \/ phase' = "blocked"
          \/ /\ phase' = "boot" /\ boot' = "retire"
             /\ slot[chosen].generation = runtime.generation
             /\ UNCHANGED <<enrollment, runtime>>
      BY <2>4 DEF BootAgrees, Consistent, flashVars, ramVars
    <3> QED
      BY <1>1, <2>1, <2>2, <2>3, <3>1 DEF FlownInv
  <2>5. CASE BootRetires
    <3>1. \/ phase' = "blocked"
          \/ /\ phase' = "boot" /\ boot' = "reserve"
             /\ installed' = slot[chosen].key
             /\ enrollment' = enrollment \/ enrollment' = Metadata(runtime)
             /\ runtime' = runtime \/ runtime' = [runtime EXCEPT !.key = Nobody]
      BY <2>5 DEF BootRetires
    <3>2. /\ Metadata(runtime).generation = runtime.generation
          /\ [runtime EXCEPT !.key = Nobody].generation = runtime.generation
      BY DEF Metadata, TypeInv, StorageTypeOK, Enrollment
    <3>3. slot[chosen].generation = runtime.generation
      BY <2>5 DEF BootRetires, FlownInv
    <3> QED
      BY <1>1, <2>1, <2>2, <2>3, <3>1, <3>2, <3>3 DEF FlownInv
  <2>6. CASE BootReserves
    <3>1. \/ phase' = "blocked"
          \/ /\ phase' = "normal"
             /\ UNCHANGED <<enrollment, runtime, installed>>
      BY <2>6 DEF BootReserves, flashVars
    <3>2. /\ slot[chosen].generation = runtime.generation
          /\ installed = slot[chosen].key
      BY <2>6 DEF BootReserves, FlownInv
    <3> QED
      BY <1>1, <2>1, <2>2, <2>3, <3>1, <3>2 DEF FlownInv
  <2> QED
    BY <1>9, <2>4, <2>5, <2>6
<1>10. CASE Maintenance
  <2>1. UNCHANGED phase /\ (phase = "maintenance" \/ CommitEnds)
    BY <1>10 DEF Maintenance, OwnerAsks, HttpWorks, PairWorks, CommitEnrolls,
       CommitEnds
  <2> QED
    BY <1>1, <2>1 DEF CommitEnds, IdleInv, NoCommit
<1>11. CASE PowerOff \/ EnrollmentDecays \/ RecordDecays
  BY <1>1, <1>11 DEF PowerOff, EnrollmentDecays, RecordDecays
<1>12. CASE UNCHANGED vars
  BY <1>2, <1>12 DEF vars, fleetVars, flashVars, bootVars, ramVars
<1> QED
  BY <1>4, <1>5, <1>6, <1>7, <1>8, <1>9, <1>10, <1>11, <1>12 DEF Next, Starting

\* In normal operation the secure link has the key of the one aircraft that
\* may be flown, of the generation of the last pairing, wrapped under the key
\* in flash, whatever cut off the commits and starts before.
THEOREM FlownKeyAlwaysPaired == Spec => []FlownKeyIsPaired
<1> DEFINE Inv == TypeInv /\ IdleInv /\ FlownInv
<1>1. Init => Inv
  <2>1. Init => FlownInv
    BY DEF Init, FlownInv, Reached
  <2> QED
    BY <2>1, TypeInit DEF Init, IdleInv
<1>2. Inv /\ [Next]_vars => Inv'
  BY TypeStep, IdleStep, FlownStep
<1>3. Inv => FlownKeyIsPaired
  BY DEF FlownInv, Reached, FlownKeyIsPaired
<1> QED
  BY <1>1, <1>2, <1>3, PTL DEF Spec
-----------------------------------------------------------------------------
(* The fleet implements the registry.                                      *)

\* What a task was asked for.
RequestInv ==
    LET j == job["http"]
    IN  /\ j.at \in {"idle", "save", "clear", "select", "erase"}
        /\ j.at # "idle" => j.uid \in Uid
        /\ j.at = "save" => /\ j.kind \in {"revoke", "restore"}
                           /\ j.record.uid = j.uid
                           /\ j.record.state = Judged(j.kind)

OfferInv ==
    LET j == job["pair"]
    IN  j.at \in {"find", "enlist", "save"}
        => j.uid \in Uid /\ j.record.generation > 0

\* The owner's request still finds its aircraft in this state.
Holds(state) ==
    LET j == job["http"]
    IN  slot[j.slot].state = state /\ slot[j.slot].uid = j.uid

\* As long as no task has overtaken the other, counters only grow, so that a
\* record of which the counter has not changed has not changed at all.
FreshInv ==
    ~overtaken =>
      LET h == job["http"]
          p == job["pair"]
      IN  /\ At("http", "save") =>
               /\ h.record.counter <= slot[h.slot].counter
               /\ h.record.counter = slot[h.slot].counter
                  => /\ slot[h.slot].state = Needed(h.kind)
                     /\ slot[h.slot].generation = h.record.generation
                     /\ slot[h.slot].key = h.record.key
          /\ At("http", "clear") => Holds("REVOKED") /\ selected = h.uid
          /\ At("http", "erase") => Holds("REVOKED")
          /\ At("http", "select") => Holds("ACTIVE")
          /\ At("pair", "save") /\ slot[p.slot].state # "EMPTY" =>
               /\ p.record.counter <= slot[p.slot].counter
               /\ p.record.counter = slot[p.slot].counter
                  => /\ slot[p.slot].state = "ACTIVE"
                     /\ slot[p.slot].generation < p.record.generation

Jobs == RequestInv /\ OfferInv /\ FreshInv

LEMMA HttpJobs ==
    ASSUME TypeInv, UniqueInv, Jobs, OwnerAsks \/ HttpWorks
    PROVE  Jobs'
<1> USE DEF TypeInv, UniqueInv, Jobs
<1>1. "http" \in Worker /\ "pair" \in Worker /\ "http" # "pair"
      /\ job \in [Worker -> Job] /\ slot \in [Slot -> Record]
  BY DEF Worker, StorageTypeOK, FleetTypeOK
<1>2. job'["pair"] = job["pair"]
  BY <1>1 DEF OwnerAsks, HttpArrives, Revoke, Restore, Delete, Select,
     HttpRequest, HttpWorks, HttpStep, HttpSaves, HttpClears, HttpSelects,
     HttpErases, Go, End
<1>3. OfferInv'
  BY <1>2 DEF OfferInv
<1>4. ASSUME NEW c, End("http", c) PROVE job'["http"] = NoJob
  BY <1>1, <1>4 DEF End
<1>5. CASE OwnerAsks
  <2>1. UNCHANGED <<slot, selected, overtaken>>
    BY <1>5 DEF OwnerAsks, HttpArrives, Revoke, Restore, Delete, Select,
       HttpRequest
  <2>2. PICK u \in Uid, kind \in {"revoke", "restore", "delete", "select"} :
          HttpRequest(kind, u)
    BY <1>5 DEF OwnerAsks, HttpArrives, Revoke, Restore, Delete, Select
  <2>3. CASE Lookup(u) = "ok" /\ slot[SlotOf(u)].state = Needed(kind)
    <3> DEFINE r == slot[SlotOf(u)]
    <3>1. r \in Record /\ r.uid = u /\ r.counter \in Nat
      BY <1>1, <2>3, LookupFinds DEF Record
    <3>2. job'["http"] =
            [kind |-> kind, at |-> FirstWrite(kind), uid |-> u,
             slot |-> SlotOf(u), record |-> [r EXCEPT !.state = Judged(kind)]]
      BY <1>1, <2>2, <2>3 DEF HttpRequest
    <3>3. /\ job'["http"].record.uid = u
          /\ job'["http"].record.state = Judged(kind)
          /\ job'["http"].record.generation = r.generation
          /\ job'["http"].record.key = r.key
          /\ job'["http"].record.counter = r.counter
      BY <3>1, <3>2 DEF Record
    <3>4. RequestInv'
      BY <2>2, <3>2, <3>3 DEF RequestInv, FirstWrite, Judged
    <3> QED
      BY <1>2, <1>3, <2>1, <2>3, <3>1, <3>2, <3>3, <3>4
         DEF FreshInv, FirstWrite, Needed, Holds, At
  <2>4. CASE ~(Lookup(u) = "ok" /\ slot[SlotOf(u)].state = Needed(kind))
    <3>1. job'["http"] = NoJob
      BY <1>1, <2>2, <2>4 DEF HttpRequest, End
    <3> QED
      BY <1>2, <1>3, <2>1, <3>1 DEF RequestInv, FreshInv, At, NoJob
  <2> QED
    BY <2>3, <2>4
<1>6. CASE HttpSaves /\ HttpWorks
  <2> DEFINE j == job["http"]
             s == j.slot
  <2>1. PICK o \in SaveOutcome(s, j.record) :
          /\ slot' = o.flash
          /\ IF o.says = "ok" /\ j.kind = "revoke" /\ selected = j.uid
             THEN Go("http", "clear") ELSE End("http", o.says)
    BY <1>6 DEF HttpSaves
  <2>2. /\ s \in Slot /\ s \in Occupied /\ slot[s].uid = j.uid
        /\ j.record \in Record /\ j.record.counter \in Nat
        /\ j.uid \in Uid /\ j.record.uid = j.uid
        /\ j.record.state = Judged(j.kind)
    BY <1>1, <1>6, JobType DEF HttpSaves, HttpInv, RequestInv, At, Record
  <2>3. UNCHANGED selected
        /\ (~overtaken' => ~overtaken /\ slot[s].counter = j.record.counter)
    BY <1>6 DEF HttpWorks, HttpSaves, Overtakes
  <2>4. /\ \A t \in Slot \ {s} : slot'[t] = slot[t]
        /\ slot'[s] = slot[s] \/ slot'[s].counter = j.record.counter + 1
        /\ o.says = "ok" => /\ slot'[s].state = j.record.state
                            /\ slot'[s].uid = j.record.uid
    BY <2>1, <2>2, SaveKeeps DEF Saved
  <2>5. \/ job'["http"] = NoJob
        \/ /\ job'["http"] = [j EXCEPT !.at = "clear"]
           /\ o.says = "ok" /\ j.kind = "revoke" /\ selected = j.uid
    BY <1>1, <1>4, <2>1 DEF Go
  <2>6. RequestInv'
    BY <1>1, <2>2, <2>5 DEF RequestInv, NoJob, Job
  <2>7. ~At("http", "save")' /\ ~At("http", "erase")'
        /\ ~At("http", "select")'
    BY <1>1, <2>5 DEF At, NoJob, Job
  <2>8. At("http", "clear")'
        => Holds("REVOKED")' /\ selected' = job'["http"].uid
    BY <1>1, <2>2, <2>3, <2>4, <2>5 DEF At, Holds, NoJob, Job, Judged
  <2>9. ~overtaken' /\ At("pair", "save") =>
          LET p == job["pair"]
          IN  slot'[p.slot].state # "EMPTY" =>
                /\ p.record.counter <= slot'[p.slot].counter
                /\ p.record.counter = slot'[p.slot].counter
                   => /\ slot'[p.slot].state = "ACTIVE"
                      /\ slot'[p.slot].generation < p.record.generation
    <3>1. job["pair"].slot \in Slot /\ job["pair"].record.counter \in Nat
      BY <1>1, JobType DEF Record
    <3>2. slot[s].state # "EMPTY"
      BY <2>2 DEF Occupied
    <3> QED
      BY <2>2, <2>3, <2>4, <3>1, <3>2 DEF FreshInv
  <2> QED
    BY <1>2, <1>3, <2>6, <2>7, <2>8, <2>9 DEF FreshInv, At
<1>7. CASE (HttpClears \/ HttpSelects \/ HttpErases) /\ HttpWorks
  <2>1. job'["http"] = NoJob
    BY <1>4, <1>7 DEF HttpClears, HttpSelects, HttpErases
  <2>2. \A t \in Slot : slot'[t] = slot[t] \/ slot'[t] = Blank
    BY <1>1, <1>7 DEF HttpClears, HttpSelects, HttpErases
  <2>3. ~overtaken' => ~overtaken
    BY <1>7 DEF HttpWorks
  <2>4. job["pair"].slot \in Slot
    BY <1>1, JobType
  <2> QED
    BY <1>2, <1>3, <2>1, <2>2, <2>3, <2>4
       DEF RequestInv, FreshInv, At, NoJob, Blank
<1> QED
  BY <1>5, <1>6, <1>7 DEF HttpWorks, HttpStep

LEMMA PairJobs ==
    ASSUME TypeInv, UniqueInv, Jobs, PairWorks
    PROVE  Jobs'
<1> USE DEF TypeInv, UniqueInv, Jobs
<1> DEFINE j == job["pair"]
           Fresh(f, k) ==
             f[k.slot].state # "EMPTY" =>
               /\ k.record.counter <= f[k.slot].counter
               /\ k.record.counter = f[k.slot].counter
                  => /\ f[k.slot].state = "ACTIVE"
                     /\ f[k.slot].generation < k.record.generation
<1>1. "http" \in Worker /\ "pair" \in Worker /\ "http" # "pair"
      /\ job \in [Worker -> Job] /\ slot \in [Slot -> Record]
  BY DEF Worker, StorageTypeOK, FleetTypeOK
<1>2. job'["http"] = job["http"] /\ UNCHANGED selected
  BY <1>1 DEF PairWorks, PairStep, PairFinds, PairEnlists, PairSaves,
     PairVerifies, Go, End
<1>3. RequestInv'
  BY <1>2 DEF RequestInv
<1>4. ~overtaken' => ~overtaken
  BY DEF PairWorks
<1>5. CASE UNCHANGED slot
  <2>1. ASSUME OfferInv', At("pair", "save")' => Fresh(slot, job'["pair"])
        PROVE  Jobs'
    BY <1>2, <1>3, <1>4, <1>5, <2>1 DEF FreshInv, At, Holds
  <2>2. ASSUME job'["pair"].at \in {"idle", "verify"} PROVE Jobs'
    BY <2>1, <2>2 DEF OfferInv, At
  <2>3. (\E c : End("pair", c)) \/ Go("pair", "verify") => Jobs'
    BY <1>1, <2>2 DEF End, Go, NoJob, Job
  <2>4. CASE PairFinds
    <3>1. \/ At("pair", "find") /\ Go("pair", "enlist")
          \/ \E c : End("pair", c)
          \/ /\ At("pair", "find")
             /\ Lookup(j.uid) = "ok" /\ PairRotates
             /\ slot[SlotOf(j.uid)].state # "REVOKED"
             /\ ~(j.record.generation < slot[SlotOf(j.uid)].generation)
             /\ j.record.generation # slot[SlotOf(j.uid)].generation
      BY <2>4 DEF PairFinds, PairRotates
    <3>2. ASSUME At("pair", "find"), Go("pair", "enlist") PROVE Jobs'
      BY <1>1, <2>1, <3>2 DEF At, Go, OfferInv, Job
    <3>3. ASSUME At("pair", "find"), Lookup(j.uid) = "ok", PairRotates,
                 slot[SlotOf(j.uid)].state # "REVOKED",
                 ~(j.record.generation < slot[SlotOf(j.uid)].generation),
                 j.record.generation # slot[SlotOf(j.uid)].generation
          PROVE  Jobs'
      <4> DEFINE r == slot[SlotOf(j.uid)]
      <4>1. /\ r \in Record /\ r.state = "ACTIVE" /\ r.counter \in Nat
            /\ r.generation \in Nat /\ j.record.generation \in Nat
        BY <1>1, <3>3, JobType, LookupFinds DEF Record
      <4>2. /\ job'["pair"].uid = j.uid
            /\ job'["pair"].slot = SlotOf(j.uid)
            /\ job'["pair"].record.generation = j.record.generation
            /\ job'["pair"].record.counter = r.counter
        BY <1>1, <3>3, <4>1 DEF PairRotates, Job, Record
      <4>3. r.generation < j.record.generation
        BY <3>3, <4>1
      <4> QED
        BY <2>1, <3>3, <4>1, <4>2, <4>3 DEF OfferInv, At
    <3> QED
      BY <2>3, <3>1, <3>2, <3>3
  <2>5. CASE PairEnlists
    <3>1. \/ \E c : End("pair", c)
          \/ \E s \in FirstFree :
               job' = [job EXCEPT !["pair"] =
                         [@ EXCEPT !.at = "save", !.slot = s]]
      BY <2>5 DEF PairEnlists
    <3>2. ASSUME NEW s \in FirstFree,
                 job' = [job EXCEPT !["pair"] =
                           [@ EXCEPT !.at = "save", !.slot = s]]
          PROVE  Jobs'
      <4>1. /\ job'["pair"].uid = j.uid /\ job'["pair"].slot = s
            /\ job'["pair"].record = j.record
        BY <1>1, <3>2 DEF Job
      <4>2. slot[s].state = "EMPTY" /\ At("pair", "enlist")
        BY <2>5 DEF PairEnlists, FirstFree, Free
      <4> QED
        BY <2>1, <4>1, <4>2 DEF OfferInv, At
    <3> QED
      BY <2>3, <3>1, <3>2
  <2>6. CASE PairSaves \/ PairVerifies
    <3>1. Go("pair", "verify") \/ \E c : End("pair", c)
      BY <2>6 DEF PairSaves, PairVerifies
    <3> QED
      BY <2>3, <3>1
  <2> QED
    BY <2>4, <2>5, <2>6 DEF PairWorks, PairStep
<1>6. CASE PairSaves
  <2> DEFINE h == job["http"]
             s == j.slot
  <2>1. PICK o \in SaveOutcome(s, j.record) :
          /\ slot' = o.flash
          /\ Go("pair", "verify") \/ End("pair", o.says)
    BY <1>6 DEF PairSaves
  <2>2. /\ s \in Slot /\ j.record \in Record /\ j.record.counter \in Nat
        /\ j.record.uid = j.uid /\ j.record.state = "ACTIVE"
        /\ \A t \in Occupied : slot[t].uid = j.uid <=> t = s
    BY <1>1, <1>6, JobType DEF PairSaves, At, PairInv, Record
  <2>3. ~overtaken' => /\ slot[s].counter = j.record.counter
                       /\ Fresh(slot, j)
    BY <1>4, <1>6 DEF PairWorks, PairSaves, Overtakes, FreshInv
  <2>4. /\ \A t \in Slot \ {s} : slot'[t] = slot[t]
        /\ \/ slot'[s] = slot[s]
           \/ /\ slot'[s].counter = j.record.counter + 1
              /\ slot'[s].state = "ACTIVE" /\ slot'[s].uid = j.uid
    BY <2>1, <2>2, SaveKeeps DEF Saved
  <2>5. job'["pair"].at \in {"idle", "verify"}
    BY <1>1, <2>1 DEF Go, End, NoJob, Job
  <2>6. h.slot \in Slot /\ h.record.counter \in Nat
    BY <1>1, JobType DEF Record
  <2>7. ~overtaken' => slot'[h.slot] = slot[h.slot] \/ h.slot = s
    BY <2>4, <2>6
  <2>8. ~overtaken' /\ At("http", "save") =>
          /\ h.record.counter <= slot'[h.slot].counter
          /\ h.record.counter = slot'[h.slot].counter
             => /\ slot'[h.slot].state = Needed(h.kind)
                /\ slot'[h.slot].generation = h.record.generation
                /\ slot'[h.slot].key = h.record.key
    BY <1>4, <2>2, <2>3, <2>4, <2>6 DEF FreshInv
  <2>9. ASSUME ~overtaken', Holds("REVOKED")
        PROVE  slot'[h.slot] = slot[h.slot]
    <3>1. CASE h.slot = s
      <4>1. slot[s].state = "REVOKED"
        BY <2>9, <3>1 DEF Holds
      <4> QED
        BY <2>3, <2>9, <4>1
    <3> QED
      BY <2>4, <2>6, <3>1
  <2>10. ASSUME ~overtaken', Holds("ACTIVE")
         PROVE  /\ slot'[h.slot].state = "ACTIVE"
                /\ slot'[h.slot].uid = h.uid
    <3>1. h.slot \in Occupied /\ slot[h.slot].uid = h.uid
          /\ slot[h.slot].state = "ACTIVE"
      BY <2>6, <2>10 DEF Holds, Occupied
    <3> QED
      BY <2>2, <2>4, <2>6, <3>1
  <2>11. FreshInv'
    BY <1>2, <1>4, <2>5, <2>8, <2>9, <2>10 DEF FreshInv, At, Holds
  <2> QED
    BY <1>3, <2>5, <2>11 DEF OfferInv
<1> QED
  BY <1>5, <1>6 DEF PairWorks, PairStep, PairFinds, PairEnlists, PairVerifies
LEMMA JobsStep ==
    TypeInv /\ IdleInv /\ UniqueInv /\ Jobs /\ [Next]_vars => Jobs'
<1> SUFFICES ASSUME TypeInv, IdleInv, UniqueInv, Jobs, [Next]_vars
             PROVE  Jobs'
  OBVIOUS
<1> USE DEF Jobs
<1>1. ASSUME \A w \in Worker : job'[w].at = "idle" PROVE Jobs'
  BY <1>1 DEF RequestInv, OfferInv, FreshInv, At, Worker
<1>2. CASE HttpWorks \/ PairWorks
  BY <1>2, HttpJobs, PairJobs
<1>3. CASE UNCHANGED job /\ ~HttpWorks /\ ~PairWorks
  <2>1. CASE phase = "maintenance"
    <3>1. UNCHANGED <<slot, selected, overtaken>>
      BY <1>3, <2>1 DEF Next, vars, Starting, PowerOn, BootLoads, BootMounts,
         BootCopies, BootCopiesSelected, BootRechecks, BootMovesCounter,
         BootMarks, BootProvisions, BootUnlocks, BootChooses, BootValidates,
         BootWraps, BootAgrees, BootRetires, BootReserves, Booting,
         Maintenance, OwnerAsks, HttpArrives, Revoke, Restore, Delete, Select,
         HttpRequest, CommitEnrolls, PairBegins, CommitEnds, PowerOff,
         EnrollmentDecays, RecordDecays, fleetVars
    <3> QED
      BY <1>3, <3>1 DEF RequestInv, OfferInv, FreshInv, At, Holds
  <2>2. CASE phase # "maintenance"
    BY <1>1, <1>3, <2>2 DEF IdleInv, NoJob
  <2> QED
    BY <2>1, <2>2
<1>4. CASE OwnerAsks
  BY <1>4, HttpJobs
<1>5. CASE PowerOff
  BY <1>1, <1>5 DEF PowerOff, RamCleared, JobsLost, NoJob
<1>6. ASSUME NEW u \in Uid, NEW g \in 1 .. MaxGeneration, NEW k \in Key,
             CommitEnrolls(u, g, k), ~UNCHANGED job
      PROVE  Jobs'
  <2>1. PairBegins(u, g, k, fmk) /\ UNCHANGED overtaken
    BY <1>6 DEF CommitEnrolls, fleetVars
  <2>2. job \in [Worker -> Job] /\ "pair" \in Worker /\ "http" \in Worker
    BY DEF TypeInv, StorageTypeOK, FleetTypeOK, Worker
  <2>3. /\ job'["http"] = job["http"] /\ UNCHANGED <<slot, selected>>
        /\ job'["pair"].at = "find" /\ job'["pair"].uid = u
        /\ job'["pair"].record.generation = g
    BY <2>1, <2>2 DEF PairBegins, NoJob, Blank
  <2>4. g > 0
    OBVIOUS
  <2> QED
    BY <2>1, <2>3, <2>4 DEF RequestInv, OfferInv, FreshInv, At, Holds
<1> QED
  BY <1>2, <1>3, <1>4, <1>5, <1>6, JobMoves

\* The registration of an aircraft is that of its only record.
LEMMA RegisteredAt ==
    ASSUME OneSlotPerAircraft, NEW s \in Occupied, NEW u, slot[s].uid = u
    PROVE  Registered(u) =
             [state |-> slot[s].state, generation |-> slot[s].generation,
              key |-> slot[s].key]
<1>1. Matches(u) = {s}
  BY DEF Matches, OneSlotPerAircraft
<1>2. SlotOf(u) = s
  BY <1>1 DEF SlotOf
<1> QED
  BY <1>1, <1>2 DEF Registered

LEMMA RegisteredAtNext ==
    ASSUME OneSlotPerAircraft', NEW s \in Occupied', NEW u, slot'[s].uid = u
    PROVE  Registered(u)' =
             [state |-> slot'[s].state, generation |-> slot'[s].generation,
              key |-> slot'[s].key]
<1>1. Matches(u)' = {s}
  BY DEF Matches, OneSlotPerAircraft
<1>2. SlotOf(u)' = s
  BY <1>1 DEF SlotOf
<1> QED
  BY <1>1, <1>2 DEF Registered

\* A write to a slot of one aircraft concerns no other aircraft.
LEMMA OthersKept ==
    ASSUME NEW s \in Slot, NEW u,
           \A t \in Slot \ {s} : slot'[t] = slot[t],
           s \in Occupied => slot[s].uid = u,
           s \in Occupied' => slot'[s].uid = u,
           NEW v \in Uid \ {u}
    PROVE  Registered(v)' = Registered(v)
<1>1. Matches(v)' = Matches(v)
  BY DEF Matches, Occupied
<1>2. SlotOf(v)' = SlotOf(v)
  BY <1>1 DEF SlotOf
<1>3. Matches(v) # {} => SlotOf(v) \in Slot \ {s}
  BY DEF SlotOf, Matches, Occupied
<1> QED
  BY <1>1, <1>2, <1>3 DEF Registered

LEMMA OnlyChanged ==
    ASSUME NEW u \in Uid, \A v \in Uid \ {u} : Registered(v)' = Registered(v)
    PROVE  Registrations' = [Registrations EXCEPT ![u] = Registered(u)']
BY DEF Registrations

\* Wrapping a key changes no registration.
LEMMA RegistrationsKept ==
    ASSUME \A s \in Slot : /\ slot'[s].uid = slot[s].uid
                           /\ slot'[s].state = slot[s].state
                           /\ slot'[s].generation = slot[s].generation
                           /\ slot'[s].key = slot[s].key
    PROVE  Registrations' = Registrations
<1> SUFFICES ASSUME NEW u \in Uid PROVE Registered(u)' = Registered(u)
  BY DEF Registrations
<1>1. Matches(u)' = Matches(u)
  BY DEF Matches, Occupied
<1>2. SlotOf(u)' = SlotOf(u)
  BY <1>1 DEF SlotOf
<1>3. Matches(u) # {} => SlotOf(u) \in Slot
  BY DEF SlotOf, Matches, Occupied
<1> QED
  BY <1>1, <1>2, <1>3 DEF Registered

\* The writes of the owner's task are registry operations.
LEMMA HttpImplements ==
    ASSUME TypeInv, UniqueInv, Jobs, HttpWorks, ~overtaken',
           OneSlotPerAircraft', ~UNCHANGED <<Registrations, selected>>,
           NEW u, u = job["http"].uid, NEW s, s = job["http"].slot
    PROVE  Registry!Next
<1> USE DEF TypeInv, UniqueInv, Jobs
<1> DEFINE j == job["http"]
<1>1. /\ j \in Job /\ s \in Slot /\ j.record \in Record
      /\ slot \in [Slot -> Record]
  BY JobType DEF Worker, StorageTypeOK, FleetTypeOK
<1>2. ~overtaken /\ ~Overtakes("http")
  BY DEF HttpWorks
<1>3. CASE HttpSaves
  <2>1. /\ u \in Uid /\ j.kind \in {"revoke", "restore"}
        /\ j.record.uid = u /\ j.record.state = Judged(j.kind)
        /\ s \in Occupied /\ slot[s].uid = u
    BY <1>3 DEF HttpSaves, RequestInv, HttpInv, At
  <2>2. /\ slot[s].state = Needed(j.kind)
        /\ slot[s].generation = j.record.generation
        /\ slot[s].key = j.record.key
    BY <1>2, <1>3 DEF HttpSaves, FreshInv, Overtakes, At
  <2>3. UNCHANGED selected /\ slot' # slot
    <3>1. UNCHANGED slot => UNCHANGED Registrations
      BY RegistrationsKept
    <3> QED
      BY <1>3, <3>1 DEF HttpSaves
  <2>4. /\ \A t \in Slot \ {s} : slot'[t] = slot[t]
        /\ slot'[s].uid = u /\ slot'[s].state = Judged(j.kind)
        /\ slot'[s].generation = slot[s].generation
        /\ slot'[s].key = slot[s].key
    <3>1. PICK o \in SaveOutcome(s, j.record) : slot' = o.flash
      BY <1>3 DEF HttpSaves
    <3> QED
      BY <1>1, <2>1, <2>2, <2>3, <3>1, SaveKeeps DEF Saved
  <2>5. s \in Occupied'
    BY <1>1, <2>4 DEF Occupied, Judged
  <2>6. Registrations[u] = [state |-> Needed(j.kind),
                            generation |-> slot[s].generation,
                            key |-> slot[s].key]
    BY <2>1, <2>2, RegisteredAt DEF Registrations
  <2>7. Registered(u)' = [state |-> Judged(j.kind),
                          generation |-> slot[s].generation,
                          key |-> slot[s].key]
    BY <2>4, <2>5, RegisteredAtNext
  <2>8. Registrations' = [Registrations EXCEPT ![u] = Registered(u)']
    <3>1. \A v \in Uid \ {u} : Registered(v)' = Registered(v)
      BY <1>1, <2>1, <2>4, OthersKept
    <3> QED
      BY <2>1, <3>1, OnlyChanged
  <2>9. Registry!Judge(u, Needed(j.kind), Judged(j.kind))
    <3>1. Registrations' =
            [Registrations EXCEPT ![u].state = Judged(j.kind)]
      <4>1. Registered(u)' = [Registrations[u] EXCEPT !.state = Judged(j.kind)]
        BY <2>6, <2>7
      <4> QED
        BY <2>8, <4>1
    <3> QED
      BY <2>3, <2>6, <3>1 DEF Registry!Judge
  <2> QED
    BY <2>1, <2>9 DEF Registry!Next, Needed, Judged
<1>4. CASE HttpClears
  <2>1. /\ u \in Uid /\ s \in Occupied /\ slot[s].uid = u
        /\ slot[s].state = "REVOKED" /\ selected = u
    BY <1>1, <1>2, <1>4 DEF HttpClears, RequestInv, FreshInv, Holds, At,
       Occupied
  <2>2. Registrations[u].state = "REVOKED"
    BY <2>1, RegisteredAt DEF Registrations
  <2>3. UNCHANGED Registrations /\ selected' = Nobody
    BY <1>4, RegistrationsKept DEF HttpClears
  <2>4. Registry!Drop
    BY <2>1, <2>2, <2>3, NobodyAssumption DEF Registry!Drop
  <2> QED
    BY <2>4 DEF Registry!Next
<1>5. CASE HttpSelects
  <2>1. /\ u \in Uid /\ s \in Occupied /\ slot[s].uid = u
        /\ slot[s].state = "ACTIVE"
    BY <1>1, <1>2, <1>5 DEF HttpSelects, RequestInv, FreshInv, Holds, At,
       Occupied
  <2>2. Registrations[u].state = "ACTIVE"
    BY <2>1, RegisteredAt DEF Registrations
  <2>3. UNCHANGED Registrations /\ selected' = u
    BY <1>5, RegistrationsKept DEF HttpSelects
  <2>4. Registry!Choose(u)
    BY <2>2, <2>3 DEF Registry!Choose
  <2> QED
    BY <2>1, <2>4 DEF Registry!Next
<1>6. CASE HttpErases
  <2>1. /\ u \in Uid /\ s \in Occupied /\ slot[s].uid = u
        /\ slot[s].state = "REVOKED"
    BY <1>1, <1>2, <1>6 DEF HttpErases, RequestInv, FreshInv, Holds, At,
       Occupied
  <2>2. UNCHANGED selected /\ slot' = [slot EXCEPT ![s] = Blank]
    <3>1. UNCHANGED slot => UNCHANGED Registrations
      BY RegistrationsKept
    <3> QED
      BY <1>6, <3>1 DEF HttpErases
  <2>3. Registrations[u].state = "REVOKED"
    BY <2>1, RegisteredAt DEF Registrations
  <2>4. \A v \in Uid \ {u} : Registered(v)' = Registered(v)
    <3>1. s \notin Occupied'
      BY <1>1, <2>2 DEF Occupied, Blank
    <3> QED
      BY <1>1, <2>1, <2>2, <3>1, OthersKept
  <2>5. Registered(u)'.state = "EMPTY"
    <3>1. Matches(u)' = {}
      BY <1>1, <2>1, <2>2 DEF Matches, Occupied, Blank, OneSlotPerAircraft
    <3> QED
      BY <3>1 DEF Registered
  <2>6. Registry!Forget(u)
    BY <2>1, <2>2, <2>3, <2>4, <2>5 DEF Registry!Forget, Registrations
  <2> QED
    BY <2>1, <2>6 DEF Registry!Next
<1> QED
  BY <1>3, <1>4, <1>5, <1>6 DEF HttpWorks, HttpStep
\* The write of the pairing task is the registry's.
LEMMA PairImplements ==
    ASSUME TypeInv, UniqueInv, Jobs, PairWorks, ~overtaken',
           OneSlotPerAircraft', ~UNCHANGED <<Registrations, selected>>,
           NEW u, u = job["pair"].uid, NEW s, s = job["pair"].slot
    PROVE  Registry!Next
<1> USE DEF TypeInv, UniqueInv, Jobs
<1> DEFINE j == job["pair"]
           g == j.record.generation
<1>1. /\ j \in Job /\ s \in Slot /\ j.record \in Record
      /\ slot \in [Slot -> Record]
  BY JobType DEF Worker, StorageTypeOK, FleetTypeOK
<1>2. ~overtaken /\ ~Overtakes("pair")
  BY DEF PairWorks
<1>3. PairSaves /\ slot' # slot /\ UNCHANGED selected
  <2>1. UNCHANGED slot => UNCHANGED Registrations
    BY RegistrationsKept
  <2> QED
    BY <2>1 DEF PairWorks, PairStep, PairFinds, PairEnlists, PairSaves,
       PairVerifies
<1>4. /\ u \in Uid /\ g > 0 /\ j.record.uid = u /\ j.record.state = "ACTIVE"
      /\ \A t \in Occupied : slot[t].uid = u <=> t = s
  BY <1>3 DEF PairSaves, OfferInv, PairInv, At
<1>5. /\ \A t \in Slot \ {s} : slot'[t] = slot[t]
      /\ slot'[s].uid = u /\ slot'[s].state = "ACTIVE"
      /\ slot'[s].generation = g /\ slot'[s].key = j.record.key
  <2>1. PICK o \in SaveOutcome(s, j.record) : slot' = o.flash
    BY <1>3 DEF PairSaves
  <2> QED
    BY <1>1, <1>3, <1>4, <2>1, SaveKeeps DEF Saved
<1>6. s \in Occupied'
  BY <1>1, <1>5 DEF Occupied
<1>7. /\ Registrations[u].state \in {"EMPTY", "ACTIVE"}
      /\ g > Registrations[u].generation
  <2>1. CASE slot[s].state = "EMPTY"
    <3>1. Matches(u) = {}
      BY <1>4, <2>1 DEF Matches, Occupied
    <3> QED
      BY <1>4, <3>1 DEF Registrations, Registered
  <2>2. CASE slot[s].state # "EMPTY"
    <3>1. slot[s].state = "ACTIVE" /\ slot[s].generation < g
      BY <1>2, <1>3, <2>2 DEF PairSaves, FreshInv, Overtakes, At
    <3>2. s \in Occupied /\ slot[s].uid = u
      BY <1>1, <1>4, <3>1 DEF Occupied
    <3>3. g \in Nat /\ slot[s].generation \in Nat
      BY <1>1 DEF Record
    <3> QED
      BY <1>4, <3>1, <3>2, <3>3, RegisteredAt DEF Registrations
  <2> QED
    BY <2>1, <2>2
<1>8. Registered(u)' =
        [state |-> "ACTIVE", generation |-> g, key |-> j.record.key]
  BY <1>5, <1>6, RegisteredAtNext
<1>9. Registrations' = [Registrations EXCEPT ![u] = Registered(u)']
  <2>1. \A v \in Uid \ {u} : Registered(v)' = Registered(v)
    BY <1>1, <1>4, <1>5, OthersKept
  <2> QED
    BY <1>4, <2>1, OnlyChanged
<1>10. Registrations'[u] = Registered(u)'
  BY <1>4 DEF Registrations
<1>11. Registry!Pair(u)
  <2> DEFINE p == [state |-> "ACTIVE", generation |-> g, key |-> j.record.key]
  <2>1. p \in [state : {"ACTIVE"}, generation : {Registrations'[u].generation},
               key : {Registrations'[u].key}]
    BY <1>8, <1>10
  <2>2. Registrations' = [Registrations EXCEPT ![u] = p]
    BY <1>8, <1>9
  <2> QED
    BY <1>3, <1>7, <2>1, <2>2 DEF Registry!Pair
<1> QED
  BY <1>4, <1>11 DEF Registry!Next

\* Everything the tasks rely on holds at first.
LEMMA StorageInit ==
    Init => TypeInv /\ IdleInv /\ MigrationInv /\ UniqueInv /\ Jobs
<1>1. Init => UniqueInv
  BY DEF Init, UniqueInv, CopyInv, HttpInv, PairInv, OneSlotPerAircraft,
     Occupied, Blank, NoJob, At, Worker
<1>2. Init => Jobs
  BY DEF Init, Jobs, RequestInv, OfferInv, FreshInv, NoJob, At, Worker
<1> QED
  BY <1>1, <1>2, TypeInit, MigrationInit DEF Init, IdleInv

\* The fleet in flash implements the registry, over any number of aircraft
\* and slots, with power lost and writes failing at any access: its records
\* and its selection change by operations of the registry only.
THEOREM FleetImplementsRegistry == Spec => ActsAsRegistry
<1> DEFINE Inv == TypeInv /\ IdleInv /\ MigrationInv /\ UniqueInv /\ Jobs
           Act == ~migrated \/ overtaken' \/ RecordDecays \/ Registry!Next
<1>1. Init => Inv
  BY StorageInit
<1>2. Inv /\ [Next]_vars => Inv'
  BY TypeStep, IdleStep, MigrationStep, UniqueStep, JobsStep
<1>3. Inv /\ [Next]_vars => [Act]_<<Registrations, selected>>
  <2> SUFFICES ASSUME Inv, [Next]_vars, migrated, ~overtaken', ~RecordDecays,
                      ~UNCHANGED <<Registrations, selected>>
               PROVE  Registry!Next
    BY DEF Act
  <2>1. UniqueInv'
    BY UniqueStep
  <2>2. CASE HttpWorks
    BY <2>1, <2>2, HttpImplements DEF UniqueInv
  <2>3. CASE PairWorks
    BY <2>1, <2>3, PairImplements DEF UniqueInv
  <2>4. CASE BootWraps
    <3>1. /\ chosen \in Slot /\ slot[chosen] \in Record
          /\ Wrapped(slot[chosen]) \in Record
      <4>1. chosen \in Slot /\ slot[chosen] \in Record /\ fmk \in Nat
        BY <2>4 DEF BootWraps, Booting, TypeInv, ChosenInv, Late,
           StorageTypeOK, FleetTypeOK
      <4> QED
        BY <4>1 DEF Wrapped, Record
    <3>2. /\ Wrapped(slot[chosen]).uid = slot[chosen].uid
          /\ Wrapped(slot[chosen]).state = slot[chosen].state
          /\ Wrapped(slot[chosen]).generation = slot[chosen].generation
          /\ Wrapped(slot[chosen]).key = slot[chosen].key
      BY <3>1 DEF Wrapped, Record
    <3>3. UNCHANGED selected
          /\ \/ UNCHANGED slot
             \/ \E o \in SaveOutcome(chosen, Wrapped(slot[chosen])) :
                  slot' = o.flash
      BY <2>4 DEF BootWraps
    <3>4. StorageTypeOK
      BY DEF TypeInv
    <3>5. \A t \in Slot : /\ slot'[t].uid = slot[t].uid
                          /\ slot'[t].state = slot[t].state
                          /\ slot'[t].generation = slot[t].generation
                          /\ slot'[t].key = slot[t].key
      BY <3>1, <3>2, <3>3, <3>4, SaveKeeps DEF Saved
    <3> QED
      BY <3>3, <3>5, RegistrationsKept
  <2>5. CASE UNCHANGED slot /\ ~HttpWorks
    <3>1. UNCHANGED Registrations
      BY <2>5, RegistrationsKept
    <3>2. ~BootCopiesSelected
      BY DEF BootCopiesSelected, Booting, UniqueInv, CopyInv
    <3>3. UNCHANGED selected
      BY <2>5, <3>2 DEF Next, vars, Starting, PowerOn, BootLoads, BootMounts,
         BootCopies, BootRechecks, BootMovesCounter, BootMarks,
         BootProvisions, BootUnlocks, BootChooses, BootValidates, BootWraps,
         BootAgrees, BootRetires, BootReserves, Maintenance, OwnerAsks,
         HttpArrives, Revoke, Restore, Delete, Select, HttpRequest, PairWorks,
         PairStep, PairFinds, PairEnlists, PairSaves, PairVerifies,
         CommitEnrolls, PairBegins, CommitEnds, PowerOff, EnrollmentDecays,
         RecordDecays, fleetVars
    <3> QED
      BY <3>1, <3>3
  <2>6. ~BootCopies
    BY DEF BootCopies, Booting, UniqueInv, CopyInv
  <2> QED
    BY <2>2, <2>3, <2>4, <2>5, <2>6, SlotMoves
<1> QED
  BY <1>1, <1>2, <1>3, PTL DEF Spec, ActsAsRegistry
-----------------------------------------------------------------------------
(* A revocation is lost in one way only.                                   *)

\* A revoked aircraft stays revoked until the owner's task restores or deletes
\* it, unless its record decays or a job overwrites what another did after it
\* read.
RevokedIsKept ==
    [][\/ overtaken' \/ RecordDecays \/ HttpWorks
       \/ \A s \in Slot :
             slot[s].state = "REVOKED" => slot'[s].state = "REVOKED"]_slot

LEMMA CopyKeepsRevoked ==
    ASSUME TypeInv, BootCopies, NEW t \in Slot, slot[t].state = "REVOKED"
    PROVE  slot'[t].state = "REVOKED"
<1>1. CASE UNCHANGED slot
  BY <1>1
<1>2. CASE slot' # slot
  <2>1. index \in Slot /\ slot[index].state = "EMPTY"
    <3>1. index # SlotCount /\ slot[index].state = "EMPTY"
      BY <1>2 DEF BootCopies
    <3>2. index \in 0 .. SlotCount /\ SlotCount \in Nat
      BY FleetAssumption DEF TypeInv, StorageTypeOK
    <3> QED
      BY <3>1, <3>2 DEF Slot
  <2>2. slot' = [slot EXCEPT ![index] = Source(index)]
    BY <1>2 DEF BootCopies, Copied
  <2> QED
    BY <2>1, <2>2 DEF TypeInv, StorageTypeOK, FleetTypeOK
<1> QED
  BY <1>1, <1>2

LEMMA WrapKeepsState ==
    ASSUME TypeInv, BootWraps, NEW t \in Slot
    PROVE  slot'[t].state = slot[t].state
<1>1. chosen \in Slot /\ slot[chosen] \in Record /\ fmk \in Nat
  BY DEF BootWraps, Booting, TypeInv, ChosenInv, Late, StorageTypeOK,
     FleetTypeOK
<1>2. /\ Wrapped(slot[chosen]) \in Record
      /\ Wrapped(slot[chosen]).state = slot[chosen].state
  BY <1>1 DEF Wrapped, Record
<1>3. \/ UNCHANGED slot
      \/ \E o \in SaveOutcome(chosen, Wrapped(slot[chosen])) : slot' = o.flash
  BY DEF BootWraps
<1>4. StorageTypeOK
  BY DEF TypeInv
<1> QED
  BY <1>1, <1>2, <1>3, <1>4, SaveKeeps DEF Saved

\* Without being overtaken, the pairing writes over an ACTIVE record only, or
\* into a free slot.
LEMMA PairKeepsRevoked ==
    ASSUME TypeInv, Jobs, PairWorks, ~overtaken', NEW t \in Slot,
           slot[t].state = "REVOKED"
    PROVE  slot'[t].state = "REVOKED"
<1> DEFINE j == job["pair"]
<1>1. CASE UNCHANGED slot
  BY <1>1
<1>2. CASE slot' # slot
  <2>1. PairSaves
    BY <1>2 DEF PairWorks, PairStep, PairFinds, PairEnlists, PairVerifies
  <2>2. ~overtaken /\ ~Overtakes("pair")
    BY DEF PairWorks
  <2>3. /\ StorageTypeOK /\ slot \in [Slot -> Record] /\ j \in Job
        /\ j.slot \in Slot /\ j.record \in Record
    BY <2>1, JobType DEF TypeInv, Worker, StorageTypeOK, FleetTypeOK
  <2>4. slot[j.slot].state \in {"EMPTY", "ACTIVE"}
    BY <2>1, <2>2 DEF PairSaves, Jobs, FreshInv, Overtakes, At
  <2>5. PICK o \in SaveOutcome(j.slot, j.record) : slot' = o.flash
    BY <2>1 DEF PairSaves
  <2> QED
    BY <2>3, <2>4, <2>5, SaveKeeps
<1> QED
  BY <1>1, <1>2

\* "Pairing must never silently restore an aircraft that the owner explicitly
\* revoked" (mathos_fleet.c:6535) fails by the race of two tasks alone: in its
\* absence no pairing, no start, no migration and no power loss at any access
\* takes a revoked aircraft back.
THEOREM RevokedIsKeptUnlessOvertaken == Spec => RevokedIsKept
<1> DEFINE Inv == TypeInv /\ IdleInv /\ MigrationInv /\ UniqueInv /\ Jobs
           Act == \/ overtaken' \/ RecordDecays \/ HttpWorks
                  \/ \A s \in Slot : slot[s].state = "REVOKED"
                                     => slot'[s].state = "REVOKED"
<1>1. Init => Inv
  BY StorageInit
<1>2. Inv /\ [Next]_vars => Inv'
  BY TypeStep, IdleStep, MigrationStep, UniqueStep, JobsStep
<1>3. Inv /\ [Next]_vars => [Act]_slot
  BY SlotMoves, CopyKeepsRevoked, WrapKeepsState, PairKeepsRevoked
<1> QED
  BY <1>1, <1>2, <1>3, PTL DEF Spec, RevokedIsKept
=============================================================================
