----------------------------- MODULE RcStorage -----------------------------
(***************************************************************************)
(* What the remote controller keeps in flash and how it starts from it     *)
(* (app_main of remote_controller/main/main.c, mathos_fleet.c,             *)
(* mathos_maintenance.c, mathos_secure.c): the fleet, the enrollment       *)
(* record of the last pairing, the session counter, the fleet master key   *)
(* (FMK), and the one-time copy of the plaintext partition "fleet" to the  *)
(* encrypted "fleet_sec".  Power may fail between any two accesses.        *)
(*                                                                         *)
(* A start ends in normal operation, in maintenance mode, or blocked; in   *)
(* maintenance mode the fleet is changed as FleetStore says, a pairing     *)
(* being committed to the enrollment record first and then to the fleet.   *)
(***************************************************************************)
EXTENDS FleetStore

CONSTANTS
    StorageFaults,      \* a partition may fail to mount
    EarlierKey,         \* bound: the pair key of an earlier fleet's records
    Decays              \* records may become unreadable while off

ASSUME StorageAssumption ==
    /\ EarlierKey \in Key
    /\ {StorageFaults, Decays} \subseteq BOOLEAN

\* The enrollment record.  "legacy" holds the pair key, "metadata" does not;
\* "none" is the unpaired default.
Enrollment ==
    [format : {"none", "legacy", "metadata", "unreadable"},
     uid : Uid \cup {Nobody}, generation : 0 .. MaxGeneration,
     key : Key \cup {Nobody}]
Unpaired == [format |-> "none", uid |-> Nobody, generation |-> 0,
             key |-> Nobody]

Mode == {"maintenance", "normal"}
BootStep == {"load", "mount", "copy", "copySelected", "recheck", "counter",
             "mark", "provision", "unlock", "mode", "validate", "wrap",
             "agree", "retire", "reserve"}

VARIABLES
    legacy,         \* partition "fleet": slots, selection, session counter
    migrated,       \* MATHOS_FLEET_MIGRATION_VERSION_KEY is set
    session,        \* 1 when fleet_sec has the session counter, at least the
                    \* old one's value; SessionHandshake says how it grows
    fmk,            \* the FMK of the unlock record, 0 when there is none
    enrollment,     \* the enrollment record
    phase,          \* "off", "boot", or where the start has ended
    boot,           \* next step of app_main
    mode,           \* what the boot switches ask for
    index,          \* slot being migrated
    unlocked,       \* the FMK is in RAM
    runtime,        \* rc_runtime_pairing_config
    chosen,         \* rc_fleet_selected_slot, or SlotCount
    installed,      \* the key of the secure link
    commit,         \* rc_pairing_commit_verified_candidate, between its writes
    overtaken       \* history: a job wrote a record that another had changed

flashVars == <<legacy, migrated, session, fmk, enrollment>>
bootVars == <<boot, mode, index>>
ramVars == <<unlocked, runtime, chosen, installed, commit>>
vars == <<fleetVars, flashVars, phase, bootVars, ramVars, overtaken>>

NoCommit == [at |-> "idle", key |-> Nobody]

StorageTypeOK ==
    /\ FleetTypeOK
    /\ legacy \in [slot : [Slot -> Record], selected : Uid \cup {Nobody},
                   session : 0 .. 1]
    /\ migrated \in BOOLEAN
    /\ session \in 0 .. 1
    /\ fmk \in Nat
    /\ enrollment \in Enrollment /\ runtime \in Enrollment
    /\ phase \in {"off", "boot", "maintenance", "recovery", "normal",
                  "blocked"}
    /\ boot \in BootStep /\ mode \in Mode /\ index \in 0 .. SlotCount
    /\ unlocked \in BOOLEAN /\ overtaken \in BOOLEAN
    /\ chosen \in 0 .. SlotCount
    /\ installed \in Key \cup {Nobody}
    /\ commit \in [at : {"idle", "store"}, key : Key \cup {Nobody}]

RamCleared ==
    /\ unlocked' = FALSE /\ runtime' = Unpaired /\ chosen' = SlotCount
    /\ installed' = Nobody /\ commit' = NoCommit
    /\ index' = 0
    /\ JobsLost

-----------------------------------------------------------------------------
(* Starting.                                                               *)

Booting(step) == phase = "boot" /\ boot = step
Then(step) == boot' = step /\ UNCHANGED <<phase, mode>>
Block == phase' = "blocked" /\ UNCHANGED <<boot, mode>>

PowerOn(m) ==
    /\ phase = "off"
    /\ phase' = "boot" /\ boot' = "load" /\ mode' = m
    /\ UNCHANGED <<fleetVars, flashVars, index, ramVars, overtaken>>

\* mathos_rc_pairing_config_load: a metadata record becomes a runtime view
\* without the key.
Loaded(record) ==
    IF record.format = "metadata" THEN [record EXCEPT !.key = Nobody]
    ELSE record

\* The enrollment partition is mounted and its record loaded: one of a wrong
\* size ends the start at once, one that is not valid later.
EnrollmentMountFails == StorageFaults
BootLoads ==
    /\ Booting("load")
    /\ \/ runtime' = Loaded(enrollment) /\ Then("mount")
       \/ /\ EnrollmentMountFails \/ enrollment.format = "unreadable"
          /\ Block /\ UNCHANGED runtime
    /\ UNCHANGED <<fleetVars, flashVars, index, unlocked, chosen, installed,
                   commit, overtaken>>

\* mathos_fleet_secure_storage_init and mathos_fleet_init.  Without the
\* encrypted partition the migration state cannot be read; when only the
\* fleet fails, maintenance mode is entered without fleet and pairing.
SecureMountFails == StorageFaults
FleetMountFails == StorageFaults
BootMounts ==
    /\ Booting("mount")
    /\ \/ IF migrated THEN Then("provision") ELSE Then("copy")
       \/ SecureMountFails /\ Block
       \/ /\ FleetMountFails
          /\ IF ~migrated \/ mode = "normal" THEN Block
             ELSE IF runtime.format = "unreadable" THEN Block
             ELSE phase' = "recovery" /\ UNCHANGED <<boot, mode>>
    /\ UNCHANGED <<fleetVars, flashVars, index, ramVars, overtaken>>

\* fleet_migrate_slot_exact_to_secure, for each slot in turn: an existing
\* copy must be exact, and an empty slot must be empty on both sides.
Source(s) == legacy.slot[s]
Copied(s) == [slot EXCEPT ![s] = Source(s)]
CopyNext == Then("copy") /\ index' = index + 1
BootCopies ==
    /\ Booting("copy")
    /\ IF index = SlotCount
       THEN Then("copySelected") /\ UNCHANGED <<slot, index>>
       ELSE IF slot[index] = Source(index)
       THEN CopyNext /\ UNCHANGED slot
       ELSE IF slot[index].state # "EMPTY" \/ Source(index).state = "EMPTY"
       THEN Block /\ UNCHANGED <<slot, index>>
       ELSE \/ slot' = Copied(index) /\ CopyNext
            \/ /\ WritesFail
               /\ slot' \in {slot, Copied(index)} /\ Block /\ UNCHANGED index
    /\ UNCHANGED <<selected, job, answer, flashVars, ramVars, overtaken>>

\* fleet_migrate_selected_uid_to_secure
BootCopiesSelected ==
    /\ Booting("copySelected")
    /\ IF selected = legacy.selected
       THEN Then("recheck") /\ UNCHANGED selected
       ELSE IF selected # Nobody
       THEN Block /\ UNCHANGED selected
       ELSE \/ selected' = legacy.selected /\ Then("recheck")
            \/ /\ WritesFail
               /\ selected' \in {selected, legacy.selected} /\ Block
    /\ UNCHANGED <<slot, job, answer, flashVars, index, ramVars, overtaken>>

\* mathos_fleet_migrate_legacy_to_secure, its second pass over everything.
BootRechecks ==
    /\ Booting("recheck")
    /\ IF slot = legacy.slot /\ selected = legacy.selected
       THEN Then("counter") ELSE Block
    /\ UNCHANGED <<fleetVars, flashVars, index, ramVars, overtaken>>

\* A plausible bug: a counter that exists is left alone.
BootKeepsCounter ==
    /\ Booting("counter")
    /\ IF legacy.session = 0 /\ session = 0 THEN Block ELSE Then("mark")
    /\ UNCHANGED <<fleetVars, legacy, migrated, session, fmk, enrollment, index,
                   ramVars, overtaken>>

\* mathos_secure_migrate_session_counter: copied forward only; one of the two
\* counters must exist.
BootMovesCounter ==
    /\ Booting("counter")
    /\ IF legacy.session = 0 /\ session = 0
       THEN Block /\ UNCHANGED session
       ELSE IF legacy.session <= session
       THEN Then("mark") /\ UNCHANGED session
       ELSE \/ session' = legacy.session /\ Then("mark")
            \/ /\ WritesFail
               /\ session' \in {session, legacy.session} /\ Block
    /\ UNCHANGED <<fleetVars, legacy, migrated, fmk, enrollment, index,
                   ramVars, overtaken>>

\* mathos_fleet_secure_migration_mark_complete
BootMarks ==
    /\ Booting("mark")
    /\ \/ migrated' = TRUE /\ Then("provision")
       \/ WritesFail /\ migrated' \in {migrated, TRUE} /\ Block
    /\ UNCHANGED <<fleetVars, legacy, session, fmk, enrollment, index,
                   ramVars, overtaken>>

\* A plausible bug: the key of this start counts, not the record in flash.
FmkInRam == unlocked

\* mathos_fleet_provision_master_key: a random key, only if there is none.
FmkExists == fmk # 0
NewFmk == fmk + 1
BootProvisions ==
    /\ Booting("provision")
    /\ IF FmkExists THEN Then("unlock") /\ UNCHANGED fmk
       ELSE \/ fmk' = NewFmk /\ Then("unlock")
            \/ WritesFail /\ fmk' \in {fmk, NewFmk} /\ Block
    /\ UNCHANGED <<fleetVars, legacy, migrated, session, enrollment, index,
                   ramVars, overtaken>>

\* mathos_fleet_unlock_master_key: the record authenticates and unwraps.
FmkLoads == fmk # 0
BootUnlocks ==
    /\ Booting("unlock")
    /\ unlocked' = FmkLoads
    /\ IF FmkLoads THEN Then("mode") ELSE Block
    /\ UNCHANGED <<fleetVars, flashVars, index, runtime, chosen, installed,
                   commit, overtaken>>

\* An enrollment record that did not load blocks both modes.
BootChooses ==
    /\ Booting("mode")
    /\ IF runtime.format = "unreadable" THEN Block
       ELSE IF mode = "normal" THEN Then("validate")
       ELSE phase' = "maintenance" /\ UNCHANGED <<boot, mode>>
    /\ UNCHANGED <<fleetVars, flashVars, index, ramVars, overtaken>>

-----------------------------------------------------------------------------
(* Normal mode.                                                            *)

\* mathos_fleet_boot_validate must find exactly one aircraft to fly.
BootValidates ==
    /\ Booting("validate")
    /\ IF BootSlots = {} THEN Block /\ UNCHANGED chosen
       ELSE chosen' \in BootSlots /\ Then("wrap")
    /\ UNCHANGED <<fleetVars, flashVars, index, unlocked, runtime, installed,
                   commit, overtaken>>

\* mathos_fleet_migrate_pair_key_to_wrapped: a raw key is wrapped in place; a
\* wrapped one must unwrap with the FMK.
Wrapped(record) == [record EXCEPT !.wrap = fmk]
Unwraps(record) == record.wrap = fmk
BootWraps ==
    LET record == slot[chosen]
    IN  /\ Booting("wrap")
        /\ IF record.wrap # 0
           THEN /\ IF Unwraps(record) THEN Then("agree") ELSE Block
                /\ UNCHANGED slot
           ELSE \E o \in SaveOutcome(chosen, Wrapped(record)) :
                  /\ slot' = o.flash
                  /\ IF o.says = "ok" THEN Then("agree") ELSE Block
        /\ UNCHANGED <<selected, job, answer, flashVars, index, ramVars,
                       overtaken>>

\* A plausible bug: the generations are not compared.
ConsistentOnceActive == slot[chosen].state = "ACTIVE"

\* Fleet record and enrollment record must be of one generation, and a legacy
\* enrollment record must hold the same key.  Then the key is installed, or
\* the legacy record is first replaced by its metadata.
Consistent ==
    /\ runtime.generation # 0
    /\ slot[chosen].state = "ACTIVE"
    /\ slot[chosen].generation = runtime.generation
    /\ runtime.format = "legacy" => slot[chosen].key = runtime.key

BootAgrees ==
    /\ Booting("agree")
    /\ IF ~Consistent THEN Block ELSE Then("retire")
    /\ UNCHANGED <<fleetVars, flashVars, index, ramVars, overtaken>>

Metadata(record) == [record EXCEPT !.format = "metadata", !.key = Nobody]

BootRetires ==
    /\ Booting("retire")
    /\ IF runtime.format # "legacy"
       THEN /\ installed' = slot[chosen].key
            /\ Then("reserve") /\ UNCHANGED <<enrollment, runtime>>
       ELSE \/ /\ enrollment' = Metadata(runtime)
               /\ installed' = slot[chosen].key
               /\ runtime' = [runtime EXCEPT !.key = Nobody]
               /\ Then("reserve")
            \/ /\ WritesFail
               /\ enrollment' \in {enrollment, Metadata(runtime)}
               /\ Block /\ UNCHANGED <<installed, runtime>>
    /\ UNCHANGED <<fleetVars, legacy, migrated, session, fmk, index, unlocked,
                   chosen, commit, overtaken>>

\* mathos_secure_reserve_session_id, then the tasks are created.
BootReserves ==
    /\ Booting("reserve")
    /\ \/ phase' = "normal" /\ UNCHANGED <<boot, mode, installed>>
       \/ WritesFail /\ Block /\ installed' = Nobody
    /\ UNCHANGED <<fleetVars, flashVars, index, unlocked, runtime, chosen,
                   commit, overtaken>>

-----------------------------------------------------------------------------
(* Maintenance mode.                                                       *)

OthersIdle == Interleaved \/ (commit.at = "idle" /\ At("http", "idle"))

\* A job saves a record that was changed after it was read.
Overtakes(w) ==
    /\ At(w, "save")
    /\ slot[job[w].slot].counter # job[w].record.counter

OwnerAsks ==
    /\ phase = "maintenance" /\ OthersIdle
    /\ HttpArrives
    /\ UNCHANGED <<flashVars, phase, bootVars, ramVars, overtaken>>

HttpWorks ==
    /\ phase = "maintenance"
    /\ HttpStep
    /\ overtaken' = (overtaken \/ Overtakes("http"))
    /\ UNCHANGED <<flashVars, phase, bootVars, ramVars>>

PairWorks ==
    /\ phase = "maintenance"
    /\ PairStep
    /\ overtaken' = (overtaken \/ Overtakes("pair"))
    /\ UNCHANGED <<flashVars, phase, bootVars, ramVars>>

\* mathos_rc_pairing_config_prepare_from_package: what the present record
\* lets an authenticated pairing be.  A metadata view is not valid.
Acceptable(u, g, k) ==
    /\ runtime.format \in {"none", "legacy"}
    /\ g >= runtime.generation
    /\ g = runtime.generation => u = runtime.uid /\ k = runtime.key

\* The exchange with a gateway has ended in COMMIT_READY.  First write: the
\* enrollment record, without the key.
CommitEnrolls(u, g, k) ==
    LET candidate == [format |-> "metadata", uid |-> u, generation |-> g,
                      key |-> Nobody]
    IN  /\ phase = "maintenance" /\ unlocked /\ OthersIdle
        /\ commit.at = "idle"
        /\ Acceptable(u, g, k)
        /\ \/ /\ enrollment' = candidate
              /\ commit' = [at |-> "store", key |-> k]
              /\ PairBegins(u, g, k, fmk)
           \/ /\ WritesFail
              /\ enrollment' = candidate
              /\ UNCHANGED <<commit, fleetVars>>
        /\ UNCHANGED <<legacy, migrated, session, fmk, phase, bootVars,
                       unlocked, runtime, chosen, installed, overtaken>>

\* Second write: mathos_fleet_store_verified_pairing has returned.  A failure
\* leaves the enrollment record as it is.
CommitEnds ==
    /\ commit.at = "store" /\ At("pair", "idle")
    /\ commit' = NoCommit
    /\ IF answer["pair"] = "ok"
       THEN installed' = commit.key /\ runtime' = Loaded(enrollment)
       ELSE UNCHANGED <<installed, runtime>>
    /\ UNCHANGED <<fleetVars, flashVars, phase, bootVars, unlocked, chosen,
                   overtaken>>

-----------------------------------------------------------------------------
(* The world outside.                                                      *)

PowerOff ==
    /\ phase # "off"
    /\ phase' = "off"
    /\ RamCleared
    /\ UNCHANGED <<slot, selected, flashVars, boot, mode, overtaken>>

EnrollmentDecays ==
    /\ Decays /\ phase = "off"
    /\ enrollment.format \notin {"none", "unreadable"}
    /\ enrollment' = [Unpaired EXCEPT !.format = "unreadable"]
    /\ UNCHANGED <<fleetVars, legacy, migrated, session, fmk, phase, bootVars,
                   ramVars, overtaken>>

\* Records of the encrypted partition that no longer decode.
RecordDecays ==
    /\ Decays /\ phase = "off"
    /\ \E s \in Occupied :
         slot' = [slot EXCEPT ![s] = [Blank EXCEPT !.state = "UNREADABLE"]]
    /\ UNCHANGED <<selected, job, answer, flashVars, phase, bootVars, ramVars,
                   overtaken>>

\* A remote controller of the earlier firmware: nothing in fleet_sec, raw
\* keys in partition "fleet", a legacy enrollment record of one of them.
EarlierFleet ==
    {f \in [Slot -> {Blank} \cup
              [uid : Uid, state : {"ACTIVE"}, generation : {1},
               key : {EarlierKey}, wrap : {0}, counter : {1}]] :
       \A s, t \in Slot : f[s] # Blank /\ f[s].uid = f[t].uid => s = t}
EnrollmentsOf(f) ==
    {Unpaired} \cup
    {[format |-> "legacy", uid |-> f[s].uid, generation |-> f[s].generation,
      key |-> f[s].key] : s \in {t \in Slot : f[t].state = "ACTIVE"}}

Init ==
    /\ \E f \in EarlierFleet : \E u \in Uid \cup {Nobody}, n \in 0 .. 1 :
         /\ legacy = [slot |-> f, selected |-> u, session |-> n]
         /\ enrollment \in EnrollmentsOf(f)
    /\ slot = [s \in Slot |-> Blank] /\ selected = Nobody
    /\ job = [w \in Worker |-> NoJob]
    /\ answer = [w \in Worker |-> "none"]
    /\ migrated = FALSE /\ session = 0 /\ fmk = 0
    /\ phase = "off" /\ boot = "load" /\ mode = "normal" /\ index = 0
    /\ unlocked = FALSE /\ runtime = Unpaired /\ chosen = SlotCount
    /\ installed = Nobody /\ commit = NoCommit
    /\ overtaken = FALSE

Starting ==
    \/ \E m \in Mode : PowerOn(m)
    \/ BootLoads \/ BootMounts \/ BootCopies \/ BootCopiesSelected
    \/ BootRechecks \/ BootMovesCounter \/ BootMarks \/ BootProvisions
    \/ BootUnlocks \/ BootChooses \/ BootValidates \/ BootWraps
    \/ BootAgrees \/ BootRetires \/ BootReserves

Maintenance ==
    \/ OwnerAsks \/ HttpWorks \/ PairWorks
    \/ \E u \in Uid, g \in 1 .. MaxGeneration, k \in Key :
         CommitEnrolls(u, g, k)
    \/ CommitEnds

Next ==
    \/ Starting \/ Maintenance
    \/ PowerOff \/ EnrollmentDecays \/ RecordDecays

Spec == Init /\ [][Next]_vars

-----------------------------------------------------------------------------
(* Properties.                                                             *)

\* No aircraft ever has two records, whatever the two tasks do, fails or is
\* interrupted: mathos_fleet_find_by_uid would refuse that aircraft for ever.
OneSlotPerAircraft ==
    \A s, t \in Occupied : slot[s].uid = slot[t].uid => s = t

Registered(u) ==
    IF Matches(u) = {}
    THEN [state |-> "EMPTY", generation |-> 0, key |-> Nobody]
    ELSE LET r == slot[SlotOf(u)]
         IN  [state |-> r.state, generation |-> r.generation, key |-> r.key]

Registrations == [u \in Uid |-> Registered(u)]

Registry == INSTANCE FleetRegistry WITH
    Aircraft <- Uid, NoAircraft <- Nobody,
    registry <- Registrations, chosen <- selected

\* Once the old fleet has been copied, the records and the selection change
\* only as the registry's operations allow, each at once, although a request
\* is several writes that may fail or be cut off.  The exception is a job
\* that overwrites what another did after it read: nothing prevents it; and
\* flash that decays.
ActsAsRegistry ==
    [][\/ ~migrated \/ overtaken' \/ RecordDecays
       \/ Registry!Next]_<<Registrations, selected>>

\* "Pairing must never silently restore an aircraft that the owner explicitly
\* revoked" (mathos_fleet.c:6535).
RevocationHolds ==
    [][\A s \in Slot :
         slot[s].state = "REVOKED" /\ slot'[s].state = "ACTIVE"
         => ~PairWorks]_slot

\* The copied fleet is declared complete only when it is the old one, and the
\* session counter has not fallen behind the old one.
MigrationIsExact ==
    [][~migrated /\ migrated'
       => /\ slot = legacy.slot /\ selected = legacy.selected
          /\ session >= legacy.session]_migrated

\* In normal operation the secure link has the key of the one aircraft that
\* may be flown, in the generation of the last pairing: a commit cut between
\* its two writes, or refused by the fleet, is not flown.  The key can be
\* unwrapped again at the next start.
FlownKeyIsPaired ==
    phase = "normal" =>
        /\ BootSlots = {chosen}
        /\ installed = slot[chosen].key
        /\ slot[chosen].generation = enrollment.generation
        /\ slot[chosen].wrap = fmk

\* Every wrapped key belongs to the FMK in flash, even when the start that
\* made the FMK was cut off.
WrappedIsReadable ==
    \A s \in Occupied : slot[s].wrap \in {0, fmk}
=============================================================================
