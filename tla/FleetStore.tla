----------------------------- MODULE FleetStore -----------------------------
(***************************************************************************)
(* The remote controller's fleet in flash (mathos_fleet.c): one record per *)
(* slot and the selected aircraft.  In maintenance mode two tasks use it   *)
(* without a lock: "http" runs the owner's revoke, restore, delete and     *)
(* select requests, "pair" stores the result of a pairing.                 *)
(*                                                                         *)
(* A job is cut at its accesses to flash.  A lookup is one step: no other  *)
(* task moves the record it looks for to another slot.  A write that       *)
(* reports an error may or may not have changed the flash.                 *)
(***************************************************************************)
EXTENDS Naturals, FiniteSets

CONSTANTS
    Uid,                \* gateway UIDs
    SlotCount,          \* MATHOS_FLEET_MAX_AIRCRAFT
    MaxGeneration,      \* bound: pairing generations offered
    Key,                \* pair keys
    MaxCounter,         \* the record counter's last value (UINT32_MAX)
    Interleaved,        \* FALSE: one task at a time
    WritesFail          \* a write to flash may fail

ASSUME FleetAssumption ==
    /\ SlotCount \in Nat \ {0}
    /\ MaxGeneration \in Nat \ {0}
    /\ MaxCounter \in Nat \ {0}
    /\ {Interleaved, WritesFail} \subseteq BOOLEAN

Slot == 0 .. SlotCount - 1
Worker == {"http", "pair"}
Nobody == "none"
ASSUME NobodyAssumption == Nobody \notin Uid /\ Nobody \notin Key

\* mathos_fleet_record_t; wrap is the fleet master key (FMK) under which the
\* pair key is stored, 0 for DEV_RAW_PAIR_KEY.
Record == [uid : Uid \cup {Nobody},
           state : {"EMPTY", "UNREADABLE", "ACTIVE", "REVOKED"},
           generation : 0 .. MaxGeneration, key : Key \cup {Nobody},
           wrap : Nat, counter : 0 .. MaxCounter]
Blank == [uid |-> Nobody, state |-> "EMPTY", generation |-> 0,
          key |-> Nobody, wrap |-> 0, counter |-> 0]

Step == {"idle", "find", "enlist", "save", "verify", "clear", "select",
         "erase"}
Job == [kind : {"none", "pair", "revoke", "restore", "delete", "select"},
        at : Step, uid : Uid \cup {Nobody}, slot : Slot, record : Record]
NoJob == [kind |-> "none", at |-> "idle", uid |-> Nobody, slot |-> 0,
          record |-> Blank]

VARIABLES
    slot,           \* the slots of partition fleet_sec
    selected,       \* MATHOS_FLEET_SELECTED_UID_KEY
    job,            \* what each task is doing
    answer          \* the error code of each task's last job

fleetVars == <<slot, selected, job, answer>>

FleetTypeOK ==
    /\ slot \in [Slot -> Record]
    /\ selected \in Uid \cup {Nobody}
    /\ job \in [Worker -> Job]
    /\ answer \in [Worker -> {"none", "ok", "notFound", "conflict", "error"}]

-----------------------------------------------------------------------------
(* Lookups.                                                                *)

Occupied == {s \in Slot : slot[s].state \in {"ACTIVE", "REVOKED"}}
Active == {s \in Occupied : slot[s].state = "ACTIVE"}
Decodes(record) == record.state # "UNREADABLE"
Readable == \A s \in Slot : Decodes(slot[s])

\* A plausible bug: revoked records are not looked at.
MatchesActive(u) == {s \in Active : slot[s].uid = u}

Matches(u) == {s \in Occupied : slot[s].uid = u}

\* mathos_fleet_find_by_uid: a record that does not load ends the lookup, and
\* so does a second match.
Lookup(u) ==
    IF ~Readable THEN "error"
    ELSE IF Cardinality(Matches(u)) > 1 THEN "conflict"
    ELSE IF Matches(u) = {} THEN "notFound" ELSE "ok"
SlotOf(u) == CHOOSE s \in Matches(u) : TRUE

\* mathos_fleet_find_free_slot: the first slot without a record.
Free == {s \in Slot : slot[s].state = "EMPTY"}
FirstFree == {s \in Free : \A t \in Free : s <= t}

\* mathos_fleet_validate_store
StoreIsValid ==
    /\ Readable
    /\ \A s, t \in Occupied : slot[s].uid = slot[t].uid => s = t

\* mathos_fleet_get_operation_status
OperationStatus ==
    IF Active = {} THEN "NO_AIRCRAFT"
    ELSE IF Cardinality(Active) = 1 THEN "READY" ELSE "SELECTION_REQUIRED"

\* mathos_fleet_boot_validate: the slots a boot would fly, none or one.  The
\* selection counts only when several aircraft are ACTIVE.
BootSlots ==
    IF ~StoreIsValid THEN {}
    ELSE IF OperationStatus = "READY" THEN Active
    ELSE {s \in Active : slot[s].uid = selected}

Written(s, record) == [slot EXCEPT ![s] = [record EXCEPT !.counter = @ + 1]]

\* A plausible bug: the counter's overflow is not looked for.
SaveOutcomeUncounted(s, record) ==
    {[flash |-> Written(s, record), says |-> "ok"]}

\* mathos_fleet_record_save_slot: counted, written, committed, read back.
\* What the flash holds afterwards, and whether the caller is told "ok".
SaveOutcome(s, record) ==
    IF record.counter = MaxCounter
    THEN {[flash |-> slot, says |-> "conflict"]}
    ELSE {[flash |-> Written(s, record), says |-> "ok"]} \cup
         (IF WritesFail
          THEN [flash : {slot, Written(s, record)}, says : {"error"}] ELSE {})

-----------------------------------------------------------------------------
(* Jobs.                                                                   *)

At(w, step) == job[w].at = step
Go(w, step) == job' = [job EXCEPT ![w].at = step]
End(w, code) ==
    /\ job' = [job EXCEPT ![w] = NoJob]
    /\ answer' = [answer EXCEPT ![w] = code]
MayBegin(w) ==
    /\ At(w, "idle")
    /\ Interleaved \/ \A v \in Worker : At(v, "idle")

\* A plausible bug: an aircraft in use may be deleted.
NeededLoosely(kind) ==
    IF kind = "restore" THEN "REVOKED" ELSE "ACTIVE"

\* The state a record must have for each request, the state it gets, and what
\* is written first.
Needed(kind) == IF kind \in {"revoke", "select"} THEN "ACTIVE" ELSE "REVOKED"
Judged(kind) == IF kind \in {"restore", "select"} THEN "ACTIVE" ELSE "REVOKED"
FirstWrite(kind) ==
    CASE kind = "select" -> "select" [] kind = "delete" -> "erase"
      [] OTHER -> "save"

\* A request of the owner reaches its handler, and the lookup it begins with
\* succeeds or answers it.  A revocation also reads the selection here; only
\* this task writes it.
HttpRequest(kind, u) ==
    LET found == Lookup(u) = "ok" /\ slot[SlotOf(u)].state = Needed(kind)
    IN  /\ MayBegin("http")
        /\ IF found
           THEN /\ job' = [job EXCEPT !["http"] =
                     [kind |-> kind, at |-> FirstWrite(kind), uid |-> u,
                      slot |-> SlotOf(u),
                      record |-> [slot[SlotOf(u)] EXCEPT
                                    !.state = Judged(kind)]]]
                /\ UNCHANGED answer
           ELSE End("http", IF Lookup(u) = "ok" THEN "conflict" ELSE Lookup(u))
        /\ UNCHANGED <<slot, selected>>

Revoke(u) == HttpRequest("revoke", u)
Restore(u) == HttpRequest("restore", u)
Delete(u) == HttpRequest("delete", u)
Select(u) == HttpRequest("select", u)

\* The record is written; a revoked aircraft is then no longer the selected
\* one, by a second write.
HttpSaves ==
    /\ At("http", "save")
    /\ \E o \in SaveOutcome(job["http"].slot, job["http"].record) :
         /\ slot' = o.flash
         /\ IF /\ o.says = "ok" /\ job["http"].kind = "revoke"
               /\ selected = job["http"].uid
            THEN Go("http", "clear") /\ UNCHANGED answer
            ELSE End("http", o.says)
    /\ UNCHANGED selected

\* mathos_fleet_selected_uid_clear
HttpClears ==
    /\ At("http", "clear")
    /\ \/ selected' = Nobody /\ End("http", "ok")
       \/ /\ WritesFail
          /\ selected' \in {selected, Nobody} /\ End("http", "error")
    /\ UNCHANGED slot

\* mathos_fleet_selected_uid_set, after its lookup
HttpSelects ==
    /\ At("http", "select")
    /\ \/ selected' = job["http"].uid /\ End("http", "ok")
       \/ /\ WritesFail
          /\ selected' \in {selected, job["http"].uid} /\ End("http", "error")
    /\ UNCHANGED slot

\* mathos_fleet_record_delete_slot.  A selection of this aircraft stays.
HttpErases ==
    LET erased == [slot EXCEPT ![job["http"].slot] = Blank]
    IN  /\ At("http", "erase")
        /\ \/ slot' = erased /\ End("http", "ok")
           \/ /\ WritesFail
              /\ slot' \in {slot, erased} /\ End("http", "error")
        /\ UNCHANGED selected

-----------------------------------------------------------------------------
(* mathos_fleet_store_verified_pairing.                                    *)

\* The pairing offered: a wrapped key of generation g for aircraft u.
PairBegins(u, g, k, fmk) ==
    /\ MayBegin("pair")
    /\ job' = [job EXCEPT !["pair"] =
                 [NoJob EXCEPT !.kind = "pair", !.at = "find", !.uid = u,
                    !.record = [Blank EXCEPT !.uid = u, !.state = "ACTIVE",
                                  !.generation = g, !.key = k, !.wrap = fmk]]]
    /\ UNCHANGED <<slot, selected, answer>>

\* An unknown aircraft is enlisted; a known one keeps its slot, and only a
\* higher generation is written.  A stored raw key never equals a wrapped one.
PairFinds ==
    LET u == job["pair"].uid
        offer == job["pair"].record
        stored == slot[SlotOf(u)]
    IN  /\ At("pair", "find")
        /\ UNCHANGED <<slot, selected>>
        /\ IF Lookup(u) = "notFound"
           THEN Go("pair", "enlist") /\ UNCHANGED answer
           ELSE IF Lookup(u) # "ok" THEN End("pair", Lookup(u))
           ELSE IF \/ stored.state = "REVOKED"
                   \/ offer.generation < stored.generation
                THEN End("pair", "conflict")
           ELSE IF offer.generation = stored.generation
                THEN End("pair", IF /\ stored.wrap = offer.wrap
                                    /\ stored.key = offer.key
                                 THEN "ok" ELSE "conflict")
           ELSE /\ job' = [job EXCEPT !["pair"] =
                     [@ EXCEPT !.at = "save", !.slot = SlotOf(u),
                               !.record = [stored EXCEPT
                                             !.generation = offer.generation,
                                             !.key = offer.key,
                                             !.wrap = offer.wrap]]]
                /\ UNCHANGED answer

\* mathos_fleet_add_aircraft: looked up again, then the first free slot.
PairEnlists ==
    /\ At("pair", "enlist")
    /\ UNCHANGED <<slot, selected>>
    /\ IF Lookup(job["pair"].uid) = "notFound" /\ Free # {}
       THEN /\ \E s \in FirstFree :
                 job' = [job EXCEPT !["pair"] =
                           [@ EXCEPT !.at = "save", !.slot = s]]
            /\ UNCHANGED answer
       ELSE End("pair", IF Lookup(job["pair"].uid) = "ok"
                        THEN "conflict" ELSE "error")

PairSaves ==
    /\ At("pair", "save")
    /\ \E o \in SaveOutcome(job["pair"].slot, job["pair"].record) :
         /\ slot' = o.flash
         /\ IF o.says = "ok" THEN Go("pair", "verify") /\ UNCHANGED answer
            ELSE End("pair", o.says)
    /\ UNCHANGED selected

\* The lookup after the write: the same slot and, after a rotation, still
\* ACTIVE with this pairing.
PairVerifies ==
    LET u == job["pair"].uid
        offer == job["pair"].record
    IN  /\ At("pair", "verify")
        /\ UNCHANGED <<slot, selected>>
        /\ End("pair",
             IF /\ Lookup(u) = "ok" /\ SlotOf(u) = job["pair"].slot
                /\ \/ offer.counter = 0
                   \/ /\ slot[SlotOf(u)].state = "ACTIVE"
                      /\ slot[SlotOf(u)].generation = offer.generation
                      /\ slot[SlotOf(u)].key = offer.key
             THEN "ok" ELSE "error")

-----------------------------------------------------------------------------
\* Both tasks stop where they are.
JobsLost == job' = [w \in Worker |-> NoJob] /\ answer' = [w \in Worker |-> "none"]

HttpStep == HttpSaves \/ HttpClears \/ HttpSelects \/ HttpErases
PairStep == PairFinds \/ PairEnlists \/ PairSaves \/ PairVerifies

HttpArrives ==
    \E u \in Uid : Revoke(u) \/ Restore(u) \/ Delete(u) \/ Select(u)
=============================================================================
