# Verification of the MATHOS UAV control system

TLA+ models of the control software in `src/`, TLC runs on small instances and
TLAPS proofs. The program flies a drone through two ESP32 boards: an operator's
Remote Controller (RC) and an Airborne Gateway that talks MAVLink to the flight
controller (FC).

    RC switches, sticks                                    ArduPilot FC
         |                                                      |
    Remote Controller  <== encrypted Mathos frames ==>  Airborne Gateway
    (remote_controller)     control, status,            (drone_gateway)
                            telemetry, handshake

## Inventory

| Component | State it keeps | Operations | What makes it correct |
|---|---|---|---|
| Gateway command state (`drone_gateway/main/main.c` 197-611) | three pending flags with start times, under one spinlock | start, confirm, reject, time out ARM / DISARM / RTL | one command at a time; only a more conservative one supersedes; every command ends |
| Gateway control authority (`main.c` 1993-3448, 4196-5150) | last packet, previous RC state, recovery lock, safety latch, armed flag and heartbeat time, action mailbox | handle RC packet, operator commands, failsafe supervisor, recovery check, FC heartbeat and ACK, stick override gate | no automatic re-arm; no control without trust; every emergency is answered; the lock opens when and only when earned |
| Session handshake and admission (`main.c` 3450-4103, `mathos_secure.c` 183-641) | session numbers (some in flash), keys, history of closed sessions, sequence numbers | HELLO, CONFIRM, accept or reject a frame, reserve a session number, migrate the counter | what is accepted is in order and new, no nonce is used twice, both sides hold the same keys, also across restarts of either side |
| Remote Controller (`remote_controller/main/main.c`) | arm state, command status, switch and button state, last status and telemetry, link health | buttons, arm safety, status apply, failsafe entry, transmit, supervisor | the RC arms on a deliberate gesture only; what it shows and sends agrees with fresh status |
| Pairing (gateway 1332-1900, RC 5867-8261) | pairing step, challenge, timer, stored keys | PACKAGE, CHALLENGE, PROOF, RESULT | the RC stores only a key the gateway has proved to have, reports success only for the key the gateway confirmed, never goes back to an earlier key, and every request is answered |
| Fleet store (`mathos_fleet.c`) | 200 slots (EMPTY, ACTIVE, REVOKED), generations, selection | add, revoke, restore, delete, select, store pairing | survives power loss; a generation never goes back; a revoked drone is not selectable |
| Maintenance (`mathos_maintenance.c`) | configurations, pairing session, web session | validate, store, pairing session steps, serve pages | only valid configuration is stored; a proof is for this challenge and nonce |
| Framing (`mathos_protocol.c`) | bytes of the frame so far | feed a byte | resynchronises; delivers what was sent |
| FC, UART, radio | external | obey, refuse, lose, delay | environment |

Interaction. The two boards share nothing but frames, which may be lost,
delayed or replayed. Inside the gateway, `link_rx_task`, `mavlink_rx_task`,
`mavlink_tx_task` and `gateway_status_tx_task` share the statics of `main.c`.
Only the pending flags and the action mailbox are lock-protected; the other
statics are read and written freely, so a handler can be interrupted by another
task between any two of them. `app_main` creates the tasks unpinned on a
dual-core chip.

What is hard: interleavings of those tasks, stale link ages, lost commands,
restarts of one side, timeouts that race an answer, latches and locks that must
be released, and numbers in flash that must never repeat. `PROJECT.json` lists
each hazard at its line with the property that covers it.

## Modules

| Module | Stands for |
|---|---|
| `CommandSlot` | abstract: one awaited operation, superseded only by a more conservative one |
| `CommandState` | the gateway's lock-protected flags; one action per `gateway_command_state_*` function |
| `GatewayControl` | the gateway's tasks, the FC and the UART |
| `OrderedLink` | abstract: one direction of the link, lossy and in order across restarts of both ends |
| `SessionHandshake` | both sides of HELLO / CONFIRM, keys, admission, restarts, nonces |
| `RemoteControl` | the RC's tasks in flight: buttons, failsafe, gateway status |
| `PairingAgreement` | abstract: keys drawn, stored, confirmed, each once and in order |
| `Pairing` | gateways and RC in maintenance mode, from PACKAGE to RESULT |
| `FleetRegistry` | abstract: for every aircraft the newest pairing and whether it is revoked |
| `FleetStore` | `mathos_fleet.c`: slots, lookups, the owner's requests, storing a pairing |
| `RcStorage` | `FleetStore` in the RC's starts: migrations, master key, enrollment record, choice of aircraft, power loss |
| `CommandStateProofs`, `GatewayControlProofs`, `GatewayEmergencyProofs`, `SessionHandshakeProofs`, `SessionOrderProofs`, `RemoteControlProofs`, `PairingProofs`, `RcStorageProofs` | theorems |
| `MCGatewayControl`, `MCSessionHandshake`, `MCRemoteControl`, `MCPairing`, `MCRcStorage` | the instances of the runs |

`GatewayControl` uses `CommandState`, which is shown to implement `CommandSlot`;
`RcStorage` extends `FleetStore` and is shown to act as `FleetRegistry`;
`SessionHandshake` implements `OrderedLink` in each direction (`ControlLink`,
`ReportLink`), and `Pairing` implements `PairingAgreement`. The boards are joined through their interfaces: `RemoteControl` accepts any report,
`GatewayControl` any accepted packet, and `SessionHandshake` says which frames
are accepted.

### CommandState

A stored command time is represented by its age in ticks: `None` is the stored
value 0, and `Age` saturates at `MaxAge`, beyond every timeout. A `try_start_*`,
`confirm_*`, `reject_*` or `timeout_*` function is the action of its returning
true; when it returns false it changes nothing. The operations that cancel a
command leave its time behind, as the code does; the model keeps that.

### GatewayControl

One tick is a status period (`GATEWAY_STATUS_TX_PERIOD_MS`, 200 ms). Within a
tick, steps of the tasks interleave. `pc[t]` is the next step of task `t`:

| Model | Code |
|---|---|
| `LinkAccept` ... `LinkFinish` | `handle_valid_rc_packet`: store the time and state, `gateway_process_rc_state_action` (one action per transition, one more for each reservation and each send), `gateway_session_recovery_check`, queue |
| `Safety`, `ReserveSafety`, `SendSafety` | `gateway_apply_failsafe_action` with the three builds, called by two tasks |
| `StatusReport`, `StatusSample`, `StatusCheck` | one period of `gateway_status_tx_task`: mailbox tick, timeouts, `gateway_failsafe_safety_check` split where it reads shared state |
| `MavHeartbeat`, `MavConfirm`, `MavRtlRefused` | `mavlink_rx_task` |
| `SendsOverride` | the condition under which `mavlink_tx_task` writes the sticks |
| `FcExecute`, `UartDrops`, `FcHeartbeat`, `FcActsAlone`, `Tick` | environment |
| `GatewayRestart` | power loss at any point: RAM is lost, the UART's content is not |

`LinkAccept`'s packet is authenticated and in order: admission is the
handshake's matter. The throttle is `high` or not, relative to
`GATEWAY_ARM_THROTTLE_MAX`. `told`, `exposed`, `trust`, `mayArm` and `calmAge`
are history variables: no guard reads them.

Bounds and environment assumptions, by name: `MaxAge`; `MaxInFlight` (commands
in the UART); `exposed` saturates at 2; a tick passes only when the handlers
that started in it have ended and the UART is empty (both take milliseconds);
heartbeats are spaced so that one supervisor run fits between two (the FC sends
one per second). `spaced` still allows two heartbeats in one tick.

Switches: `Interleaved` (steps of handlers interleave, or a handler runs to
completion), `LossyUart`, `FcRefuses`, `FcArmsAlone` (a ground station arms the
FC), `Reboots`, `FailsafeAction` (bench build, RTL or FC_NATIVE policy).

### SessionHandshake

A device's number of the boot comes from flash (`Reserve` commits it, `Publish`
is the return to `app_main`, and power may go between the two). A key is the
pair <<RC session, gateway session>> it is derived from, `Blank` when zeroized:
a receiver decrypts a frame when it holds the pair the frame was sealed with.

| Model | Code |
|---|---|
| `Reserve`, `Publish` | `mathos_secure_reserve_session_id`, `app_main` |
| `GatewayHello`, `RcHello` | `gateway_session_hello_send_once`, `rc_session_hello_send_once` |
| `StartTraffic`, `SealTraffic`, `SendTraffic` | the sender's check, `mathos_secure_encrypt_session_packet`'s check, the use of the key bytes: three reads of state the receive task may change in between |
| `GatewayHearsHelloAgain`, `GatewayHearsHello`, `GatewayDerives`, `GatewayDeriveFails`, `GatewayHearsControl` | `link_handle_mathos_frame`; clearing the old keys and installing the new ones are two steps, as another task can run between them |
| `RcHearsHello`, `RcHearsConfirm`, `RcHearsReport` | `gateway_status_handle_frame` |
| `PowerLoss` | statics start again; flash and the frames on the air stay |

`network` holds every frame ever sent, and a receiver may be handed any of them
at any time: loss, delay, repetition and reordering in one. Status and telemetry
are handled alike and share a counter: both are a `REPORT`. A failed derivation
on the RC leaves everything as it was, so it is no action. The RC's
fail-closed branch (5307-5352) for a foreign session under the keys in use has
no action: `KeysAlwaysMatchCandidate` proves that the RC does not hold such
keys. `latest`, `reused`, `proven` and a frame's `drawn` are
history: no guard reads them.

Bounds: `SessionMax`, `HandshakeMax` and `TrafficMax` stand for `UINT32_MAX`,
where the code stops using a counter, so the small values make exhaustion
happen; `HistoryLen` stands for the length of the session history ring.
`DeriveFails` says whether the HMAC library may fail (it allocates memory).

### RemoteControl

A task is cut at each access to the state that several tasks set
(`drone_command_state`, `command_status`, `drone_state`, each under a lock of
its own, read and set in separate calls). `pc[t]` is where task `t` is and
`plan[t]` what it has decided to set.

| Model | Code |
|---|---|
| `Press`, `Writes`, `Tells` | `controller_task`'s four buttons: decide, set the command state, set the status |
| `Hears`, `Writes`, `Tells` | `gateway_status_apply_to_remote`: one arm of its switch |
| `HearsNewSession`, `Resets` | the first status of a new gateway session while armed |
| `Watch`, `WatchChecks` | `arm_safety_task`, `system_health_task`, `task_supervisor_task`, each in its own order of reading |
| `EnterReads` ... `EnterClears` | `enter_failsafe`, in the task that calls it |
| `ClearReads`, `ClearChecks`, `Clears` | `command_status_auto_clear_task` |
| `Changes`, the choice of `Hears`' report | environment |

The conditions (`master`, `permission`, `link`, `input`, `stalled`) may change at
any time, and a gateway may report anything: the properties hold whatever the
gateway does. `link` stands for a status or telemetry that is no longer fresh.
`released` is history. Stick positions are not modelled: they only make
`PreArm` refuse more. The failsafe entries of the joystick and transmit tasks
for slow turns have the shape of `Watching` and are left out.

### Pairing

A root key is what PBKDF2 makes of a passphrase and a salt: the pair of both. A
MAC stands for its key, so that it verifies exactly for the same key, challenge
and nonce. PACKAGE and CHALLENGE carry no MAC, as in the code.

| Model | Code |
|---|---|
| `GwConfigures` | the gateway's page: a new passphrase, `key_generation + 1`, a fresh salt |
| `GwStarts`, `GwChallenges`, `GwExpires`, `GwHearsProof`, `GwHearsResult` | `gateway_pairing_*`, one action per frame or deadline |
| `Submit`, `Tell`, `Enqueue` | the RC page's handler, cut where it uses the admission (`Admit`), the status and the queue; a form that is turned away changes nothing |
| `RcLooks`, `RcTakes`, `RcGivesUp`, `RcPolls` | a turn of `rc_pairing_rx_task`, one action per thing it does |
| `RcHearsPackage` ... `RcHearsResult` | a frame in that turn |
| `CommitsBoth`, `CommitFails` | `rc_pairing_commit_verified_candidate`, its writes and what a failure leaves, which may be the new record in flash when the error comes after the fleet's write (`RcStorage` has the two writes apart) |
| `RcRestarts`, `Lose`, `RcFallsDue` | power loss, the link, deadlines |

There is no clock: a deadline may pass at any time after it was set, which
includes all real timings. `raw` says whose fleet record still has the raw key
of the earlier firmware, which a repeated pairing of the same generation does
not replace. `held`, `committed` and `acknowledged` are history.

The owner's requests on the fleet (revoke, restore, delete, select) are not in
this module: the fleet store changes only by pairing here. `FleetStore` and
`RcStorage` have the two tasks together.

### FleetStore, RcStorage

A record is what `mathos_fleet_record_t` decodes to; `wrap` is the number of the
master key under which the pair key is stored, 0 for a raw one. A job of either
task is cut at its accesses to flash. A write that reports an error may have
changed the flash or not (`SaveOutcome`). `app_main` is one action per stage
(`boot`), and power may fail between any two. `EarlierFleet` is what the
earlier firmware may have left. A record may decay to an unreadable one while
the device is off (`Decays`), and partitions may fail to mount
(`StorageFaults`). `overtaken` is history.

## Runs

| Run | Shows |
|---|---|
| `gateway_tasks` | safety under all interleavings of the tasks' steps, every timeout one tick: type, one pending command and its time, control is earned, the sticks sent are the last packet's, every emergency answered, arming only on request |
| `gateway_rtl` | the RTL build with refusals, lost commands and restarts, the packet timeout (1) below the failsafe times and the hold (2), so that the lock opens after packets in several ticks and a late one in between starts the hold again: the command flags refine `CommandSlot`, recovery takes the whole hold |
| `gateway_live` | commands end, a lost link disarms, the recovery lock opens |
| `session_safe` | nonces, each direction an `OrderedLink`, content sealed for the session it was drawn for, two boots of each side, counters that run out |
| `session_live` | two devices that stay on end up operational with each other and stay so as long as both have power; agreement on keys when derivations may fail |
| `rc_control` | the RC's tasks under all interleavings: the boot latch, who arms, and what is true in the end in spite of the races |
| `pairing` | `PairingAgreement`: what is drawn, stored, confirmed and reported agrees; the page's reservation; every request is answered |
| `rc_storage` | the RC's flash acts as `FleetRegistry`, migrates exactly, and only the paired key is flown |
| `cancelled_arm`, `failsafe_undone`, `revocation_lost`, `repair_refused` | disagreements, below |

Why the bounds are enough: ages are compared with constants only, so one value
below, at and beyond each timeout distinguishes everything, and `MaxAge` is one
beyond the largest link timeout. Two commands in flight are needed for an order
to exist between them; a task writes at most one command per handler.
Interleaving and fine time are checked in separate runs to keep each within
minutes.

For the handshake: two boots of each side are needed for an old frame to meet a
new session, two frames of a kind for an order between them, a history of one
for a session to be forgotten. The handshake runs have no views.

In `rc_control` two watchers with different orders of reading and a condition
of each kind suffice: `task_supervisor` reads in `arm_safety`'s order, and
`master` and `input` act as `permission` and `link` do.

In `pairing`, two gateways and two passphrases give a wrong one of each: the
owners choose only one of them (`Chosen`), the RC's page is given either. With
`MaxGeneration` 2 a third key (`MaxSalt` 3) has generation 1 again, so the run
has keys of a wrapped generation stored, and refused where the record has
a later number. After a commit that failed with its record in flash another
exchange stores a second key, or the same one again; both are reached in the
run, and so is a SUCCESS after two commits. Two challenges give an old and a
new session. One frame in flight still allows any loss, and either side may be
arbitrarily slow in reading it.

In `rc_storage` two aircraft and two slots meet in every order,
and a counter of 3 runs out. Its view drops what is not read again (a partition
that has been copied, `app_main`'s variables after it has ended); aircraft are
symmetric.

The view of `MCGatewayControl` hides variables that steer nothing and that no
property of the run reads: the published action and its repeat counter. It is
a bisimulation quotient. Restarts of the gateway are in `gateway_rtl` only;
that `ArmOnlyOnRequest` and `ControlIsEarnedOnceHeard` hold across them is
proved (`ArmingIsRequested`, `ControlOfFoundArmed`), not checked.

Fairness. FreeRTOS runs every ready task, so the steps of a started handler are
weakly fair. Starting `StatusReport`, `MavHeartbeat` and `MavRtlRefused`, and
`Tick`, can be disabled again and again by other handlers, and are strongly
fair: the tasks have their own time slices and time does not stop. The FC empties its UART
(`WF` on `FcExecute`). No fairness is assumed for packets, heartbeats, losses,
restarts or operator actions.

`FairSessionSpec`: senders are periodic tasks, weakly fair. Receiving is weakly
fair per kind of frame. A HELLO is sent every second, a CONFIRM in answer to
each HELLO and traffic continually; `network` keeps one frame for all these
repetitions, so that some frame of a kind that stays acceptable is heard in the
end. `GatewayDerives` is strongly fair: a derivation attempted over and over
succeeds once. Nothing obliges a device to start or to stay on, and
`SessionIsEstablished` exempts the cases in which a counter ran out (`Spent`).

`RemoteControl`'s `FairSpec`: the controller, the receiver and each watcher run
(weakly fair, as FreeRTOS tasks). Nothing obliges the pilot to press, the
gateway to report or a condition to change. `PilotPrevails` is about a pilot
who presses DISARM over and over; that he does is part of the property.

`Pairing`'s `FairSpec`: the handler and the RC's pairing task run and the RC's
deadlines pass. Nothing is assumed of gateways, of the operator, of the link or
of what is heard.

### Disagreements found

* `cancelled_arm`. `drone_gateway/main/main.c:2663` "Atomically cancel a pending ARM and reserve
  DISARM": the flags are atomic, the send is not. `link_rx_task` reserves ARM,
  the supervisor cancels it, and the ARM is sent all the same.
* `failsafe_undone`. `remote_controller/main/main.c:4330` "keep FAILSAFE latched
  until the operator resets it intentionally". The receiver handles
  ARM_CONFIRMED by the status it read at 4229 and sets ARMED at 4292 without
  looking at the command state, which a failsafe has set in between.
  `LossIsFinal` shows how far that goes: not beyond the cause's next sighting.
* `revocation_lost`. `mathos_fleet.c:6535` "Pairing must never silently restore
  an aircraft that the owner explicitly revoked". The pairing task reads the
  record as ACTIVE, the HTTP task saves the owner's revocation
  (`mathos_fleet_revoke_aircraft`), and the pairing writes the record back.
* `repair_refused`. `mathos_maintenance.c:10144` "The existing RC record must
  already be valid". Once a pairing is stored, the record in RAM has no key
  (14029) and is not valid, so no later PACKAGE is accepted, not even that of
  a rotated key (`mathos_fleet.c:6689`). `FlownKeyIsPaired` and
  `ActsAsRegistry` hold none the less: nothing wrong is stored.

Met while modelling, without a run. A session that begins before the FC's first
heartbeat takes an armed aircraft for a disarmed one (`drone_gateway/main/main.c:3093`;
`ControlIsEarnedOnceHeard` is about sessions after it). A status may be
encrypted under a session that became current after the check
(5485, 5547). After a failed key derivation the handler forgets which session
it had (3812), so `ControlIsOrdered` and `RcSessionsNeverGoBack` are checked and
proved for derivations that succeed. An RC whose enrollment record does not load stops
(`remote_controller/main/main.c:10633`) before maintenance mode, in which it
could be paired again; a new RC without any session counter stops at the
migration (`mathos_secure.c:387`). A pairing that the fleet store refuses leaves
the new enrollment record behind, and the next start in normal mode stops
(`FlownKeyIsPaired` shows that it does not fly). In the RTL build an RTL left
pending by an earlier flight makes the next emergency's RTL be skipped as already
pending, with the latch set (`drone_gateway/main/main.c:2747`), so
the run checks `EmergencyIsAnswered` in the bench build;
`EmergencyAnsweredUnlessRtlLeft` proves that in the RTL build this is the only
gap (in the FC_NATIVE build the gateway sends the FC no command at all).

## Proved

TLAPS checks the theorems for every value of the constants: any number of
aircraft, slots and keys, any timeouts, counters of any width. They rest on the
named assumptions of the modules and nothing else. Each argument is an inductive
invariant: it holds initially, every action preserves it, and it implies the
property. The invariants are stronger than the properties, since a property is
seldom inductive as it stands.

| Module | Theorems | Assumptions | Invariant and why it is needed |
|---|---|---|---|
| `CommandStateProofs` | types, one pending command, its time, `SlotRefinement` | `AgeAssumption` | the three properties together: a flag set without its time would let two commands wait |
| `GatewayControlProofs` | types, `GatewayOnePending`, `GatewaySlot`, `ArmingIsRequested`, `ControlOfFoundArmed`, `RecoveryTakesTheHold` | named in `GatewayControl` | every gateway step is a step of `CommandState` or leaves it alone, so its theorems carry over. `ArmInv`: what a packet on its way to ARM carries at each program point. `TrustInv`: the lock is shut while the FC has not been seen disarmed. `HoldInv`: the hold is never older than the calm, with the packet under way accounted for |
| `GatewayEmergencyProofs` | `SticksAlwaysCurrent`; in the bench and the RTL build `EmergencyAnsweredUnlessRtlLeft`, `LatchIsHonest`; in the bench build `EmergencyAlwaysAnswered` | named in `GatewayControl` | below |
| `SessionHandshakeProofs` | types, `NonceNeverReused`, `KeysAlwaysAgree`, `KeysAlwaysMatchCandidate`, `OperationalAlwaysProven`, `EstablishedAlwaysHolds` | named in `SessionHandshake` | `BootInv`, `SentInv`: what is on the air is below the counters of its boot, and a boot's number is below flash. `KeyInv`: what every frame ever sent says about the keys of both sides, old frames included |
| `SessionOrderProofs` | `ControlSealedAsDrawn`, `ReportsImplementLink`; with `~DeriveFails` also `ControlImplementsLink`, `RcSessionsAlwaysRise` | named in `SessionHandshake` | below |
| `RemoteControlProofs` | types, `ArmingNeedsReleased`, `OnlyPilotEverArms` | named in `RemoteControl` | `LatchInv`: everything that leads to ARMED, each task's plan included, is there only once the switch has been off. `Quiet` is preserved by every step but the two presses: a confirmation counts only for a status that is still ARMING |
| `PairingProofs` | types, `ReservationIsKept`, `StoredKeysAlwaysHeld`, `VerifiedIsAlwaysStored`, `SuccessIsAlwaysMutual`, `PairingImplementsAgreement` | named in `Pairing` | `ReservationInv`: handler, queue and pairing task agree on the one request. `KeyInv`: salts identify keys, each frame in flight tells only what its sender has done, and a waiting RC has stored what it waits for. For the refinement see below |
| `RcStorageProofs` | types, `MigrationAlwaysExact`, `WrappedAlwaysReadable`, `OneSlotAlways`, `FlownKeyAlwaysPaired`, `FleetImplementsRegistry`, `RevokedIsKeptUnlessOvertaken` | `FleetAssumption`, `NobodyAssumption`, `StorageAssumption` | below |

`GatewayEmergencyProofs`. Two things can silence the supervisor while the FC is
armed: a command believed to be on its way, and the latch. `ReservedInv`: a pending
DISARM or RTL has been written, is about to be written by the task that reserved
it, or is about to be confirmed. `LatchInv`: a latch set on an armed FC belongs to
an answer; one left over from an earlier flight is released by a supervisor run
that ends before the next heartbeat can report the FC armed. No such run clears an
RTL: landing does not end it. `NoLeftoverRtl` is the hypothesis that none is
pending when the FC is first reported armed; it is a fact of the bench build
(`BenchHasNoRtl`) and the exact gap of the RTL build, where TLC shows an emergency
unanswered without it (the constants of `gateway_tasks` with that build and an
`RtlTimeout` of 3). `OpenStep`: so an
emergency comes to be unanswered only by time passing or by a heartbeat that
reveals an armed FC. `SpacingInv`, `CheckInv`, `ExposedInv`: the supervisor run
after it finds the same FC and the same emergency, and answers. It uses that a
supervisor run fits between two heartbeats (200 ms against 1 s), which the model
states in the guard of `FcHeartbeat`. `LatchIsHonest` states what the tasks rely
on when they do nothing. `SticksAlwaysCurrent` rests on `PacketInv`, what the
handler has settled on and what `mavlink_tx_task` holds between two packets, and on
`RemoteInv`: what the supervisor may have made of the RC's state meanwhile.

`EstablishedAlwaysHolds` follows from the `KeyInv` of `SessionHandshakeProofs`:
in an established session each side knows the other's newest number
(`EstablishedFacts`), and no frame names a later one, because a number is in flash
before anything is sent with it. A HELLO replaces a session only with a later one,
and an operational RC takes no CONFIRM.

`SessionOrderProofs`. `AskedInv`: the gateway confirms only pairs of sessions an
RC has asked for. `DrawnInv`: while `radio_tx_task` builds a packet it sends no
HELLO, so no later gateway session than the packet's has been asked for, and the
only keys a CONFIRM can bring are the packet's own. `OrderInv`, stated once for
either receiver: what was made for a session of the receiver that does not exist
yet is not on the air when that session starts, and whatever is sent later is
later than all there is; so frames accepted in different boots are in order
without anything being remembered over a restart. `RiseInv`: within a boot the
peer's session only grows; for the gateway that is `AuthInv`, and false after a
failed derivation, which is why the two theorems assume there is none. The refinement maps `sent` to
the frames of the direction with the session and number of their sender and the
receiver's session they are sealed for, `last` to the frame accepted last, and
`boot` to the receiver's session number. `SentLater` and `AcceptsLater` are its
two steps: a frame just sent is later than all of its kind, and one accepted is
later than the last. It says more than that the order is kept: that the receiver
accepts nothing but what was sent, and to this boot of it.

`PairingProofs`, the refinement. `KeyInv` does not say in which order things
happen; `OrderInv` does. `NewestInv`: what a gateway has in flash is its newest
key, and the one it runs with is not older than the RC's. `NonceInv`: a proof
under way is of a key that its gateway still runs with, or ran with before, and
the one the RC waits for is not older than what the RC holds, because the RC has
stored nothing since it drew the nonce. `FleetInv`: an aircraft that is not in
the fleet has no pairing. `CommitStores` treats a commit that is reported
as a failure like any other: what counts is that the record is in flash. In the
code as it is a pairing that succeeded, or was kept over a restart, is the RC's
last one (`repair_refused`), and only failed commits are followed by more; the proof does not use that, so the
agreement does not depend on the defect.

`RcStorageProofs`. `IdleInv`: jobs exist in maintenance mode only, so that a
start meets none. `MigrationInv`: until the copy is marked complete the new
partition holds copies only, and a counter that has been moved is not behind.
`WrapInv`: a record that a task has yet to write is as readable as those in
flash. `UniqueInv`: the pairing task writes the only record of its aircraft or,
when there is none, a free slot; no request of the owner can make that false,
because the owner's task creates no record. `FlownInv`: what each stage of a start has found out, none of
which can change before power is lost. For the refinement, `FreshInv`: as long
as no task has overtaken the other, counters only grow, so a record whose
counter is still the one that was read has not changed, and the write is the
registry's operation. Once a task has overtaken the other
(`overtaken`) nothing is claimed: that is the race of `revocation_lost`.
`RevokedIsKeptUnlessOvertaken` puts that the other way round: without that race
(and flash that decays) nothing but the owner's own task takes a revoked aircraft
back, so a lock around the pairing's lookup and write would make the comment true.

## Only model-checked

* Liveness: `SlotFairness`, `LinkLossDisarms`, `RecoveryOpens`,
  `SessionIsEstablished`, `LossIsFinal`, `PilotPrevails`, `RequestIsAnswered`.
  Fairness and ENABLED are beyond the prover's backends. Every safety invariant
  and action property that a passing run checks is also proved.
* The four disagreements are counterexamples of TLC.

## Not modelled, and why

* `mathos_protocol.c`, the byte parser: sequential, one owner, no shared state;
  its behaviour is about bytes, which the models leave out. A frame is whole or
  lost here.
* `mathos_identity.c` reads the chip's identifier once.
* Ciphers, HMAC and PBKDF2 are libraries: a frame opens exactly with the keys
  it was sealed with, a MAC verifies exactly for what it was made of. Frames
  that nobody of the system made are no part of the models.
* Record encodings and checksums: a record decodes or it does not (`Decays`).
* Gateway telemetry is decoded and shown, nothing acts on it.
* LCD, ADC calibration, stick positions: input and output. `PreArm`'s stick
  test only refuses more.
* Wi-Fi, HTTP parsing, HTML and the page's access code: an owner's request is
  modelled from the moment its handler calls into the fleet or the pairing.
* The wire side of the action mailbox (`drone_gateway/main/main.c:2437`): which
  frame carries the action, and that a second action replaces one not yet sent.
* The joystick and transmit tasks' failsafe for slow turns has the shape of the
  watchers that are modelled.
