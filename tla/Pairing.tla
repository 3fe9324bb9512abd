------------------------------ MODULE Pairing ------------------------------
(***************************************************************************)
(* Pairing in maintenance mode: a gateway announces a PACKAGE and a        *)
(* CHALLENGE, the operator gives the remote controller (RC) the passphrase *)
(* on its page, both prove that they derived the same key, the RC stores   *)
(* it and the two confirm that by RESULT frames.  (remote_controller       *)
(* main.c: rc_pairing_*; drone_gateway main.c: gateway_pairing_*; the      *)
(* session functions of mathos_maintenance.c.)                             *)
(*                                                                         *)
(* On the RC the HTTP handler and the pairing task share the admission     *)
(* state, the request queue and the status; each is cut at its accesses to *)
(* them.  The link is a lossy queue either way.  There is no clock: a      *)
(* deadline may pass at any time after it was set.                         *)
(***************************************************************************)
EXTENDS Naturals, Sequences, FiniteSets

CONSTANTS
    Gateway, Passphrase,
    Chosen,             \* bound: those of them that owners give a gateway (any
                        \* may be typed on the RC's page)
    MaxGeneration,      \* the key generation's last value (UINT32_MAX)
    MaxRetries,         \* MATHOS_PAIRING_SESSION_MAX_RETRIES
    MaxAttempts,        \* RC_PAIRING_RESULT_MAX_TX_ATTEMPTS
    MaxSalt,            \* bound: keys provisioned
    MaxChallenge,       \* bound: starts of a gateway with a key
    MaxNonce,           \* bound: sessions of the RC
    MaxInFlight,        \* bound: frames on the link, either way
    WritesFail          \* flash and UART writes may fail, and a failed flash
                        \* write may have taken place

ASSUME PairingAssumption ==
    /\ {MaxGeneration, MaxRetries, MaxAttempts, MaxSalt, MaxInFlight}
         \subseteq Nat \ {0}
    /\ {MaxChallenge, MaxNonce} \subseteq Nat
    /\ Chosen \subseteq Passphrase
    /\ WritesFail \in BOOLEAN

None == "none"
ASSUME NoneAssumption == None \notin Gateway \cup Passphrase

Generation == 0 .. MaxGeneration
Salt == 0 .. MaxSalt

\* The root key is derived from the passphrase and a random salt.
Key == [salt : Salt, pass : Passphrase \cup {None}]
DerivedKey(salt, pass) == [salt |-> salt, pass |-> pass]
NoKey == DerivedKey(0, None)

\* mathos_gateway_config_t, and the same as the RC learns it.
Config == [generation : Generation, key : Key]
Unprovisioned == [generation |-> 0, key |-> NoKey]
Pairing == [gw : Gateway \cup {None}, generation : Generation, key : Key]
Unpaired == [gw |-> None, generation |-> 0, key |-> NoKey]

Frame == [type : {"PACKAGE", "CHALLENGE", "RC_PROOF", "GATEWAY_PROOF",
                  "RC_COMMITTED", "GATEWAY_COMMITTED"},
          gw : Gateway, generation : Generation, salt : Salt,
          challenge : 0 .. MaxChallenge, nonce : 0 .. MaxNonce, key : Key]

\* mathos_pairing_session_t on either side.
GatewaySession == [state : {"IDLE", "CHALLENGE_READY", "WAIT_RC_RESULT",
                            "RC_RESULT_VERIFIED"},
                   told : BOOLEAN, challenge : 0 .. MaxChallenge,
                   nonce : 0 .. MaxNonce, retries : 0 .. MaxRetries]
NoGatewaySession == [state |-> "IDLE", told |-> TRUE, challenge |-> 0,
                     nonce |-> 0, retries |-> 0]

RcSession == [state : {"IDLE", "CHALLENGE_READY", "RC_PROOF_READY",
                       "WAIT_GATEWAY_RESULT"},
              gw : Gateway \cup {None}, generation : Generation, salt : Salt,
              challenge : 0 .. MaxChallenge, nonce : 0 .. MaxNonce,
              key : Key, retries : 0 .. MaxRetries, due : BOOLEAN]
NoRcSession == [state |-> "IDLE", gw |-> None, generation |-> 0, salt |-> 0,
                challenge |-> 0, nonce |-> 0, key |-> NoKey, retries |-> 0,
                due |-> FALSE]

Package == [gw : Gateway \cup {None}, generation : Generation, salt : Salt]
NoPackage == [gw |-> None, generation |-> 0, salt |-> 0]

\* A form that has reserved the session, and where its handler is; seen is the
\* RC session that had started last when it arrived.
Request == [at : {"none", "admitted", "told", "queued"},
            gw : Gateway \cup {None}, pass : Passphrase \cup {None},
            seen : 0 .. MaxNonce]
NoRequest == [at |-> "none", gw |-> None, pass |-> None, seen |-> 0]

VARIABLES
    saved,          \* per gateway: the configuration in flash
    running,        \* per gateway: gateway_runtime_config, read at its start
    gwSession,      \* per gateway: gateway_pairing_session
    toRc, toGw,     \* the link
    salts, challenges, nonces,      \* random values drawn so far
    package,        \* rc_pairing_received_package
    rcSession,      \* rc_pairing_session
    proofTimer,     \* rc_pairing_proof_sent_at_us is set
    attempts,       \* rc_pairing_result_wait.tx_attempts; its own deadline
                    \* is one more cause for rcSession.due
    admission,      \* rc_pairing_admission
    http, queue,    \* the handler's request, rc_pairing_request_queue
    status,         \* maintenance_rc_pairing_status
    runtime,        \* rc_runtime_pairing_config: format and pairing
    enrolled,       \* the enrollment record in flash
    fleet,          \* per gateway: the pairing in the fleet store
    raw,            \* those whose record has the earlier firmware's raw key
    held,           \* history: the keys each gateway ever had
    committed,      \* history: what the RC stored, with its nonce
    acknowledged    \* history: what a gateway confirmed, with its nonce

gwVars == <<saved, running, gwSession>>
linkVars == <<toRc, toGw>>
drawnVars == <<salts, challenges, nonces>>
exchangeVars == <<package, rcSession, proofTimer, attempts>>
pageVars == <<admission, http, queue, status>>
storedVars == <<runtime, enrolled, fleet, raw>>
historyVars == <<held, committed, acknowledged>>
rcVars == <<exchangeVars, pageVars, storedVars>>
vars == <<gwVars, linkVars, drawnVars, rcVars, historyVars>>

Record == [format : {"none", "legacy", "metadata"}, pairing : Pairing]
NoRecord == [format |-> "none", pairing |-> Unpaired]
Confirmation == [gw : Gateway, key : Key, nonce : 0 .. MaxNonce]

PairingTypeOK ==
    /\ saved \in [Gateway -> Config] /\ running \in [Gateway -> Config]
    /\ gwSession \in [Gateway -> GatewaySession]
    /\ toRc \in Seq(Frame) /\ Len(toRc) <= MaxInFlight
    /\ toGw \in Seq(Frame) /\ Len(toGw) <= MaxInFlight
    /\ salts \in Salt /\ challenges \in 0 .. MaxChallenge
    /\ nonces \in 0 .. MaxNonce
    /\ package \in Package /\ rcSession \in RcSession
    /\ proofTimer \in BOOLEAN
    /\ attempts \in 0 .. MaxAttempts
    /\ admission \in {"CLOSED", "READY", "QUEUED"}
    /\ http \in Request /\ queue \in Request
    /\ status \in {"IDLE", "IN_PROGRESS", "SUCCESS", "FAILED"}
    /\ runtime \in Record /\ enrolled \in Record
    /\ fleet \in [Gateway -> Pairing] /\ raw \subseteq Gateway
    /\ held \subseteq [gw : Gateway, key : Key]
    /\ committed \subseteq Confirmation /\ acknowledged \subseteq Confirmation

-----------------------------------------------------------------------------
(* The link.                                                               *)

\* A frame may be lost, and is when the link is full.
Sent(link, f) == IF Len(link) < MaxInFlight THEN Append(link, f) ELSE link

Lose ==
    /\ \/ toRc # <<>> /\ toRc' = Tail(toRc) /\ UNCHANGED toGw
       \/ toGw # <<>> /\ toGw' = Tail(toGw) /\ UNCHANGED toRc
    /\ UNCHANGED <<gwVars, drawnVars, rcVars, historyVars>>

\* What a gateway announces is its running configuration.
Announced(g) ==
    [gw |-> g, generation |-> running[g].generation,
     salt |-> running[g].key.salt]

\* PACKAGE and CHALLENGE are not authenticated, and only the PACKAGE has the
\* salt.  A proof or a RESULT is a MAC over challenge and nonce with the key,
\* which stands for it in the frame.
Open(type, p, challenge) ==
    [type |-> type, gw |-> p.gw, generation |-> p.generation, salt |-> p.salt,
     challenge |-> challenge, nonce |-> 0, key |-> NoKey]
Proven(type, g, generation, key, challenge, nonce) ==
    [Open(type, [gw |-> g, generation |-> generation, salt |-> key.salt],
          challenge) EXCEPT !.nonce = nonce, !.key = key]

-----------------------------------------------------------------------------
(* The gateway.                                                            *)

NextGeneration(g) ==
    IF saved[g].generation = MaxGeneration THEN 1 ELSE saved[g].generation + 1

\* The owner gives a new passphrase on the gateway's page: the next
\* generation and a fresh salt, used from the next start on.
GwConfigures(g, p) ==
    LET key == DerivedKey(salts + 1, p)
    IN  /\ salts < MaxSalt
        /\ salts' = salts + 1
        /\ saved' = [saved EXCEPT ![g] =
                       [generation |-> NextGeneration(g), key |-> key]]
        /\ held' = held \cup {[gw |-> g, key |-> key]}
        /\ UNCHANGED <<running, gwSession, linkVars, challenges, nonces,
                       rcVars, committed, acknowledged>>

\* mathos_pairing_session_start
Started(challenge) ==
    [NoGatewaySession EXCEPT !.state = "CHALLENGE_READY", !.told = FALSE,
                             !.challenge = challenge]

\* Maintenance mode starts: the configuration is loaded.
GwLoads(g) == running' = [running EXCEPT ![g] = saved[g]]

\* A provisioned gateway starts its only session and announces itself.
GwStarts(g) ==
    /\ challenges < MaxChallenge
    /\ GwLoads(g)
    /\ IF saved[g].generation = 0
       THEN /\ gwSession' = [gwSession EXCEPT ![g] = NoGatewaySession]
            /\ UNCHANGED <<challenges, toRc>>
       ELSE /\ challenges' = challenges + 1
            /\ gwSession' = [gwSession EXCEPT ![g] = Started(challenges')]
            /\ toRc' = Sent(toRc, Open("PACKAGE", Announced(g)', 0))
    /\ UNCHANGED <<saved, toGw, salts, nonces, rcVars, historyVars>>

GwChallenges(g) ==
    /\ ~gwSession[g].told
    /\ gwSession' = [gwSession EXCEPT ![g].told = TRUE]
    /\ toRc' = Sent(toRc, Open("CHALLENGE", [Announced(g) EXCEPT !.salt = 0],
                                gwSession[g].challenge))
    /\ UNCHANGED <<saved, running, toGw, drawnVars, rcVars, historyVars>>

\* MATHOS_PAIRING_SESSION_TIMEOUT_MS have passed when the session is next
\* looked at: it is wiped, and a CHALLENGE not sent yet never is.
GwExpires(g) ==
    /\ gwSession[g].state # "IDLE"
    /\ gwSession' = [gwSession EXCEPT ![g] = NoGatewaySession]
    /\ UNCHANGED <<saved, running, linkVars, drawnVars, rcVars, historyVars>>

\* mathos_pairing_session_register_failure: one retry less, or the end.
Failed(session) ==
    IF session.retries + 1 >= MaxRetries THEN NoGatewaySession
    ELSE [session EXCEPT !.retries = @ + 1]

\* The frame at the head of the link, if the gateway acts on it.
GwReads(g, types) ==
    /\ toGw # <<>> /\ Head(toGw).type \in types
    /\ Head(toGw).gw = g
    /\ toGw' = Tail(toGw)

\* A plausible bug: the MAC itself is not compared.
VerifiesFields(f, key, challenge, nonce) ==
    f.challenge = challenge /\ f.nonce = nonce

\* The MAC of a frame is over this challenge and nonce.
Verifies(f, key, challenge, nonce) ==
    f.key = key /\ f.challenge = challenge /\ f.nonce = nonce

\* mathos_pairing_session_prepare_gateway_response: the proof is answered by
\* the gateway's own, or counted as a failed attempt.
Answers(g, f) ==
    LET key == running[g].key
    IN  IF ~Verifies(f, key, gwSession[g].challenge, f.nonce)
        THEN /\ gwSession' = [gwSession EXCEPT ![g] = Failed(@)]
             /\ UNCHANGED toRc
        ELSE \/ /\ gwSession' = [gwSession EXCEPT ![g].nonce = f.nonce,
                                   ![g].state = "WAIT_RC_RESULT"]
                /\ toRc' = Sent(toRc, Proven("GATEWAY_PROOF", g,
                                running[g].generation, key, f.challenge,
                                f.nonce))
             \/ /\ WritesFail
                /\ gwSession' = [gwSession EXCEPT ![g] = NoGatewaySession]
                /\ UNCHANGED toRc

\* An RC_PROOF counts if it is about this session's challenge.
GwHearsProof(g) ==
    /\ GwReads(g, {"RC_PROOF"})
    /\ IF /\ gwSession[g].state = "CHALLENGE_READY"
          /\ Head(toGw).challenge = gwSession[g].challenge
          /\ Head(toGw).generation = running[g].generation
       THEN Answers(g, Head(toGw))
       ELSE UNCHANGED <<gwSession, toRc>>
    /\ UNCHANGED <<saved, running, drawnVars, rcVars, historyVars>>

\* A plausible bug: the configuration is not read from flash again.
StillSavedUnread(g) == running[g].generation # 0

\* gateway_pairing_send_commit_result_once: the configuration in flash must
\* still be the one that the session uses.
StillSaved(g) == saved[g] = running[g]

Acknowledges(g, nonce) ==
    \/ /\ StillSaved(g)
       /\ toRc' = Sent(toRc, Proven("GATEWAY_COMMITTED", g,
                       saved[g].generation, saved[g].key,
                       gwSession[g].challenge, nonce))
       /\ acknowledged' = acknowledged \cup
            {[gw |-> g, key |-> saved[g].key, nonce |-> nonce]}
    \/ /\ WritesFail \/ ~StillSaved(g)
       /\ UNCHANGED <<toRc, acknowledged>>

\* The RC's RESULT, the first one or a repeated one, is verified and
\* acknowledged.  A failure to acknowledge changes nothing: the RC repeats.
GwHearsResult(g) ==
    LET session == gwSession[g]
    IN  /\ GwReads(g, {"RC_COMMITTED"})
        /\ IF /\ session.state \in {"WAIT_RC_RESULT", "RC_RESULT_VERIFIED"}
              /\ Verifies(Head(toGw), running[g].key, session.challenge,
                          session.nonce)
           THEN /\ gwSession' = [gwSession EXCEPT ![g].state =
                                   "RC_RESULT_VERIFIED"]
                /\ Acknowledges(g, session.nonce)
           ELSE UNCHANGED <<gwSession, toRc, acknowledged>>
        /\ UNCHANGED <<saved, running, drawnVars, rcVars, held, committed>>

-----------------------------------------------------------------------------
(* The RC's page: the HTTP handler.                                        *)

\* The operator's form for a gateway.  Its handler notes when it arrived, which
\* may be before the sessions that have begun since.
Form(g, p, seen) == [at |-> "admitted", gw |-> g, pass |-> p, seen |-> seen]

\* Under the lock: only a READY session is reserved; else "409 Conflict".
Admit(g, p, seen) ==
    /\ http.at = "none" /\ admission = "READY"
    /\ http' = Form(g, p, seen)
    /\ admission' = "QUEUED"
    /\ UNCHANGED <<gwVars, linkVars, drawnVars, exchangeVars, queue, status,
                   storedVars, historyVars>>

Tell ==
    /\ http.at = "admitted"
    /\ http' = [http EXCEPT !.at = "told"]
    /\ status' = "IN_PROGRESS"
    /\ UNCHANGED <<gwVars, linkVars, drawnVars, exchangeVars, admission, queue,
                   storedVars, historyVars>>

\* The queue holds one request.
Enqueue ==
    /\ http.at = "told"
    /\ http' = NoRequest
    /\ IF queue = NoRequest
       THEN /\ queue' = [http EXCEPT !.at = "queued"]
            /\ UNCHANGED <<admission, status>>
       ELSE /\ admission' = "CLOSED" /\ status' = "FAILED"
            /\ UNCHANGED queue
    /\ UNCHANGED <<gwVars, linkVars, drawnVars, exchangeVars, storedVars,
                   historyVars>>

-----------------------------------------------------------------------------
(* The RC's pairing task (rc_pairing_rx_task), one action per thing it     *)
(* does in a turn of its loop.                                             *)

\* A plausible bug: the RESULT is sent while the proof is still awaited.
WaitingEarly == rcSession.state \in {"RC_PROOF_READY", "WAIT_GATEWAY_RESULT"}

Waiting == rcSession.state = "WAIT_GATEWAY_RESULT"
Ready == rcSession.state = "CHALLENGE_READY" /\ ~rcSession.due

\* rc_pairing_result_wait_cleanup: the exchange is over, nothing is undone.
Cleanup ==
    /\ rcSession' = NoRcSession /\ package' = NoPackage
    /\ proofTimer' = FALSE /\ attempts' = 0

\* The session's deadline, or that of the acknowledgement, passes.
RcFallsDue ==
    /\ rcSession.state # "IDLE"
    /\ rcSession' = [rcSession EXCEPT !.due = TRUE]
    /\ UNCHANGED <<gwVars, linkVars, drawnVars, package, proofTimer, attempts,
                   pageVars, storedVars, historyVars>>

\* The session's readiness is published, unless it is reserved.
RcLooks ==
    /\ admission # "QUEUED"
    /\ admission' = IF Ready THEN "READY" ELSE "CLOSED"
    /\ UNCHANGED <<gwVars, linkVars, drawnVars, exchangeVars, http, queue,
                   status, storedVars, historyVars>>

\* mathos_rc_pairing_config_prepare_from_package: the enrollment record in RAM
\* must be valid, which a record without its key is not; a lower generation is
\* refused, and the same one must be the same pairing.
Acceptable(offer) ==
    /\ runtime.format \in {"none", "legacy"}
    /\ offer.generation >= runtime.pairing.generation
    /\ offer.generation = runtime.pairing.generation
       => offer = runtime.pairing

\* The pairing that the session is about, with the key derived.
Offer(key) ==
    [gw |-> rcSession.gw, generation |-> rcSession.generation, key |-> key]

\* The form was for another gateway, or sent before the session began.
Misdirected(r) == r.gw # rcSession.gw \/ r.seen < rcSession.nonce

\* mathos_pairing_session_prepare_rc_response fails: one retry less, or the end.
Refuses ==
    LET refused == [rcSession EXCEPT !.retries = @ + 1]
    IN  /\ IF refused.retries >= MaxRetries THEN Cleanup
           ELSE /\ rcSession' = refused /\ proofTimer' = FALSE
                /\ UNCHANGED <<package, attempts>>
        /\ status' = "FAILED" /\ UNCHANGED toGw

\* rc_pairing_prepare_and_send_proof
ProvesWith(key) ==
    \/ /\ rcSession' = [rcSession EXCEPT !.state = "RC_PROOF_READY",
                                         !.key = key]
       /\ proofTimer' = TRUE /\ status' = "IN_PROGRESS"
       /\ toGw' = Sent(toGw, Proven("RC_PROOF", rcSession.gw,
                       rcSession.generation, key, rcSession.challenge,
                       rcSession.nonce))
       /\ UNCHANGED <<package, attempts>>
    \/ WritesFail /\ status' = "FAILED" /\ Cleanup /\ UNCHANGED toGw

\* The request is turned down.  A busy exchange keeps its status.
TurnsDown ==
    /\ status' = IF rcSession.state \in {"IDLE", "CHALLENGE_READY"}
                 THEN "FAILED" ELSE status
    /\ UNCHANGED <<exchangeVars, toGw>>

\* The request is taken from the queue and the key derived, unless it is older
\* than RC_PAIRING_REQUEST_MAX_AGE_MS or not for this session.
RcTakes ==
    LET key == DerivedKey(rcSession.salt, queue.pass)
        served == rcSession.state = "CHALLENGE_READY" /\ ~Misdirected(queue)
    IN  /\ queue # NoRequest
        /\ queue' = NoRequest /\ admission' = "CLOSED"
        /\ \/ TurnsDown
           \/ /\ served /\ rcSession.due
              /\ Cleanup /\ status' = "FAILED" /\ UNCHANGED toGw
           \/ served /\ ~rcSession.due /\ Acceptable(Offer(key)) /\ ProvesWith(key)
           \/ served /\ ~rcSession.due /\ ~Acceptable(Offer(key)) /\ Refuses
        /\ UNCHANGED <<gwVars, toRc, drawnVars, http, storedVars, historyVars>>

\* A plausible bug: an expired session is not looked at.
OverdueInSession == proofTimer /\ ~rcSession.due

\* RC_PAIRING_GATEWAY_PROOF_TIMEOUT_MS may have passed.
Overdue == proofTimer

RcGivesUp ==
    /\ Overdue
    /\ proofTimer' = FALSE /\ rcSession' = NoRcSession /\ package' = NoPackage
    /\ status' = "FAILED"
    /\ UNCHANGED <<gwVars, linkVars, drawnVars, attempts, admission, http,
                   queue, storedVars, historyVars>>

\* A plausible bug: the RESULT is repeated for as long as it takes.
MayRepeatFreely == TRUE

MayRepeat == attempts < MaxAttempts

Result == Proven("RC_COMMITTED", rcSession.gw, rcSession.generation,
                 rcSession.key, rcSession.challenge, rcSession.nonce)

\* Waiting for the acknowledgement: the RESULT is repeated, or given up.
RcPolls ==
    /\ Waiting
    /\ IF rcSession.due
       THEN Cleanup /\ status' = "FAILED" /\ UNCHANGED toGw
       ELSE /\ MayRepeat
            /\ attempts' = attempts + 1
            /\ toGw' = Sent(toGw, Result)
            /\ UNCHANGED <<package, rcSession, proofTimer, status>>
    /\ UNCHANGED <<gwVars, toRc, drawnVars, admission, http, queue, storedVars,
                   historyVars>>

\* The frame at the head of the link.
RcReads(types) == toRc # <<>> /\ Head(toRc).type \in types /\ toRc' = Tail(toRc)

\* A plausible bug: a reserved request does not count.
MayReplaceReserved == rcSession.state \in {"IDLE", "CHALLENGE_READY"}

\* rc_pairing_begin_package_update: not while an exchange is under way or a
\* request is reserved.
MayReplace ==
    rcSession.state \in {"IDLE", "CHALLENGE_READY"} /\ admission # "QUEUED"

\* A PACKAGE starts a new attempt.
RcHearsPackage ==
    LET f == Head(toRc)
    IN  /\ RcReads({"PACKAGE"})
        /\ IF MayReplace
           THEN /\ admission' = "CLOSED" /\ status' = "IDLE"
                /\ rcSession' = NoRcSession /\ proofTimer' = FALSE
                /\ package' = [gw |-> f.gw, generation |-> f.generation,
                               salt |-> f.salt]
           ELSE UNCHANGED <<admission, status, rcSession, proofTimer, package>>
        /\ UNCHANGED <<gwVars, toGw, drawnVars, attempts, http, queue,
                       storedVars, historyVars>>

\* mathos_pairing_session_accept_remote_challenge: it must be of the PACKAGE's
\* gateway and generation, and no session may be active.  The salt is the
\* PACKAGE's.  The RC draws its nonce.
RcHearsChallenge ==
    LET f == Head(toRc)
    IN  /\ RcReads({"CHALLENGE"})
        /\ IF \/ rcSession.state # "IDLE"
              \/ package.gw # f.gw \/ package.generation # f.generation
           THEN UNCHANGED <<rcSession, nonces>>
           ELSE /\ nonces < MaxNonce
                /\ nonces' = nonces + 1
                /\ rcSession' = [NoRcSession EXCEPT
                     !.state = "CHALLENGE_READY", !.gw = f.gw,
                     !.generation = f.generation, !.salt = package.salt,
                     !.challenge = f.challenge, !.nonce = nonces']
        /\ UNCHANGED <<gwVars, toGw, salts, challenges, package, proofTimer,
                       attempts, pageVars, storedVars, historyVars>>

Proves(f) ==
    Verifies(f, rcSession.key, rcSession.challenge, rcSession.nonce)

Metadata(pairing) == [format |-> "metadata",
                      pairing |-> [pairing EXCEPT !.key = NoKey]]

\* mathos_fleet_store_verified_pairing takes a new aircraft, a higher
\* generation, or what it has already.  An offer is wrapped, so it never equals
\* a raw record.
FleetTakes(offer) ==
    \/ offer.generation > fleet[offer.gw].generation
    \/ offer = fleet[offer.gw] /\ offer.gw \notin raw

\* The enrollment record is written, then the fleet's.
StoresBoth(offer) ==
    /\ FleetTakes(offer)
    /\ enrolled' = Metadata(offer)
    /\ fleet' = [fleet EXCEPT ![offer.gw] = offer]
    /\ raw' = raw \ {offer.gw}
    /\ committed' = committed \cup
         {[gw |-> offer.gw, key |-> offer.key, nonce |-> rcSession.nonce]}

\* The RESULT is sent for the first time, and its acknowledgement awaited.
AwaitsResult ==
    /\ rcSession' = [rcSession EXCEPT !.state = "WAIT_GATEWAY_RESULT"]
    /\ proofTimer' = FALSE /\ attempts' = 1 /\ status' = "IN_PROGRESS"
    /\ toGw' = Sent(toGw, Result)
    /\ UNCHANGED package

EndsFailed == Cleanup /\ status' = "FAILED" /\ UNCHANGED toGw

\* rc_pairing_commit_verified_candidate: both records are written, and the
\* runtime record follows.  The session's deadline may pass in that time.
CommitsBoth(offer) ==
    /\ StoresBoth(offer)
    /\ runtime' = Metadata(offer)
    /\ AwaitsResult \/ EndsFailed

\* The fleet refuses or a write fails.  The enrollment record may be written;
\* the fleet's too, when the error comes after its write (the record cannot be
\* read back or looked up).  The runtime record stays as it was.
CommitFails(offer) ==
    /\ EndsFailed /\ UNCHANGED runtime
    /\ \/ WritesFail /\ StoresBoth(offer)
       \/ /\ WritesFail \/ ~FleetTakes(offer)
          /\ enrolled' \in IF WritesFail THEN {enrolled, Metadata(offer)}
                           ELSE {Metadata(offer)}
          /\ UNCHANGED <<fleet, raw, committed>>

\* The session is over before the proof came.
ProofComesLate ==
    /\ rcSession' = NoRcSession /\ package' = NoPackage
    /\ proofTimer' = FALSE /\ status' = "FAILED"
    /\ UNCHANGED <<attempts, toGw, storedVars, committed>>

\* mathos_pairing_session_accept_gateway_proof: a proof that does not verify
\* is ignored, a late one ends the session, a good one is committed.
RcHearsProof ==
    /\ RcReads({"GATEWAY_PROOF"})
    /\ IF rcSession.state = "RC_PROOF_READY" /\ rcSession.due
       THEN ProofComesLate
       ELSE IF rcSession.state = "RC_PROOF_READY" /\ Proves(Head(toRc))
       THEN \/ CommitsBoth(Offer(rcSession.key))
            \/ CommitFails(Offer(rcSession.key))
       ELSE UNCHANGED <<exchangeVars, toGw, status, storedVars, committed>>
    /\ UNCHANGED <<gwVars, drawnVars, admission, http, queue, held,
                   acknowledged>>

\* rc_pairing_verify_gateway_commit_result: the end.
RcHearsResult ==
    /\ RcReads({"GATEWAY_COMMITTED"})
    /\ IF Waiting /\ ~rcSession.due /\ Proves(Head(toRc))
       THEN Cleanup /\ status' = "SUCCESS"
       ELSE UNCHANGED <<exchangeVars, status>>
    /\ UNCHANGED <<gwVars, toGw, drawnVars, admission, http, queue, storedVars,
                   historyVars>>

\* The RC restarts in maintenance mode.
RcRestarts ==
    /\ runtime' = enrolled
    /\ Cleanup
    /\ admission' = "CLOSED" /\ http' = NoRequest /\ queue' = NoRequest
    /\ status' = "IDLE"
    /\ toRc' = <<>>
    /\ UNCHANGED <<gwVars, toGw, drawnVars, enrolled, fleet, raw, historyVars>>

-----------------------------------------------------------------------------
\* A new remote controller, or one of the earlier firmware with the key of one
\* gateway in both its records, the fleet's wrapped already or not.
Init ==
    /\ \E g \in Gateway, p \in Chosen, known \in BOOLEAN :
         LET key == [salt |-> 1, pass |-> p]
             old == [gw |-> g, generation |-> 1, key |-> key]
         IN  IF known
             THEN /\ salts = 1
                  /\ saved = [h \in Gateway |->
                       IF h = g THEN [generation |-> 1, key |-> key]
                       ELSE Unprovisioned]
                  /\ enrolled = [format |-> "legacy", pairing |-> old]
                  /\ fleet = [h \in Gateway |-> IF h = g THEN old ELSE Unpaired]
                  /\ raw \in SUBSET {g}
                  /\ held = {[gw |-> g, key |-> key]}
             ELSE /\ salts = 0
                  /\ saved = [h \in Gateway |-> Unprovisioned]
                  /\ enrolled = NoRecord
                  /\ fleet = [h \in Gateway |-> Unpaired] /\ raw = {}
                  /\ held = {}
    /\ running = [g \in Gateway |-> Unprovisioned]
    /\ gwSession = [g \in Gateway |-> NoGatewaySession]
    /\ toRc = <<>> /\ toGw = <<>>
    /\ challenges = 0 /\ nonces = 0
    /\ package = NoPackage /\ rcSession = NoRcSession
    /\ proofTimer = FALSE /\ attempts = 0
    /\ admission = "CLOSED" /\ http = NoRequest /\ queue = NoRequest
    /\ status = "IDLE" /\ runtime = enrolled
    /\ committed = {} /\ acknowledged = {}

GwNext(g) ==
    \/ \E p \in Chosen : GwConfigures(g, p)
    \/ GwStarts(g) \/ GwChallenges(g) \/ GwExpires(g)
    \/ GwHearsProof(g) \/ GwHearsResult(g)

\* A form arrives that can be admitted.
Submit ==
    \E g \in Gateway, p \in Passphrase, n \in 0 .. nonces : Admit(g, p, n)

HttpNext == Tell \/ Enqueue

RcTask ==
    \/ RcTakes \/ RcGivesUp \/ RcPolls
    \/ RcHearsPackage \/ RcHearsChallenge \/ RcHearsProof \/ RcHearsResult

Next ==
    \/ \E g \in Gateway : GwNext(g)
    \/ Submit \/ HttpNext \/ RcLooks \/ RcTask \/ RcFallsDue
    \/ Lose \/ RcRestarts

Spec == Init /\ [][Next]_vars

\* A handler ends, the RC's task runs, and its deadlines pass.  What comes
\* on the link need not.
Fairness ==
    /\ WF_vars(HttpNext)
    /\ WF_vars(RcTakes \/ RcGivesUp \/ RcPolls)
    /\ WF_vars(RcFallsDue)

FairSpec == Spec /\ Fairness

-----------------------------------------------------------------------------
(* Properties.                                                             *)

\* Whatever is lost, late, mistyped or reconfigured, the fleet holds for an
\* aircraft only a key that this gateway has had.
StoredKeysAreHeld ==
    \A g \in Gateway :
        fleet[g].generation # 0 => [gw |-> g, key |-> fleet[g].key] \in held

\* A gateway that has verified the RC's RESULT knows that the RC stored the
\* pairing of this very session.
VerifiedIsStored ==
    \A g \in Gateway :
        gwSession[g].state = "RC_RESULT_VERIFIED" =>
            [gw |-> g, key |-> running[g].key, nonce |-> gwSession[g].nonce]
                \in committed

\* The pairings in the fleet store.
Stored ==
    {[gw |-> g, key |-> fleet[g].key] : g \in {h \in Gateway :
                                                 fleet[h].generation # 0}}

Agreement == INSTANCE PairingAgreement WITH drawn <- held, stored <- Stored

\* Whatever is lost, late, mistyped or rotated, and whether an exchange ends
\* well or fails after its record is in flash, the fleet takes only keys that
\* the gateway has had, one in an exchange, and does not go back to an earlier
\* key although generation numbers start again after UINT32_MAX; and the
\* gateway confirms only what was stored and is still in its flash.
PairingAgrees == Agreement!Spec

\* The RC reports SUCCESS only when its fleet has the key that the gateway
\* had in flash when it acknowledged this session.
SuccessIsMutual ==
    [][status' = "SUCCESS" /\ status # "SUCCESS" =>
       [gw |-> rcSession.gw, key |-> fleet[rcSession.gw].key,
        nonce |-> rcSession.nonce] \in acknowledged]_vars

\* The handler's reservation and the session, of two tasks: while a request is
\* reserved there is exactly one, and the session it is for waits for it.
ReservationHoldsSession ==
    /\ admission # "CLOSED" => rcSession.state = "CHALLENGE_READY"
    /\ http.at \in {"admitted", "told"}
       => admission = "QUEUED" /\ queue = NoRequest
    /\ queue # NoRequest => admission = "QUEUED"
    /\ admission = "QUEUED"
       => http.at \in {"admitted", "told"} \/ queue # NoRequest

\* The page never stays at "in progress".
RequestIsAnswered == status = "IN_PROGRESS" ~> status # "IN_PROGRESS"

\* A key the owner has rotated on the gateway can be paired: "The existing RC
\* record must already be valid" (mathos_maintenance.c:10144), and a stored
\* one is; "A higher authenticated generation rotates the credential in the
\* existing Fleet slot" (mathos_fleet.c:6689).
RepairIsPossible ==
    rcSession.state = "CHALLENGE_READY"
    /\ fleet[rcSession.gw].generation \in 1 .. rcSession.generation - 1
    => \E p \in Passphrase :
         Acceptable(Offer([salt |-> rcSession.salt, pass |-> p]))
=============================================================================
