-------------------------- MODULE SessionHandshake --------------------------
(***************************************************************************)
(* How the Remote Controller (RC) and the Airborne Gateway (GW) come to    *)
(* share session keys, and which frames each accepts:                      *)
(*   drone_gateway/main/main.c      3450-4103, 5152-5592                   *)
(*   remote_controller/main/main.c  4780-5513, 8603-9030                   *)
(*   mathos_secure.c                session numbers, keys, nonces          *)
(*                                                                         *)
(* A key is the pair <<RC session, GW session>> it is derived from, a      *)
(* frame decrypts under equal keys only.  The link loses, delays, repeats  *)
(* and reorders: "network" is every frame ever sent, and a receiver may be *)
(* handed any of them at any time, or never.  Frames are those the two     *)
(* programs build, so length, version and identity checks pass.            *)
(***************************************************************************)
EXTENDS Integers, Sequences

CONSTANTS
    SessionMax,   \* UINT32_MAX for the session numbers in flash
    HandshakeMax, \* UINT32_MAX for the sequence numbers of HELLO and CONFIRM
    TrafficMax,   \* UINT32_MAX for those of operational traffic
    HistoryLen,   \* GATEWAY_RC_SESSION_HISTORY_LEN, GATEWAY_SESSION_HISTORY_LEN
    DeriveFails   \* whether mbedtls_md_hmac can fail (it allocates)

ASSUME SizeAssumption ==
    /\ SessionMax \in Nat \ {0}
    /\ HandshakeMax \in Nat \ {0}
    /\ TrafficMax \in Nat \ {0}
    /\ HistoryLen \in Nat \ {0}

ASSUME DeriveAssumption == DeriveFails \in BOOLEAN

Device == {"RC", "GW"}

VARIABLES
    stored,       \* flash: the last session number reserved ("tx_session")
    power,        \* "off", "reserved" (between the commit and its return), "on"
    session,      \* mathos_session_id, gateway_status_session_id
    helloSeq,     \* rc_session_hello_tx_sequence, gateway_session_hello_tx_sequence
    confirmSeq,   \* gateway_session_confirm_tx_sequence
    trafficSeq,   \* security_tx_sequence, gateway_status_tx_sequence
    keys,         \* the pair of the session keys, Blank when they are cleared
    operational,  \* rc_operational_session_ready, gateway_operational_session_ready
    candidate,    \* gateway_session_candidate_id, 0 when not valid
    authenticated,  \* gateway_authenticated_rc_session_id
    keysReady,    \* gateway_session_keys_ready
    deriving,     \* RC session link_rx_task is deriving keys for, 0 if none
    lastSession,  \* last_session_id of either receiver, 0 for !has_session
    lastSeq,      \* last_sequence of either receiver
    history,      \* the ring of sessions accepted since boot, oldest first
    tx,           \* the frame the transmit task of either side is building
    network,      \* every frame sent so far
    latest,       \* history: the last operational frame either side accepted
    reused,       \* history: some nonce was used twice
    proven        \* history: pairs whose keys the RC has shown to hold

flashVars == <<stored, power, session>>
counterVars == <<helloSeq, confirmSeq, trafficSeq>>
rcVars == <<candidate>>
gatewayVars == <<authenticated, keysReady, deriving>>
keyVars == <<keys, operational>>
receiveVars == <<lastSession, lastSeq, history>>
acceptVars == <<latest, proven>>
sentVars == <<network, reused>>
sessionVars == <<flashVars, counterVars, keyVars, rcVars, gatewayVars,
                 receiveVars, tx, sentVars, acceptVars>>

(***************************************************************************)
(* Data                                                                    *)
(***************************************************************************)

Pair == (0..SessionMax) \X (0..SessionMax)

\* The zeroized key: nobody decrypts with it.
Blank == <<0, 0>>

\* "pair" is the pair of sessions inside a HELLO or CONFIRM, and the key of
\* operational traffic: CONTROL from the RC, REPORT (status or telemetry)
\* from the gateway.  "drawn" is the pair for which the content was sampled;
\* no handler reads it.
Frame ==
    [from : Device, type : {"HELLO", "CONFIRM", "CONTROL", "REPORT"},
     session : 1..SessionMax, seq : Nat \ {0}, pair : Pair, drawn : Pair]

NoFrame ==
    [from |-> "RC", type |-> "HELLO", session |-> 0, seq |-> 0,
     pair |-> Blank, drawn |-> Blank]

Idle == [step |-> "idle", seq |-> 0, drawn |-> Blank]

\* build_nonce: session, sequence, sender and payload type.
SameNonce(f, g) ==
    /\ f.from = g.from
    /\ f.type = g.type
    /\ f.session = g.session
    /\ f.seq = g.seq

\* Mutant: the counter starts over instead of staying exhausted at 0.
NextSeqStartsOver(n, max) == IF n = max THEN 1 ELSE n + 1

\* Mutant: the counter is never exhausted.
NextSeqUnbounded(n, max) == n + 1

\* A sequence counter after a use; 0 is exhausted for good.
NextSeq(n, max) == IF n = max THEN 0 ELSE n + 1

SeenBefore(d, s) == \E i \in DOMAIN history[d] : history[d][i] = s

Remember(d, s) ==
    LET h == history[d] IN
    IF SeenBefore(d, s) THEN h
    ELSE IF Len(h) < HistoryLen THEN Append(h, s) ELSE Append(Tail(h), s)

SessionInit ==
    /\ stored = [d \in Device |-> 0]
    /\ power = [d \in Device |-> "off"]
    /\ session = [d \in Device |-> 0]
    /\ helloSeq = [d \in Device |-> 1]
    /\ confirmSeq = 1
    /\ trafficSeq = [d \in Device |-> 1]
    /\ keys = [d \in Device |-> Blank]
    /\ operational = [d \in Device |-> FALSE]
    /\ candidate = 0
    /\ authenticated = 0
    /\ keysReady = FALSE
    /\ deriving = 0
    /\ lastSession = [d \in Device |-> 0]
    /\ lastSeq = [d \in Device |-> 0]
    /\ history = [d \in Device |-> <<>>]
    /\ tx = [d \in Device |-> Idle]
    /\ network = {}
    /\ latest = [d \in Device |-> NoFrame]
    /\ reused = FALSE
    /\ proven = {}

(***************************************************************************)
(* Boot and power loss                                                     *)
(***************************************************************************)

\* mathos_secure_reserve_session_id up to the commit.  At the last number it
\* fails and app_main returns: the device stays useless.
Reserve(d) ==
    /\ power[d] = "off"
    /\ stored[d] < SessionMax
    /\ stored' = [stored EXCEPT ![d] = @ + 1]
    /\ power' = [power EXCEPT ![d] = "reserved"]
    /\ UNCHANGED <<session, counterVars, keyVars, rcVars, gatewayVars,
                   receiveVars, tx, sentVars, acceptVars>>

\* The reserved number is returned, and app_main starts the tasks.
Publish(d) ==
    /\ power[d] = "reserved"
    /\ session' = [session EXCEPT ![d] = stored[d]]
    /\ power' = [power EXCEPT ![d] = "on"]
    /\ UNCHANGED <<stored, counterVars, keyVars, rcVars, gatewayVars,
                   receiveVars, tx, sentVars, acceptVars>>

\* Flash and the frames on the air survive; the statics start again.
PowerLoss(d) ==
    /\ power[d] # "off"
    /\ power' = [power EXCEPT ![d] = "off"]
    /\ session' = [session EXCEPT ![d] = 0]
    /\ helloSeq' = [helloSeq EXCEPT ![d] = 1]
    /\ trafficSeq' = [trafficSeq EXCEPT ![d] = 1]
    /\ keys' = [keys EXCEPT ![d] = Blank]
    /\ operational' = [operational EXCEPT ![d] = FALSE]
    /\ lastSession' = [lastSession EXCEPT ![d] = 0]
    /\ lastSeq' = [lastSeq EXCEPT ![d] = 0]
    /\ history' = [history EXCEPT ![d] = <<>>]
    /\ tx' = [tx EXCEPT ![d] = Idle]
    /\ \/ d = "RC" /\ candidate' = 0
          /\ UNCHANGED <<confirmSeq, gatewayVars>>
       \/ d = "GW" /\ confirmSeq' = 1 /\ authenticated' = 0
          /\ keysReady' = FALSE /\ deriving' = 0
          /\ UNCHANGED candidate
    /\ UNCHANGED <<stored, sentVars, acceptVars>>

(***************************************************************************)
(* Sending                                                                 *)
(***************************************************************************)

SendFrame(d, type, n, pair, drawn) ==
    LET f == [from |-> d, type |-> type, session |-> session[d], seq |-> n,
              pair |-> pair, drawn |-> drawn]
    IN  /\ network' = network \cup {f}
        /\ reused' = (reused \/ \E g \in network : SameNonce(f, g))

\* gateway_session_hello_send_once, every second whatever the session's state.
GatewayHello ==
    /\ session["GW"] # 0
    /\ tx["GW"].step = "idle"
    /\ helloSeq["GW"] # 0
    /\ SendFrame("GW", "HELLO", helloSeq["GW"], <<0, session["GW"]>>,
                 <<0, session["GW"]>>)
    /\ helloSeq' = [helloSeq EXCEPT !["GW"] = NextSeq(@, HandshakeMax)]
    /\ UNCHANGED <<flashVars, confirmSeq, trafficSeq, keyVars, rcVars,
                   gatewayVars, receiveVars, tx, acceptVars>>

\* rc_session_hello_send_once, from radio_tx_task until the keys are there.
RcHello ==
    /\ session["RC"] # 0
    /\ tx["RC"].step = "idle"
    /\ candidate # 0
    /\ ~operational["RC"]
    /\ helloSeq["RC"] # 0
    /\ SendFrame("RC", "HELLO", helloSeq["RC"], <<session["RC"], candidate>>,
                 <<session["RC"], candidate>>)
    /\ helloSeq' = [helloSeq EXCEPT !["RC"] = NextSeq(@, HandshakeMax)]
    /\ UNCHANGED <<flashVars, confirmSeq, trafficSeq, keyVars, rcVars,
                   gatewayVars, receiveVars, tx, acceptVars>>

\* gateway_session_confirm_send_once, for RC session r.
SendConfirm(r) ==
    IF confirmSeq = 0 THEN UNCHANGED <<confirmSeq, sentVars>>
    ELSE /\ SendFrame("GW", "CONFIRM", confirmSeq, <<r, session["GW"]>>,
                      <<r, session["GW"]>>)
         /\ confirmSeq' = NextSeq(confirmSeq, HandshakeMax)

\* radio_tx_task, gateway_status_send_once or gateway_telemetry_send_once:
\* the session is checked, the content sampled, a sequence number taken.
\* A send whose check fails is skipped, so either report may be the next.
StartTraffic(d) ==
    /\ tx[d].step = "idle"
    /\ operational[d]
    /\ d = "GW" => keysReady
    /\ keys[d] # Blank
    /\ trafficSeq[d] # 0
    /\ trafficSeq' = [trafficSeq EXCEPT ![d] = NextSeq(@, TrafficMax)]
    /\ tx' = [tx EXCEPT ![d] =
                [step |-> "seal", seq |-> trafficSeq[d], drawn |-> keys[d]]]
    /\ UNCHANGED <<flashVars, helloSeq, confirmSeq, keyVars, rcVars,
                   gatewayVars, receiveVars, sentVars, acceptVars>>

\* mathos_secure_encrypt_session_packet looks again whether there are keys.
SealTraffic(d) ==
    /\ tx[d].step = "seal"
    /\ tx' = [tx EXCEPT ![d] =
                IF keys[d] = Blank THEN Idle ELSE [@ EXCEPT !.step = "send"]]
    /\ UNCHANGED <<flashVars, counterVars, keyVars, rcVars, gatewayVars,
                   receiveVars, sentVars, acceptVars>>

\* The key bytes are used and the frame is written.  A receive task may have
\* zeroized or replaced them since the check; half-written bytes decrypt
\* nowhere, as Blank.
SendTraffic(d) ==
    /\ tx[d].step = "send"
    /\ SendFrame(d, IF d = "RC" THEN "CONTROL" ELSE "REPORT", tx[d].seq,
                 keys[d], tx[d].drawn)
    /\ tx' = [tx EXCEPT ![d] = Idle]
    /\ UNCHANGED <<flashVars, counterVars, keyVars, rcVars, gatewayVars,
                   receiveVars, acceptVars>>

(***************************************************************************)
(* Receiving operational traffic, on either side                           *)
(***************************************************************************)

\* Mutant: the sequence check starts from zero for every frame.
FloorForgotten(d, s) == 0

\* The sequence number a frame of session s must exceed.
Floor(d, s) == IF s = lastSession[d] THEN lastSeq[d] ELSE 0

\* Decryption and the session and sequence checks both receivers make.
Acceptable(d, f) ==
    /\ keys[d] # Blank
    /\ f.pair = keys[d]
    /\ f.session # lastSession[d] => ~SeenBefore(d, f.session)
    /\ f.seq > Floor(d, f.session)

Accept(d, f) ==
    /\ lastSession' = [lastSession EXCEPT ![d] = f.session]
    /\ lastSeq' = [lastSeq EXCEPT ![d] = f.seq]
    /\ history' = [history EXCEPT ![d] = Remember(d, f.session)]
    /\ latest' = [latest EXCEPT ![d] = f]

(***************************************************************************)
(* The gateway's link_rx_task: link_handle_mathos_frame                    *)
(***************************************************************************)

\* A HELLO for this boot of the gateway from the RC session in use: the
\* CONFIRM was lost, it is sent again.
GatewayHearsHelloAgain(f) ==
    /\ session["GW"] # 0 /\ deriving = 0
    /\ f.from = "RC" /\ f.type = "HELLO"
    /\ f.pair[2] = session["GW"]
    /\ keysReady
    /\ f.pair[1] = authenticated
    /\ SendConfirm(authenticated)
    /\ UNCHANGED <<flashVars, helloSeq, trafficSeq, keyVars, rcVars,
                   gatewayVars, receiveVars, tx, acceptVars>>

\* Mutant: any other session replaces the one in use.
ReplacesAny(r) == ~keysReady \/ r # authenticated

\* RC session r may replace the one in use: session numbers do not go back.
Replaces(r) == ~keysReady \/ r > authenticated

\* Mutant: the operational flag outlives the session.
GatewayHearsHelloStaysOperational(f) ==
    /\ session["GW"] # 0 /\ deriving = 0
    /\ f.from = "RC" /\ f.type = "HELLO"
    /\ f.pair[2] = session["GW"]
    /\ Replaces(f.pair[1])
    /\ keysReady' = FALSE
    /\ keys' = [keys EXCEPT !["GW"] = Blank]
    /\ deriving' = f.pair[1]
    /\ UNCHANGED <<flashVars, counterVars, operational, rcVars, authenticated,
                   receiveVars, tx, sentVars, acceptVars>>

\* A HELLO from a newer RC session: the keys in use are cleared ...
GatewayHearsHello(f) ==
    /\ session["GW"] # 0 /\ deriving = 0
    /\ f.from = "RC" /\ f.type = "HELLO"
    /\ f.pair[2] = session["GW"]
    /\ Replaces(f.pair[1])
    /\ operational' = [operational EXCEPT !["GW"] = FALSE]
    /\ keysReady' = FALSE
    /\ keys' = [keys EXCEPT !["GW"] = Blank]
    /\ deriving' = f.pair[1]
    /\ UNCHANGED <<flashVars, counterVars, rcVars, authenticated,
                   receiveVars, tx, sentVars, acceptVars>>

\* ... the new ones derived and confirmed ...
GatewayDerives ==
    /\ deriving # 0
    /\ keys' = [keys EXCEPT !["GW"] = <<deriving, session["GW"]>>]
    /\ authenticated' = deriving
    /\ keysReady' = TRUE
    /\ deriving' = 0
    /\ SendConfirm(deriving)
    /\ UNCHANGED <<flashVars, helloSeq, trafficSeq, operational, rcVars,
                   receiveVars, tx, acceptVars>>

\* ... or the derivation fails and the session is forgotten.
GatewayDeriveFails ==
    /\ DeriveFails
    /\ deriving # 0
    /\ authenticated' = 0
    /\ deriving' = 0
    /\ UNCHANGED <<flashVars, counterVars, keyVars, rcVars, keysReady,
                   receiveVars, tx, sentVars, acceptVars>>

\* A control packet of the session in use: it proves that the RC holds the
\* keys, and goes on to handle_valid_rc_packet (module GatewayControl).
GatewayHearsControl(f) ==
    /\ deriving = 0
    /\ f.from = "RC" /\ f.type = "CONTROL"
    /\ keysReady
    /\ authenticated # 0
    /\ f.session = authenticated
    /\ Acceptable("GW", f)
    /\ Accept("GW", f)
    /\ operational' = [operational EXCEPT !["GW"] = TRUE]
    /\ proven' = proven \cup {keys["GW"]}
    /\ UNCHANGED <<flashVars, counterVars, keys, rcVars, gatewayVars, tx,
                   sentVars>>

(***************************************************************************)
(* The RC's receive task: gateway_status_handle_frame                      *)
(***************************************************************************)

\* Mutant: keys are derived from the HELLO, without waiting for CONFIRM.
RcHearsHelloEager(f) ==
    /\ session["RC"] # 0
    /\ f.from = "GW" /\ f.type = "HELLO"
    /\ f.session > candidate
    /\ operational' = [operational EXCEPT !["RC"] = TRUE]
    /\ keys' = [keys EXCEPT !["RC"] = <<session["RC"], f.session>>]
    /\ candidate' = f.session
    /\ UNCHANGED <<flashVars, counterVars, gatewayVars, receiveVars, tx,
                   sentVars, acceptVars>>

\* Mutant: the operational flag outlives the gateway's session.
RcHearsHelloStaysOperational(f) ==
    /\ session["RC"] # 0
    /\ f.from = "GW" /\ f.type = "HELLO"
    /\ f.session > candidate
    /\ keys' = [keys EXCEPT !["RC"] = Blank]
    /\ candidate' = f.session
    /\ UNCHANGED <<flashVars, counterVars, operational, gatewayVars,
                   receiveVars, tx, sentVars, acceptVars>>

\* A HELLO of a gateway session not yet known; an older one is refused, the
\* known one changes nothing.
RcHearsHello(f) ==
    /\ session["RC"] # 0
    /\ f.from = "GW" /\ f.type = "HELLO"
    /\ f.session > candidate
    /\ operational' = [operational EXCEPT !["RC"] = FALSE]
    /\ keys' = [keys EXCEPT !["RC"] = Blank]
    /\ candidate' = f.session
    /\ UNCHANGED <<flashVars, counterVars, gatewayVars, receiveVars, tx,
                   sentVars, acceptVars>>

\* A CONFIRM for exactly this pair of sessions.  A failed derivation leaves
\* the keys cleared, as they were.
RcHearsConfirm(f) ==
    /\ session["RC"] # 0
    /\ f.from = "GW" /\ f.type = "CONFIRM"
    /\ candidate # 0
    /\ f.pair = <<session["RC"], candidate>>
    /\ f.session = candidate
    /\ ~(operational["RC"] /\ keys["RC"] # Blank)
    /\ operational' = [operational EXCEPT !["RC"] = TRUE]
    /\ keys' = [keys EXCEPT !["RC"] = f.pair]
    /\ UNCHANGED <<flashVars, counterVars, rcVars, gatewayVars, receiveVars,
                   tx, sentVars, acceptVars>>

\* Status or telemetry of the session in use; what the RC does with the
\* content is not part of this module.  A frame of another session under the
\* keys in use closes the session: KeysMatchCandidate shows there is none.
RcHearsReport(f) ==
    /\ f.from = "GW" /\ f.type = "REPORT"
    /\ operational["RC"]
    /\ Acceptable("RC", f)
    /\ f.session = candidate
    /\ Accept("RC", f)
    /\ UNCHANGED <<flashVars, counterVars, keyVars, rcVars, gatewayVars,
                   proven, tx, sentVars>>

(***************************************************************************)
(* Specification                                                           *)
(***************************************************************************)

GatewayHears(f) ==
    \/ GatewayHearsHelloAgain(f)
    \/ GatewayHearsHello(f)
    \/ GatewayHearsControl(f)

RcHears(f) ==
    \/ RcHearsHello(f)
    \/ RcHearsConfirm(f)
    \/ RcHearsReport(f)

SessionNext ==
    \/ \E d \in Device :
          \/ Reserve(d) \/ Publish(d) \/ PowerLoss(d)
          \/ StartTraffic(d) \/ SealTraffic(d) \/ SendTraffic(d)
    \/ GatewayHello \/ RcHello
    \/ GatewayDerives \/ GatewayDeriveFails
    \/ \E f \in network : GatewayHears(f) \/ RcHears(f)

SessionSpec == SessionInit /\ [][SessionNext]_sessionVars

\* Tasks run, and what is sent over and over is heard in the end: a frame of
\* "network" stands for all its repetitions.  A derivation that is tried again
\* and again succeeds in the end.  Nothing obliges a device to start or to
\* lose power.
SessionFairness ==
    /\ WF_sessionVars(GatewayHello)
    /\ WF_sessionVars(RcHello)
    /\ SF_sessionVars(GatewayDerives)
    /\ \A d \in Device : /\ WF_sessionVars(StartTraffic(d))
                         /\ WF_sessionVars(SealTraffic(d))
                         /\ WF_sessionVars(SendTraffic(d))
    /\ WF_sessionVars(\E f \in network : RcHearsHello(f))
    /\ WF_sessionVars(\E f \in network : RcHearsConfirm(f))
    /\ WF_sessionVars(\E f \in network : GatewayHearsHello(f))
    /\ WF_sessionVars(\E f \in network : GatewayHearsControl(f))

FairSessionSpec == SessionSpec /\ SessionFairness

(***************************************************************************)
(* Properties                                                              *)
(***************************************************************************)

SessionTypeOK ==
    /\ stored \in [Device -> 0..SessionMax]
    /\ power \in [Device -> {"off", "reserved", "on"}]
    /\ session \in [Device -> 0..SessionMax]
    /\ helloSeq \in [Device -> 0..HandshakeMax]
    /\ confirmSeq \in 0..HandshakeMax
    /\ trafficSeq \in [Device -> 0..TrafficMax]
    /\ keys \in [Device -> Pair]
    /\ operational \in [Device -> BOOLEAN]
    /\ candidate \in 0..SessionMax
    /\ authenticated \in 0..SessionMax
    /\ keysReady \in BOOLEAN
    /\ deriving \in 0..SessionMax
    /\ lastSession \in [Device -> 0..SessionMax]
    /\ lastSeq \in [Device -> Nat]
    /\ history \in [Device -> Seq(1..SessionMax)]
    /\ tx \in [Device -> [step : {"idle", "seal", "send"}, seq : 0..TrafficMax,
                          drawn : Pair]]
    /\ network \in SUBSET Frame
    /\ latest \in [Device -> Frame \cup {NoFrame}]
    /\ reused \in BOOLEAN
    /\ proven \in SUBSET Pair

\* No two frames are encrypted with one nonce, whatever keys they use, across
\* tasks, power losses and exhausted counters (mathos_secure.c 614-641).
NonceUnique == ~reused

\* When the RC is operational with a gateway that has not restarted since,
\* the gateway holds the same keys: CONFIRM is never believed in vain
\* (remote_controller/main/main.c 5118-5126).
KeysAgree ==
    operational["RC"] /\ session["GW"] = candidate =>
        keysReady /\ keys["GW"] = keys["RC"]

\* Operational keys are those of the gateway session the RC last heard of, so
\* a frame they decrypt belongs to it: the RC's fail-closed branch for a
\* foreign session (5307-5352) is a second line of defence.
KeysMatchCandidate ==
    operational["RC"] => keys["RC"] = <<session["RC"], candidate>>

\* A control packet is encrypted for the very pair of sessions for which its
\* sticks were sampled, or its keys were cleared in between and it is lost.
SealedAsDrawn ==
    \A f \in network : f.type = "CONTROL" => f.pair \in {f.drawn, Blank}

\* The gateway calls a session operational only after a control packet of
\* that very session (comment at drone_gateway/main/main.c:179-184).
OperationalIsProven ==
    operational["GW"] => <<authenticated, session["GW"]>> \in proven

\* What device d receives, and its half of the pair of sessions that a frame
\* was encrypted for.
Traffic(d) == IF d = "RC" THEN "REPORT" ELSE "CONTROL"
Own(d, p) == IF d = "RC" THEN p[1] ELSE p[2]

Message(d, f) ==
    [session |-> f.session, seq |-> f.seq, to |-> Own(d, f.pair)]

Messages(d) == {Message(d, f) : f \in {g \in network : g.type = Traffic(d)}}

ControlLink == INSTANCE OrderedLink WITH
    sent <- Messages("GW"), last <- Message("GW", latest["GW"]),
    boot <- session["GW"]

ReportLink == INSTANCE OrderedLink WITH
    sent <- Messages("RC"), last <- Message("RC", latest["RC"]),
    boot <- session["RC"]

\* What the gateway accepts as control comes in the order in which RCs sent
\* it, none twice, and was sent to this boot of the gateway, whatever the link
\* does and whichever side restarts (drone_gateway/main/main.c 3960-4073).
ControlIsOrdered == ControlLink!Spec

\* The same of the status and telemetry an RC accepts
\* (remote_controller/main/main.c 5353-5496).
ReportsAreOrdered == ReportLink!Spec

\* "During this Gateway uptime, monotonic RC session IDs must never move
\* backwards" (drone_gateway/main/main.c:3744).
RcSessionsNeverGoBack ==
    [][session'["GW"] = session["GW"] =>
        lastSession'["GW"] >= lastSession["GW"]]_sessionVars

Established ==
    /\ operational["RC"] /\ operational["GW"]
    /\ keys["RC"] = keys["GW"]
    /\ keys["RC"] = <<session["RC"], session["GW"]>>

\* A counter ran out before it could serve the current pair of sessions.
Spent ==
    LET Sent(type) == \E f \in network :
            f.type = type /\ f.pair = <<session["RC"], session["GW"]>>
    IN  \/ helloSeq["RC"] = 0 /\ ~Sent("HELLO")
        \/ confirmSeq = 0 /\ ~Sent("CONFIRM")
        \/ trafficSeq["RC"] = 0 /\ ~Sent("CONTROL")

\* An established session ends with the power of one of the two devices, and
\* with nothing that comes over the link: a HELLO or CONFIRM of an earlier
\* session, or of this one, does not close it (drone_gateway/main/main.c
\* 3744-3788, remote_controller/main/main.c 4953-5148).
EstablishedHolds ==
    [][Established /\ ~Established' =>
        \E d \in Device : power[d] = "on" /\ power'[d] = "off"]_sessionVars

\* Once both sides stay on, whatever frames of earlier sessions still arrive,
\* they end up operational with each other for good.
SessionIsEstablished ==
    <>[](power = [d \in Device |-> "on"]) => <>[](Established \/ Spent)
=============================================================================
