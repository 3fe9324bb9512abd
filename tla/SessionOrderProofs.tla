------------------------- MODULE SessionOrderProofs -------------------------
(***************************************************************************)
(* What the two sides accept, and under which keys a control packet is     *)
(* encrypted: the theorems of SessionHandshake about order and freshness,  *)
(* on top of the invariant of SessionHandshakeProofs.                      *)
(***************************************************************************)
EXTENDS SessionHandshakeProofs

(***************************************************************************)
(* Frames                                                                  *)
(***************************************************************************)

\* What SendFrame adds, the sampled content included.
LEMMA DrawnFrame ==
    ASSUME NEW d, NEW type, NEW n, NEW pair, NEW drawn,
           SendFrame(d, type, n, pair, drawn), NEW f \in network' \ network
    PROVE  /\ f.from = d /\ f.type = type /\ f.session = session[d]
           /\ f.seq = n /\ f.pair = pair /\ f.drawn = drawn
BY DEF SendFrame

\* f is the frame that device d's transmit task has built.
Built(f, d) ==
    /\ f.from = d /\ f.session = session[d]
    /\ f.seq = tx[d].seq /\ f.pair = keys[d] /\ f.drawn = tx[d].drawn

\* Each kind of frame is added by one action, and no frame is taken back.
LEMMA Origin ==
    ASSUME SessionNext
    PROVE  /\ network \subseteq network'
           /\ \A f \in network' \ network :
                 \/ f.type = "CONFIRM"
                 \/ f.type = "HELLO" /\ f.from = "GW"
                 \/ /\ RcHello /\ f.type = "HELLO" /\ f.from = "RC"
                    /\ f.session = session["RC"]
                    /\ f.pair = <<session["RC"], candidate>>
                 \/ f.type = "CONTROL" /\ SendTraffic("RC") /\ Built(f, "RC")
                 \/ f.type = "REPORT" /\ SendTraffic("GW") /\ Built(f, "GW")
<1> DEFINE Goal(f) ==
              \/ f.type = "CONFIRM"
              \/ f.type = "HELLO" /\ f.from = "GW"
              \/ /\ RcHello /\ f.type = "HELLO" /\ f.from = "RC"
                 /\ f.session = session["RC"]
                 /\ f.pair = <<session["RC"], candidate>>
              \/ f.type = "CONTROL" /\ SendTraffic("RC") /\ Built(f, "RC")
              \/ f.type = "REPORT" /\ SendTraffic("GW") /\ Built(f, "GW")
           Good == network \subseteq network'
                   /\ \A f \in network' \ network : Goal(f)
<1> SUFFICES Good
    OBVIOUS
<1> USE DEF flashVars, counterVars, rcVars, gatewayVars, keyVars,
            receiveVars, acceptVars, sentVars
<1>1. ASSUME NEW d, NEW type, NEW n, NEW pair, NEW drawn,
             SendFrame(d, type, n, pair, drawn)
      PROVE  network \subseteq network'
    BY <1>1 DEF SendFrame
<1>2. CASE SendTraffic("RC")
    <2>1. SendFrame("RC", "CONTROL", tx["RC"].seq, keys["RC"], tx["RC"].drawn)
        BY <1>2 DEF SendTraffic
    <2>2. \A f \in network' \ network : f.type = "CONTROL" /\ Built(f, "RC")
        BY <2>1, DrawnFrame DEF Built
    <2>3. QED
        BY <1>1, <1>2, <2>1, <2>2
<1>3. CASE SendTraffic("GW")
    <2>1. SendFrame("GW", "REPORT", tx["GW"].seq, keys["GW"], tx["GW"].drawn)
        BY <1>3 DEF SendTraffic
    <2>2. \A f \in network' \ network : f.type = "REPORT" /\ Built(f, "GW")
        BY <2>1, DrawnFrame DEF Built
    <2>3. QED
        BY <1>1, <1>3, <2>1, <2>2
<1>4. CASE GatewayHello
    <2>1. SendFrame("GW", "HELLO", helloSeq["GW"], <<0, session["GW"]>>,
                    <<0, session["GW"]>>)
        BY <1>4 DEF GatewayHello
    <2>2. \A f \in network' \ network : f.type = "HELLO" /\ f.from = "GW"
        BY <2>1, DrawnFrame
    <2>3. QED
        BY <1>1, <2>1, <2>2
<1>5. CASE RcHello
    <2>1. SendFrame("RC", "HELLO", helloSeq["RC"], <<session["RC"], candidate>>,
                    <<session["RC"], candidate>>)
        BY <1>5 DEF RcHello
    <2>2. \A f \in network' \ network :
              /\ f.type = "HELLO" /\ f.from = "RC" /\ f.session = session["RC"]
              /\ f.pair = <<session["RC"], candidate>>
        BY <2>1, DrawnFrame
    <2>3. QED
        BY <1>1, <1>5, <2>1, <2>2
<1>6. ASSUME NEW r, SendConfirm(r) PROVE Good
    <2>1. network \subseteq network'
        BY <1>6 DEF SendConfirm, SendFrame
    <2>2. \A f \in network' \ network : f.type = "CONFIRM"
        BY <1>6, SentConfirm
    <2>3. QED
        BY <2>1, <2>2
<1>7. CASE GatewayDerives
    BY <1>6, <1>7 DEF GatewayDerives
<1>8. ASSUME NEW g \in network, GatewayHearsHelloAgain(g) PROVE Good
    BY <1>6, <1>8 DEF GatewayHearsHelloAgain
<1>9. CASE network' = network
    BY <1>9
<1>10. ASSUME NEW d \in Device,
              \/ Reserve(d) \/ Publish(d) \/ PowerLoss(d)
              \/ StartTraffic(d) \/ SealTraffic(d)
       PROVE  network' = network
    BY <1>10 DEF Reserve, Publish, PowerLoss, StartTraffic, SealTraffic
<1>11. ASSUME NEW g \in network,
              \/ GatewayHearsHello(g) \/ GatewayHearsControl(g)
              \/ RcHearsHello(g) \/ RcHearsConfirm(g) \/ RcHearsReport(g)
       PROVE  network' = network
    BY <1>11 DEF GatewayHearsHello, GatewayHearsControl, RcHearsHello,
                 RcHearsConfirm, RcHearsReport
<1>12. GatewayDeriveFails => network' = network
    BY DEF GatewayDeriveFails
<1>13. ASSUME NEW d \in Device, SendTraffic(d) PROVE Good
    <2> HIDE DEF Good
    <2>1. QED
        BY <1>2, <1>3, <1>13 DEF Device
<1>14. QED
    <2> HIDE DEF Good
    <2>1. QED
        BY StepCases, <1>4, <1>5, <1>7, <1>8, <1>9, <1>10, <1>11, <1>12, <1>13

(***************************************************************************)
(* Who asked for which pair of sessions                                    *)
(***************************************************************************)

\* In the frames "sent", the RC has asked for the pair p with a HELLO.
Asked(p, sent) ==
    \E h \in sent : h.type = "HELLO" /\ h.from = "RC" /\ h.pair = p

\* The gateway derives keys for, and confirms, only what an RC asked of it.
AskedInv ==
    /\ \A h \in network :
          h.type = "HELLO" /\ h.from = "RC" => h.pair[1] = h.session
    /\ \A f \in network : f.type = "CONFIRM" => Asked(f.pair, network)
    /\ deriving # 0 => Asked(<<deriving, session["GW"]>>, network)
    /\ keysReady => Asked(<<authenticated, session["GW"]>>, network)

\* What a step does to the gateway's session: nothing, one of the two
\* handshake steps, or the end of it.
LEMMA GatewayMoves ==
    ASSUME SessionInv, SessionNext
    PROVE  \/ /\ deriving' = 0 /\ ~keysReady' /\ authenticated' = 0
              /\ PowerLoss("GW") \/ GatewayDeriveFails
           \/ /\ UNCHANGED gatewayVars
              /\ session'["GW"] = session["GW"] \/ (deriving = 0 /\ ~keysReady)
           \/ GatewayDerives
           \/ \E f \in network : GatewayHearsHello(f)
<1> USE DEF flashVars, counterVars, rcVars, gatewayVars, keyVars,
            receiveVars, acceptVars, sentVars
<1>0. SessionTypeOK /\ BootInv
    BY DEF SessionInv, NonceInv
<1>1. ASSUME NEW d \in Device, Reserve(d) PROVE UNCHANGED <<session, gatewayVars>>
    BY <1>1 DEF Reserve
<1>2. ASSUME NEW d \in Device, Publish(d)
      PROVE  /\ UNCHANGED gatewayVars
             /\ session'["GW"] = session["GW"] \/ (deriving = 0 /\ ~keysReady)
    <2>1. UNCHANGED gatewayVars /\ session' = [session EXCEPT ![d] = stored[d]]
        BY <1>2 DEF Publish
    <2>2. CASE d = "GW"
        BY <1>0, <1>2, <2>1, <2>2 DEF Publish, BootInv, Off
    <2>3. CASE d # "GW"
        BY <1>0, <2>1, <2>3, Constants DEF SessionTypeOK
    <2>4. QED
        BY <2>2, <2>3
<1>3. ASSUME NEW d \in Device, PowerLoss(d)
      PROVE  \/ /\ deriving' = 0 /\ ~keysReady' /\ authenticated' = 0
                /\ PowerLoss("GW")
             \/ UNCHANGED gatewayVars /\ session'["GW"] = session["GW"]
    <2>1. session' = [session EXCEPT ![d] = 0]
        BY <1>3 DEF PowerLoss
    <2>2. CASE d = "GW"
        BY <1>3, <2>2 DEF PowerLoss
    <2>3. CASE d # "GW"
        <3>1. session'["GW"] = session["GW"]
            BY <1>0, <2>1, <2>3, Constants DEF SessionTypeOK
        <3>2. QED
            BY <1>3, <2>3, <3>1 DEF PowerLoss
    <2>4. QED
        BY <2>2, <2>3
<1>4. ASSUME NEW d \in Device,
             StartTraffic(d) \/ SealTraffic(d) \/ SendTraffic(d)
      PROVE  UNCHANGED <<session, gatewayVars>>
    BY <1>4 DEF StartTraffic, SealTraffic, SendTraffic
<1>5. GatewayHello \/ RcHello => UNCHANGED <<session, gatewayVars>>
    BY DEF GatewayHello, RcHello
<1>6. GatewayDeriveFails => deriving' = 0 /\ ~keysReady' /\ authenticated' = 0
    BY DEF GatewayDeriveFails, SessionInv, KeyInv, GatewayKeyInv
<1>7. ASSUME NEW g \in network,
             \/ GatewayHearsHelloAgain(g) \/ GatewayHearsControl(g)
             \/ RcHearsHello(g) \/ RcHearsConfirm(g) \/ RcHearsReport(g)
      PROVE  UNCHANGED <<session, gatewayVars>>
    BY <1>7 DEF GatewayHearsHelloAgain, GatewayHearsControl,
                RcHearsHello, RcHearsConfirm, RcHearsReport
<1>8. QED
    BY StepCases, <1>1, <1>2, <1>3, <1>4, <1>5, <1>6, <1>7

\* A HELLO that was heard is still in "network".
LEMMA AskedStays ==
    ASSUME SessionNext, NEW p, Asked(p, network)
    PROVE  Asked(p, network')
<1>1. network \subseteq network'
    BY Origin
<1>2. QED
    BY <1>1 DEF Asked

\* The gateway names no pair of its own.
LEMMA StepAsked ==
    ASSUME SessionInv, AskedInv, SessionNext
    PROVE  AskedInv'
<1>0. SessionTypeOK /\ NonceInv
    BY DEF SessionInv, NonceInv
<1>1. ASSUME NEW h \in network', h.type = "HELLO", h.from = "RC"
      PROVE  h.pair[1] = h.session
    <2>1. CASE h \in network
        BY <1>1, <2>1 DEF AskedInv
    <2>2. CASE h \notin network
        <3>1. h.session = session["RC"] /\ h.pair = <<session["RC"], candidate>>
            BY <1>1, <2>2, Origin
        <3>2. QED
            BY <3>1
    <2>3. QED
        BY <2>1, <2>2
<1>2. deriving' # 0 => Asked(<<deriving', session'["GW"]>>, network')
    <2>1. CASE /\ UNCHANGED gatewayVars
               /\ session'["GW"] = session["GW"] \/ (deriving = 0 /\ ~keysReady)
        BY <2>1, AskedStays DEF AskedInv, gatewayVars
    <2>2. CASE GatewayDerives
        BY <2>2 DEF GatewayDerives
    <2>3. ASSUME NEW f \in network, GatewayHearsHello(f)
          PROVE  Asked(<<deriving', session'["GW"]>>, network')
        <3>1. /\ f.type = "HELLO" /\ f.from = "RC"
              /\ f.pair[2] = session["GW"] /\ deriving' = f.pair[1]
              /\ session' = session /\ network' = network
            BY <2>3 DEF GatewayHearsHello, flashVars, sentVars
        <3>2. f.pair = <<f.pair[1], f.pair[2]>>
            BY <1>0, FrameType DEF Pair
        <3>3. QED
            BY <3>1, <3>2 DEF Asked
    <2>4. QED
        BY <2>1, <2>2, <2>3, GatewayMoves
<1>3. keysReady' => Asked(<<authenticated', session'["GW"]>>, network')
    <2>1. CASE /\ UNCHANGED gatewayVars
               /\ session'["GW"] = session["GW"] \/ (deriving = 0 /\ ~keysReady)
        BY <2>1, AskedStays DEF AskedInv, gatewayVars
    <2>2. CASE GatewayDerives
        <3>1. deriving # 0 /\ authenticated' = deriving /\ session' = session
            BY <2>2 DEF GatewayDerives, flashVars
        <3>2. Asked(<<deriving, session["GW"]>>, network')
            BY <3>1, AskedStays DEF AskedInv
        <3>3. QED
            BY <3>1, <3>2 DEF Asked
    <2>3. ASSUME NEW f \in network, GatewayHearsHello(f) PROVE ~keysReady'
        BY <2>3 DEF GatewayHearsHello
    <2>4. QED
        BY <2>1, <2>2, <2>3, GatewayMoves
<1>4. ASSUME NEW f \in network', f.type = "CONFIRM" PROVE Asked(f.pair, network')
    <2>1. CASE f \in network
        BY <1>4, <2>1, AskedStays DEF AskedInv
    <2>2. CASE f \notin network
        <3>1. f.pair = <<authenticated', session["GW"]>> /\ keysReady'
            BY <1>0, <1>4, <2>2, NewFrames
        <3>2. session' = session
            <4>1. ASSUME NEW d \in Device, Reserve(d) \/ Publish(d) \/ PowerLoss(d)
                  PROVE  FALSE
                BY <2>2, <4>1 DEF Reserve, Publish, PowerLoss, sentVars
            <4>2. QED
                BY <1>0, <4>1, FlashSteps
        <3>3. QED
            BY <1>3, <3>1, <3>2
    <2>3. QED
        BY <2>1, <2>2
<1>5. QED
    BY <1>1, <1>2, <1>3, <1>4 DEF AskedInv

(***************************************************************************)
(* Control packets and the keys they are encrypted with                    *)
(***************************************************************************)

\* No HELLO of the RC's present session asks for a later gateway session
\* than n.
AskedUpTo(n) ==
    \A h \in network :
        h.type = "HELLO" /\ h.from = "RC" /\ h.session = session["RC"] =>
            h.pair[2] <= n

\* While a packet is being built no HELLO is sent (both are radio_tx_task's),
\* so a gateway session the RC hears of meanwhile cannot be confirmed yet:
\* the keys are those of the packet, or none.
DrawnInv ==
    tx["RC"].step # "idle" =>
        /\ tx["RC"].drawn[1] = session["RC"]
        /\ tx["RC"].drawn[2] <= candidate
        /\ keys["RC"] \in {tx["RC"].drawn, Blank}
        /\ AskedUpTo(tx["RC"].drawn[2])

SealInv == AskedUpTo(candidate) /\ DrawnInv /\ SealedAsDrawn

\* What a step does to the RC's side of the session.
LEMMA RcMoves ==
    ASSUME SessionTypeOK, SessionNext
    PROVE  \/ /\ session'["RC"] = session["RC"] /\ candidate' = candidate
              /\ keys'["RC"] = keys["RC"]
              /\ \/ tx'["RC"] = tx["RC"]
                 \/ tx'["RC"].step = "idle"
                 \/ tx["RC"].step # "idle" /\ tx'["RC"].drawn = tx["RC"].drawn
           \/ PowerLoss("RC") \/ Publish("RC") \/ StartTraffic("RC")
           \/ \E f \in network : RcHearsHello(f) \/ RcHearsConfirm(f)
<1> DEFINE Still ==
              /\ session'["RC"] = session["RC"] /\ candidate' = candidate
              /\ keys'["RC"] = keys["RC"]
              /\ \/ tx'["RC"] = tx["RC"]
                 \/ tx'["RC"].step = "idle"
                 \/ tx["RC"].step # "idle" /\ tx'["RC"].drawn = tx["RC"].drawn
<1> USE DEF flashVars, counterVars, rcVars, gatewayVars, keyVars,
            receiveVars, acceptVars, sentVars
<1>1. ASSUME NEW d \in Device, Reserve(d) PROVE Still
    BY <1>1 DEF Reserve
<1>2. ASSUME Publish("GW") \/ PowerLoss("GW") PROVE Still
    <2>1. CASE Publish("GW")
        BY <2>1, Constants DEF Publish, SessionTypeOK
    <2>2. CASE PowerLoss("GW")
        BY <2>2, Constants DEF PowerLoss, SessionTypeOK
    <2>3. QED
        BY <1>2, <2>1, <2>2
<1>3. ASSUME StartTraffic("GW") PROVE Still
    BY <1>3, Constants DEF StartTraffic, SessionTypeOK
<1>4. ASSUME NEW d \in Device, SealTraffic(d) PROVE Still
    BY <1>4, Constants DEF SealTraffic, SessionTypeOK, Idle
<1>5. ASSUME NEW d \in Device, SendTraffic(d) PROVE Still
    BY <1>5, Constants DEF SendTraffic, SessionTypeOK, Idle
<1>6. GatewayHello \/ RcHello \/ GatewayDeriveFails => Still
    BY DEF GatewayHello, RcHello, GatewayDeriveFails
<1>7. GatewayDerives => Still
    BY Constants DEF GatewayDerives, SessionTypeOK
<1>8. ASSUME NEW f \in network, GatewayHearsHello(f) PROVE Still
    BY <1>8, Constants DEF GatewayHearsHello, SessionTypeOK
<1>9. ASSUME NEW f \in network,
             \/ GatewayHearsHelloAgain(f) \/ GatewayHearsControl(f)
             \/ RcHearsReport(f)
      PROVE  Still
    BY <1>9 DEF GatewayHearsHelloAgain, GatewayHearsControl, RcHearsReport
<1>10. ASSUME NEW d \in Device, Publish(d) \/ PowerLoss(d) \/ StartTraffic(d)
       PROVE  \/ PowerLoss("RC") \/ Publish("RC") \/ StartTraffic("RC")
              \/ Still
    <2> HIDE DEF Still
    <2>1. d = "RC" \/ d = "GW"
        BY DEF Device
    <2>2. QED
        BY <1>2, <1>3, <1>10, <2>1
<1> DEFINE Goal ==
              \/ Still \/ PowerLoss("RC") \/ Publish("RC") \/ StartTraffic("RC")
              \/ \E f \in network : RcHearsHello(f) \/ RcHearsConfirm(f)
<1>11. Goal
    <2> HIDE DEF Still
    <2>1. QED
        BY StepCases, <1>1, <1>4, <1>5, <1>6, <1>7, <1>8, <1>9, <1>10
<1>12. QED
    BY <1>11

\* Within a session of the RC its candidate grows, and a session starts
\* without HELLOs of its own.
LEMMA StepAskedUpTo ==
    ASSUME SessionInv, AskedUpTo(candidate), SessionNext
    PROVE  AskedUpTo(candidate)'
<1>0. SessionTypeOK /\ BootInv /\ SentInv
    BY DEF SessionInv, NonceInv
<1>1. candidate \in Nat
    BY <1>0 DEF SessionTypeOK
<1> SUFFICES ASSUME NEW h \in network', h.type = "HELLO", h.from = "RC",
                    h.session = session'["RC"]
             PROVE  h.pair[2] <= candidate'
    BY DEF AskedUpTo
<1>2. CASE h \notin network
    <2>1. RcHello /\ h.pair = <<session["RC"], candidate>>
        BY <1>2, Origin
    <2>2. candidate' = candidate
        BY <2>1 DEF RcHello, rcVars
    <2>3. QED
        BY <1>1, <2>1, <2>2
<1>3. CASE h \in network
    <2>1. h.session # 0 /\ h.pair[2] \in Nat
        BY <1>0, <1>3, FrameType, FramePair
    <2>2. CASE session'["RC"] = session["RC"] /\ candidate' = candidate
        BY <1>3, <2>2 DEF AskedUpTo
    <2>3. CASE PowerLoss("RC")
        BY <1>0, <2>1, <2>3, Constants DEF PowerLoss, SessionTypeOK
    <2>4. CASE Publish("RC")
        <3>1. session'["RC"] = stored["RC"] /\ power["RC"] = "reserved"
            BY <1>0, <2>4, Constants DEF Publish, SessionTypeOK
        <3>2. QED
            BY <1>0, <1>3, <3>1 DEF SentInv, Sent
    <2>5. CASE StartTraffic("RC")
        BY <1>3, <2>5 DEF StartTraffic, flashVars, rcVars, AskedUpTo
    <2>6. ASSUME NEW f \in network, RcHearsHello(f)
          PROVE  h.pair[2] <= candidate'
        <3>1. session' = session /\ candidate' \in Nat /\ candidate' > candidate
            BY <1>0, <2>6, FrameType DEF RcHearsHello, flashVars
        <3>2. h.pair[2] <= candidate
            BY <1>3, <3>1 DEF AskedUpTo
        <3>3. QED
            BY <1>1, <2>1, <3>1, <3>2
    <2>7. ASSUME NEW f \in network, RcHearsConfirm(f)
          PROVE  session' = session /\ candidate' = candidate
        BY <2>7 DEF RcHearsConfirm, flashVars, rcVars
    <2>8. QED
        BY <1>0, <2>2, <2>3, <2>4, <2>5, <2>6, <2>7, RcMoves
<1>4. QED
    BY <1>2, <1>3

\* A CONFIRM that reaches the RC while it builds a packet is one it had asked
\* for before: it brings the packet's keys.
LEMMA ConfirmBringsDrawn ==
    ASSUME SessionInv, AskedInv, DrawnInv, tx["RC"].step # "idle",
           NEW f \in network, RcHearsConfirm(f)
    PROVE  keys'["RC"] = tx["RC"].drawn
<1>0. SessionTypeOK
    BY DEF SessionInv, NonceInv
<1>1. f.pair = <<session["RC"], candidate>> /\ f.type = "CONFIRM"
    BY DEF RcHearsConfirm
<1>2. PICK h \in network : h.type = "HELLO" /\ h.from = "RC" /\ h.pair = f.pair
    BY <1>1 DEF AskedInv, Asked
<1>3. h.session = session["RC"]
    BY <1>1, <1>2 DEF AskedInv
<1>4. candidate <= tx["RC"].drawn[2] /\ tx["RC"].drawn[2] <= candidate
    BY <1>1, <1>2, <1>3 DEF DrawnInv, AskedUpTo
<1>5. tx["RC"].drawn \in Pair
    BY <1>0, Constants DEF SessionTypeOK
<1>6. /\ tx["RC"].drawn = <<tx["RC"].drawn[1], tx["RC"].drawn[2]>>
      /\ tx["RC"].drawn[2] \in Nat
    BY <1>5 DEF Pair
<1>7. tx["RC"].drawn = f.pair
    BY <1>0, <1>1, <1>4, <1>6 DEF DrawnInv, SessionTypeOK
<1>8. QED
    BY <1>0, <1>7, Constants DEF RcHearsConfirm, SessionTypeOK

\* The packet's pair stays the RC's, and its keys come back or not at all.
LEMMA StepDrawn ==
    ASSUME SessionInv, AskedInv, SealInv, SessionNext
    PROVE  DrawnInv'
<1>0. SessionTypeOK /\ BootInv /\ candidate \in Nat
    BY DEF SessionInv, NonceInv, SessionTypeOK
<1>1. ASSUME tx["RC"].step # "idle"
      PROVE  tx["RC"].drawn[1] \in Nat /\ tx["RC"].drawn[2] \in Nat
    <2>1. tx["RC"].drawn \in Pair
        BY <1>0, Constants DEF SessionTypeOK
    <2>2. QED
        BY <2>1 DEF Pair
<1>2. tx["RC"].step # "idle" => ~RcHello
    BY DEF RcHello
<1>3. CASE /\ session'["RC"] = session["RC"] /\ candidate' = candidate
           /\ keys'["RC"] = keys["RC"]
           /\ \/ tx'["RC"] = tx["RC"]
              \/ tx'["RC"].step = "idle"
              \/ tx["RC"].step # "idle" /\ tx'["RC"].drawn = tx["RC"].drawn
    <2>1. CASE tx'["RC"].step = "idle"
        BY <2>1 DEF DrawnInv
    <2>2. CASE tx'["RC"].step # "idle"
        <3>1. tx["RC"].step # "idle" /\ tx'["RC"].drawn = tx["RC"].drawn
            BY <1>3, <2>2
        <3>2. AskedUpTo(tx["RC"].drawn[2])
            BY <3>1 DEF SealInv, DrawnInv
        <3>3. \A h \in network' :
                  h.type = "HELLO" /\ h.from = "RC" /\ h.session = session'["RC"] =>
                      h.pair[2] <= tx["RC"].drawn[2]
            BY <1>2, <1>3, <3>1, <3>2, Origin DEF AskedUpTo
        <3>4. QED
            BY <1>3, <3>1, <3>3 DEF SealInv, DrawnInv, AskedUpTo
    <2>3. QED
        BY <2>1, <2>2
<1>4. CASE PowerLoss("RC")
    BY <1>0, <1>4, Constants DEF PowerLoss, SessionTypeOK, DrawnInv, Idle
<1>5. CASE Publish("RC")
    <2>1. tx["RC"].step = "idle" /\ tx' = tx
        BY <1>0, <1>5, Constants DEF Publish, BootInv, Off
    <2>2. QED
        BY <2>1 DEF DrawnInv
<1>6. CASE StartTraffic("RC")
    <2>1. /\ tx'["RC"].drawn = keys["RC"] /\ operational["RC"]
          /\ UNCHANGED <<session, candidate, keys, network>>
        BY <1>0, <1>6, Constants
           DEF StartTraffic, SessionTypeOK, flashVars, rcVars, keyVars, sentVars
    <2>2. keys["RC"] = <<session["RC"], candidate>>
        BY <2>1 DEF SessionInv, KeyInv, RcKeyInv
    <2>3. QED
        BY <1>0, <2>1, <2>2 DEF SealInv, DrawnInv, AskedUpTo
<1>7. ASSUME NEW f \in network, RcHearsHello(f) PROVE DrawnInv'
    <2>1. UNCHANGED <<session, tx, network>>
        BY <1>7 DEF RcHearsHello, flashVars, sentVars
    <2>2. candidate' \in Nat /\ candidate' > candidate
        BY <1>0, <1>7, FrameType DEF RcHearsHello
    <2>3. keys'["RC"] = Blank
        BY <1>0, <1>7, Constants DEF RcHearsHello, SessionTypeOK
    <2>4. QED
        BY <1>0, <1>1, <2>1, <2>2, <2>3 DEF SealInv, DrawnInv, AskedUpTo
<1>8. ASSUME NEW f \in network, RcHearsConfirm(f) PROVE DrawnInv'
    <2>1. UNCHANGED <<session, tx, network, candidate>>
        BY <1>8 DEF RcHearsConfirm, flashVars, sentVars, rcVars
    <2>2. tx["RC"].step # "idle" => keys'["RC"] = tx["RC"].drawn
        BY <1>8, ConfirmBringsDrawn DEF SealInv
    <2>3. QED
        BY <2>1, <2>2 DEF SealInv, DrawnInv, AskedUpTo
<1>9. QED
    BY <1>0, <1>3, <1>4, <1>5, <1>6, <1>7, <1>8, RcMoves

\* A control packet leaves with its own keys or none.
LEMMA StepSealed ==
    ASSUME SealInv, SessionNext
    PROVE  SealedAsDrawn'
<1> SUFFICES ASSUME NEW f \in network', f.type = "CONTROL"
             PROVE  f.pair \in {f.drawn, Blank}
    BY DEF SealedAsDrawn
<1>1. CASE f \in network
    BY <1>1 DEF SealInv, SealedAsDrawn
<1>2. CASE f \notin network
    <2>1. SendTraffic("RC") /\ Built(f, "RC")
        BY <1>2, Origin
    <2>2. QED
        BY <2>1 DEF SendTraffic, Built, SealInv, DrawnInv
<1>3. QED
    BY <1>1, <1>2

FreshInv == SessionInv /\ AskedInv /\ SealInv

\* The initial states.
LEMMA InitFresh == SessionInit => FreshInv
<1> SUFFICES ASSUME SessionInit PROVE FreshInv
    OBVIOUS
<1>1. AskedInv /\ SealInv
    BY DEF SessionInit, AskedInv, SealInv, AskedUpTo, DrawnInv, SealedAsDrawn,
           Idle, Device
<1>2. QED
    BY <1>1, InitSession DEF FreshInv

\* A step, or a stutter.
LEMMA StepFresh == FreshInv /\ [SessionNext]_sessionVars => FreshInv'
<1> SUFFICES ASSUME FreshInv, [SessionNext]_sessionVars PROVE FreshInv'
    OBVIOUS
<1>1. SessionInv'
    BY StepSession DEF FreshInv
<1>2. CASE SessionNext
    BY <1>1, <1>2, StepAsked, StepAskedUpTo, StepDrawn, StepSealed
       DEF FreshInv, SealInv
<1>3. CASE UNCHANGED sessionVars
    <2>1. UNCHANGED <<network, session, deriving, keysReady, authenticated,
                      candidate, tx, keys>>
        BY <1>3 DEF sessionVars, flashVars, gatewayVars, rcVars, keyVars,
                    sentVars
    <2>2. AskedInv'
        BY <2>1 DEF FreshInv, AskedInv
    <2>3. SealInv'
        BY <2>1 DEF FreshInv, SealInv, AskedUpTo, DrawnInv, SealedAsDrawn
    <2>4. QED
        BY <1>1, <2>2, <2>3 DEF FreshInv
<1>4. QED
    BY <1>2, <1>3

\* Sticks sampled for one pair of sessions never reach the aircraft under the
\* keys of another, although a receive task may clear and replace the keys at
\* any point of building the packet.
THEOREM ControlSealedAsDrawn == SessionSpec => []SealedAsDrawn
<1>1. FreshInv => SealedAsDrawn
    BY DEF FreshInv, SealInv
<1>2. QED
    BY InitFresh, StepFresh, <1>1, PTL DEF SessionSpec

(***************************************************************************)
(* The order in which operational frames are accepted, on either side      *)
(***************************************************************************)

\* Whom device d talks to.
Peer(d) == IF d = "RC" THEN "GW" ELSE "RC"

\* f was sent later than g by the same sender: in a later session, or later in
\* the same.
Later(f, g) ==
    \/ f.session > g.session
    \/ f.session = g.session /\ f.seq > g.seq

\* The session of the peer that d accepts frames of.
Current(d) == IF d = "RC" THEN candidate ELSE authenticated

\* d accepts f.
Hears(d, f) == IF d = "RC" THEN RcHearsReport(f) ELSE GatewayHearsControl(f)

\* s is 0 or a session number that d has published.
Known(d, s) ==
    /\ s <= stored[d]
    /\ power[d] = "reserved" => s # stored[d]

\* A device knows a session of its peer only when it has been published, and
\* so do the keys it encrypts with.
PeerInv ==
    /\ Known("GW", candidate)
    /\ \A d \in Device : Known(d, Own(d, keys[Peer(d)]))

\* The frames made for d before its present session are all older than those
\* made for it, and within a session the stored numbers are those of the last
\* frame accepted.
OrderInv(d) ==
    LET last == latest[d] IN
    /\ \A f \in network : f.type = Traffic(d) => Known(d, Own(d, f.pair))
    /\ last # NoFrame =>
          /\ last \in network /\ last.type = Traffic(d)
          /\ Own(d, last.pair) # 0
          /\ Own(d, last.pair) = session[d] =>
                lastSession[d] = last.session /\ lastSeq[d] = last.seq
          /\ Own(d, last.pair) # stored[d] =>
                \A f \in network :
                    f.type = Traffic(d) /\ Own(d, f.pair) = stored[d] =>
                        Later(f, last)

\* Frames of an earlier session than the last one accepted are behind d.
RiseInv(d) ==
    /\ lastSession[d] <= Current(d)
    /\ session[d] = 0 => lastSession[d] = 0

\* What a step does to d's own session number.
LEMMA FlashMoves ==
    ASSUME SessionInv, SessionNext, NEW d \in Device
    PROVE  \/ /\ stored'[d] = stored[d] /\ power'[d] = power[d]
              /\ session'[d] = session[d]
           \/ /\ stored'[d] = stored[d] + 1 /\ session'[d] = session[d]
              /\ network' = network
           \/ /\ stored'[d] = stored[d] /\ power'[d] = "on"
              /\ power[d] = "reserved" /\ session'[d] = stored[d]
           \/ /\ stored'[d] = stored[d] /\ power'[d] = "off"
              /\ session'[d] = 0 /\ lastSession'[d] = 0
<1>0. SessionTypeOK /\ NonceInv
    BY DEF SessionInv, NonceInv
<1>1. ASSUME NEW e \in Device, Reserve(e)
      PROVE  \/ /\ stored'[d] = stored[d] /\ power'[d] = power[d]
                /\ session'[d] = session[d]
             \/ /\ stored'[d] = stored[d] + 1 /\ session'[d] = session[d]
                /\ network' = network
    BY <1>0, <1>1 DEF Reserve, SessionTypeOK, sentVars
<1>2. ASSUME NEW e \in Device, Publish(e)
      PROVE  \/ /\ stored'[d] = stored[d] /\ power'[d] = power[d]
                /\ session'[d] = session[d]
             \/ /\ stored'[d] = stored[d] /\ power'[d] = "on"
                /\ power[d] = "reserved" /\ session'[d] = stored[d]
    BY <1>0, <1>2 DEF Publish, SessionTypeOK
<1>3. ASSUME NEW e \in Device, PowerLoss(e)
      PROVE  \/ /\ stored'[d] = stored[d] /\ power'[d] = power[d]
                /\ session'[d] = session[d]
             \/ /\ stored'[d] = stored[d] /\ power'[d] = "off"
                /\ session'[d] = 0 /\ lastSession'[d] = 0
    BY <1>0, <1>3 DEF PowerLoss, SessionTypeOK
<1>4. QED
    BY <1>0, <1>1, <1>2, <1>3, FlashSteps

\* A known session number stays known, and 0 always is.
LEMMA KnownStays ==
    ASSUME SessionInv, SessionNext, NEW d \in Device
    PROVE  /\ Known(d, 0)'
           /\ \A s \in Nat : Known(d, s) => Known(d, s)'
<1>0. SessionTypeOK /\ BootInv /\ NonceInv
    BY DEF SessionInv, NonceInv
<1>1. SessionTypeOK' /\ BootInv'
    BY <1>0, StepType, StepBoot
<1>2. stored[d] \in Nat /\ stored'[d] \in Nat
    BY <1>0, <1>1 DEF SessionTypeOK
<1>3. Known(d, 0)'
    BY <1>1, <1>2 DEF Known, BootInv
<1>4. ASSUME NEW s \in Nat, Known(d, s) PROVE Known(d, s)'
    BY <1>2, <1>4, FlashMoves DEF Known
<1>5. QED
    BY <1>3, <1>4

\* Keys are kept, cleared, or made from the sessions of now.
LEMMA KeyMoves ==
    ASSUME SessionTypeOK, SessionNext
    PROVE  /\ keys'["GW"] \in {keys["GW"], Blank, <<deriving, session["GW"]>>}
           /\ keys'["RC"] \in {keys["RC"], Blank, <<session["RC"], candidate>>}
           /\ \/ candidate' \in {candidate, 0}
              \/ \E f \in network : f.from = "GW" /\ candidate' = f.session
<1> DEFINE Goal ==
              /\ keys'["GW"] \in {keys["GW"], Blank, <<deriving, session["GW"]>>}
              /\ keys'["RC"] \in {keys["RC"], Blank, <<session["RC"], candidate>>}
              /\ \/ candidate' \in {candidate, 0}
                 \/ \E f \in network : f.from = "GW" /\ candidate' = f.session
<1> USE DEF flashVars, counterVars, rcVars, gatewayVars, keyVars,
            receiveVars, acceptVars, sentVars
<1>1. ASSUME NEW d \in Device,
             \/ Reserve(d) \/ Publish(d)
             \/ StartTraffic(d) \/ SealTraffic(d) \/ SendTraffic(d)
      PROVE  Goal
    BY <1>1 DEF Reserve, Publish, StartTraffic, SealTraffic, SendTraffic
<1>2. ASSUME NEW d \in Device, PowerLoss(d) PROVE Goal
    <2>1. keys' = [keys EXCEPT ![d] = Blank] /\ candidate' \in {candidate, 0}
        BY <1>2 DEF PowerLoss
    <2>2. QED
        BY <2>1, Constants DEF SessionTypeOK
<1>3. GatewayHello \/ RcHello \/ GatewayDeriveFails => Goal
    BY DEF GatewayHello, RcHello, GatewayDeriveFails
<1>4. GatewayDerives => Goal
    BY Constants DEF GatewayDerives, SessionTypeOK
<1>5. ASSUME NEW f \in network, GatewayHearsHello(f) PROVE Goal
    BY <1>5, Constants DEF GatewayHearsHello, SessionTypeOK
<1>6. ASSUME NEW f \in network,
             \/ GatewayHearsHelloAgain(f) \/ GatewayHearsControl(f)
             \/ RcHearsReport(f)
      PROVE  Goal
    BY <1>6 DEF GatewayHearsHelloAgain, GatewayHearsControl, RcHearsReport
<1>7. ASSUME NEW f \in network, RcHearsHello(f) PROVE Goal
    BY <1>7, Constants DEF RcHearsHello, SessionTypeOK
<1>8. ASSUME NEW f \in network, RcHearsConfirm(f) PROVE Goal
    BY <1>8, Constants DEF RcHearsConfirm, SessionTypeOK
<1>9. Goal
    <2> HIDE DEF Goal
    <2>1. QED
        BY StepCases, <1>1, <1>2, <1>3, <1>4, <1>5, <1>6, <1>7, <1>8
<1>10. QED
    BY <1>9

\* No device learns of a session that does not exist yet.
LEMMA StepPeer ==
    ASSUME SessionInv, PeerInv, SessionNext
    PROVE  PeerInv'
<1>0. SessionTypeOK /\ SentInv
    BY DEF SessionInv, NonceInv
<1>1. Known("GW", candidate)'
    <2>1. Known("GW", candidate') => Known("GW", candidate)'
        <3>1. candidate' \in Nat
            BY <1>0, StepType DEF SessionInv, NonceInv, SessionTypeOK
        <3>2. \A s \in Nat : Known("GW", s) => Known("GW", s)'
            BY KnownStays, Constants
        <3>3. QED
            BY <3>1, <3>2 DEF Known
    <2>2. CASE candidate' = candidate
        BY <2>1, <2>2 DEF PeerInv
    <2>3. CASE candidate' = 0
        BY <2>3, KnownStays, Constants DEF Known
    <2>4. ASSUME NEW f \in network, f.from = "GW", candidate' = f.session
          PROVE  Known("GW", candidate')
        BY <1>0, <2>4 DEF SentInv, Sent, Known
    <2>5. QED
        BY <1>0, <2>1, <2>2, <2>3, <2>4, KeyMoves
<1>2. ASSUME NEW d \in Device PROVE Known(d, Own(d, keys[Peer(d)]))'
    <2>1. \A s \in Nat : Known(d, s) => Known(d, s)'
        BY KnownStays
    <2>2. CASE d = "RC"
        <3>1. keys["GW"][1] \in Nat /\ deriving \in Nat
            <4>1. keys["GW"] \in Pair /\ deriving \in 0..SessionMax
                BY <1>0, Constants DEF SessionTypeOK
            <4>2. QED
                BY <4>1 DEF Pair
        <3>2. Known("RC", keys["GW"][1]) /\ Known("RC", deriving)
            BY <2>2
               DEF PeerInv, Own, Peer, Known, SessionInv, KeyInv,
                   GatewayKeyInv, Published
        <3>3. keys'["GW"][1] \in {keys["GW"][1], 0, deriving}
            BY <1>0, KeyMoves DEF Blank
        <3>4. QED
            BY <2>1, <2>2, <3>1, <3>2, <3>3, KnownStays DEF Known, Own, Peer
    <2>3. CASE d = "GW"
        <3>1. keys["RC"][2] \in Nat /\ candidate \in Nat
            <4>1. keys["RC"] \in Pair /\ candidate \in 0..SessionMax
                BY <1>0, Constants DEF SessionTypeOK
            <4>2. QED
                BY <4>1 DEF Pair
        <3>2. Known("GW", keys["RC"][2]) /\ Known("GW", candidate)
            BY <2>3, Constants DEF PeerInv, Own, Peer
        <3>3. keys'["RC"][2] \in {keys["RC"][2], 0, candidate}
            BY <1>0, KeyMoves DEF Blank
        <3>4. QED
            BY <2>1, <2>3, <3>1, <3>2, <3>3, KnownStays, Constants
               DEF Known, Own, Peer
    <2>4. QED
        BY <2>2, <2>3 DEF Device
<1>3. QED
    BY <1>1, <1>2 DEF PeerInv

\* Either d accepts a frame, or it keeps the record of the last one; the
\* numbers it compares with go only with its power.
LEMMA ReceiveMoves ==
    ASSUME SessionTypeOK, SessionNext, NEW d \in Device
    PROVE  \/ \E f \in network : Hears(d, f)
           \/ /\ latest'[d] = latest[d]
              /\ \/ lastSession'[d] = lastSession[d] /\ lastSeq'[d] = lastSeq[d]
                 \/ PowerLoss(d) /\ session'[d] = 0 /\ lastSession'[d] = 0
<1> DEFINE Still ==
              /\ latest'[d] = latest[d]
              /\ \/ lastSession'[d] = lastSession[d] /\ lastSeq'[d] = lastSeq[d]
                 \/ PowerLoss(d) /\ session'[d] = 0 /\ lastSession'[d] = 0
<1> USE DEF flashVars, counterVars, rcVars, gatewayVars, keyVars,
            receiveVars, acceptVars, sentVars
<1>1. ASSUME NEW e \in Device,
             \/ Reserve(e) \/ Publish(e)
             \/ StartTraffic(e) \/ SealTraffic(e) \/ SendTraffic(e)
      PROVE  Still
    BY <1>1 DEF Reserve, Publish, StartTraffic, SealTraffic, SendTraffic
<1>2. ASSUME NEW e \in Device, PowerLoss(e) PROVE Still
    <2>1. /\ lastSession' = [lastSession EXCEPT ![e] = 0]
          /\ lastSeq' = [lastSeq EXCEPT ![e] = 0]
          /\ session' = [session EXCEPT ![e] = 0]
          /\ latest' = latest
        BY <1>2 DEF PowerLoss
    <2>2. CASE e = d
        BY <1>2, <2>1, <2>2 DEF SessionTypeOK
    <2>3. CASE e # d
        BY <2>1, <2>3 DEF SessionTypeOK
    <2>4. QED
        BY <2>2, <2>3
<1>3. GatewayHello \/ RcHello \/ GatewayDerives \/ GatewayDeriveFails => Still
    BY DEF GatewayHello, RcHello, GatewayDerives, GatewayDeriveFails
<1>4. ASSUME NEW f \in network,
             \/ GatewayHearsHelloAgain(f) \/ GatewayHearsHello(f)
             \/ RcHearsHello(f) \/ RcHearsConfirm(f)
      PROVE  Still
    BY <1>4 DEF GatewayHearsHelloAgain, GatewayHearsHello, RcHearsHello,
                RcHearsConfirm
<1>5. ASSUME NEW f \in network, GatewayHearsControl(f) PROVE Hears(d, f) \/ Still
    <2>1. CASE d = "GW"
        BY <1>5, <2>1 DEF Hears
    <2>2. CASE d # "GW"
        BY <1>5, <2>2 DEF GatewayHearsControl, Accept, SessionTypeOK
    <2>3. QED
        BY <2>1, <2>2
<1>6. ASSUME NEW f \in network, RcHearsReport(f) PROVE Hears(d, f) \/ Still
    <2>1. CASE d = "RC"
        BY <1>6, <2>1 DEF Hears
    <2>2. CASE d # "RC"
        BY <1>6, <2>2 DEF RcHearsReport, Accept, SessionTypeOK
    <2>3. QED
        BY <2>1, <2>2
<1>7. (\E f \in network : Hears(d, f)) \/ Still
    <2> HIDE DEF Still
    <2>1. QED
        BY StepCases, <1>1, <1>2, <1>3, <1>4, <1>5, <1>6
<1>8. QED
    BY <1>7

\* A frame that is accepted was made for the present session of either side.
LEMMA Accepted ==
    ASSUME SessionInv, NEW d \in Device, NEW f \in network, Hears(d, f)
    PROVE  /\ f.type = Traffic(d) /\ f.session = Current(d)
           /\ session[d] # 0 /\ Own(d, f.pair) = session[d]
           /\ Acceptable(d, f) /\ Accept(d, f)
           /\ UNCHANGED <<flashVars, network, candidate, gatewayVars>>
<1>0. BootInv
    BY DEF SessionInv, NonceInv
<1>1. CASE d = "RC"
    <2>1. RcHearsReport(f)
        BY <1>1 DEF Hears
    <2>2. operational["RC"] /\ f.pair = keys["RC"]
        BY <2>1 DEF RcHearsReport, Acceptable
    <2>3. session["RC"] # 0
        BY <1>0, <2>2, Constants DEF BootInv, Off
    <2>4. f.pair = <<session["RC"], candidate>>
        BY <2>2 DEF SessionInv, KeyInv, RcKeyInv
    <2>5. QED
        BY <1>1, <2>1, <2>3, <2>4
           DEF RcHearsReport, Traffic, Current, Own, flashVars, sentVars,
               rcVars, gatewayVars
<1>2. CASE d = "GW"
    <2>1. GatewayHearsControl(f)
        BY <1>2, Constants DEF Hears
    <2>2. keysReady /\ f.pair = keys["GW"]
        BY <2>1 DEF GatewayHearsControl, Acceptable
    <2>3. session["GW"] # 0
        BY <1>0, <2>2, Constants DEF BootInv, Off
    <2>4. f.pair = <<authenticated, session["GW"]>>
        BY <2>2 DEF SessionInv, KeyInv, GatewayKeyInv
    <2>5. QED
        BY <1>2, <2>1, <2>3, <2>4, Constants
           DEF GatewayHearsControl, Traffic, Current, Own, flashVars, sentVars,
               rcVars, gatewayVars
<1>3. QED
    BY <1>1, <1>2 DEF Device

\* A frame just sent is later than all of its kind, and sent with the keys
\* that the sender has.
LEMMA SentLater ==
    ASSUME SessionInv, SessionNext, NEW d \in Device,
           NEW f \in network' \ network, f.type = Traffic(d)
    PROVE  /\ f.pair = keys[Peer(d)]
           /\ UNCHANGED flashVars
           /\ \A g \in network : g.type = Traffic(d) => Later(f, g)
<1>0. SessionTypeOK /\ BootInv /\ SentInv
    BY DEF SessionInv, NonceInv
<1> DEFINE p == Peer(d)
<1>1. p \in Device /\ SendTraffic(p) /\ Built(f, p)
    BY Origin DEF Peer, Traffic, Device
<1>2. session[p] = stored[p]
    BY <1>0, <1>1, InUse DEF SendTraffic, BootInv, Off
<1>3. tx[p].step # "idle"
    BY <1>1 DEF SendTraffic
<1>4. stored[p] \in Nat /\ tx[p].seq \in Nat
    BY <1>0, <1>1 DEF SessionTypeOK
<1>5. ASSUME NEW g \in network, g.type = Traffic(d) PROVE Later(f, g)
    <2>1. g.from = p /\ g.session \in Nat /\ g.session <= stored[p]
        <3>1. g.from = p
            BY <1>0, <1>5, FrameType DEF SentInv, Sent, Traffic, Peer
        <3>2. QED
            BY <1>0, <3>1, FrameType DEF SentInv, Sent
    <2>2. g.session = session[p] => g.seq < tx[p].seq
        BY <1>0, <1>3, <1>5, <2>1 DEF SentInv, Sent, Traffic
    <2>3. QED
        BY <1>1, <1>2, <1>4, <2>1, <2>2 DEF Later, Built
<1>6. QED
    BY <1>1, <1>5 DEF Built, SendTraffic

\* Whatever frame d accepts is later than the one before.
LEMMA AcceptsLater ==
    ASSUME SessionInv, NEW d \in Device, OrderInv(d), RiseInv(d),
           NEW f \in network, Hears(d, f)
    PROVE  Later(f, latest[d])
<1>0. SessionTypeOK /\ BootInv
    BY DEF SessionInv, NonceInv
<1> DEFINE last == latest[d]
<1>1. /\ f.type = Traffic(d) /\ f.session = Current(d)
      /\ session[d] # 0 /\ Own(d, f.pair) = session[d] /\ Acceptable(d, f)
    BY Accepted
<1>2. f.session \in Nat /\ f.session # 0 /\ f.seq \in Nat
    BY <1>0, FrameType
<1>3. CASE last = NoFrame
    BY <1>2, <1>3 DEF Later, NoFrame
<1>4. CASE last # NoFrame /\ Own(d, last.pair) = session[d]
    <2>1. lastSession[d] = last.session /\ lastSeq[d] = last.seq
        BY <1>4 DEF OrderInv
    <2>2. last.session <= f.session
        BY <1>1, <2>1 DEF RiseInv
    <2>3. last.session \in Nat /\ last.seq \in Nat
        BY <1>0, <1>4, FrameType DEF OrderInv
    <2>4. f.session = last.session => f.seq > last.seq
        BY <1>1, <2>1 DEF Acceptable, Floor
    <2>5. QED
        BY <1>2, <2>2, <2>3, <2>4 DEF Later
<1>5. CASE last # NoFrame /\ Own(d, last.pair) # session[d]
    <2>1. session[d] = stored[d]
        BY <1>0, <1>1, InUse
    <2>2. QED
        BY <1>1, <1>5, <2>1 DEF OrderInv
<1>6. QED
    BY <1>3, <1>4, <1>5

\* Old frames stay old: those of d's next session do not exist yet when it
\* starts, and every new frame is later than all there are.
LEMMA StepOrder ==
    ASSUME SessionInv, PeerInv, NEW d \in Device, OrderInv(d), RiseInv(d),
           SessionNext
    PROVE  OrderInv(d)'
<1>0. SessionTypeOK /\ BootInv /\ network \subseteq network'
    BY Origin DEF SessionInv, NonceInv
<1> DEFINE last == latest[d]
<1>1. \A f \in network' : f.type = Traffic(d) => Known(d, Own(d, f.pair))'
    <2>1. \A s \in Nat : Known(d, s) => Known(d, s)'
        BY KnownStays
    <2>2. ASSUME NEW f \in network', f.type = Traffic(d)
          PROVE  Own(d, f.pair) \in Nat /\ Known(d, Own(d, f.pair))
        <3>1. CASE f \in network
            BY <1>0, <2>2, <3>1, FramePair DEF OrderInv, Own
        <3>2. CASE f \notin network
            <4>1. f.pair = keys[Peer(d)]
                BY <2>2, <3>2, SentLater
            <4>2. keys[Peer(d)] \in Pair
                BY <1>0 DEF SessionTypeOK, Peer, Device
            <4>3. QED
                BY <4>1, <4>2 DEF PeerInv, Own, Pair
        <3>3. QED
            BY <3>1, <3>2
    <2>3. QED
        BY <2>1, <2>2 DEF Known
<1>2. CASE /\ latest'[d] = latest[d]
           /\ \/ lastSession'[d] = lastSession[d] /\ lastSeq'[d] = lastSeq[d]
              \/ PowerLoss(d) /\ session'[d] = 0
    <2> SUFFICES ASSUME last # NoFrame
                 PROVE  /\ last \in network' /\ last.type = Traffic(d)
                        /\ Own(d, last.pair) # 0
                        /\ Own(d, last.pair) = session'[d] =>
                              /\ lastSession'[d] = last.session
                              /\ lastSeq'[d] = last.seq
                        /\ Own(d, last.pair) # stored'[d] =>
                              \A f \in network' :
                                  /\ f.type = Traffic(d)
                                  /\ Own(d, f.pair) = stored'[d]
                                  => Later(f, last)
        BY <1>1, <1>2 DEF OrderInv, Own
    <2>1. /\ last \in network /\ last.type = Traffic(d)
          /\ Own(d, last.pair) # 0 /\ Known(d, Own(d, last.pair))
        BY DEF OrderInv
    <2>2. ASSUME Own(d, last.pair) = session'[d]
          PROVE  lastSession'[d] = last.session /\ lastSeq'[d] = last.seq
        <3>1. session'[d] = session[d]
            BY <2>1, <2>2, FlashMoves DEF Known
        <3>2. QED
            BY <1>2, <2>1, <2>2, <3>1 DEF OrderInv
    <2>3. ASSUME Own(d, last.pair) # stored'[d],
                 NEW f \in network', f.type = Traffic(d),
                 Own(d, f.pair) = stored'[d]
          PROVE  Later(f, last)
        <3>1. CASE f \notin network
            BY <2>1, <2>3, <3>1, SentLater
        <3>2. CASE f \in network
            <4>1. Known(d, Own(d, f.pair)) /\ stored[d] \in Nat
                BY <1>0, <2>3, <3>2 DEF OrderInv, SessionTypeOK
            <4>2. stored'[d] = stored[d]
                BY <2>3, <4>1, FlashMoves DEF Known
            <4>3. QED
                BY <2>3, <3>2, <4>2 DEF OrderInv
        <3>3. QED
            BY <3>1, <3>2
    <2>4. QED
        BY <1>0, <2>1, <2>2, <2>3
<1>3. ASSUME NEW f \in network, Hears(d, f) PROVE OrderInv(d)'
    <2>1. /\ f.type = Traffic(d) /\ session[d] # 0 /\ Own(d, f.pair) = session[d]
          /\ Accept(d, f)
          /\ stored' = stored /\ session' = session /\ network' = network
        BY <1>3, Accepted DEF flashVars
    <2>2. session[d] = stored[d]
        BY <1>0, <2>1, InUse
    <2>3. /\ latest'[d] = f
          /\ lastSession'[d] = f.session /\ lastSeq'[d] = f.seq
        BY <1>0, <2>1 DEF Accept, SessionTypeOK
    <2>4. QED
        BY <1>1, <2>1, <2>2, <2>3 DEF OrderInv, Own
<1>4. QED
    BY <1>0, <1>2, <1>3, ReceiveMoves

\* As long as the peer's session that d knows does not fall, neither does the
\* session of the last frame accepted.
LEMMA StepRise ==
    ASSUME SessionInv, NEW d \in Device, RiseInv(d), SessionNext,
           PowerLoss(d) \/ Current(d)' >= Current(d)
    PROVE  RiseInv(d)'
<1>0. SessionTypeOK /\ BootInv /\ SessionTypeOK'
    BY StepType DEF SessionInv, NonceInv
<1>1. /\ Current(d) \in Nat /\ Current(d)' \in Nat
      /\ lastSession[d] \in Nat /\ lastSession'[d] \in Nat
    BY <1>0 DEF SessionTypeOK, Current
<1>2. CASE \E f \in network : Hears(d, f)
    <2>1. PICK f \in network : Hears(d, f)
        BY <1>2
    <2>2. /\ f.session = Current(d) /\ session[d] # 0 /\ Accept(d, f)
          /\ UNCHANGED <<session, candidate, authenticated>>
        BY <2>1, Accepted DEF flashVars, gatewayVars
    <2>3. lastSession'[d] = Current(d)' /\ session'[d] # 0
        BY <1>0, <2>2 DEF Accept, SessionTypeOK, Current
    <2>4. QED
        BY <1>1, <2>3 DEF RiseInv
<1>3. CASE \/ lastSession'[d] = lastSession[d]
           \/ PowerLoss(d) /\ session'[d] = 0 /\ lastSession'[d] = 0
    <2>1. session'[d] = 0 => lastSession'[d] = 0
        BY <1>0, <1>3, FlashMoves DEF RiseInv, BootInv
    <2>2. lastSession'[d] <= Current(d)'
        <3>1. CASE PowerLoss(d)
            BY <1>0, <1>1, <3>1 DEF PowerLoss, SessionTypeOK
        <3>2. CASE ~PowerLoss(d)
            BY <1>1, <1>3, <3>2 DEF RiseInv
        <3>3. QED
            BY <3>1, <3>2
    <2>3. QED
        BY <2>1, <2>2 DEF RiseInv, Current
<1>4. QED
    BY <1>0, <1>2, <1>3, ReceiveMoves

\* The RC takes up later sessions of the gateway only.
LEMMA CandidateRises ==
    ASSUME SessionTypeOK, SessionNext
    PROVE  PowerLoss("RC") \/ Current("RC")' >= Current("RC")
<1>1. candidate \in Nat
    BY DEF SessionTypeOK
<1>2. Publish("RC") \/ StartTraffic("RC") => candidate' = candidate
    BY DEF Publish, StartTraffic, rcVars
<1>3. ASSUME NEW f \in network, RcHearsHello(f) PROVE candidate' >= candidate
    BY <1>1, <1>3, FrameType DEF RcHearsHello
<1>4. ASSUME NEW f \in network, RcHearsConfirm(f) PROVE candidate' = candidate
    BY <1>4 DEF RcHearsConfirm, rcVars
<1>5. candidate' = candidate => candidate' >= candidate
    BY <1>1
<1>6. PowerLoss("RC") \/ candidate' >= candidate
    BY <1>2, <1>3, <1>4, <1>5, RcMoves
<1>7. QED
    BY <1>6 DEF Current

\* The gateway derives keys for later sessions than the one it has had in this
\* boot, if any.
AuthInv ==
    /\ deriving # 0 => deriving > authenticated
    /\ ~keysReady /\ deriving = 0 => authenticated = 0

LEMMA StepAuth ==
    ASSUME SessionInv, AskedInv, AuthInv, SessionNext
    PROVE  /\ AuthInv'
           /\ \/ PowerLoss("GW") \/ GatewayDeriveFails
              \/ Current("GW")' >= Current("GW")
<1>0. SessionTypeOK
    BY DEF SessionInv, NonceInv
<1>1. authenticated \in Nat /\ deriving \in Nat
    BY <1>0 DEF SessionTypeOK
<1> DEFINE Goal ==
              /\ deriving' # 0 => deriving' > authenticated'
              /\ ~keysReady' /\ deriving' = 0 => authenticated' = 0
              /\ \/ PowerLoss("GW") \/ GatewayDeriveFails
                 \/ authenticated' >= authenticated
<1>2. ASSUME deriving' = 0, ~keysReady', authenticated' = 0,
             PowerLoss("GW") \/ GatewayDeriveFails
      PROVE  Goal
    BY <1>2
<1>3. ASSUME UNCHANGED gatewayVars PROVE Goal
    BY <1>1, <1>3 DEF gatewayVars, AuthInv
<1>4. ASSUME GatewayDerives PROVE Goal
    BY <1>1, <1>4 DEF GatewayDerives, AuthInv
<1>5. ASSUME NEW f \in network, GatewayHearsHello(f) PROVE Goal
    <2>1. /\ authenticated' = authenticated /\ deriving' = f.pair[1]
          /\ ~keysReady' /\ deriving = 0 /\ Replaces(f.pair[1])
          /\ f.from = "RC" /\ f.type = "HELLO"
        BY <1>5 DEF GatewayHearsHello
    <2>2. f.pair[1] \in Nat /\ f.pair[1] # 0
        BY <1>0, <2>1, FrameType DEF AskedInv
    <2>3. f.pair[1] > authenticated
        BY <1>1, <2>1, <2>2 DEF AuthInv, Replaces
    <2>4. QED
        BY <1>1, <2>1, <2>2, <2>3
<1>6. Goal
    <2> HIDE DEF Goal
    <2>1. QED
        BY <1>2, <1>3, <1>4, <1>5, GatewayMoves
<1>7. QED
    BY <1>6, Constants DEF AuthInv, Current

(***************************************************************************)
(* The theorems                                                            *)
(***************************************************************************)

ReceiveInv(d) == PeerInv /\ OrderInv(d) /\ RiseInv(d)

\* The initial states.
LEMMA InitReceive ==
    ASSUME NEW d \in Device, SessionInit
    PROVE  ReceiveInv(d)
BY SizeAssumption, Constants
   DEF SessionInit, ReceiveInv, PeerInv, OrderInv, RiseInv, Known, Own, Peer,
       Current, Blank

\* A stutter.
LEMMA StutterReceive ==
    ASSUME NEW d \in Device, ReceiveInv(d), UNCHANGED sessionVars
    PROVE  ReceiveInv(d)'
<1> USE DEF sessionVars, flashVars, gatewayVars, rcVars, keyVars, sentVars,
            receiveVars, acceptVars
<1>1. PeerInv'
    BY DEF ReceiveInv, PeerInv, Known, Own, Peer
<1>2. OrderInv(d)'
    BY DEF ReceiveInv, OrderInv, Known, Own
<1>3. RiseInv(d)'
    BY DEF ReceiveInv, RiseInv, Current
<1>4. QED
    BY <1>1, <1>2, <1>3 DEF ReceiveInv

\* A step, as long as the peer's session that d knows does not fall.
LEMMA StepReceive ==
    ASSUME SessionInv, NEW d \in Device, ReceiveInv(d), SessionNext,
           PowerLoss(d) \/ Current(d)' >= Current(d)
    PROVE  ReceiveInv(d)'
BY StepPeer, StepOrder, StepRise DEF ReceiveInv

(***************************************************************************)
(* Either direction of the link is an ordered link                         *)
(***************************************************************************)

\* The direction in which d receives.
Link(d) == INSTANCE OrderedLink WITH
    sent <- Messages(d), last <- Message(d, latest[d]), boot <- session[d]

\* Later frames are later messages.
LEMMA LaterMessage ==
    ASSUME NEW d, NEW f, NEW g, Later(f, g)
    PROVE  Link(d)!After(Message(d, f), Message(d, g))
BY DEF Later, Message, Link!After

\* A frame just sent is a later message than all before; it is the only one.
LEMMA LinkSends ==
    ASSUME SessionInv, SessionInv', NEW d \in Device, SessionNext,
           NEW f \in network' \ network, f.type = Traffic(d)
    PROVE  \E m \in Messages(d)' \ Messages(d) : Link(d)!Send(m)
<1>0. SessionTypeOK /\ SessionTypeOK'
    BY DEF SessionInv, NonceInv
<1> DEFINE m == Message(d, f)
           p == Peer(d)
<1>1. /\ \A g \in network : g.type = Traffic(d) => Later(f, g)
      /\ session' = session
    BY SentLater DEF flashVars
<1>2. p \in Device /\ SendTraffic(p)
    BY Origin DEF Peer, Traffic, Device
<1>3. latest' = latest /\ network' = network \cup {f}
    BY <1>2 DEF SendTraffic, SendFrame, acceptVars
<1>4. Messages(d)' = Messages(d) \cup {m}
    BY <1>3 DEF Messages
<1>5. m \in Link(d)!Message
    <2>1. f \in Frame
        BY <1>0 DEF SessionTypeOK
    <2>2. Own(d, f.pair) \in Nat
        BY <2>1 DEF Frame, Pair, Own
    <2>3. f.session \in Nat \ {0} /\ f.seq \in Nat \ {0}
        BY <2>1, SizeAssumption DEF Frame
    <2>4. QED
        BY <2>2, <2>3 DEF Message, Link!Message
<1>6. \A n \in Messages(d) : Link(d)!After(m, n)
    BY <1>1, LaterMessage DEF Messages
<1>7. m \notin Messages(d)
    BY <1>5, <1>6 DEF Link!After, Link!Message
<1>8. QED
    BY <1>1, <1>3, <1>4, <1>5, <1>6, <1>7 DEF Link!Send

\* What d accepts is delivered.
LEMMA LinkDelivers ==
    ASSUME SessionInv, NEW d \in Device, ReceiveInv(d),
           NEW f \in network, Hears(d, f)
    PROVE  \E m \in Messages(d) : Link(d)!Deliver(m)
<1>0. SessionTypeOK
    BY DEF SessionInv, NonceInv
<1>1. /\ f.type = Traffic(d) /\ session[d] # 0 /\ Own(d, f.pair) = session[d]
      /\ Accept(d, f) /\ session' = session /\ network' = network
    BY Accepted DEF flashVars
<1>2. latest'[d] = f
    BY <1>0, <1>1 DEF Accept, SessionTypeOK
<1>3. Link(d)!After(Message(d, f), Message(d, latest[d]))
    BY AcceptsLater, LaterMessage DEF ReceiveInv
<1>4. Message(d, f) \in Messages(d)
    BY <1>1 DEF Messages
<1>5. Messages(d)' = Messages(d)
    BY <1>1 DEF Messages
<1>6. QED
    BY <1>1, <1>2, <1>3, <1>4, <1>5 DEF Link!Deliver, Message

\* Every other step starts or stops the receiver, or the link stands still.
LEMMA LinkMoves ==
    ASSUME SessionInv, SessionInv', NEW d \in Device, ReceiveInv(d), SessionNext
    PROVE  Link(d)!Next \/ UNCHANGED Link(d)!linkVars
<1>0. SessionTypeOK /\ SessionTypeOK' /\ BootInv /\ BootInv'
    BY DEF SessionInv, NonceInv
<1>1. CASE \E f \in network' \ network : f.type = Traffic(d)
    BY <1>1, LinkSends DEF Link!Next
<1>2. CASE \E f \in network : Hears(d, f)
    BY <1>2, LinkDelivers DEF Link!Next
<1>3. CASE /\ \A f \in network' \ network : f.type # Traffic(d)
           /\ latest'[d] = latest[d]
    <2>1. Messages(d)' = Messages(d)
        BY <1>3, Origin DEF Messages
    <2>2. Message(d, latest[d])' = Message(d, latest[d])
        BY <1>3 DEF Message
    <2>3. CASE session'[d] = session[d]
        BY <2>1, <2>2, <2>3 DEF Link!linkVars
    <2>4. CASE session'[d] = 0 /\ session[d] # 0
        BY <2>1, <2>2, <2>4 DEF Link!Next, Link!Stop
    <2>5. CASE power[d] = "reserved" /\ session'[d] = stored[d]
        <3>1. session[d] = 0 /\ stored[d] \in Nat \ {0}
            BY <1>0, <2>5, FlashType DEF BootInv, Off
        <3>2. ASSUME NEW f \in network, f.type = Traffic(d)
              PROVE  Own(d, f.pair) < stored[d]
            <4>1. Own(d, f.pair) \in Nat
                BY <1>0, FrameType DEF Own, Pair
            <4>2. Known(d, Own(d, f.pair))
                BY <3>2 DEF ReceiveInv, OrderInv
            <4>3. QED
                BY <2>5, <3>1, <4>1, <4>2 DEF Known
        <3>3. \A m \in Messages(d) : m.to < session'[d]
            BY <2>5, <3>2 DEF Messages, Message
        <3>4. QED
            BY <2>1, <2>2, <2>5, <3>1, <3>3 DEF Link!Next, Link!Start
    <2>6. QED
        BY <2>3, <2>4, <2>5, FlashMoves
<1>4. QED
    BY <1>0, <1>1, <1>2, <1>3, ReceiveMoves

\* The initial states.
LEMMA InitLink ==
    ASSUME NEW d \in Device, SessionInit
    PROVE  Link(d)!Init
BY DEF SessionInit, Link!Init, Link!Nothing, Messages, Message, NoFrame, Blank,
       Own

\* A stutter.
LEMMA StutterLink ==
    ASSUME NEW d \in Device, UNCHANGED sessionVars
    PROVE  UNCHANGED Link(d)!linkVars
BY DEF sessionVars, flashVars, sentVars, acceptVars, Link!linkVars, Messages,
       Message

ReportsInv == SessionInv /\ ReceiveInv("RC")

\* A step, or a stutter.
LEMMA StepReports == ReportsInv /\ [SessionNext]_sessionVars => ReportsInv'
<1> SUFFICES ASSUME ReportsInv, [SessionNext]_sessionVars PROVE ReportsInv'
    OBVIOUS
<1>1. SessionInv'
    BY StepSession DEF ReportsInv
<1>2. CASE SessionNext
    <2>1. PowerLoss("RC") \/ Current("RC")' >= Current("RC")
        BY <1>2, CandidateRises DEF ReportsInv, SessionInv, NonceInv
    <2>2. QED
        BY <1>1, <1>2, <2>1, StepReceive, Constants DEF ReportsInv
<1>3. CASE UNCHANGED sessionVars
    BY <1>1, <1>3, StutterReceive, Constants DEF ReportsInv
<1>4. QED
    BY <1>2, <1>3

\* Status and telemetry are never shown twice, out of order or to another boot
\* of the RC than they were sent to, whichever side restarts, however the link
\* delays them, and even if key derivations fail.
THEOREM ReportsImplementLink == SessionSpec => ReportsAreOrdered
<1> USE DEF ReportLink!Init, ReportLink!Next, ReportLink!linkVars,
            ReportLink!Message, ReportLink!Nothing, ReportLink!After,
            ReportLink!Send, ReportLink!Deliver, ReportLink!Start,
            ReportLink!Stop
<1>1. SessionInit => ReportsInv /\ ReportLink!Init
    <2> SUFFICES ASSUME SessionInit PROVE ReportsInv /\ ReportLink!Init
        OBVIOUS
    <2>1. Link("RC")!Init
        BY InitLink, Constants
    <2>2. QED
        BY <2>1, InitSession, InitReceive, Constants
           DEF ReportsInv, Link!Init, Link!Nothing
<1>2. ReportsInv /\ [SessionNext]_sessionVars =>
          [ReportLink!Next]_(ReportLink!linkVars)
    <2> SUFFICES ASSUME ReportsInv, [SessionNext]_sessionVars
                 PROVE  [ReportLink!Next]_(ReportLink!linkVars)
        OBVIOUS
    <2>1. Link("RC")!Next \/ UNCHANGED Link("RC")!linkVars
        BY StepReports, LinkMoves, StutterLink, Constants DEF ReportsInv
    <2>2. QED
        BY <2>1
           DEF Link!Next, Link!linkVars, Link!Message, Link!After, Link!Send,
               Link!Deliver, Link!Start, Link!Stop
<1>3. QED
    BY <1>1, <1>2, StepReports, PTL
       DEF SessionSpec, ReportsAreOrdered, ReportLink!Spec

ControlInv == SessionInv /\ AskedInv /\ AuthInv /\ ReceiveInv("GW")

\* The initial states.
LEMMA InitControl == SessionInit => ControlInv
<1> SUFFICES ASSUME SessionInit PROVE ControlInv
    OBVIOUS
<1>1. AskedInv
    BY InitFresh DEF FreshInv
<1>2. AuthInv
    BY DEF SessionInit, AuthInv
<1>3. QED
    BY <1>1, <1>2, InitSession, InitReceive, Constants DEF ControlInv

\* A step, or a stutter, when derivations succeed.
LEMMA StepControl ==
    ASSUME ~DeriveFails
    PROVE  ControlInv /\ [SessionNext]_sessionVars => ControlInv'
<1> SUFFICES ASSUME ControlInv, [SessionNext]_sessionVars PROVE ControlInv'
    OBVIOUS
<1>1. SessionInv'
    BY StepSession DEF ControlInv
<1>2. CASE SessionNext
    <2>1. AskedInv' /\ AuthInv'
        BY <1>2, StepAsked, StepAuth DEF ControlInv
    <2>2. ~GatewayDeriveFails
        BY DEF GatewayDeriveFails
    <2>3. PowerLoss("GW") \/ Current("GW")' >= Current("GW")
        BY <1>2, <2>2, StepAuth DEF ControlInv
    <2>4. QED
        BY <1>1, <1>2, <2>1, <2>3, StepReceive, Constants DEF ControlInv
<1>3. CASE UNCHANGED sessionVars
    <2>1. AskedInv' /\ AuthInv'
        BY <1>3 DEF ControlInv, AskedInv, AuthInv, sessionVars, flashVars,
                    gatewayVars, sentVars
    <2>2. QED
        BY <1>1, <1>3, <2>1, StutterReceive, Constants DEF ControlInv
<1>4. QED
    BY <1>2, <1>3

\* No control packet is obeyed twice, after a later one or by another boot of
\* the gateway than it was sent to, whichever side restarts, if no key
\* derivation fails: a failed one makes the gateway forget which RC session it
\* has had (drone_gateway/main/main.c:3812).
THEOREM ControlImplementsLink ==
    ASSUME ~DeriveFails
    PROVE  SessionSpec => ControlIsOrdered
<1>1. SessionInit => ControlInv /\ ControlLink!Init
    <2> SUFFICES ASSUME SessionInit PROVE ControlInv /\ ControlLink!Init
        OBVIOUS
    <2>1. Link("GW")!Init
        BY InitLink, Constants
    <2>2. QED
        BY <2>1, InitControl
           DEF Link!Init, Link!Nothing, ControlLink!Init, ControlLink!Nothing
<1>2. ControlInv /\ [SessionNext]_sessionVars => ControlInv'
    BY StepControl
<1>3. ControlInv /\ [SessionNext]_sessionVars =>
          [ControlLink!Next]_(ControlLink!linkVars)
    <2> SUFFICES ASSUME ControlInv, [SessionNext]_sessionVars
                 PROVE  [ControlLink!Next]_(ControlLink!linkVars)
        OBVIOUS
    <2>1. Link("GW")!Next \/ UNCHANGED Link("GW")!linkVars
        BY <1>2, LinkMoves, StutterLink, Constants DEF ControlInv
    <2>2. QED
        BY <2>1
           DEF Link!Next, Link!linkVars, Link!Message, Link!After, Link!Send,
               Link!Deliver, Link!Start, Link!Stop, ControlLink!Next,
               ControlLink!linkVars, ControlLink!Message, ControlLink!After,
               ControlLink!Send, ControlLink!Deliver, ControlLink!Start,
               ControlLink!Stop
<1>4. QED
    BY <1>1, <1>2, <1>3, PTL
       DEF SessionSpec, ControlIsOrdered, ControlLink!Spec

\* Under the same condition the gateway never returns to an earlier RC session
\* while it stays on.
THEOREM RcSessionsAlwaysRise ==
    ASSUME ~DeriveFails
    PROVE  SessionSpec => RcSessionsNeverGoBack
<1>1. ControlInv /\ [SessionNext]_sessionVars => ControlInv'
    BY StepControl
<1>2. ControlInv /\ [SessionNext]_sessionVars =>
          [session'["GW"] = session["GW"] =>
              lastSession'["GW"] >= lastSession["GW"]]_sessionVars
    <2> SUFFICES ASSUME ControlInv, SessionNext, session'["GW"] = session["GW"]
                 PROVE  lastSession'["GW"] >= lastSession["GW"]
        OBVIOUS
    <2>1. SessionTypeOK /\ RiseInv("GW") /\ SessionInv
        BY DEF ControlInv, ReceiveInv, SessionInv, NonceInv
    <2>2. lastSession["GW"] \in Nat
        BY <2>1, Constants DEF SessionTypeOK
    <2>3. CASE \E f \in network : Hears("GW", f)
        <3>1. PICK f \in network : Hears("GW", f)
            BY <2>3
        <3>2. f.session = Current("GW") /\ Accept("GW", f)
            BY <2>1, <3>1, Accepted, Constants
        <3>3. lastSession'["GW"] = Current("GW")
            BY <2>1, <3>2, Constants DEF Accept, SessionTypeOK
        <3>4. Current("GW") \in Nat
            BY <2>1, Constants DEF Current, SessionTypeOK
        <3>5. QED
            BY <2>1, <2>2, <3>3, <3>4 DEF RiseInv
    <2>4. CASE lastSession'["GW"] = lastSession["GW"]
        BY <2>2, <2>4
    <2>5. CASE session'["GW"] = 0 /\ lastSession'["GW"] = 0
        BY <2>1, <2>2, <2>5 DEF RiseInv
    <2>6. QED
        BY <2>1, <2>3, <2>4, <2>5, ReceiveMoves, Constants
<1>3. QED
    BY InitControl, <1>1, <1>2, PTL DEF SessionSpec, RcSessionsNeverGoBack
=============================================================================
