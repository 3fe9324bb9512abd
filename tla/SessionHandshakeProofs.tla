----------------------- MODULE SessionHandshakeProofs -----------------------
(***************************************************************************)
(* Theorems about the session handshake, for every range of the session    *)
(* and sequence numbers and every length of the history.                   *)
(***************************************************************************)
EXTENDS SessionHandshake, SequenceTheorems, TLAPS

(***************************************************************************)
(* Types                                                                   *)
(***************************************************************************)

\* A device that is not on has its statics' initial values.
Off(d) ==
    /\ session[d] = 0
    /\ keys[d] = Blank
    /\ ~operational[d]
    /\ tx[d].step = "idle"
    /\ d = "RC" => candidate = 0
    /\ d = "GW" => deriving = 0 /\ ~keysReady

\* A session number is published only as the last one reserved.
BootInv ==
    \A d \in Device :
        /\ power[d] = "on" => session[d] = stored[d]
        /\ power[d] # "off" => stored[d] # 0
        /\ power[d] # "on" => Off(d)
        /\ tx[d].step # "idle" => tx[d].seq # 0

\* A counter stays within its width; 0 is exhausted.
LEMMA SequenceRange ==
    ASSUME NEW max \in Nat \ {0}, NEW n \in 0..max
    PROVE  NextSeq(n, max) \in 0..max
BY DEF NextSeq

\* The history stays a sequence of session numbers.
LEMMA RememberType ==
    ASSUME SessionTypeOK, NEW d \in Device, NEW s \in 1..SessionMax
    PROVE  Remember(d, s) \in Seq(1..SessionMax)
<1> DEFINE h == history[d]
<1>1. h \in Seq(1..SessionMax)
    BY DEF SessionTypeOK
<1>2. CASE Len(h) < HistoryLen
    <2>1. Append(h, s) \in Seq(1..SessionMax)
        BY <1>1
    <2>2. QED
        BY <1>1, <1>2, <2>1 DEF Remember
<1>3. CASE ~(Len(h) < HistoryLen)
    <2>1. h # <<>>
        <3>1. Len(<<>>) = 0 /\ ~(0 < HistoryLen) = FALSE
            BY SizeAssumption
        <3>2. QED
            BY <1>3, <3>1
    <2>2. Tail(h) \in Seq(1..SessionMax)
        BY <1>1, <2>1, HeadTailProperties
    <2>3. Append(Tail(h), s) \in Seq(1..SessionMax)
        BY <2>2
    <2>4. QED
        BY <1>1, <1>3, <2>3 DEF Remember
<1>4. QED
    BY <1>2, <1>3

\* Only a published session sends, so what it sends is a frame.
LEMMA SendFrameType ==
    ASSUME SessionTypeOK, NEW d \in Device,
           NEW type \in {"HELLO", "CONFIRM", "CONTROL", "REPORT"},
           NEW n \in Nat \ {0}, NEW pair \in Pair, NEW drawn \in Pair,
           session[d] # 0, SendFrame(d, type, n, pair, drawn)
    PROVE  network' \in SUBSET Frame /\ reused' \in BOOLEAN
<1> DEFINE f == [from |-> d, type |-> type, session |-> session[d],
                 seq |-> n, pair |-> pair, drawn |-> drawn]
<1>1. session[d] \in 1..SessionMax
    BY SizeAssumption DEF SessionTypeOK
<1>2. f \in Frame
    BY <1>1 DEF Frame
<1>3. network' = network \cup {f}
    BY DEF SendFrame
<1>4. reused' \in BOOLEAN
    BY DEF SendFrame, SessionTypeOK
<1>5. QED
    BY <1>2, <1>3, <1>4 DEF SessionTypeOK

\* The statics as the program starts them.
LEMMA InitType == SessionInit => SessionTypeOK /\ BootInv
<1> SUFFICES ASSUME SessionInit PROVE SessionTypeOK /\ BootInv
    OBVIOUS
<1>1. Blank \in Pair /\ NoFrame \in Frame \cup {NoFrame}
    BY SizeAssumption DEF Blank, Pair
<1>2. <<>> \in Seq(1..SessionMax)
    OBVIOUS
<1>3. SessionTypeOK
    <2>1. /\ history \in [Device -> Seq(1..SessionMax)]
          /\ latest \in [Device -> Frame \cup {NoFrame}]
        BY <1>1, <1>2 DEF SessionInit
    <2>2. tx \in [Device -> [step : {"idle", "seal", "send"},
                            seq : 0..TrafficMax, drawn : Pair]]
        BY <1>1, SizeAssumption DEF SessionInit, Idle
    <2>3. network \in SUBSET Frame /\ proven \in SUBSET Pair
        BY DEF SessionInit
    <2>4. /\ keys \in [Device -> Pair]
          /\ power \in [Device -> {"off", "reserved", "on"}]
        BY <1>1 DEF SessionInit
    <2>5. /\ operational \in [Device -> BOOLEAN] /\ keysReady \in BOOLEAN
          /\ reused \in BOOLEAN
        BY DEF SessionInit
    <2>6. /\ stored \in [Device -> 0..SessionMax]
          /\ session \in [Device -> 0..SessionMax]
          /\ helloSeq \in [Device -> 0..HandshakeMax]
          /\ confirmSeq \in 0..HandshakeMax
          /\ trafficSeq \in [Device -> 0..TrafficMax]
          /\ candidate \in 0..SessionMax
          /\ authenticated \in 0..SessionMax
          /\ deriving \in 0..SessionMax
          /\ lastSession \in [Device -> 0..SessionMax]
          /\ lastSeq \in [Device -> Nat]
        BY SizeAssumption DEF SessionInit
    <2>7. QED
        BY <2>1, <2>2, <2>3, <2>4, <2>5, <2>6 DEF SessionTypeOK
<1>4. BootInv
    BY DEF SessionInit, BootInv, Off, Idle
<1>5. QED
    BY <1>3, <1>4

\* One case per action, for a goal about a step.
LEMMA StepCases ==
    ASSUME SessionNext
    PROVE  \/ \E d \in Device :
                 \/ Reserve(d) \/ Publish(d) \/ PowerLoss(d)
                 \/ StartTraffic(d) \/ SealTraffic(d) \/ SendTraffic(d)
           \/ GatewayHello \/ RcHello \/ GatewayDerives \/ GatewayDeriveFails
           \/ \E f \in network :
                 \/ GatewayHearsHelloAgain(f) \/ GatewayHearsHello(f)
                 \/ GatewayHearsControl(f) \/ RcHearsHello(f)
                 \/ RcHearsConfirm(f) \/ RcHearsReport(f)
BY DEF SessionNext, GatewayHears, RcHears

LEMMA Constants ==
    /\ "RC" \in Device /\ "GW" \in Device /\ "RC" # "GW"
    /\ Blank \in Pair
    /\ Idle \in [step : {"idle", "seal", "send"}, seq : 0..TrafficMax,
                 drawn : Pair]
    /\ \A r, g \in 0..SessionMax : <<r, g>> \in Pair
BY SizeAssumption DEF Device, Blank, Pair, Idle

\* The ranges of the session numbers.
LEMMA FlashType ==
    ASSUME SessionTypeOK, NEW d \in Device
    PROVE  stored[d] \in 0..SessionMax /\ session[d] \in 0..SessionMax
<1>1. /\ stored \in [Device -> 0..SessionMax]
      /\ session \in [Device -> 0..SessionMax]
    BY DEF SessionTypeOK
<1>2. QED
    BY <1>1

\* The ranges of the counters that give out sequence numbers.
LEMMA CounterRange ==
    ASSUME SessionTypeOK
    PROVE  /\ helloSeq["RC"] \in 0..HandshakeMax
           /\ helloSeq["GW"] \in 0..HandshakeMax
           /\ confirmSeq \in 0..HandshakeMax
<1>1. helloSeq \in [Device -> 0..HandshakeMax]
    BY DEF SessionTypeOK
<1>2. confirmSeq \in 0..HandshakeMax
    BY DEF SessionTypeOK
<1>3. QED
    BY <1>1, <1>2 DEF Device

\* A CONFIRM is a frame, or the counter is exhausted and nothing is sent.
LEMMA SendConfirmType ==
    ASSUME SessionTypeOK, NEW r \in 0..SessionMax, session["GW"] # 0,
           SendConfirm(r)
    PROVE  /\ network' \in SUBSET Frame /\ reused' \in BOOLEAN
           /\ confirmSeq' \in 0..HandshakeMax
<1>1. CASE confirmSeq = 0
    BY <1>1 DEF SendConfirm, SessionTypeOK, sentVars
<1>2. CASE confirmSeq # 0
    <2>1. confirmSeq \in Nat \ {0} /\ <<r, session["GW"]>> \in Pair
        BY <1>2, Constants, CounterRange, FlashType, SizeAssumption
    <2>2. network' \in SUBSET Frame /\ reused' \in BOOLEAN
        BY <1>2, <2>1, Constants, SendFrameType DEF SendConfirm
    <2>3. confirmSeq' \in 0..HandshakeMax
        BY <1>2, SequenceRange, SizeAssumption DEF SendConfirm, SessionTypeOK
    <2>4. QED
        BY <2>2, <2>3
<1>3. QED
    BY <1>1, <1>2

\* No action leaves the types.
LEMMA StepType ==
    ASSUME SessionTypeOK, BootInv, SessionNext
    PROVE  SessionTypeOK'
<1> USE DEF flashVars, counterVars, rcVars, gatewayVars, keyVars,
            receiveVars, acceptVars, sentVars
<1>1. ASSUME NEW d \in Device, Reserve(d) PROVE SessionTypeOK'
    <2>1. stored' \in [Device -> 0..SessionMax]
        <3>1. /\ stored \in [Device -> 0..SessionMax]
              /\ stored[d] < SessionMax
              /\ stored' = [stored EXCEPT ![d] = @ + 1]
            BY <1>1 DEF Reserve, SessionTypeOK
        <3>2. stored[d] + 1 \in 0..SessionMax
            BY <3>1, FlashType, SizeAssumption
        <3>3. QED
            BY <3>1, <3>2
    <2>2. power' \in [Device -> {"off", "reserved", "on"}]
        BY <1>1 DEF Reserve, SessionTypeOK
    <2>3. QED
        BY <1>1, <2>1, <2>2 DEF Reserve, SessionTypeOK
<1>2. ASSUME NEW d \in Device, Publish(d) PROVE SessionTypeOK'
    BY <1>2 DEF Publish, SessionTypeOK
<1>3. ASSUME NEW d \in Device, PowerLoss(d) PROVE SessionTypeOK'
    <2>1. /\ history' \in [Device -> Seq(1..SessionMax)]
          /\ tx' \in [Device -> [step : {"idle", "seal", "send"},
                                 seq : 0..TrafficMax, drawn : Pair]]
          /\ keys' \in [Device -> Pair]
          /\ operational' \in [Device -> BOOLEAN]
        <3>1. history' \in [Device -> Seq(1..SessionMax)]
            BY <1>3 DEF PowerLoss, SessionTypeOK
        <3>2. /\ tx' \in [Device -> [step : {"idle", "seal", "send"},
                                     seq : 0..TrafficMax, drawn : Pair]]
              /\ keys' \in [Device -> Pair]
            BY <1>3, Constants DEF PowerLoss, SessionTypeOK
        <3>3. operational' \in [Device -> BOOLEAN]
            BY <1>3 DEF PowerLoss, SessionTypeOK
        <3>4. QED
            BY <3>1, <3>2, <3>3
    <2>2. /\ keysReady' \in BOOLEAN
          /\ UNCHANGED <<stored, network, latest, reused, proven>>
        BY <1>3 DEF PowerLoss, SessionTypeOK
    <2>3. /\ power' \in [Device -> {"off", "reserved", "on"}]
          /\ session' \in [Device -> 0..SessionMax]
          /\ helloSeq' \in [Device -> 0..HandshakeMax]
          /\ trafficSeq' \in [Device -> 0..TrafficMax]
          /\ lastSession' \in [Device -> 0..SessionMax]
          /\ lastSeq' \in [Device -> Nat]
        <3>1. /\ power' \in [Device -> {"off", "reserved", "on"}]
              /\ lastSeq' \in [Device -> Nat]
            BY <1>3 DEF PowerLoss, SessionTypeOK
        <3>2. /\ session' \in [Device -> 0..SessionMax]
              /\ lastSession' \in [Device -> 0..SessionMax]
            BY <1>3, SizeAssumption DEF PowerLoss, SessionTypeOK
        <3>3. /\ helloSeq' \in [Device -> 0..HandshakeMax]
              /\ trafficSeq' \in [Device -> 0..TrafficMax]
            BY <1>3, SizeAssumption DEF PowerLoss, SessionTypeOK
        <3>4. QED
            BY <3>1, <3>2, <3>3
    <2>4. /\ confirmSeq' \in 0..HandshakeMax
          /\ candidate' \in 0..SessionMax
          /\ authenticated' \in 0..SessionMax
          /\ deriving' \in 0..SessionMax
        <3>1. /\ confirmSeq' \in {confirmSeq, 1}
              /\ candidate' \in {candidate, 0}
              /\ authenticated' \in {authenticated, 0}
              /\ deriving' \in {deriving, 0}
            BY <1>3 DEF PowerLoss
        <3>2. /\ confirmSeq \in 0..HandshakeMax /\ candidate \in 0..SessionMax
              /\ authenticated \in 0..SessionMax /\ deriving \in 0..SessionMax
            BY DEF SessionTypeOK
        <3>3. QED
            BY <3>1, <3>2, SizeAssumption
    <2>5. QED
        BY <2>1, <2>2, <2>3, <2>4 DEF SessionTypeOK
<1>4. ASSUME NEW d \in Device, StartTraffic(d) PROVE SessionTypeOK'
    BY <1>4, SizeAssumption, SequenceRange DEF StartTraffic, SessionTypeOK
<1>5. ASSUME NEW d \in Device, SealTraffic(d) PROVE SessionTypeOK'
    <2>1. tx' \in [Device -> [step : {"idle", "seal", "send"},
                              seq : 0..TrafficMax, drawn : Pair]]
        BY <1>5, Constants DEF SealTraffic, SessionTypeOK
    <2>2. QED
        BY <1>5, <2>1 DEF SealTraffic, SessionTypeOK
<1>6. ASSUME NEW d \in Device, SendTraffic(d) PROVE SessionTypeOK'
    <2> DEFINE type == IF d = "RC" THEN "CONTROL" ELSE "REPORT"
    <2>1. /\ SendFrame(d, type, tx[d].seq, keys[d], tx[d].drawn)
          /\ type \in {"HELLO", "CONFIRM", "CONTROL", "REPORT"}
          /\ tx[d].seq \in Nat \ {0} /\ keys[d] \in Pair
          /\ tx[d].drawn \in Pair /\ session[d] # 0
        BY <1>6, SizeAssumption DEF SendTraffic, SessionTypeOK, BootInv, Off
    <2>2. network' \in SUBSET Frame /\ reused' \in BOOLEAN
        BY <2>1, SendFrameType
    <2>3. tx' \in [Device -> [step : {"idle", "seal", "send"},
                              seq : 0..TrafficMax, drawn : Pair]]
        BY <1>6, Constants DEF SendTraffic, SessionTypeOK
    <2>4. QED
        BY <1>6, <2>2, <2>3 DEF SendTraffic, SessionTypeOK
<1>7. ASSUME GatewayHello PROVE SessionTypeOK'
    <2> DEFINE pair == <<0, session["GW"]>>
    <2>1. pair \in Pair
        BY Constants, FlashType, SizeAssumption
    <2>2. helloSeq["GW"] \in Nat \ {0} /\ session["GW"] # 0
        BY <1>7, Constants, SizeAssumption DEF GatewayHello, SessionTypeOK
    <2>3. network' \in SUBSET Frame /\ reused' \in BOOLEAN
        BY <1>7, <2>1, <2>2, Constants, SendFrameType DEF GatewayHello
    <2>4. helloSeq' \in [Device -> 0..HandshakeMax]
        BY <1>7, Constants, SequenceRange, SizeAssumption
           DEF GatewayHello, SessionTypeOK
    <2>5. QED
        BY <1>7, <2>3, <2>4 DEF GatewayHello, SessionTypeOK
<1>8. ASSUME RcHello PROVE SessionTypeOK'
    <2> DEFINE pair == <<session["RC"], candidate>>
    <2>1. pair \in Pair
        BY Constants, SizeAssumption DEF SessionTypeOK
    <2>2. helloSeq["RC"] \in Nat \ {0} /\ session["RC"] # 0
        BY <1>8, Constants, SizeAssumption DEF RcHello, SessionTypeOK
    <2>3. network' \in SUBSET Frame /\ reused' \in BOOLEAN
        BY <1>8, <2>1, <2>2, Constants, SendFrameType DEF RcHello
    <2>4. helloSeq' \in [Device -> 0..HandshakeMax]
        BY <1>8, Constants, SequenceRange, SizeAssumption
           DEF RcHello, SessionTypeOK
    <2>5. QED
        BY <1>8, <2>3, <2>4 DEF RcHello, SessionTypeOK
<1>9. ASSUME GatewayDerives PROVE SessionTypeOK'
    <2>1. session["GW"] # 0
        BY <1>9, Constants DEF GatewayDerives, BootInv, Off, SessionTypeOK
    <2>2. /\ network' \in SUBSET Frame /\ reused' \in BOOLEAN
          /\ confirmSeq' \in 0..HandshakeMax
        BY <1>9, <2>1, SendConfirmType DEF GatewayDerives, SessionTypeOK
    <2>3. keys' \in [Device -> Pair]
        BY <1>9, Constants DEF GatewayDerives, SessionTypeOK
    <2>4. keysReady' \in BOOLEAN
        BY <1>9 DEF GatewayDerives
    <2>5. deriving' \in 0..SessionMax /\ authenticated' \in 0..SessionMax
        BY <1>9, SizeAssumption DEF GatewayDerives, SessionTypeOK
    <2>6. QED
        BY <1>9, <2>2, <2>3, <2>4, <2>5 DEF GatewayDerives, SessionTypeOK
<1>10. ASSUME GatewayDeriveFails PROVE SessionTypeOK'
    BY <1>10, SizeAssumption DEF GatewayDeriveFails, SessionTypeOK
<1>11. ASSUME NEW f \in network, GatewayHearsHelloAgain(f) PROVE SessionTypeOK'
    <2>1. /\ network' \in SUBSET Frame /\ reused' \in BOOLEAN
          /\ confirmSeq' \in 0..HandshakeMax
        BY <1>11, SendConfirmType DEF GatewayHearsHelloAgain, SessionTypeOK
    <2>2. QED
        BY <1>11, <2>1 DEF GatewayHearsHelloAgain, SessionTypeOK
<1>12. ASSUME NEW f \in network, GatewayHearsHello(f) PROVE SessionTypeOK'
    BY <1>12, SizeAssumption
       DEF GatewayHearsHello, SessionTypeOK, Pair, Blank, Frame
<1>13. ASSUME NEW f \in network, GatewayHearsControl(f) PROVE SessionTypeOK'
    BY <1>13, SizeAssumption, RememberType
       DEF GatewayHearsControl, Accept, SessionTypeOK, Frame, Device
<1>14. ASSUME NEW f \in network, RcHearsHello(f) PROVE SessionTypeOK'
    <2>1. keys' \in [Device -> Pair] /\ operational' \in [Device -> BOOLEAN]
        BY <1>14, Constants DEF RcHearsHello, SessionTypeOK
    <2>2. candidate' \in 0..SessionMax
        BY <1>14 DEF RcHearsHello, SessionTypeOK, Frame
    <2>3. QED
        BY <1>14, <2>1, <2>2 DEF RcHearsHello, SessionTypeOK
<1>15. ASSUME NEW f \in network, RcHearsConfirm(f) PROVE SessionTypeOK'
    BY <1>15 DEF RcHearsConfirm, SessionTypeOK, Frame
<1>16. ASSUME NEW f \in network, RcHearsReport(f) PROVE SessionTypeOK'
    BY <1>16, SizeAssumption, RememberType
       DEF RcHearsReport, Accept, SessionTypeOK, Frame, Device
<1>17. QED
    BY StepCases, <1>1, <1>2, <1>3, <1>4, <1>5, <1>6, <1>7, <1>8, <1>9,
       <1>10, <1>11, <1>12, <1>13, <1>14, <1>15, <1>16

\* A device that is not on keeps nothing but flash.
LEMMA StepBoot ==
    ASSUME SessionTypeOK, BootInv, SessionNext
    PROVE  BootInv'
<1> USE DEF flashVars, counterVars, rcVars, gatewayVars, keyVars,
            receiveVars, acceptVars, sentVars
<1>1. ASSUME NEW d \in Device, Reserve(d) PROVE BootInv'
    <2>1. /\ stored'[d] = stored[d] + 1 /\ power'[d] = "reserved"
          /\ \A e \in Device : e # d =>
                 stored'[e] = stored[e] /\ power'[e] = power[e]
          /\ UNCHANGED <<session, keys, operational, tx, candidate, deriving,
                         keysReady>>
          /\ power[d] = "off"
        BY <1>1 DEF Reserve, SessionTypeOK
    <2>2. stored[d] + 1 # 0
        BY FlashType
    <2>3. \A e \in Device : Off(e) => Off(e)'
        BY <2>1 DEF Off
    <2>4. QED
        BY <2>1, <2>2, <2>3 DEF BootInv
<1>2. ASSUME NEW d \in Device, Publish(d) PROVE BootInv'
    BY <1>2 DEF Publish, SessionTypeOK, BootInv, Off
<1>3. ASSUME NEW d \in Device, PowerLoss(d) PROVE BootInv'
    BY <1>3 DEF PowerLoss, SessionTypeOK, BootInv, Off, Idle
<1>4. ASSUME NEW d \in Device, StartTraffic(d) PROVE BootInv'
    BY <1>4 DEF StartTraffic, SessionTypeOK, BootInv, Off
<1>5. ASSUME NEW d \in Device, SealTraffic(d) PROVE BootInv'
    BY <1>5 DEF SealTraffic, SessionTypeOK, BootInv, Off, Idle
<1>6. ASSUME NEW d \in Device, SendTraffic(d) PROVE BootInv'
    BY <1>6 DEF SendTraffic, SessionTypeOK, BootInv, Off, Idle
<1>7. ASSUME GatewayHello PROVE BootInv'
    BY <1>7 DEF GatewayHello, BootInv, Off
<1>8. ASSUME RcHello PROVE BootInv'
    BY <1>8 DEF RcHello, BootInv, Off
<1>9. ASSUME GatewayDerives PROVE BootInv'
    BY <1>9, Constants DEF GatewayDerives, SessionTypeOK, BootInv, Off
<1>10. ASSUME GatewayDeriveFails PROVE BootInv'
    BY <1>10 DEF GatewayDeriveFails, BootInv, Off
<1>11. ASSUME NEW f \in network, GatewayHearsHelloAgain(f) PROVE BootInv'
    BY <1>11 DEF GatewayHearsHelloAgain, BootInv, Off
<1>12. ASSUME NEW f \in network, GatewayHearsHello(f) PROVE BootInv'
    BY <1>12 DEF GatewayHearsHello, SessionTypeOK, BootInv, Off
<1>13. ASSUME NEW f \in network, GatewayHearsControl(f) PROVE BootInv'
    BY <1>13 DEF GatewayHearsControl, SessionTypeOK, BootInv, Off
<1>14. ASSUME NEW f \in network, RcHearsHello(f) PROVE BootInv'
    BY <1>14 DEF RcHearsHello, SessionTypeOK, BootInv, Off
<1>15. ASSUME NEW f \in network, RcHearsConfirm(f) PROVE BootInv'
    BY <1>15 DEF RcHearsConfirm, SessionTypeOK, BootInv, Off
<1>16. ASSUME NEW f \in network, RcHearsReport(f) PROVE BootInv'
    BY <1>16 DEF RcHearsReport, BootInv, Off
<1>17. QED
    BY StepCases, <1>1, <1>2, <1>3, <1>4, <1>5, <1>6, <1>7, <1>8, <1>9,
       <1>10, <1>11, <1>12, <1>13, <1>14, <1>15, <1>16

(***************************************************************************)
(* Nonces                                                                  *)
(***************************************************************************)

\* n was taken from a counter that stands at c now.
Below(n, c) == c = 0 \/ n < c

\* The frame f comes from a session already reserved; if that session is in
\* use, f took its sequence number from the counter of its kind.
Sent(f) ==
    /\ f.session <= stored[f.from]
    /\ power[f.from] = "reserved" => f.session # stored[f.from]
    /\ f.type = "CONTROL" => f.from = "RC"
    /\ f.type \in {"CONFIRM", "REPORT"} => f.from = "GW"
    /\ f.session = session[f.from] =>
          /\ f.type = "HELLO" => Below(f.seq, helloSeq[f.from])
          /\ f.type = "CONFIRM" => Below(f.seq, confirmSeq)
          /\ f.type \in {"CONTROL", "REPORT"} =>
                /\ Below(f.seq, trafficSeq[f.from])
                /\ tx[f.from].step # "idle" => f.seq < tx[f.from].seq

SentInv ==
    /\ \A f \in network : Sent(f)
    /\ \A d \in Device :
          tx[d].step # "idle" => Below(tx[d].seq, trafficSeq[d])

\* What was below the counter stays below it; so does what it gave out.
LEMMA BelowNext ==
    ASSUME NEW max \in Nat \ {0}, NEW n \in 1..max
    PROVE  /\ Below(n, NextSeq(n, max))
           /\ \A m \in Nat : Below(m, n) => m < n /\ Below(m, NextSeq(n, max))
BY DEF Below, NextSeq

\* The facts about a frame in "network" that its type gives.
LEMMA FrameType ==
    ASSUME SessionTypeOK, NEW f \in network
    PROVE  /\ f.from \in Device
           /\ f.type \in {"HELLO", "CONFIRM", "CONTROL", "REPORT"}
           /\ f.session \in 1..SessionMax /\ f.seq \in Nat \ {0}
           /\ f.pair \in Pair /\ f.drawn \in Pair
BY DEF SessionTypeOK, Frame

\* A device with a session is on, and its session is the last one reserved.
LEMMA InUse ==
    ASSUME BootInv, NEW d \in Device, session[d] # 0
    PROVE  session[d] = stored[d] /\ power[d] = "on"
BY DEF BootInv, Off

\* A frame SendFrame adds is the one it describes.
LEMMA SentFrame ==
    ASSUME NEW d, NEW type, NEW n, NEW pair, NEW drawn,
           SendFrame(d, type, n, pair, drawn), NEW f \in network' \ network
    PROVE  /\ f.from = d /\ f.type = type /\ f.session = session[d]
           /\ f.seq = n /\ f.pair = pair
BY DEF SendFrame

\* A counter is used once for a frame, and starts again only with a new
\* session number.
LEMMA StepSent ==
    ASSUME SessionTypeOK, BootInv, SentInv, SessionNext
    PROVE  SentInv'
<1> USE DEF flashVars, counterVars, rcVars, gatewayVars, keyVars,
            receiveVars, acceptVars, sentVars
<1>1. ASSUME NEW d \in Device, Reserve(d) PROVE SentInv'
    <2>1. /\ stored \in [Device -> 0..SessionMax]
          /\ power \in [Device -> {"off", "reserved", "on"}]
          /\ stored' = [stored EXCEPT ![d] = @ + 1]
          /\ power' = [power EXCEPT ![d] = "reserved"]
          /\ UNCHANGED <<session, helloSeq, confirmSeq, trafficSeq, tx, network>>
        BY <1>1 DEF Reserve, SessionTypeOK
    <2>2. \A f \in network : /\ f.session <= stored'[f.from]
                             /\ power'[f.from] = "reserved" =>
                                    f.session # stored'[f.from]
        BY <2>1, FrameType DEF SentInv, Sent
    <2>3. QED
        BY <2>1, <2>2 DEF SentInv, Sent
<1>2. ASSUME NEW d \in Device, Publish(d) PROVE SentInv'
    BY <1>2, FrameType DEF Publish, SessionTypeOK, SentInv, Sent
<1>3. ASSUME NEW d \in Device, PowerLoss(d) PROVE SentInv'
    <2>1. /\ power \in [Device -> {"off", "reserved", "on"}]
          /\ session \in [Device -> 0..SessionMax]
          /\ helloSeq \in [Device -> 0..HandshakeMax]
          /\ trafficSeq \in [Device -> 0..TrafficMax]
          /\ tx \in [Device -> [step : {"idle", "seal", "send"},
                                seq : 0..TrafficMax, drawn : Pair]]
          /\ power' = [power EXCEPT ![d] = "off"]
          /\ session' = [session EXCEPT ![d] = 0]
          /\ helloSeq' = [helloSeq EXCEPT ![d] = 1]
          /\ trafficSeq' = [trafficSeq EXCEPT ![d] = 1]
          /\ tx' = [tx EXCEPT ![d] = Idle]
          /\ d = "RC" => UNCHANGED confirmSeq
          /\ UNCHANGED <<stored, network>>
        BY <1>3 DEF PowerLoss, SessionTypeOK
    <2>2. \A f \in network :
              f.session = session'[f.from] => f.from # d
        BY <2>1, FrameType
    <2>3. \A f \in network : f.from # d => f.from = "RC" \/ d = "RC"
        BY FrameType DEF Device
    <2>4. \A f \in network : f.type = "CONFIRM" => f.from = "GW"
        BY DEF SentInv, Sent
    <2>5. \A f \in network :
              /\ f.session <= stored'[f.from]
              /\ power'[f.from] = "reserved" => f.session # stored'[f.from]
        BY <2>1, FrameType DEF SentInv, Sent
    <2>6. ASSUME NEW f \in network, f.session = session'[f.from]
          PROVE  /\ f.type = "HELLO" => Below(f.seq, helloSeq'[f.from])
                 /\ f.type = "CONFIRM" => Below(f.seq, confirmSeq')
                 /\ f.type \in {"CONTROL", "REPORT"} =>
                       /\ Below(f.seq, trafficSeq'[f.from])
                       /\ tx'[f.from].step # "idle" => f.seq < tx'[f.from].seq
        <3>1. f.from # d /\ f.from \in Device
            BY <2>2, <2>6, FrameType
        <3>2. /\ session'[f.from] = session[f.from]
              /\ helloSeq'[f.from] = helloSeq[f.from]
              /\ trafficSeq'[f.from] = trafficSeq[f.from]
              /\ tx'[f.from] = tx[f.from]
            BY <2>1, <3>1
        <3>3. f.type = "CONFIRM" => confirmSeq' = confirmSeq
            BY <2>1, <2>3, <2>4, <3>1 DEF Device
        <3>4. QED
            BY <2>6, <3>2, <3>3 DEF SentInv, Sent
    <2>7. \A e \in Device :
              tx'[e].step # "idle" => Below(tx'[e].seq, trafficSeq'[e])
        BY <2>1 DEF SentInv, Sent, Idle
    <2>8. QED
        BY <2>1, <2>5, <2>6, <2>7 DEF SentInv, Sent
<1>4. ASSUME NEW d \in Device, StartTraffic(d) PROVE SentInv'
    <2>1. trafficSeq[d] \in 1..TrafficMax
        BY <1>4, SizeAssumption DEF StartTraffic, SessionTypeOK
    <2>2. /\ Below(trafficSeq[d], trafficSeq'[d])
          /\ \A m \in Nat : Below(m, trafficSeq[d]) =>
                 m < trafficSeq[d] /\ Below(m, trafficSeq'[d])
        BY <1>4, <2>1, SizeAssumption, BelowNext
           DEF StartTraffic, SessionTypeOK
    <2>3. QED
        BY <1>4, <2>2, FrameType DEF StartTraffic, SessionTypeOK, SentInv, Sent
<1>5. ASSUME NEW d \in Device, SealTraffic(d) PROVE SentInv'
    BY <1>5, FrameType DEF SealTraffic, SessionTypeOK, SentInv, Sent, Idle
<1>6. ASSUME NEW d \in Device, SendTraffic(d) PROVE SentInv'
    <2> DEFINE type == IF d = "RC" THEN "CONTROL" ELSE "REPORT"
    <2>1. SendFrame(d, type, tx[d].seq, keys[d], tx[d].drawn)
        BY <1>6 DEF SendTraffic
    <2>2. session[d] = stored[d] /\ power[d] = "on"
        BY <1>6, InUse DEF SendTraffic, BootInv, Off
    <2>3. UNCHANGED <<stored, power, session, helloSeq, confirmSeq, trafficSeq>>
        BY <1>6 DEF SendTraffic
    <2>4. /\ tx'[d].step = "idle"
          /\ \A e \in Device : e # d => tx'[e] = tx[e]
        BY <1>6 DEF SendTraffic, SessionTypeOK, Idle
    <2>5. Below(tx[d].seq, trafficSeq[d])
        BY <1>6 DEF SendTraffic, SentInv
    <2>6. ASSUME NEW f \in network' \ network PROVE Sent(f)'
        <3>1. /\ f.from = d /\ f.type = type /\ f.session = session[d]
              /\ f.seq = tx[d].seq
            BY <2>1, SentFrame
        <3>2. d = "RC" \/ d = "GW"
            BY DEF Device
        <3>3. QED
            BY <2>2, <2>3, <2>4, <2>5, <3>1, <3>2, FlashType DEF Sent
    <2>7. ASSUME NEW f \in network PROVE Sent(f)'
        <3>1. Sent(f) /\ f.from \in Device
            BY FrameType DEF SentInv
        <3>2. QED
            BY <2>3, <2>4, <3>1 DEF Sent
    <2>8. \A e \in Device :
              tx'[e].step # "idle" => Below(tx'[e].seq, trafficSeq'[e])
        BY <2>3, <2>4 DEF SentInv
    <2>9. QED
        BY <2>6, <2>7, <2>8 DEF SentInv
<1>7. ASSUME NEW d \in Device, NEW pair, NEW drawn, session[d] # 0,
             helloSeq[d] # 0,
             SendFrame(d, "HELLO", helloSeq[d], pair, drawn),
             helloSeq' = [helloSeq EXCEPT ![d] = NextSeq(@, HandshakeMax)],
             UNCHANGED <<stored, power, session, confirmSeq, trafficSeq, tx>>
      PROVE  SentInv'
    <2> DEFINE n == helloSeq[d]
    <2>1. session[d] = stored[d] /\ power[d] = "on"
        BY <1>7, InUse
    <2>2. /\ helloSeq'[d] = NextSeq(n, HandshakeMax)
          /\ \A e \in Device : e # d => helloSeq'[e] = helloSeq[e]
        BY <1>7 DEF SessionTypeOK
    <2>3. /\ Below(n, helloSeq'[d])
          /\ \A m \in Nat : Below(m, n) => Below(m, helloSeq'[d])
        <3>1. n \in 1..HandshakeMax
            BY <1>7, CounterRange, SizeAssumption DEF Device
        <3>2. QED
            BY <2>2, <3>1, BelowNext, SizeAssumption
    <2>4. ASSUME NEW f \in network' \ network PROVE Sent(f)'
        <3>1. f.from = d /\ f.type = "HELLO" /\ f.session = session[d] /\ f.seq = n
            BY <1>7, SentFrame
        <3>2. QED
            BY <1>7, <2>1, <2>3, <3>1, FlashType DEF Sent
    <2>5. ASSUME NEW f \in network PROVE Sent(f)'
        <3>1. Sent(f) /\ f.from \in Device /\ f.seq \in Nat
            BY FrameType DEF SentInv
        <3>2. Below(f.seq, helloSeq[f.from]) => Below(f.seq, helloSeq'[f.from])
            BY <2>2, <2>3, <3>1
        <3>3. QED
            BY <1>7, <3>1, <3>2 DEF Sent
    <2>6. \A e \in Device :
              tx'[e].step # "idle" => Below(tx'[e].seq, trafficSeq'[e])
        BY <1>7 DEF SentInv
    <2>7. QED
        BY <2>4, <2>5, <2>6 DEF SentInv
<1>8. CASE GatewayHello \/ RcHello
    <2>1. CASE GatewayHello
        BY <1>7, <2>1, Constants DEF GatewayHello
    <2>2. CASE RcHello
        BY <1>7, <2>2, Constants DEF RcHello
    <2>3. QED
        BY <1>8, <2>1, <2>2
<1>9. ASSUME NEW r \in 0..SessionMax, SendConfirm(r), session["GW"] # 0,
             UNCHANGED <<stored, power, session, helloSeq, trafficSeq, tx>>
      PROVE  SentInv'
    <2>1. session["GW"] = stored["GW"] /\ power["GW"] = "on"
        BY <1>9, InUse, Constants
    <2>2. confirmSeq # 0 =>
              /\ Below(confirmSeq, confirmSeq')
              /\ \A m \in Nat : Below(m, confirmSeq) => Below(m, confirmSeq')
        <3>1. confirmSeq # 0 => /\ confirmSeq \in 1..HandshakeMax
                                /\ confirmSeq' = NextSeq(confirmSeq, HandshakeMax)
            BY <1>9, CounterRange, SizeAssumption DEF SendConfirm
        <3>2. QED
            BY <3>1, BelowNext, SizeAssumption
    <2>3. ASSUME NEW f \in network' \ network PROVE Sent(f)'
        <3>1. confirmSeq # 0
            BY <1>9 DEF SendConfirm, sentVars
        <3>2. /\ f.from = "GW" /\ f.type = "CONFIRM" /\ f.session = session["GW"]
              /\ f.seq = confirmSeq
            BY <1>9, <3>1, SentFrame DEF SendConfirm
        <3>3. QED
            BY <1>9, <2>1, <2>2, <3>1, <3>2, Constants, FlashType DEF Sent
    <2>4. ASSUME NEW f \in network PROVE Sent(f)'
        <3>1. Sent(f) /\ f.seq \in Nat
            BY FrameType DEF SentInv
        <3>2. confirmSeq = 0 => confirmSeq' = confirmSeq
            BY <1>9 DEF SendConfirm
        <3>3. Below(f.seq, confirmSeq) => Below(f.seq, confirmSeq')
            BY <2>2, <3>1, <3>2
        <3>4. QED
            BY <1>9, <3>1, <3>3 DEF Sent
    <2>5. \A e \in Device :
              tx'[e].step # "idle" => Below(tx'[e].seq, trafficSeq'[e])
        BY <1>9 DEF SentInv
    <2>6. QED
        BY <2>3, <2>4, <2>5 DEF SentInv
<1>10. CASE GatewayDerives
    <2>1. session["GW"] # 0 /\ deriving \in 0..SessionMax
        BY <1>10, Constants DEF GatewayDerives, BootInv, Off, SessionTypeOK
    <2>2. QED
        BY <1>9, <1>10, <2>1 DEF GatewayDerives
<1>11. ASSUME NEW f \in network, GatewayHearsHelloAgain(f) PROVE SentInv'
    BY <1>9, <1>11 DEF GatewayHearsHelloAgain, SessionTypeOK
<1>12. ASSUME UNCHANGED <<flashVars, counterVars, tx, sentVars>>
       PROVE  SentInv'
    BY <1>12 DEF SentInv, Sent
<1>13. QED
    <2>1. (\E f \in network : \/ GatewayHearsHello(f) \/ GatewayHearsControl(f)
                              \/ RcHearsHello(f) \/ RcHearsConfirm(f)
                              \/ RcHearsReport(f))
          \/ GatewayDeriveFails => UNCHANGED <<flashVars, counterVars, tx, sentVars>>
        BY DEF GatewayHearsHello, GatewayHearsControl, RcHearsHello,
               RcHearsConfirm, RcHearsReport, GatewayDeriveFails
    <2>2. QED
        BY StepCases, <1>1, <1>2, <1>3, <1>4, <1>5, <1>6, <1>7, <1>8, <1>10,
           <1>11, <1>12, <2>1

\* A frame whose sequence number no earlier frame of its kind has.
LEMMA FreshNonce ==
    ASSUME NonceUnique, NEW d, NEW type, NEW n, NEW pair, NEW drawn,
           SendFrame(d, type, n, pair, drawn),
           \A g \in network : g.from = d /\ g.type = type
                              /\ g.session = session[d] => g.seq # n
    PROVE  NonceUnique'
<1> DEFINE h == [from |-> d, type |-> type, session |-> session[d],
                 seq |-> n, pair |-> pair, drawn |-> drawn]
<1>1. ~ \E g \in network : SameNonce(h, g)
    BY DEF SameNonce
<1>2. reused' = (reused \/ \E g \in network : SameNonce(h, g))
    BY DEF SendFrame
<1>3. ~reused
    BY DEF NonceUnique
<1>4. ~reused'
    <2> HIDE DEF h
    <2>1. QED
        BY <1>1, <1>2, <1>3, Zenon
<1>5. QED
    BY <1>4 DEF NonceUnique

\* A sender never repeats a nonce.
LEMMA StepNonce ==
    ASSUME SessionTypeOK, BootInv, SentInv, NonceUnique, SessionNext
    PROVE  NonceUnique'
<1> USE DEF flashVars, counterVars, rcVars, gatewayVars, keyVars,
            receiveVars, acceptVars, sentVars
<1>1. ASSUME NEW d \in Device, SendTraffic(d) PROVE NonceUnique'
    <2> DEFINE type == IF d = "RC" THEN "CONTROL" ELSE "REPORT"
    <2>1. /\ tx[d].step = "send" /\ tx[d].seq \in Nat
          /\ SendFrame(d, type, tx[d].seq, keys[d], tx[d].drawn)
        BY <1>1 DEF SendTraffic, SessionTypeOK
    <2>2. \A g \in network : g.from = d /\ g.type = type
                             /\ g.session = session[d] => g.seq # tx[d].seq
        BY <2>1, FrameType DEF SentInv, Sent
    <2>3. QED
        BY <2>1, <2>2, FreshNonce
<1>2. ASSUME NEW d \in Device, NEW pair, NEW drawn, helloSeq[d] # 0,
             SendFrame(d, "HELLO", helloSeq[d], pair, drawn)
      PROVE  NonceUnique'
    <2>1. helloSeq[d] \in Nat \ {0}
        BY <1>2 DEF SessionTypeOK
    <2>2. \A g \in network : g.from = d /\ g.type = "HELLO"
                             /\ g.session = session[d] => g.seq # helloSeq[d]
        BY <2>1, FrameType DEF SentInv, Sent, Below
    <2>3. QED
        BY <1>2, <2>2, FreshNonce
<1>3. CASE GatewayHello \/ RcHello
    <2>1. CASE GatewayHello
        BY <1>2, <2>1, Constants DEF GatewayHello
    <2>2. CASE RcHello
        BY <1>2, <2>2, Constants DEF RcHello
    <2>3. QED
        BY <1>3, <2>1, <2>2
<1>4. ASSUME NEW r, SendConfirm(r) PROVE NonceUnique'
    <2>1. CASE confirmSeq = 0
        BY <1>4, <2>1 DEF SendConfirm, NonceUnique
    <2>2. CASE confirmSeq # 0
        <3>1. confirmSeq \in Nat \ {0}
            BY <2>2 DEF SessionTypeOK
        <3>2. \A g \in network : g.from = "GW" /\ g.type = "CONFIRM"
                  /\ g.session = session["GW"] => g.seq # confirmSeq
            BY <3>1, FrameType DEF SentInv, Sent, Below
        <3>3. SendFrame("GW", "CONFIRM", confirmSeq, <<r, session["GW"]>>,
                        <<r, session["GW"]>>)
            BY <1>4, <2>2 DEF SendConfirm
        <3>4. QED
            BY <3>2, <3>3, FreshNonce
    <2>3. QED
        BY <2>1, <2>2
<1>5. ASSUME UNCHANGED reused PROVE NonceUnique'
    BY <1>5 DEF NonceUnique
<1>6. ASSUME NEW d \in Device,
             \/ Reserve(d) \/ Publish(d) \/ PowerLoss(d)
             \/ StartTraffic(d) \/ SealTraffic(d)
      PROVE  UNCHANGED reused
    BY <1>6 DEF Reserve, Publish, PowerLoss, StartTraffic, SealTraffic
<1>7. ASSUME NEW f \in network,
             \/ GatewayHearsHello(f) \/ GatewayHearsControl(f)
             \/ RcHearsHello(f) \/ RcHearsConfirm(f) \/ RcHearsReport(f)
      PROVE  UNCHANGED reused
    BY <1>7 DEF GatewayHearsHello, GatewayHearsControl, RcHearsHello,
                RcHearsConfirm, RcHearsReport
<1>8. GatewayDeriveFails => UNCHANGED reused
    BY DEF GatewayDeriveFails
<1>9. ASSUME NEW f \in network, GatewayHearsHelloAgain(f) PROVE NonceUnique'
    BY <1>4, <1>9 DEF GatewayHearsHelloAgain
<1>10. CASE GatewayDerives
    BY <1>4, <1>10 DEF GatewayDerives
<1>11. QED
    BY StepCases, <1>1, <1>2, <1>3, <1>5, <1>6, <1>7, <1>8, <1>9, <1>10

(***************************************************************************)
(* The theorems                                                            *)
(***************************************************************************)

NonceInv == SessionTypeOK /\ BootInv /\ SentInv /\ NonceUnique

\* The initial states.
LEMMA InitNonce == SessionInit => NonceInv
<1> SUFFICES ASSUME SessionInit PROVE NonceInv
    OBVIOUS
<1>1. SentInv
    BY DEF SessionInit, SentInv, Sent, Idle
<1>2. NonceUnique
    BY DEF SessionInit, NonceUnique
<1>3. QED
    BY <1>1, <1>2, InitType DEF NonceInv

\* A step, or a stutter.
LEMMA StepNonceInv == NonceInv /\ [SessionNext]_sessionVars => NonceInv'
<1> SUFFICES ASSUME NonceInv, [SessionNext]_sessionVars PROVE NonceInv'
    OBVIOUS
<1>1. CASE SessionNext
    BY <1>1, StepType, StepBoot, StepSent, StepNonce DEF NonceInv
<1>2. CASE UNCHANGED sessionVars
    <2> USE DEF sessionVars, flashVars, counterVars, keyVars, rcVars,
                gatewayVars, receiveVars, sentVars, acceptVars
    <2>1. SessionTypeOK'
        BY <1>2 DEF NonceInv, SessionTypeOK
    <2>2. BootInv'
        BY <1>2 DEF NonceInv, BootInv, Off
    <2>3. SentInv'
        BY <1>2 DEF NonceInv, SentInv, Sent
    <2>4. NonceUnique'
        BY <1>2 DEF NonceInv, NonceUnique
    <2>5. QED
        BY <2>1, <2>2, <2>3, <2>4 DEF NonceInv
<1>3. QED
    BY <1>1, <1>2

\* The variables keep their types, and a device that is not on holds nothing.
THEOREM SessionTypeCorrect == SessionSpec => []SessionTypeOK
<1>1. NonceInv => SessionTypeOK
    BY DEF NonceInv
<1>2. QED
    BY InitNonce, StepNonceInv, <1>1, PTL DEF SessionSpec

\* However many boots, sessions and frames: no nonce encrypts twice.
THEOREM NonceNeverReused == SessionSpec => []NonceUnique
<1>1. NonceInv => NonceUnique
    BY DEF NonceInv
<1>2. QED
    BY InitNonce, StepNonceInv, <1>1, PTL DEF SessionSpec

(***************************************************************************)
(* Keys                                                                    *)
(***************************************************************************)

\* r is the number of an RC session that has been published.
Published(r) ==
    /\ r <= stored["RC"]
    /\ power["RC"] = "reserved" => r # stored["RC"]

\* A HELLO of the RC and a CONFIRM name the sender's own session; a pair of
\* sessions names an RC session that has existed.
HandshakeInv ==
    \A f \in network :
        /\ f.type \in {"HELLO", "CONFIRM"} => Published(f.pair[1])
        /\ f.type = "CONFIRM" => f.pair[2] = f.session

\* The gateway's keys are those of the session it authenticated, and it has
\* none while it derives.
GatewayKeyInv ==
    /\ Published(authenticated) /\ Published(deriving)
    /\ keysReady => keys["GW"] = <<authenticated, session["GW"]>>
    /\ operational["GW"] => keysReady
    /\ deriving # 0 => ~keysReady

\* The RC derives its keys from a CONFIRM of the pair.
RcKeyInv ==
    operational["RC"] =>
        /\ keys["RC"] = <<session["RC"], candidate>>
        /\ \E f \in network : /\ f.type = "CONFIRM"
                              /\ f.session = candidate
                              /\ f.pair = <<session["RC"], candidate>>

\* Having confirmed the newest RC session in this boot, the gateway keeps it.
ConfirmInv ==
    \A f \in network :
        f.type = "CONFIRM" /\ f.session = session["GW"]
        /\ f.pair[1] = stored["RC"] =>
            keysReady /\ authenticated = stored["RC"]

KeyInv == HandshakeInv /\ GatewayKeyInv /\ RcKeyInv /\ ConfirmInv

\* A frame SendConfirm adds names the pair it was asked to confirm.
LEMMA SentConfirm ==
    ASSUME NEW r, SendConfirm(r), NEW f \in network' \ network
    PROVE  /\ f.type = "CONFIRM" /\ f.session = session["GW"]
           /\ f.pair = <<r, session["GW"]>>
<1>1. CASE confirmSeq = 0
    BY <1>1 DEF SendConfirm, sentVars
<1>2. CASE confirmSeq # 0
    BY <1>2, SentFrame DEF SendConfirm
<1>3. QED
    BY <1>1, <1>2

\* The frames a step may add: traffic, a HELLO of a published RC session or
\* of none, and a CONFIRM of the session the gateway then holds keys for.
LEMMA NewFrames ==
    ASSUME NonceInv, SessionNext, NEW f \in network' \ network
    PROVE  \/ f.type \in {"CONTROL", "REPORT"}
           \/ f.type = "HELLO" /\ f.pair[1] = 0 /\ session["GW"] # 0
           \/ f.type = "HELLO" /\ f.pair[1] = session["RC"] /\ session["RC"] # 0
           \/ /\ f.type = "CONFIRM" /\ f.session = session["GW"]
              /\ f.pair = <<authenticated', session["GW"]>>
              /\ authenticated' \in {authenticated, deriving} /\ keysReady'
<1> USE DEF flashVars, counterVars, rcVars, gatewayVars, keyVars,
            receiveVars, acceptVars, sentVars
<1>0. SessionTypeOK /\ BootInv /\ SentInv
    BY DEF NonceInv
<1>1. ASSUME NEW d \in Device, SendTraffic(d)
      PROVE  f.type \in {"CONTROL", "REPORT"}
    <2>1. PICK type \in {"CONTROL", "REPORT"} :
              SendFrame(d, type, tx[d].seq, keys[d], tx[d].drawn)
        BY <1>1 DEF SendTraffic
    <2>2. QED
        BY <2>1, SentFrame
<1>2. ASSUME GatewayHello
      PROVE  f.type = "HELLO" /\ f.pair[1] = 0 /\ session["GW"] # 0
    BY <1>2, SentFrame DEF GatewayHello
<1>3. ASSUME RcHello
      PROVE  f.type = "HELLO" /\ f.pair[1] = session["RC"] /\ session["RC"] # 0
    BY <1>3, SentFrame DEF RcHello
<1>4. ASSUME NEW r, SendConfirm(r), keysReady', authenticated' = r,
             r \in {authenticated, deriving}
      PROVE  /\ f.type = "CONFIRM" /\ f.session = session["GW"]
             /\ f.pair = <<authenticated', session["GW"]>>
             /\ authenticated' \in {authenticated, deriving} /\ keysReady'
    BY <1>4, SentConfirm
<1>5. CASE GatewayDerives
    BY <1>4, <1>5 DEF GatewayDerives
<1>6. ASSUME NEW g \in network, GatewayHearsHelloAgain(g)
      PROVE  /\ f.type = "CONFIRM" /\ f.session = session["GW"]
             /\ f.pair = <<authenticated', session["GW"]>>
             /\ authenticated' \in {authenticated, deriving} /\ keysReady'
    BY <1>4, <1>6 DEF GatewayHearsHelloAgain
<1>7. CASE network' = network
    BY <1>7
<1>8. ASSUME NEW d \in Device,
             \/ Reserve(d) \/ Publish(d) \/ PowerLoss(d)
             \/ StartTraffic(d) \/ SealTraffic(d)
      PROVE  network' = network
    BY <1>8 DEF Reserve, Publish, PowerLoss, StartTraffic, SealTraffic
<1>9. ASSUME NEW g \in network,
             \/ GatewayHearsHello(g) \/ GatewayHearsControl(g)
             \/ RcHearsHello(g) \/ RcHearsConfirm(g) \/ RcHearsReport(g)
      PROVE  network' = network
    BY <1>9 DEF GatewayHearsHello, GatewayHearsControl, RcHearsHello,
                RcHearsConfirm, RcHearsReport
<1>10. GatewayDeriveFails => network' = network
    BY DEF GatewayDeriveFails
<1>11. QED
    BY StepCases, <1>1, <1>2, <1>3, <1>5, <1>6, <1>7, <1>8, <1>9, <1>10

\* Both halves of a pair are session numbers, or 0.
LEMMA FramePair ==
    ASSUME SessionTypeOK, NEW f \in network
    PROVE  f.pair[1] \in Nat /\ f.pair[2] \in Nat
<1>1. f.pair \in (0..SessionMax) \X (0..SessionMax)
    BY FrameType DEF Pair
<1>2. QED
    BY <1>1

\* What a step does to flash: nothing, or one more number is reserved.
LEMMA FlashSteps ==
    ASSUME NonceInv, SessionNext
    PROVE  \/ /\ stored' = stored /\ power' = power /\ session' = session
           \/ \E d \in Device : Reserve(d) \/ Publish(d) \/ PowerLoss(d)
<1> USE DEF flashVars, counterVars, rcVars, gatewayVars, keyVars,
            receiveVars, acceptVars, sentVars
<1>0. SessionTypeOK /\ BootInv /\ SentInv
    BY DEF NonceInv
<1>1. ASSUME NEW d \in Device,
             StartTraffic(d) \/ SealTraffic(d) \/ SendTraffic(d)
      PROVE  UNCHANGED flashVars
    BY <1>1 DEF StartTraffic, SealTraffic, SendTraffic
<1>2. GatewayHello \/ RcHello \/ GatewayDerives \/ GatewayDeriveFails
      => UNCHANGED flashVars
    BY DEF GatewayHello, RcHello, GatewayDerives, GatewayDeriveFails
<1>3. ASSUME NEW f \in network,
             \/ GatewayHearsHelloAgain(f) \/ GatewayHearsHello(f)
             \/ GatewayHearsControl(f) \/ RcHearsHello(f)
             \/ RcHearsConfirm(f) \/ RcHearsReport(f)
      PROVE  UNCHANGED flashVars
    BY <1>3 DEF GatewayHearsHelloAgain, GatewayHearsHello,
                GatewayHearsControl, RcHearsHello, RcHearsConfirm, RcHearsReport
<1>4. QED
    BY StepCases, <1>1, <1>2, <1>3

\* A published number stays published.
LEMMA PublishedStays ==
    ASSUME NonceInv, SessionNext, NEW r \in Nat, Published(r)
    PROVE  Published(r)'
<1> USE DEF flashVars, counterVars, rcVars, gatewayVars, keyVars,
            receiveVars, acceptVars, sentVars
<1>0. SessionTypeOK /\ BootInv /\ SentInv
    BY DEF NonceInv
<1>1. ASSUME NEW d \in Device, Reserve(d) PROVE Published(r)'
    <2>1. /\ stored["RC"] \in Nat
          /\ stored' = [stored EXCEPT ![d] = @ + 1]
          /\ power' = [power EXCEPT ![d] = "reserved"]
          /\ stored \in [Device -> 0..SessionMax]
        BY <1>0, <1>1, Constants DEF Reserve, SessionTypeOK
    <2>2. CASE d = "RC"
        <3>1. stored'["RC"] = stored["RC"] + 1
            BY <2>1, <2>2, Constants
        <3>2. QED
            BY <2>1, <3>1 DEF Published
    <2>3. CASE d # "RC"
        <3>1. stored'["RC"] = stored["RC"]
            BY <2>1, <2>3, Constants
        <3>2. power'["RC"] = power["RC"]
            BY <1>0, <2>1, <2>3, Constants DEF SessionTypeOK
        <3>3. QED
            BY <3>1, <3>2 DEF Published
    <2>4. QED
        BY <2>2, <2>3
<1>2. ASSUME NEW d \in Device, Publish(d) \/ PowerLoss(d) PROVE Published(r)'
    <2>1. stored' = stored
        BY <1>2 DEF Publish, PowerLoss
    <2>2. power'["RC"] = "reserved" => power["RC"] = "reserved"
        BY <1>0, <1>2, Constants DEF Publish, PowerLoss, SessionTypeOK
    <2>3. QED
        BY <2>1, <2>2 DEF Published
<1>3. CASE stored' = stored /\ power' = power
    BY <1>3 DEF Published
<1>4. QED
    BY FlashSteps, <1>1, <1>2, <1>3

\* Every HELLO and CONFIRM names published sessions.
LEMMA StepHandshake ==
    ASSUME NonceInv, KeyInv, SessionNext
    PROVE  HandshakeInv'
<1>0. SessionTypeOK /\ BootInv /\ SessionTypeOK'
    BY StepType DEF NonceInv
<1>1. ASSUME NEW f \in network', f.type \in {"HELLO", "CONFIRM"}
      PROVE  /\ Published(f.pair[1])
             /\ f.type = "CONFIRM" => f.pair[2] = f.session
    <2>1. CASE f \in network
        BY <1>1, <2>1 DEF KeyInv, HandshakeInv
    <2>2. CASE f \notin network
        <3>1. CASE f.type = "HELLO" /\ f.pair[1] = 0 /\ session["GW"] # 0
            BY <1>0, <3>1, Constants DEF SessionTypeOK, BootInv, Published
        <3>2. CASE f.type = "HELLO" /\ f.pair[1] = session["RC"]
                   /\ session["RC"] # 0
            <4>1. power["RC"] = "on"
                BY <1>0, <3>2, Constants DEF BootInv, Off
            <4>2. session["RC"] = stored["RC"] /\ stored["RC"] \in Nat
                BY <1>0, <4>1, Constants DEF BootInv, SessionTypeOK
            <4>3. QED
                BY <3>2, <4>1, <4>2 DEF Published
        <3>3. CASE /\ f.type = "CONFIRM" /\ f.session = session["GW"]
                   /\ f.pair = <<authenticated', session["GW"]>>
                   /\ authenticated' \in {authenticated, deriving}
            BY <3>3 DEF KeyInv, GatewayKeyInv
        <3>4. QED
            BY <1>1, <2>2, <3>1, <3>2, <3>3, NewFrames
    <2>3. QED
        BY <2>1, <2>2
<1>2. ASSUME NEW f \in network' PROVE f.pair[1] \in Nat
    BY <1>0, <1>2 DEF SessionTypeOK, Frame, Pair
<1>3. QED
    BY <1>1, <1>2, PublishedStays DEF HandshakeInv

\* The gateway clears its keys before it names another RC session.
LEMMA StepGatewayKey ==
    ASSUME NonceInv, KeyInv, SessionNext
    PROVE  GatewayKeyInv'
<1>0. SessionTypeOK /\ BootInv /\ SentInv /\ SessionTypeOK'
    BY StepType DEF NonceInv
<1>1. Published(authenticated) /\ Published(deriving) /\ Published(0)
    <2>1. Published(authenticated) /\ Published(deriving)
        BY DEF KeyInv, GatewayKeyInv
    <2>2. Published(0)
        BY <1>0, Constants DEF Published, BootInv, SessionTypeOK
    <2>3. QED
        BY <2>1, <2>2
<1> DEFINE Goal ==
                /\ Published(authenticated') /\ Published(deriving')
                /\ keysReady' => keys'["GW"] = <<authenticated', session'["GW"]>>
                /\ operational'["GW"] => keysReady'
                /\ deriving' # 0 => ~keysReady'
<1> USE DEF flashVars, counterVars, rcVars, gatewayVars, keyVars,
            receiveVars, acceptVars, sentVars
<1>2. ASSUME NEW d \in Device, Reserve(d) PROVE Goal
    BY <1>0, <1>1, <1>2, Constants
       DEF Reserve, SessionTypeOK, KeyInv, GatewayKeyInv, BootInv, Off
<1>3. ASSUME NEW d \in Device, Publish(d) PROVE Goal
    BY <1>0, <1>1, <1>3, Constants
       DEF Publish, SessionTypeOK, KeyInv, GatewayKeyInv, BootInv, Off
<1>4. ASSUME NEW d \in Device, PowerLoss(d) PROVE Goal
    <2>1. CASE d = "RC"
        <3>1. /\ UNCHANGED gatewayVars
              /\ keys'["GW"] = keys["GW"] /\ session'["GW"] = session["GW"]
            BY <1>0, <1>4, <2>1, Constants DEF PowerLoss, SessionTypeOK
        <3>2. operational'["GW"] = operational["GW"]
            BY <1>0, <1>4, <2>1, Constants DEF PowerLoss, SessionTypeOK
        <3>3. QED
            BY <1>1, <3>1, <3>2 DEF KeyInv, GatewayKeyInv
    <2>2. CASE d # "RC"
        <3>1. authenticated' = 0 /\ deriving' = 0 /\ ~keysReady'
            BY <1>4, <2>2 DEF PowerLoss
        <3>2. ~operational'["GW"]
            BY <1>0, <1>4, <2>2, Constants DEF PowerLoss, SessionTypeOK, Device
        <3>3. QED
            BY <1>1, <3>1, <3>2
    <2>3. QED
        BY <2>1, <2>2
<1>5. ASSUME NEW d \in Device, StartTraffic(d) PROVE Goal
    BY <1>0, <1>1, <1>5, Constants
       DEF StartTraffic, SessionTypeOK, KeyInv, GatewayKeyInv
<1>6. ASSUME NEW d \in Device, SealTraffic(d) PROVE Goal
    BY <1>0, <1>1, <1>6, Constants
       DEF SealTraffic, SessionTypeOK, KeyInv, GatewayKeyInv
<1>7. ASSUME NEW d \in Device, SendTraffic(d) PROVE Goal
    BY <1>0, <1>1, <1>7, Constants
       DEF SendTraffic, SessionTypeOK, KeyInv, GatewayKeyInv
<1>8. ASSUME GatewayHello PROVE Goal
    BY <1>0, <1>1, <1>8, Constants
       DEF GatewayHello, SessionTypeOK, KeyInv, GatewayKeyInv
<1>9. ASSUME RcHello PROVE Goal
    BY <1>0, <1>1, <1>9, Constants
       DEF RcHello, SessionTypeOK, KeyInv, GatewayKeyInv
<1>10. ASSUME GatewayDerives PROVE Goal
    BY <1>0, <1>1, <1>10, Constants
       DEF GatewayDerives, SessionTypeOK, KeyInv, GatewayKeyInv
<1>11. ASSUME GatewayDeriveFails PROVE Goal
    BY <1>0, <1>1, <1>11, Constants
       DEF GatewayDeriveFails, SessionTypeOK, KeyInv, GatewayKeyInv
<1>12. ASSUME NEW f \in network, GatewayHearsHelloAgain(f) PROVE Goal
    BY <1>0, <1>1, <1>12, Constants
       DEF GatewayHearsHelloAgain, SessionTypeOK, KeyInv, GatewayKeyInv
<1>13. ASSUME NEW f \in network, GatewayHearsHello(f) PROVE Goal
    BY <1>0, <1>1, <1>13, Constants
       DEF GatewayHearsHello, SessionTypeOK, KeyInv, GatewayKeyInv, HandshakeInv
<1>14. ASSUME NEW f \in network, GatewayHearsControl(f) PROVE Goal
    BY <1>0, <1>1, <1>14, Constants
       DEF GatewayHearsControl, SessionTypeOK, KeyInv, GatewayKeyInv
<1>15. ASSUME NEW f \in network, RcHearsHello(f) PROVE Goal
    BY <1>0, <1>1, <1>15, Constants
       DEF RcHearsHello, SessionTypeOK, KeyInv, GatewayKeyInv
<1>16. ASSUME NEW f \in network, RcHearsConfirm(f) PROVE Goal
    BY <1>0, <1>1, <1>16, Constants
       DEF RcHearsConfirm, SessionTypeOK, KeyInv, GatewayKeyInv
<1>17. ASSUME NEW f \in network, RcHearsReport(f) PROVE Goal
    BY <1>0, <1>1, <1>17, Constants
       DEF RcHearsReport, SessionTypeOK, KeyInv, GatewayKeyInv
<1>18. Goal
    <2> HIDE DEF Goal
    <2>1. QED
        BY StepCases, <1>2, <1>3, <1>4, <1>5, <1>6, <1>7, <1>8, <1>9,
           <1>10, <1>11, <1>12, <1>13, <1>14, <1>15, <1>16, <1>17
<1>19. QED
    BY <1>0, <1>18, PublishedStays DEF GatewayKeyInv, SessionTypeOK

\* The RC's keys change with its candidate or go with its power, and come from
\* a CONFIRM; frames stay in "network".
LEMMA StepRcKey ==
    ASSUME NonceInv, KeyInv, SessionNext
    PROVE  RcKeyInv'
<1> USE DEF flashVars, counterVars, rcVars, gatewayVars, keyVars,
            receiveVars, acceptVars, sentVars
<1>0. SessionTypeOK /\ BootInv
    BY DEF NonceInv
<1>1. ASSUME NEW d \in Device, Reserve(d) PROVE RcKeyInv'
    BY <1>0, <1>1, Constants
       DEF Reserve, SessionTypeOK, KeyInv, RcKeyInv, BootInv, Off
<1>2. ASSUME NEW d \in Device, Publish(d) PROVE RcKeyInv'
    BY <1>0, <1>2, Constants
       DEF Publish, SessionTypeOK, KeyInv, RcKeyInv, BootInv, Off
<1>3. ASSUME NEW d \in Device, PowerLoss(d) PROVE RcKeyInv'
    BY <1>0, <1>3, Constants
       DEF PowerLoss, SessionTypeOK, KeyInv, RcKeyInv, BootInv, Off
<1>4. ASSUME NEW d \in Device, StartTraffic(d) PROVE RcKeyInv'
    BY <1>0, <1>4, Constants
       DEF StartTraffic, SessionTypeOK, KeyInv, RcKeyInv
<1>5. ASSUME NEW d \in Device, SealTraffic(d) PROVE RcKeyInv'
    BY <1>0, <1>5, Constants
       DEF SealTraffic, SessionTypeOK, KeyInv, RcKeyInv
<1>6. ASSUME NEW d \in Device, SendTraffic(d) PROVE RcKeyInv'
    BY <1>0, <1>6, Constants
       DEF SendTraffic, SessionTypeOK, KeyInv, RcKeyInv, SendFrame
<1>7. ASSUME GatewayHello PROVE RcKeyInv'
    BY <1>0, <1>7, Constants
       DEF GatewayHello, SessionTypeOK, KeyInv, RcKeyInv, SendFrame
<1>8. ASSUME RcHello PROVE RcKeyInv'
    BY <1>0, <1>8, Constants
       DEF RcHello, SessionTypeOK, KeyInv, RcKeyInv, SendFrame
<1>9. ASSUME GatewayDerives PROVE RcKeyInv'
    BY <1>0, <1>9, Constants
       DEF GatewayDerives, SessionTypeOK, KeyInv, RcKeyInv,
           SendConfirm, SendFrame
<1>10. ASSUME GatewayDeriveFails PROVE RcKeyInv'
    BY <1>0, <1>10, Constants
       DEF GatewayDeriveFails, SessionTypeOK, KeyInv, RcKeyInv
<1>11. ASSUME NEW f \in network, GatewayHearsHelloAgain(f) PROVE RcKeyInv'
    BY <1>0, <1>11, Constants
       DEF GatewayHearsHelloAgain, SessionTypeOK, KeyInv, RcKeyInv,
           SendConfirm, SendFrame
<1>12. ASSUME NEW f \in network, GatewayHearsHello(f) PROVE RcKeyInv'
    BY <1>0, <1>12, Constants
       DEF GatewayHearsHello, SessionTypeOK, KeyInv, RcKeyInv
<1>13. ASSUME NEW f \in network, GatewayHearsControl(f) PROVE RcKeyInv'
    BY <1>0, <1>13, Constants
       DEF GatewayHearsControl, SessionTypeOK, KeyInv, RcKeyInv
<1>14. ASSUME NEW f \in network, RcHearsHello(f) PROVE RcKeyInv'
    BY <1>0, <1>14, Constants
       DEF RcHearsHello, SessionTypeOK, KeyInv, RcKeyInv
<1>15. ASSUME NEW f \in network, RcHearsConfirm(f) PROVE RcKeyInv'
    BY <1>0, <1>15, Constants
       DEF RcHearsConfirm, SessionTypeOK, KeyInv, RcKeyInv
<1>16. ASSUME NEW f \in network, RcHearsReport(f) PROVE RcKeyInv'
    BY <1>0, <1>16, Constants
       DEF RcHearsReport, SessionTypeOK, KeyInv, RcKeyInv
<1>17. QED
    BY StepCases, <1>1, <1>2, <1>3, <1>4, <1>5, <1>6, <1>7, <1>8, <1>9,
       <1>10, <1>11, <1>12, <1>13, <1>14, <1>15, <1>16

\* A newer RC session would have to be reserved first, and an older one does
\* not replace the newest.
LEMMA StepConfirm ==
    ASSUME NonceInv, KeyInv, SessionNext
    PROVE  ConfirmInv'
<1> USE DEF flashVars, counterVars, rcVars, gatewayVars, keyVars,
            receiveVars, acceptVars, sentVars
<1>0. SessionTypeOK /\ BootInv /\ SentInv
    BY DEF NonceInv
<1> SUFFICES ASSUME NEW f \in network', f.type = "CONFIRM",
                    f.session = session'["GW"], f.pair[1] = stored'["RC"]
             PROVE  keysReady' /\ authenticated' = stored'["RC"]
    BY DEF ConfirmInv
<1>1. CASE f \notin network
    BY <1>1, NewFrames
<1>2. CASE f \in network
    <2> USE <1>0, <1>2
    <2>1. /\ f.session \in 1..SessionMax /\ f.from = "GW"
          /\ f.pair[1] \in Nat /\ f.pair[1] <= stored["RC"]
          /\ stored["RC"] \in Nat
        <3>1. f.session \in 1..SessionMax /\ f.from = "GW"
            BY FrameType DEF SentInv, Sent
        <3>2. f.pair[1] <= stored["RC"]
            BY DEF KeyInv, HandshakeInv, Published
        <3>3. stored["RC"] \in Nat
            BY Constants DEF SessionTypeOK
        <3>4. QED
            BY <3>1, <3>2, <3>3, FramePair
    <2>2. session' = session /\ stored' = stored =>
              keysReady /\ authenticated = stored["RC"]
        BY DEF KeyInv, ConfirmInv
    <2>3. ASSUME NEW d \in Device, Reserve(d)
          PROVE  keysReady' /\ authenticated' = stored'["RC"]
        <3>1. CASE d = "RC"
            <4>1. stored'["RC"] = stored["RC"] + 1
                BY <2>3, <3>1, Constants DEF Reserve, SessionTypeOK
            <4>2. QED
                BY <2>1, <4>1
        <3>2. CASE d # "RC"
            <4>1. stored'["RC"] = stored["RC"] /\ session' = session
                BY <2>3, <3>2, Constants DEF Reserve, SessionTypeOK
            <4>2. keysReady /\ authenticated = stored["RC"]
                BY <4>1 DEF KeyInv, ConfirmInv
            <4>3. QED
                BY <2>3, <4>1, <4>2 DEF Reserve
        <3>3. QED
            BY <3>1, <3>2
    <2>4. ASSUME NEW d \in Device, Publish(d)
          PROVE  keysReady' /\ authenticated' = stored'["RC"]
        <3>1. stored' = stored
            BY <2>4 DEF Publish
        <3>2. CASE d = "GW"
            <4>1. session'["GW"] = stored["GW"] /\ power["GW"] = "reserved"
                BY <2>4, <3>2, Constants DEF Publish, SessionTypeOK
            <4>2. f.session # stored["GW"]
                BY <2>1, <4>1 DEF SentInv, Sent
            <4>3. QED
                BY <4>1, <4>2
        <3>3. CASE d # "GW"
            <4>1. session'["GW"] = session["GW"]
                BY <2>4, <3>3, Constants DEF Publish, SessionTypeOK
            <4>2. keysReady /\ authenticated = stored["RC"]
                BY <3>1, <4>1 DEF KeyInv, ConfirmInv
            <4>3. QED
                BY <2>4, <3>1, <4>2 DEF Publish
        <3>4. QED
            BY <3>2, <3>3
    <2>5. ASSUME NEW d \in Device, PowerLoss(d)
          PROVE  keysReady' /\ authenticated' = stored'["RC"]
        <3>1. stored' = stored
            BY <2>5 DEF PowerLoss
        <3>2. CASE d = "GW"
            <4>1. session'["GW"] = 0
                BY <2>5, <3>2, Constants DEF PowerLoss, SessionTypeOK
            <4>2. QED
                BY <2>1, <4>1
        <3>3. CASE d # "GW"
            <4>1. session'["GW"] = session["GW"]
                BY <2>5, <3>3, Constants DEF PowerLoss, SessionTypeOK
            <4>2. keysReady /\ authenticated = stored["RC"]
                BY <3>1, <4>1 DEF KeyInv, ConfirmInv
            <4>3. QED
                BY <2>5, <3>1, <3>3, <4>2 DEF PowerLoss
        <3>4. QED
            BY <3>2, <3>3
    <2>6. CASE stored' = stored /\ power' = power /\ session' = session
        <3>1. keysReady /\ authenticated = stored["RC"]
            BY <2>2, <2>6
        <3>2. ASSUME NEW g \in network, GatewayHearsHello(g) PROVE FALSE
            <4>1. g.pair[1] > authenticated /\ g.type = "HELLO"
                BY <3>1, <3>2 DEF GatewayHearsHello, Replaces
            <4>2. g.pair[1] \in Nat /\ g.pair[1] <= stored["RC"]
                BY <3>2, <4>1, FramePair DEF KeyInv, HandshakeInv, Published
            <4>3. QED
                BY <2>1, <3>1, <4>1, <4>2
        <3>3. ~GatewayDerives /\ ~GatewayDeriveFails
            BY <3>1
               DEF KeyInv, GatewayKeyInv, GatewayDerives, GatewayDeriveFails
        <3>4. ASSUME NEW d \in Device,
                     StartTraffic(d) \/ SealTraffic(d) \/ SendTraffic(d)
              PROVE  UNCHANGED gatewayVars
            BY <3>4 DEF StartTraffic, SealTraffic, SendTraffic
        <3>5. GatewayHello \/ RcHello => UNCHANGED gatewayVars
            BY DEF GatewayHello, RcHello
        <3>6. ASSUME NEW g \in network,
                     \/ GatewayHearsHelloAgain(g) \/ GatewayHearsControl(g)
                     \/ RcHearsHello(g) \/ RcHearsConfirm(g) \/ RcHearsReport(g)
              PROVE  UNCHANGED gatewayVars
            BY <3>6 DEF GatewayHearsHelloAgain, GatewayHearsControl,
                        RcHearsHello, RcHearsConfirm, RcHearsReport
        <3>7. UNCHANGED gatewayVars => keysReady' /\ authenticated' = stored'["RC"]
            BY <2>6, <3>1
        <3>8. QED
            BY StepCases, <2>3, <2>4, <2>5, <3>2, <3>3, <3>4, <3>5, <3>6, <3>7
    <2>7. QED
        BY FlashSteps, <2>3, <2>4, <2>5, <2>6
<1>3. QED
    BY <1>1, <1>2

\* Only a control packet under the keys in use makes the gateway operational.
LEMMA StepProven ==
    ASSUME NonceInv, KeyInv, OperationalIsProven, SessionNext
    PROVE  OperationalIsProven'
<1> USE DEF flashVars, counterVars, rcVars, gatewayVars, keyVars,
            receiveVars, acceptVars, sentVars
<1>0. SessionTypeOK /\ BootInv
    BY DEF NonceInv
<1>1. ASSUME NEW d \in Device, Reserve(d) PROVE OperationalIsProven'
    BY <1>0, <1>1, Constants
       DEF Reserve, SessionTypeOK, OperationalIsProven, BootInv, Off
<1>2. ASSUME NEW d \in Device, Publish(d) PROVE OperationalIsProven'
    BY <1>0, <1>2, Constants
       DEF Publish, SessionTypeOK, OperationalIsProven, BootInv, Off
<1>3. ASSUME NEW d \in Device, PowerLoss(d) PROVE OperationalIsProven'
    BY <1>0, <1>3, Constants
       DEF PowerLoss, SessionTypeOK, OperationalIsProven, BootInv, Off
<1>4. ASSUME NEW d \in Device, StartTraffic(d) PROVE OperationalIsProven'
    BY <1>0, <1>4, Constants
       DEF StartTraffic, SessionTypeOK, OperationalIsProven
<1>5. ASSUME NEW d \in Device, SealTraffic(d) PROVE OperationalIsProven'
    BY <1>0, <1>5, Constants
       DEF SealTraffic, SessionTypeOK, OperationalIsProven
<1>6. ASSUME NEW d \in Device, SendTraffic(d) PROVE OperationalIsProven'
    BY <1>0, <1>6, Constants
       DEF SendTraffic, SessionTypeOK, OperationalIsProven
<1>7. ASSUME GatewayHello PROVE OperationalIsProven'
    BY <1>0, <1>7, Constants
       DEF GatewayHello, SessionTypeOK, OperationalIsProven
<1>8. ASSUME RcHello PROVE OperationalIsProven'
    BY <1>0, <1>8, Constants
       DEF RcHello, SessionTypeOK, OperationalIsProven
<1>9. ASSUME GatewayDerives PROVE OperationalIsProven'
    BY <1>0, <1>9, Constants
       DEF GatewayDerives, SessionTypeOK, OperationalIsProven,
           KeyInv, GatewayKeyInv
<1>10. ASSUME GatewayDeriveFails PROVE OperationalIsProven'
    BY <1>0, <1>10, Constants
       DEF GatewayDeriveFails, SessionTypeOK, OperationalIsProven,
           KeyInv, GatewayKeyInv
<1>11. ASSUME NEW f \in network, GatewayHearsHelloAgain(f) PROVE OperationalIsProven'
    BY <1>0, <1>11, Constants
       DEF GatewayHearsHelloAgain, SessionTypeOK, OperationalIsProven
<1>12. ASSUME NEW f \in network, GatewayHearsHello(f) PROVE OperationalIsProven'
    BY <1>0, <1>12, Constants
       DEF GatewayHearsHello, SessionTypeOK, OperationalIsProven
<1>13. ASSUME NEW f \in network, GatewayHearsControl(f) PROVE OperationalIsProven'
    BY <1>0, <1>13, Constants
       DEF GatewayHearsControl, SessionTypeOK, OperationalIsProven,
           KeyInv, GatewayKeyInv
<1>14. ASSUME NEW f \in network, RcHearsHello(f) PROVE OperationalIsProven'
    BY <1>0, <1>14, Constants
       DEF RcHearsHello, SessionTypeOK, OperationalIsProven
<1>15. ASSUME NEW f \in network, RcHearsConfirm(f) PROVE OperationalIsProven'
    BY <1>0, <1>15, Constants
       DEF RcHearsConfirm, SessionTypeOK, OperationalIsProven
<1>16. ASSUME NEW f \in network, RcHearsReport(f) PROVE OperationalIsProven'
    BY <1>0, <1>16, Constants
       DEF RcHearsReport, SessionTypeOK, OperationalIsProven
<1>17. QED
    BY StepCases, <1>1, <1>2, <1>3, <1>4, <1>5, <1>6, <1>7, <1>8, <1>9,
       <1>10, <1>11, <1>12, <1>13, <1>14, <1>15, <1>16

SessionInv == NonceInv /\ KeyInv /\ OperationalIsProven

\* The initial states.
LEMMA InitSession == SessionInit => SessionInv
<1> SUFFICES ASSUME SessionInit PROVE SessionInv
    OBVIOUS
<1>1. NonceInv
    BY InitNonce
<1>2. KeyInv
    BY SizeAssumption
       DEF SessionInit, KeyInv, HandshakeInv, GatewayKeyInv, RcKeyInv,
           ConfirmInv, Published, Device
<1>3. OperationalIsProven
    BY DEF SessionInit, OperationalIsProven, Device
<1>4. QED
    BY <1>1, <1>2, <1>3 DEF SessionInv

\* A step, or a stutter.
LEMMA StepSession == SessionInv /\ [SessionNext]_sessionVars => SessionInv'
<1> SUFFICES ASSUME SessionInv, [SessionNext]_sessionVars PROVE SessionInv'
    OBVIOUS
<1>1. NonceInv'
    BY StepNonceInv DEF SessionInv
<1>2. CASE SessionNext
    <2>1. KeyInv'
        BY <1>2, StepHandshake, StepGatewayKey, StepRcKey, StepConfirm
           DEF SessionInv, KeyInv
    <2>2. OperationalIsProven'
        BY <1>2, StepProven DEF SessionInv
    <2>3. QED
        BY <1>1, <2>1, <2>2 DEF SessionInv
<1>3. CASE UNCHANGED sessionVars
    <2> USE <1>3 DEF SessionInv, sessionVars, flashVars, counterVars, keyVars,
                     rcVars, gatewayVars, receiveVars, sentVars, acceptVars
    <2>1. HandshakeInv'
        BY DEF KeyInv, HandshakeInv, Published
    <2>2. GatewayKeyInv'
        BY DEF KeyInv, GatewayKeyInv, Published
    <2>3. RcKeyInv' /\ ConfirmInv'
        BY DEF KeyInv, RcKeyInv, ConfirmInv
    <2>4. OperationalIsProven'
        BY DEF OperationalIsProven
    <2>5. QED
        BY <1>1, <2>1, <2>2, <2>3, <2>4 DEF KeyInv
<1>4. QED
    BY <1>2, <1>3

\* The CONFIRM the RC believed was sent in the boot the gateway is in, for
\* the RC session of now.
LEMMA KeysAgreeFollows == SessionInv => KeysAgree
<1> SUFFICES ASSUME SessionInv, operational["RC"], session["GW"] = candidate
             PROVE  keysReady /\ keys["GW"] = keys["RC"]
    BY DEF KeysAgree
<1>1. session["RC"] = stored["RC"]
    BY Constants DEF SessionInv, NonceInv, SessionTypeOK, BootInv, Off
<1>2. PICK f \in network : /\ f.type = "CONFIRM" /\ f.session = candidate
                           /\ f.pair = <<session["RC"], candidate>>
    BY DEF SessionInv, KeyInv, RcKeyInv
<1>3. keysReady /\ authenticated = stored["RC"]
    BY <1>1, <1>2 DEF SessionInv, KeyInv, ConfirmInv
<1>4. QED
    BY <1>1, <1>3 DEF SessionInv, KeyInv, GatewayKeyInv, RcKeyInv

\* CONFIRM is never believed in vain, however old the frames are that either
\* side hears: the two hold equal keys until the gateway restarts.
THEOREM KeysAlwaysAgree == SessionSpec => []KeysAgree
BY InitSession, StepSession, KeysAgreeFollows, PTL DEF SessionSpec

\* Keys of another gateway session than the RC's candidate are never in use.
THEOREM KeysAlwaysMatchCandidate == SessionSpec => []KeysMatchCandidate
<1>1. SessionInv => KeysMatchCandidate
    BY DEF SessionInv, KeyInv, RcKeyInv, KeysMatchCandidate
<1>2. QED
    BY InitSession, StepSession, <1>1, PTL DEF SessionSpec

\* The gateway is operational only with an RC that has shown the keys.
THEOREM OperationalAlwaysProven == SessionSpec => []OperationalIsProven
<1>1. SessionInv => OperationalIsProven
    BY DEF SessionInv
<1>2. QED
    BY InitSession, StepSession, <1>1, PTL DEF SessionSpec

\* What an established session says of either side.
LEMMA EstablishedFacts ==
    ASSUME SessionInv, Established
    PROVE  /\ \A d \in Device : /\ power[d] = "on" /\ session[d] = stored[d]
                                /\ session[d] \in 1..SessionMax
           /\ keysReady /\ deriving = 0
           /\ candidate = session["GW"] /\ authenticated = session["RC"]
           /\ keys["RC"] # Blank
<1>0. SessionTypeOK /\ BootInv
    BY DEF SessionInv, NonceInv
<1>1. ASSUME NEW d \in Device
      PROVE  /\ power[d] = "on" /\ session[d] = stored[d]
             /\ session[d] \in 1..SessionMax
    <2>1. operational[d]
        BY DEF Established, Device
    <2>2. power[d] = "on" /\ session[d] = stored[d] /\ stored[d] # 0
        BY <1>0, <2>1 DEF BootInv, Off
    <2>3. stored[d] \in 0..SessionMax
        BY <1>0 DEF SessionTypeOK
    <2>4. QED
        BY <2>2, <2>3, SizeAssumption
<1>2. keysReady /\ deriving = 0 /\ keys["GW"] = <<authenticated, session["GW"]>>
    BY DEF SessionInv, KeyInv, GatewayKeyInv, Established
<1>3. keys["RC"] = <<session["RC"], candidate>>
    BY DEF SessionInv, KeyInv, RcKeyInv, Established
<1>4. keys["RC"] = <<session["RC"], session["GW"]>> /\ keys["GW"] = keys["RC"]
    BY DEF Established
<1>5. session["RC"] # 0
    BY <1>1, SizeAssumption, Constants
<1>6. QED
    BY <1>1, <1>2, <1>3, <1>4, <1>5 DEF Blank

\* Nothing heard over the link ends an established session: the RC hears of no
\* later session of the gateway, and the gateway of none of the RC.
LEMMA EstablishedStep ==
    ASSUME SessionInv, Established, SessionNext,
           \A d \in Device : ~PowerLoss(d)
    PROVE  Established'
<1>0. SessionTypeOK /\ SentInv /\ HandshakeInv
    BY DEF SessionInv, NonceInv, KeyInv
<1>1. /\ \A d \in Device : /\ power[d] = "on" /\ session[d] = stored[d]
                           /\ session[d] \in 1..SessionMax
      /\ keysReady /\ deriving = 0
      /\ candidate = session["GW"] /\ authenticated = session["RC"]
      /\ keys["RC"] # Blank
    BY EstablishedFacts
<1> USE DEF Established, flashVars, counterVars, rcVars, gatewayVars, keyVars,
            receiveVars, acceptVars, sentVars
<1>2. ASSUME NEW d \in Device PROVE ~Reserve(d) /\ ~Publish(d)
    BY <1>1 DEF Reserve, Publish
<1>3. ASSUME NEW d \in Device,
             StartTraffic(d) \/ SealTraffic(d) \/ SendTraffic(d)
      PROVE  Established'
    BY <1>3 DEF StartTraffic, SealTraffic, SendTraffic
<1>4. GatewayHello \/ RcHello => Established'
    BY DEF GatewayHello, RcHello
<1>5. ~GatewayDerives /\ ~GatewayDeriveFails
    BY <1>1 DEF GatewayDerives, GatewayDeriveFails
<1>6. ASSUME NEW f \in network, GatewayHearsHello(f) PROVE FALSE
    <2>1. f.type = "HELLO" /\ f.pair[1] > authenticated
        BY <1>1, <1>6 DEF GatewayHearsHello, Replaces
    <2>2. f.pair[1] <= stored["RC"]
        BY <1>0, <2>1 DEF HandshakeInv, Published
    <2>3. f.pair[1] \in Nat
        BY <1>0, FramePair
    <2>4. stored["RC"] \in Nat
        BY <1>0, Constants DEF SessionTypeOK
    <2>5. QED
        BY <1>1, <2>1, <2>2, <2>3, <2>4, Constants
<1>7. ASSUME NEW f \in network, RcHearsHello(f) PROVE FALSE
    <2>1. f.from = "GW" /\ f.session > candidate
        BY <1>7 DEF RcHearsHello
    <2>2. f.session <= stored["GW"] /\ f.session \in Nat
        BY <1>0, <2>1, FrameType DEF SentInv, Sent
    <2>3. stored["GW"] \in Nat
        BY <1>0, Constants DEF SessionTypeOK
    <2>4. QED
        BY <1>1, <2>1, <2>2, <2>3, Constants
<1>8. ASSUME NEW f \in network, RcHearsConfirm(f) PROVE FALSE
    BY <1>1, <1>8 DEF RcHearsConfirm
<1>9. ASSUME NEW f \in network,
             GatewayHearsHelloAgain(f) \/ RcHearsReport(f)
      PROVE  Established'
    BY <1>9 DEF GatewayHearsHelloAgain, RcHearsReport
<1>10. ASSUME NEW f \in network, GatewayHearsControl(f) PROVE Established'
    BY <1>0, <1>10, Constants DEF GatewayHearsControl, SessionTypeOK
<1>11. QED
    <2> HIDE DEF Established
    <2>1. QED
        BY StepCases, <1>2, <1>3, <1>4, <1>5, <1>6, <1>7, <1>8, <1>9, <1>10

\* An established session lasts until one of the two devices loses power,
\* whatever old HELLO, CONFIRM, control or report frames still arrive and
\* even if derivations fail.
THEOREM EstablishedAlwaysHolds == SessionSpec => EstablishedHolds
<1>1. SessionInv /\ [SessionNext]_sessionVars =>
          [Established /\ ~Established' =>
              \E d \in Device : power[d] = "on" /\ power'[d] = "off"]_sessionVars
    <2> SUFFICES ASSUME SessionInv, SessionNext, Established, ~Established'
                 PROVE  \E d \in Device : power[d] = "on" /\ power'[d] = "off"
        OBVIOUS
    <2>1. PICK d \in Device : PowerLoss(d)
        BY EstablishedStep
    <2>2. power[d] = "on"
        BY EstablishedFacts
    <2>3. power'[d] = "off"
        BY <2>1 DEF PowerLoss, SessionInv, NonceInv, SessionTypeOK
    <2>4. QED
        BY <2>2, <2>3
<1>2. QED
    BY InitSession, StepSession, <1>1, PTL DEF SessionSpec, EstablishedHolds
=============================================================================
