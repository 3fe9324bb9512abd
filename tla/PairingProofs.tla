---------------------------- MODULE PairingProofs ----------------------------
(***************************************************************************)
(* Theorems of Pairing, for any number of gateways, passphrases, retries   *)
(* and frames on the link, with or without failing writes.                 *)
(***************************************************************************)
EXTENDS Pairing, TLAPS

-----------------------------------------------------------------------------
(* Types of the records that the actions build.                            *)

\* A session of the RC that has begun is about a gateway.
SessionHasGateway == rcSession.state # "IDLE" => rcSession.gw \in Gateway

TypeInv == PairingTypeOK /\ SessionHasGateway

LEMMA LinkType ==
    ASSUME NEW link \in Seq(Frame), Len(link) <= MaxInFlight, NEW f \in Frame
    PROVE  Sent(link, f) \in Seq(Frame) /\ Len(Sent(link, f)) <= MaxInFlight
BY PairingAssumption DEF Sent

LEMMA TailType ==
    ASSUME NEW link \in Seq(Frame), Len(link) <= MaxInFlight, link # <<>>
    PROVE  /\ Tail(link) \in Seq(Frame) /\ Len(Tail(link)) <= MaxInFlight
           /\ Head(link) \in Frame
BY PairingAssumption

LEMMA KeyType ==
    /\ \A s \in Salt, p \in Passphrase \cup {None} : DerivedKey(s, p) \in Key
    /\ NoKey \in Key
BY PairingAssumption DEF DerivedKey, NoKey, Key, Salt

LEMMA ConstantTypes ==
    /\ Unprovisioned \in Config /\ Unpaired \in Pairing
    /\ NoGatewaySession \in GatewaySession /\ NoRcSession \in RcSession
    /\ NoPackage \in Package /\ NoRequest \in Request /\ NoRecord \in Record
    /\ NoRcSession.state = "IDLE" /\ NoRequest.at = "none"
BY KeyType, PairingAssumption
   DEF Unprovisioned, Config, Unpaired, Pairing, NoGatewaySession,
       GatewaySession, NoRcSession, RcSession, NoPackage, Package, NoRequest,
       Request, NoRecord, Record, Generation, Salt

FrameType == {"PACKAGE", "CHALLENGE", "RC_PROOF", "GATEWAY_PROOF",
              "RC_COMMITTED", "GATEWAY_COMMITTED"}

LEMMA OpenType ==
    ASSUME NEW t \in FrameType, NEW g \in Gateway, NEW n \in Generation,
           NEW s \in Salt, NEW c \in 0 .. MaxChallenge
    PROVE  /\ Open(t, [gw |-> g, generation |-> n, salt |-> s], c) \in Frame
           /\ Open(t, [gw |-> g, generation |-> n, salt |-> s], c).gw = g
           /\ Open(t, [gw |-> g, generation |-> n, salt |-> s], c).type = t
BY KeyType, PairingAssumption DEF Open, Frame, FrameType, Generation, Salt

LEMMA ProvenType ==
    ASSUME NEW t \in FrameType, NEW g \in Gateway, NEW n \in Generation,
           NEW k \in Key, NEW c \in 0 .. MaxChallenge, NEW x \in 0 .. MaxNonce
    PROVE  /\ Proven(t, g, n, k, c, x) \in Frame
           /\ Proven(t, g, n, k, c, x).type = t
           /\ Proven(t, g, n, k, c, x).gw = g
           /\ Proven(t, g, n, k, c, x).key = k
BY DEF Proven, Open, Frame, FrameType, Key, Generation, Salt

-----------------------------------------------------------------------------
(* Every step keeps the types: one lemma per action that builds something. *)

\* The CHALLENGE of gateway g.
Challenge(g) ==
    Open("CHALLENGE", [Announced(g) EXCEPT !.salt = 0], gwSession[g].challenge)

LEMMA ChallengeType ==
    ASSUME PairingTypeOK, NEW g \in Gateway
    PROVE  Challenge(g) \in Frame /\ Challenge(g).type = "CHALLENGE"
<1>1. running[g].generation \in Generation /\ 0 \in Salt
      /\ gwSession[g].challenge \in 0 .. MaxChallenge
  BY PairingAssumption DEF PairingTypeOK, Config, GatewaySession, Salt
<1>2. [Announced(g) EXCEPT !.salt = 0]
        = [gw |-> g, generation |-> running[g].generation, salt |-> 0]
  BY DEF Announced
<1> QED
  BY <1>1, <1>2, OpenType DEF Challenge, FrameType

LEMMA LoseType == TypeInv /\ Lose => TypeInv'
<1> SUFFICES ASSUME TypeInv, Lose PROVE TypeInv'
  OBVIOUS
<1>1. toRc' \in Seq(Frame) /\ Len(toRc') <= MaxInFlight
  BY TailType DEF Lose, TypeInv, PairingTypeOK
<1>2. toGw' \in Seq(Frame) /\ Len(toGw') <= MaxInFlight
  BY TailType DEF Lose, TypeInv, PairingTypeOK
<1> QED
  BY <1>1, <1>2 DEF Lose, TypeInv, PairingTypeOK, SessionHasGateway, gwVars,
     drawnVars, rcVars, exchangeVars, pageVars, storedVars, historyVars

LEMMA GwConfiguresType ==
    ASSUME TypeInv, NEW g \in Gateway, NEW p \in Chosen, GwConfigures(g, p)
    PROVE  TypeInv'
<1> DEFINE key == DerivedKey(salts + 1, p)
<1>1. salts + 1 \in Salt /\ key \in Key
  <2>1. salts + 1 \in Salt
    BY PairingAssumption DEF GwConfigures, TypeInv, PairingTypeOK, Salt
  <2> QED
    BY <2>1, KeyType, PairingAssumption
<1>2. NextGeneration(g) \in Generation
  BY PairingAssumption
     DEF NextGeneration, TypeInv, PairingTypeOK, Config, Generation
<1>3. saved' \in [Gateway -> Config]
  BY <1>1, <1>2 DEF GwConfigures, TypeInv, PairingTypeOK, Config
<1>4. held' \subseteq [gw : Gateway, key : Key]
  BY <1>1 DEF GwConfigures, TypeInv, PairingTypeOK
<1> QED
  BY <1>1, <1>3, <1>4 DEF GwConfigures, TypeInv, PairingTypeOK,
     SessionHasGateway, linkVars, rcVars, exchangeVars, pageVars, storedVars

LEMMA GwStartsType ==
    ASSUME TypeInv, NEW g \in Gateway, GwStarts(g)
    PROVE  TypeInv'
<1>1. running' \in [Gateway -> Config]
  BY DEF GwStarts, GwLoads, TypeInv, PairingTypeOK
<1>2. challenges + 1 \in 0 .. MaxChallenge
  BY PairingAssumption DEF GwStarts, TypeInv, PairingTypeOK
<1>3. Started(challenges + 1) \in GatewaySession
  BY <1>2, ConstantTypes DEF Started, GatewaySession
<1>4. gwSession' \in [Gateway -> GatewaySession]
  BY <1>3, ConstantTypes DEF GwStarts, TypeInv, PairingTypeOK
<1>5. challenges' \in 0 .. MaxChallenge
  BY <1>2 DEF GwStarts, TypeInv, PairingTypeOK
<1>6. Open("PACKAGE", Announced(g)', 0) \in Frame
  <2>1. running'[g].generation \in Generation /\ running'[g].key.salt \in Salt
    BY <1>1 DEF Config, Key
  <2>2. 0 \in 0 .. MaxChallenge
    BY PairingAssumption
  <2> QED
    BY <2>1, <2>2, OpenType DEF Announced, FrameType
<1>7. toRc' \in Seq(Frame) /\ Len(toRc') <= MaxInFlight
  BY <1>6, LinkType DEF GwStarts, TypeInv, PairingTypeOK
<1> QED
  BY <1>1, <1>4, <1>5, <1>7 DEF GwStarts, TypeInv, PairingTypeOK,
     SessionHasGateway, rcVars, exchangeVars, pageVars, storedVars, historyVars

LEMMA GwChallengesType ==
    ASSUME TypeInv, NEW g \in Gateway, GwChallenges(g) \/ GwExpires(g)
    PROVE  TypeInv'
<1>1. CASE GwChallenges(g)
  <2>1. gwSession[g] \in GatewaySession
    BY DEF TypeInv, PairingTypeOK
  <2>2. toRc' = Sent(toRc, Challenge(g))
    BY <1>1 DEF GwChallenges, Challenge
  <2>3. toRc' \in Seq(Frame) /\ Len(toRc') <= MaxInFlight
    BY <2>2, ChallengeType, LinkType DEF TypeInv, PairingTypeOK
  <2>4. gwSession' \in [Gateway -> GatewaySession]
    BY <1>1, <2>1 DEF GwChallenges, TypeInv, PairingTypeOK, GatewaySession
  <2> QED
    BY <1>1, <2>3, <2>4 DEF GwChallenges, TypeInv, PairingTypeOK,
       SessionHasGateway, drawnVars, rcVars, exchangeVars, pageVars, storedVars,
       historyVars
<1>2. CASE GwExpires(g)
  BY <1>2, ConstantTypes DEF GwExpires, TypeInv, PairingTypeOK,
     SessionHasGateway, linkVars, drawnVars, rcVars, exchangeVars, pageVars,
     storedVars, historyVars
<1> QED
  BY <1>1, <1>2

LEMMA GwHearsProofType ==
    ASSUME TypeInv, NEW g \in Gateway, GwHearsProof(g)
    PROVE  TypeInv'
<1>1. /\ toGw' \in Seq(Frame) /\ Len(toGw') <= MaxInFlight
      /\ Head(toGw) \in Frame
  BY TailType DEF GwHearsProof, GwReads, TypeInv, PairingTypeOK
<1>2. gwSession[g] \in GatewaySession /\ running[g] \in Config
  BY DEF TypeInv, PairingTypeOK
<1>3. Failed(gwSession[g]) \in GatewaySession
  BY <1>2, ConstantTypes, PairingAssumption DEF Failed, GatewaySession
<1>4. gwSession' \in [Gateway -> GatewaySession]
  <2>1. [gwSession[g] EXCEPT !.nonce = Head(toGw).nonce,
                            !.state = "WAIT_RC_RESULT"] \in GatewaySession
    BY <1>1, <1>2 DEF GatewaySession, Frame
  <2> QED
    BY <1>3, <2>1, ConstantTypes
       DEF GwHearsProof, Answers, TypeInv, PairingTypeOK
<1>5. Proven("GATEWAY_PROOF", g, running[g].generation, running[g].key,
             Head(toGw).challenge, Head(toGw).nonce) \in Frame
  BY <1>1, <1>2, ProvenType DEF Config, Frame, FrameType
<1>6. toRc' \in Seq(Frame) /\ Len(toRc') <= MaxInFlight
  BY <1>5, LinkType DEF GwHearsProof, Answers, TypeInv, PairingTypeOK
<1> QED
  BY <1>1, <1>4, <1>6 DEF GwHearsProof, TypeInv, PairingTypeOK,
     SessionHasGateway, drawnVars, rcVars, exchangeVars, pageVars, storedVars,
     historyVars

LEMMA GwHearsResultType ==
    ASSUME TypeInv, NEW g \in Gateway, GwHearsResult(g)
    PROVE  TypeInv'
<1>1. /\ toGw' \in Seq(Frame) /\ Len(toGw') <= MaxInFlight
  BY TailType DEF GwHearsResult, GwReads, TypeInv, PairingTypeOK
<1>2. gwSession[g] \in GatewaySession /\ saved[g] \in Config
  BY DEF TypeInv, PairingTypeOK
<1>3. gwSession' \in [Gateway -> GatewaySession]
  <2>1. [gwSession[g] EXCEPT !.state = "RC_RESULT_VERIFIED"] \in GatewaySession
    BY <1>2 DEF GatewaySession
  <2> QED
    BY <2>1 DEF GwHearsResult, TypeInv, PairingTypeOK
<1>4. Proven("GATEWAY_COMMITTED", g, saved[g].generation, saved[g].key,
             gwSession[g].challenge, gwSession[g].nonce) \in Frame
  BY <1>2, ProvenType DEF Config, GatewaySession, FrameType
<1>5. toRc' \in Seq(Frame) /\ Len(toRc') <= MaxInFlight
  BY <1>4, LinkType DEF GwHearsResult, Acknowledges, TypeInv, PairingTypeOK
<1>6. acknowledged' \subseteq Confirmation
  BY <1>2 DEF GwHearsResult, Acknowledges, TypeInv, PairingTypeOK,
     Confirmation, Config, GatewaySession
<1> QED
  BY <1>1, <1>3, <1>5, <1>6 DEF GwHearsResult, TypeInv, PairingTypeOK,
     SessionHasGateway, drawnVars, rcVars, exchangeVars, pageVars, storedVars

LEMMA PageType ==
    ASSUME TypeInv,
           Submit \/ HttpNext \/ RcLooks
    PROVE  TypeInv'
<1> USE DEF TypeInv, PairingTypeOK, SessionHasGateway, gwVars, linkVars,
            drawnVars, exchangeVars, storedVars, historyVars
<1>1. CASE Submit
  <2>1. PICK g \in Gateway, p \in Passphrase, n \in 0 .. nonces : Admit(g, p, n)
    BY <1>1 DEF Submit
  <2>2. n \in 0 .. MaxNonce
    BY PairingAssumption
  <2>3. Form(g, p, n) \in Request
    BY <2>2 DEF Form, Request
  <2> QED
    BY <2>1, <2>3 DEF Admit
<1>2. CASE Tell
  BY <1>2 DEF Tell, Request
<1>3. CASE Enqueue
  <2>1. [http EXCEPT !.at = "queued"] \in Request
    BY DEF Request
  <2>2. queue' \in Request /\ http' \in Request
    BY <1>3, <2>1, ConstantTypes DEF Enqueue
  <2> QED
    BY <1>3, <2>2 DEF Enqueue
<1>4. CASE RcLooks
  BY <1>4 DEF RcLooks
<1> QED
  BY <1>1, <1>2, <1>3, <1>4 DEF HttpNext

LEMMA CleanupType ==
    ASSUME PairingTypeOK, Cleanup
    PROVE  /\ rcSession' \in RcSession /\ SessionHasGateway'
           /\ package' \in Package /\ proofTimer' \in BOOLEAN
           /\ attempts' \in 0 .. MaxAttempts
<1>1. MaxAttempts \in Nat
  BY PairingAssumption
<1>2. 0 \in 0 .. MaxAttempts
  BY <1>1
<1>3. rcSession' \in RcSession /\ rcSession'.state = "IDLE"
  BY ConstantTypes DEF Cleanup
<1> QED
  BY <1>2, <1>3, ConstantTypes DEF Cleanup, SessionHasGateway

\* What the RC task says about its session is a frame.
LEMMA SessionFrame ==
    ASSUME TypeInv, rcSession.state # "IDLE", NEW t \in FrameType, NEW k \in Key
    PROVE  Proven(t, rcSession.gw, rcSession.generation, k,
                  rcSession.challenge, rcSession.nonce) \in Frame
BY ProvenType DEF TypeInv, PairingTypeOK, SessionHasGateway, RcSession

LEMMA RcTakesType == TypeInv /\ RcTakes => TypeInv'
<1> SUFFICES ASSUME TypeInv, RcTakes PROVE TypeInv'
  OBVIOUS
<1> DEFINE key == DerivedKey(rcSession.salt, queue.pass)
<1>1. key \in Key
  BY KeyType DEF TypeInv, PairingTypeOK, RcSession, Request
<1>2. ASSUME rcSession' \in RcSession, SessionHasGateway', package' \in Package,
             proofTimer' \in BOOLEAN, attempts' \in 0 .. MaxAttempts,
             status' \in {"IDLE", "IN_PROGRESS", "SUCCESS", "FAILED"},
             toGw' \in Seq(Frame), Len(toGw') <= MaxInFlight
      PROVE  TypeInv'
  BY <1>2, ConstantTypes DEF RcTakes, TypeInv, PairingTypeOK, gwVars, drawnVars,
     storedVars, historyVars
<1>3. CASE TurnsDown
  BY <1>2, <1>3 DEF TurnsDown, TypeInv, PairingTypeOK, SessionHasGateway,
     exchangeVars
<1>4. CASE Cleanup /\ status' = "FAILED" /\ UNCHANGED toGw
  BY <1>2, <1>4, CleanupType DEF TypeInv, PairingTypeOK
<1>5. CASE rcSession.state = "CHALLENGE_READY" /\ ProvesWith(key)
  <2>1. CASE WritesFail /\ status' = "FAILED" /\ Cleanup /\ UNCHANGED toGw
    BY <1>4, <2>1
  <2>2. CASE ~(WritesFail /\ status' = "FAILED" /\ Cleanup /\ UNCHANGED toGw)
    <3>1. rcSession' \in RcSession /\ SessionHasGateway'
      BY <1>1, <1>5, <2>2 DEF ProvesWith, TypeInv, PairingTypeOK, RcSession,
         SessionHasGateway
    <3>2. toGw' \in Seq(Frame) /\ Len(toGw') <= MaxInFlight
      <4>1. Proven("RC_PROOF", rcSession.gw, rcSession.generation, key,
                   rcSession.challenge, rcSession.nonce) \in Frame
        BY <1>1, <1>5, SessionFrame DEF FrameType
      <4> QED
        BY <1>5, <2>2, <4>1, LinkType DEF ProvesWith, TypeInv, PairingTypeOK
    <3>3. /\ package' \in Package /\ attempts' \in 0 .. MaxAttempts
          /\ proofTimer' \in BOOLEAN /\ status' = "IN_PROGRESS"
      BY <1>5, <2>2 DEF ProvesWith, TypeInv, PairingTypeOK
    <3> QED
      BY <1>2, <3>1, <3>2, <3>3
  <2> QED
    BY <2>1, <2>2
<1>6. CASE Refuses
  <2>1. CASE [rcSession EXCEPT !.retries = @ + 1].retries >= MaxRetries
    BY <1>4, <1>6, <2>1 DEF Refuses
  <2>2. CASE ~([rcSession EXCEPT !.retries = @ + 1].retries >= MaxRetries)
    <3>1. [rcSession EXCEPT !.retries = @ + 1] \in RcSession
      <4>1. MaxRetries \in Nat /\ rcSession \in RcSession
        BY PairingAssumption DEF TypeInv, PairingTypeOK
      <4>2. rcSession.retries + 1 \in 0 .. MaxRetries
        BY <2>2, <4>1 DEF RcSession
      <4> QED
        BY <4>1, <4>2 DEF RcSession
    <3>2. rcSession' \in RcSession /\ SessionHasGateway'
      BY <1>6, <2>2, <3>1 DEF Refuses, TypeInv, PairingTypeOK, RcSession,
         SessionHasGateway
    <3> QED
      BY <1>2, <1>6, <2>2, <3>2 DEF Refuses, TypeInv, PairingTypeOK
  <2> QED
    BY <2>1, <2>2
<1> QED
  BY <1>3, <1>4, <1>5, <1>6 DEF RcTakes

LEMMA RcTimesType ==
    ASSUME TypeInv, RcGivesUp \/ RcFallsDue \/ RcRestarts
    PROVE  TypeInv'
<1> USE DEF TypeInv, PairingTypeOK, gwVars, drawnVars, historyVars
<1>1. CASE RcGivesUp
  BY <1>1, ConstantTypes DEF RcGivesUp, SessionHasGateway, linkVars, storedVars
<1>2. CASE RcFallsDue
  <2>1. rcSession' \in RcSession /\ SessionHasGateway'
    BY <1>2 DEF RcFallsDue, RcSession, SessionHasGateway
  <2> QED
    BY <1>2, <2>1 DEF RcFallsDue, linkVars, pageVars, storedVars
<1>3. CASE RcRestarts
  <2>1. toRc' \in Seq(Frame) /\ Len(toRc') <= MaxInFlight
    BY <1>3, PairingAssumption DEF RcRestarts
  <2> QED
    BY <1>3, <2>1, CleanupType, ConstantTypes DEF RcRestarts
<1> QED
  BY <1>1, <1>2, <1>3

LEMMA RcPollsType == TypeInv /\ RcPolls => TypeInv'
<1> SUFFICES ASSUME TypeInv, RcPolls PROVE TypeInv'
  OBVIOUS
<1> USE DEF TypeInv, PairingTypeOK, gwVars, drawnVars, storedVars, historyVars
<1>1. CASE rcSession.due
  BY <1>1, CleanupType DEF RcPolls
<1>2. CASE ~rcSession.due
  <2>1. attempts' \in 0 .. MaxAttempts
    BY <1>2, PairingAssumption DEF RcPolls, MayRepeat
  <2>2. Result \in Frame
    BY SessionFrame DEF RcPolls, Waiting, Result, RcSession, FrameType
  <2>3. toGw' \in Seq(Frame) /\ Len(toGw') <= MaxInFlight
    BY <1>2, <2>2, LinkType DEF RcPolls
  <2> QED
    BY <1>2, <2>1, <2>3 DEF RcPolls, SessionHasGateway
<1> QED
  BY <1>1, <1>2

LEMMA RcHearsPackageType == TypeInv /\ RcHearsPackage => TypeInv'
<1> SUFFICES ASSUME TypeInv, RcHearsPackage PROVE TypeInv'
  OBVIOUS
<1> USE DEF TypeInv, PairingTypeOK
<1>1. /\ toRc' \in Seq(Frame) /\ Len(toRc') <= MaxInFlight
      /\ Head(toRc) \in Frame
  BY TailType DEF RcHearsPackage, RcReads
<1>2. /\ rcSession' \in RcSession /\ SessionHasGateway'
      /\ proofTimer' \in BOOLEAN
  BY ConstantTypes DEF RcHearsPackage, SessionHasGateway
<1>3. package' \in Package
  BY <1>1 DEF RcHearsPackage, Package, Frame
<1> QED
  BY <1>1, <1>2, <1>3 DEF RcHearsPackage, gwVars, drawnVars, storedVars,
     historyVars

LEMMA RcHearsChallengeType == TypeInv /\ RcHearsChallenge => TypeInv'
<1> SUFFICES ASSUME TypeInv, RcHearsChallenge PROVE TypeInv'
  OBVIOUS
<1> USE DEF TypeInv, PairingTypeOK
<1>1. /\ toRc' \in Seq(Frame) /\ Len(toRc') <= MaxInFlight
      /\ Head(toRc) \in Frame
  BY TailType DEF RcHearsChallenge, RcReads
<1>2. CASE UNCHANGED <<rcSession, nonces>>
  BY <1>1, <1>2 DEF RcHearsChallenge, SessionHasGateway, gwVars, pageVars,
     storedVars, historyVars
<1>3. CASE ~UNCHANGED <<rcSession, nonces>>
  <2>1. nonces' = nonces + 1 /\ nonces' \in 0 .. MaxNonce
    BY <1>3, PairingAssumption DEF RcHearsChallenge
  <2>2. rcSession' \in RcSession /\ SessionHasGateway'
    <3> DEFINE f == Head(toRc)
    <3>1. rcSession' = [NoRcSession EXCEPT
             !.state = "CHALLENGE_READY", !.gw = f.gw,
             !.generation = f.generation, !.salt = package.salt,
             !.challenge = f.challenge, !.nonce = nonces']
      BY <1>3 DEF RcHearsChallenge
    <3>2. /\ f.gw \in Gateway /\ f.generation \in Generation
          /\ f.challenge \in 0 .. MaxChallenge /\ package.salt \in Salt
      BY <1>1 DEF Frame, Package
    <3>3. rcSession' \in RcSession /\ rcSession'.gw \in Gateway
      BY <2>1, <3>1, <3>2, ConstantTypes DEF RcSession
    <3> QED
      BY <3>3 DEF SessionHasGateway
  <2> QED
    BY <1>1, <2>1, <2>2 DEF RcHearsChallenge, gwVars, pageVars, storedVars,
       historyVars
<1> QED
  BY <1>2, <1>3

LEMMA OfferType ==
    ASSUME TypeInv, rcSession.state # "IDLE"
    PROVE  /\ Offer(rcSession.key) \in Pairing
           /\ Offer(rcSession.key).gw = rcSession.gw
           /\ Metadata(Offer(rcSession.key)) \in Record
BY KeyType DEF TypeInv, PairingTypeOK, SessionHasGateway, RcSession, Offer,
   Pairing, Metadata, Record

LEMMA StoresBothType ==
    ASSUME TypeInv, rcSession.state # "IDLE", StoresBoth(Offer(rcSession.key))
    PROVE  /\ enrolled' \in Record /\ fleet' \in [Gateway -> Pairing]
           /\ raw' \subseteq Gateway /\ committed' \subseteq Confirmation
<1> DEFINE offer == Offer(rcSession.key)
<1>1. offer \in Pairing /\ offer.gw \in Gateway /\ Metadata(offer) \in Record
  BY OfferType DEF TypeInv, SessionHasGateway
<1>2. [gw |-> offer.gw, key |-> offer.key, nonce |-> rcSession.nonce]
        \in Confirmation
  BY <1>1 DEF Confirmation, Pairing, RcSession, TypeInv, PairingTypeOK
<1> QED
  BY <1>1, <1>2 DEF StoresBoth, TypeInv, PairingTypeOK

LEMMA RcHearsProofType == TypeInv /\ RcHearsProof => TypeInv'
<1> SUFFICES ASSUME TypeInv, RcHearsProof PROVE TypeInv'
  OBVIOUS
<1> USE DEF TypeInv, PairingTypeOK
<1>1. toRc' \in Seq(Frame) /\ Len(toRc') <= MaxInFlight
  BY TailType DEF RcHearsProof, RcReads
<1> DEFINE offer == Offer(rcSession.key)
<1>2. CASE UNCHANGED <<exchangeVars, toGw, status, storedVars, committed>>
  BY <1>1, <1>2 DEF RcHearsProof, SessionHasGateway, exchangeVars, storedVars,
     gwVars, drawnVars
<1>3. CASE ProofComesLate
  BY <1>1, <1>3, ConstantTypes DEF RcHearsProof, ProofComesLate, storedVars,
     SessionHasGateway, gwVars, drawnVars
<1>4. CASE rcSession.state = "RC_PROOF_READY" /\ CommitsBoth(offer)
  <2>1. /\ enrolled' \in Record /\ runtime' \in Record
        /\ fleet' \in [Gateway -> Pairing] /\ raw' \subseteq Gateway
        /\ committed' \subseteq Confirmation
    BY <1>4, StoresBothType, OfferType DEF CommitsBoth
  <2>2. CASE AwaitsResult
    <3>1. rcSession' \in RcSession /\ SessionHasGateway'
      BY <1>4, <2>2 DEF AwaitsResult, RcSession, SessionHasGateway
    <3>2. Result \in Frame
      BY <1>4, SessionFrame DEF Result, RcSession, FrameType
    <3>3. toGw' \in Seq(Frame) /\ Len(toGw') <= MaxInFlight
      BY <2>2, <3>2, LinkType DEF AwaitsResult
    <3>4. /\ attempts' \in 0 .. MaxAttempts /\ package' \in Package
          /\ proofTimer' \in BOOLEAN /\ status' = "IN_PROGRESS"
      <4>1. MaxAttempts \in Nat \ {0}
        BY PairingAssumption
      <4>2. 1 \in 0 .. MaxAttempts
        BY <4>1
      <4> QED
        BY <2>2, <4>2 DEF AwaitsResult
    <3> QED
      BY <1>1, <2>1, <3>1, <3>3, <3>4 DEF RcHearsProof, gwVars, drawnVars
  <2>3. CASE EndsFailed
    BY <1>1, <2>1, <2>3, CleanupType DEF EndsFailed, RcHearsProof, gwVars,
       drawnVars
  <2> QED
    BY <1>4, <2>2, <2>3 DEF CommitsBoth
<1>5. CASE rcSession.state = "RC_PROOF_READY" /\ CommitFails(offer)
  <2>1. /\ enrolled' \in Record /\ runtime' \in Record
        /\ fleet' \in [Gateway -> Pairing] /\ raw' \subseteq Gateway
        /\ committed' \subseteq Confirmation
    <3>1. CASE StoresBoth(offer)
      BY <1>5, <3>1, StoresBothType DEF CommitFails
    <3>2. CASE ~StoresBoth(offer)
      <4>1. enrolled' \in {enrolled, Metadata(offer)}
            /\ UNCHANGED <<runtime, fleet, raw, committed>>
        BY <1>5, <3>2 DEF CommitFails
      <4> QED
        BY <1>5, <4>1, OfferType
    <3> QED
      BY <3>1, <3>2
  <2>2. EndsFailed
    BY <1>5 DEF CommitFails
  <2> QED
    BY <1>1, <2>1, <2>2, CleanupType DEF EndsFailed, RcHearsProof, gwVars,
       drawnVars
<1> QED
  BY <1>2, <1>3, <1>4, <1>5 DEF RcHearsProof

LEMMA RcHearsResultType == TypeInv /\ RcHearsResult => TypeInv'
<1> SUFFICES ASSUME TypeInv, RcHearsResult PROVE TypeInv'
  OBVIOUS
<1> USE DEF TypeInv, PairingTypeOK, gwVars, drawnVars, storedVars, historyVars
<1>1. toRc' \in Seq(Frame) /\ Len(toRc') <= MaxInFlight
  BY TailType DEF RcHearsResult, RcReads
<1>2. CASE UNCHANGED <<exchangeVars, status>>
  BY <1>1, <1>2 DEF RcHearsResult, exchangeVars, SessionHasGateway
<1>3. CASE Cleanup /\ status' = "SUCCESS"
  BY <1>1, <1>3, CleanupType DEF RcHearsResult
<1> QED
  BY <1>2, <1>3 DEF RcHearsResult

LEMMA TypeStep == TypeInv /\ [Next]_vars => TypeInv'
<1> SUFFICES ASSUME TypeInv, [Next]_vars PROVE TypeInv'
  OBVIOUS
<1>1. CASE UNCHANGED vars
  BY <1>1 DEF vars, gwVars, linkVars, drawnVars, rcVars, exchangeVars, pageVars,
     storedVars, historyVars, TypeInv, PairingTypeOK, SessionHasGateway
<1>2. ASSUME NEW g \in Gateway, GwNext(g) PROVE TypeInv'
  BY <1>2, GwConfiguresType, GwStartsType, GwChallengesType, GwHearsProofType,
     GwHearsResultType DEF GwNext
<1>3. CASE RcTask
  BY <1>3, RcTakesType, RcTimesType, RcPollsType, RcHearsPackageType,
     RcHearsChallengeType, RcHearsProofType, RcHearsResultType DEF RcTask
<1> QED
  BY <1>1, <1>2, <1>3, LoseType, PageType, RcTimesType DEF Next

LEMMA TypeInit == Init => TypeInv
<1> SUFFICES ASSUME Init PROVE TypeInv
  OBVIOUS
<1> PICK g \in Gateway, p \in Chosen, known \in BOOLEAN :
      LET key == [salt |-> 1, pass |-> p]
          old == [gw |-> g, generation |-> 1, key |-> key]
      IN  IF known
          THEN /\ salts = 1
               /\ saved = [h \in Gateway |->
                    IF h = g THEN [generation |-> 1, key |-> key]
                    ELSE Unprovisioned]
               /\ enrolled = [format |-> "legacy", pairing |-> old]
               /\ fleet = [h \in Gateway |-> IF h = g THEN old ELSE Unpaired]
               /\ raw \in SUBSET {g}
               /\ held = {[gw |-> g, key |-> key]}
          ELSE /\ salts = 0
               /\ saved = [h \in Gateway |-> Unprovisioned]
               /\ enrolled = NoRecord
               /\ fleet = [h \in Gateway |-> Unpaired] /\ raw = {}
               /\ held = {}
  BY DEF Init
<1> DEFINE key == DerivedKey(1, p)
           old == [gw |-> g, generation |-> 1, key |-> key]
<1>1. /\ 1 \in Salt /\ 0 \in Salt /\ 1 \in Generation
      /\ 0 \in 0 .. MaxChallenge /\ 0 \in 0 .. MaxNonce /\ 0 \in 0 .. MaxAttempts
  BY PairingAssumption DEF Salt, Generation
<1>2. key \in Key /\ key = [salt |-> 1, pass |-> p]
  BY <1>1, KeyType, PairingAssumption DEF DerivedKey
<1>3. /\ [generation |-> 1, key |-> key] \in Config
      /\ old \in Pairing /\ [format |-> "legacy", pairing |-> old] \in Record
  BY <1>1, <1>2 DEF Config, Pairing, Record
<1>4. /\ salts \in Salt /\ saved \in [Gateway -> Config] /\ enrolled \in Record
      /\ fleet \in [Gateway -> Pairing] /\ raw \subseteq Gateway
      /\ held \subseteq [gw : Gateway, key : Key]
  <2>1. CASE known
    BY <1>1, <1>2, <1>3, <2>1, ConstantTypes
  <2>2. CASE ~known
    BY <1>1, <2>2, ConstantTypes
  <2> QED
    BY <2>1, <2>2
<1>5. /\ toRc = <<>> /\ toGw = <<>> /\ MaxInFlight \in Nat
  BY PairingAssumption DEF Init
<1>6. /\ toRc \in Seq(Frame) /\ Len(toRc) <= MaxInFlight
      /\ toGw \in Seq(Frame) /\ Len(toGw) <= MaxInFlight
  BY <1>5
<1>7. /\ running \in [Gateway -> Config]
      /\ gwSession \in [Gateway -> GatewaySession]
      /\ package \in Package /\ rcSession \in RcSession
      /\ rcSession.state = "IDLE"
      /\ http \in Request /\ queue \in Request
  BY ConstantTypes DEF Init
<1>8. /\ challenges \in 0 .. MaxChallenge /\ nonces \in 0 .. MaxNonce
      /\ attempts \in 0 .. MaxAttempts /\ proofTimer \in BOOLEAN
      /\ admission = "CLOSED" /\ status = "IDLE" /\ runtime = enrolled
      /\ committed = {} /\ acknowledged = {}
  BY <1>1 DEF Init
<1> QED
  BY <1>4, <1>6, <1>7, <1>8 DEF TypeInv, PairingTypeOK, SessionHasGateway

\* Every variable of the pairing exchange keeps its type: retries, attempts
\* and frames in flight stay within their limits.
THEOREM PairingTypeCorrect == Spec => []PairingTypeOK
<1>1. Spec => []TypeInv
  BY TypeInit, TypeStep, PTL DEF Spec
<1> QED
  BY <1>1, PTL DEF TypeInv

-----------------------------------------------------------------------------
(* The reservation of a session: handler, queue and pairing task agree.    *)

ReservationInv ==
    /\ TypeInv
    /\ ReservationHoldsSession
    /\ proofTimer => rcSession.state = "RC_PROOF_READY"

LEMMA ReservationInit == Init => ReservationInv
BY TypeInit DEF Init, ReservationInv, ReservationHoldsSession, NoRequest,
   NoRcSession

\* The steps that touch none of it.
LEMMA ReservationElsewhere ==
    ASSUME ReservationInv,
           UNCHANGED <<admission, http, queue, rcSession, proofTimer>>, TypeInv'
    PROVE  ReservationInv'
BY DEF ReservationInv, ReservationHoldsSession

\* The handler's steps.
LEMMA ReservationPage ==
    ASSUME ReservationInv, TypeInv',
           \/ Submit
           \/ HttpNext \/ RcLooks
    PROVE  ReservationInv'
<1> USE DEF ReservationInv, ReservationHoldsSession, TypeInv, PairingTypeOK,
            Request, exchangeVars, NoRequest
<1>1. CASE Submit
  BY <1>1 DEF Submit, Admit, Form
<1>2. CASE Tell
  BY <1>2 DEF Tell
<1>3. CASE Enqueue
  <2>1. queue = NoRequest /\ admission = "QUEUED"
    BY <1>3 DEF Enqueue
  <2>2. queue'.at = "queued" /\ http'.at = "none" /\ UNCHANGED admission
    BY <1>3, <2>1 DEF Enqueue
  <2> QED
    BY <1>3, <2>1, <2>2 DEF Enqueue
<1>4. CASE RcLooks
  BY <1>4 DEF RcLooks, Ready
<1> QED
  BY <1>1, <1>2, <1>3, <1>4 DEF HttpNext

\* A session that is past the operator's form has no reservation.
LEMMA ReservationEnds ==
    ASSUME ReservationInv, rcSession.state # "CHALLENGE_READY", TypeInv',
           UNCHANGED <<admission, http, queue>>,
           proofTimer' => rcSession'.state = "RC_PROOF_READY"
    PROVE  ReservationInv'
BY DEF ReservationInv, ReservationHoldsSession

\* The pairing task's steps.
LEMMA ReservationTask ==
    ASSUME ReservationInv, TypeInv', RcTask \/ RcFallsDue \/ RcRestarts
    PROVE  ReservationInv'
<1>1. CASE RcTakes
  <2>1. /\ queue # NoRequest /\ admission = "QUEUED"
        /\ http.at \notin {"admitted", "told"}
        /\ rcSession.state = "CHALLENGE_READY" /\ ~proofTimer
    BY <1>1 DEF RcTakes, ReservationInv, ReservationHoldsSession
  <2>2. queue' = NoRequest /\ admission' = "CLOSED" /\ UNCHANGED http
    BY <1>1 DEF RcTakes
  <2>3. proofTimer' => rcSession'.state = "RC_PROOF_READY"
    <3> DEFINE key == DerivedKey(rcSession.salt, queue.pass)
    <3>1. CASE TurnsDown
      BY <2>1, <3>1 DEF TurnsDown, exchangeVars
    <3>2. CASE Cleanup
      BY <3>2 DEF Cleanup
    <3>3. CASE ProvesWith(key)
      BY <3>2, <3>3 DEF ProvesWith, ReservationInv, TypeInv, PairingTypeOK,
         RcSession
    <3>4. CASE Refuses
      BY <3>2, <3>4 DEF Refuses
    <3> QED
      BY <1>1, <3>1, <3>2, <3>3, <3>4 DEF RcTakes
  <2> QED
    BY <2>1, <2>2, <2>3 DEF ReservationInv, ReservationHoldsSession
<1>2. CASE RcGivesUp
  <2>1. rcSession.state = "RC_PROOF_READY" /\ ~proofTimer'
    BY <1>2 DEF RcGivesUp, Overdue, ReservationInv
  <2> QED
    BY <1>2, <2>1, ReservationEnds DEF RcGivesUp
<1>3. CASE RcPolls
  <2>1. rcSession.state = "WAIT_GATEWAY_RESULT" /\ ~proofTimer
    BY <1>3 DEF RcPolls, Waiting, ReservationInv
  <2> QED
    BY <1>3, <2>1, ReservationEnds DEF RcPolls, Cleanup
<1>4. CASE RcHearsPackage
  BY <1>4 DEF RcHearsPackage, MayReplace, ReservationInv,
     ReservationHoldsSession
<1>5. CASE RcHearsChallenge
  <2>1. CASE UNCHANGED rcSession
    BY <1>5, <2>1, ReservationElsewhere DEF RcHearsChallenge, pageVars
  <2>2. CASE rcSession.state = "IDLE"
    BY <1>5, <2>2, ReservationEnds DEF RcHearsChallenge, pageVars,
       ReservationInv
  <2> QED
    BY <1>5, <2>1, <2>2 DEF RcHearsChallenge
<1>6. CASE RcHearsProof
  <2>1. CASE UNCHANGED exchangeVars
    BY <1>6, <2>1, ReservationElsewhere DEF RcHearsProof, exchangeVars
  <2>2. CASE rcSession.state = "RC_PROOF_READY" /\ ~proofTimer'
    BY <1>6, <2>2, ReservationEnds DEF RcHearsProof
  <2> QED
    BY <1>6, <2>1, <2>2 DEF RcHearsProof, ProofComesLate, CommitsBoth,
       AwaitsResult, CommitFails, EndsFailed, Cleanup
<1>7. CASE RcHearsResult
  <2>1. CASE UNCHANGED exchangeVars
    BY <1>7, <2>1, ReservationElsewhere DEF RcHearsResult, exchangeVars
  <2>2. CASE Waiting /\ Cleanup
    BY <1>7, <2>2, ReservationEnds DEF RcHearsResult, Waiting, Cleanup
  <2> QED
    BY <1>7, <2>1, <2>2 DEF RcHearsResult
<1>8. CASE RcFallsDue
  BY <1>8 DEF RcFallsDue, pageVars, ReservationInv, ReservationHoldsSession,
     TypeInv, PairingTypeOK, RcSession
<1>9. CASE RcRestarts
  BY <1>9 DEF RcRestarts, Cleanup, NoRequest, ReservationInv,
     ReservationHoldsSession
<1> QED
  BY <1>1, <1>2, <1>3, <1>4, <1>5, <1>6, <1>7, <1>8, <1>9 DEF RcTask

LEMMA ReservationStep == ReservationInv /\ [Next]_vars => ReservationInv'
<1> SUFFICES ASSUME ReservationInv, [Next]_vars PROVE ReservationInv'
  OBVIOUS
<1>1. TypeInv'
  BY TypeStep DEF ReservationInv
<1>2. CASE \/ UNCHANGED vars \/ Lose \/ \E g \in Gateway : GwNext(g)
  <2>1. UNCHANGED rcVars
    BY <1>2 DEF vars, Lose, GwNext, GwConfigures, GwStarts, GwChallenges,
       GwExpires, GwHearsProof, GwHearsResult
  <2> QED
    BY <1>1, <2>1, ReservationElsewhere DEF rcVars, exchangeVars, pageVars
<1> QED
  BY <1>1, <1>2, ReservationPage, ReservationTask DEF Next

\* A reserved request is never lost or doubled, and the session it was
\* admitted for is still waiting for it when the pairing task takes it.
THEOREM ReservationIsKept == Spec => []ReservationHoldsSession
<1>1. ReservationInv => ReservationHoldsSession
  BY DEF ReservationInv
<1> QED
  BY <1>1, ReservationInit, ReservationStep, PTL DEF Spec

-----------------------------------------------------------------------------
(* Keys.  A salt belongs to one gateway and one passphrase, so a key that a  *)
(* gateway has proved can only be the key of the gateway that the RC means.  *)

\* Gateway g has had a key with salt s.
Owned(h, g, s) == \E k \in h : k.gw = g /\ k.key.salt = s

HeldInv ==
    /\ \A k, l \in held : k.key.salt = l.key.salt => k = l
    /\ \A k \in held : k.key.salt <= salts

GatewayInv ==
    /\ \A g \in Gateway :
         /\ saved[g].generation # 0 => [gw |-> g, key |-> saved[g].key] \in held
         /\ running[g].generation # 0
            => [gw |-> g, key |-> running[g].key] \in held
         /\ gwSession[g].state # "IDLE" \/ ~gwSession[g].told
            => running[g].generation # 0
    /\ VerifiedIsStored

\* What a frame to the RC, or to a gateway, tells.
ToRcOK(f, h, a) ==
    /\ f.type = "PACKAGE" => Owned(h, f.gw, f.salt)
    /\ f.type \in {"GATEWAY_PROOF", "GATEWAY_COMMITTED"}
       => [gw |-> f.gw, key |-> f.key] \in h
    /\ f.type = "GATEWAY_COMMITTED"
       => [gw |-> f.gw, key |-> f.key, nonce |-> f.nonce] \in a
ToGwOK(f, c) ==
    f.type = "RC_COMMITTED" => [gw |-> f.gw, key |-> f.key, nonce |-> f.nonce] \in c

RcLinkOK(link, h, a) == \A i \in 1 .. Len(link) : ToRcOK(link[i], h, a)
GwLinkOK(link, c) == \A i \in 1 .. Len(link) : ToGwOK(link[i], c)

RcInv ==
    /\ package.gw # None => Owned(held, package.gw, package.salt)
    /\ rcSession.state # "IDLE" => Owned(held, rcSession.gw, rcSession.salt)
    /\ rcSession.state \in {"RC_PROOF_READY", "WAIT_GATEWAY_RESULT"}
       => rcSession.key.salt = rcSession.salt
    /\ Waiting => /\ [gw |-> rcSession.gw, key |-> rcSession.key,
                      nonce |-> rcSession.nonce] \in committed
                  /\ fleet[rcSession.gw].key = rcSession.key

KeyInv ==
    /\ HeldInv /\ GatewayInv /\ RcInv /\ StoredKeysAreHeld
    /\ RcLinkOK(toRc, held, acknowledged)
    /\ GwLinkOK(toGw, committed)

LEMMA OwnedGrows ==
    ASSUME NEW h, NEW h2, h \subseteq h2, NEW g, NEW s, Owned(h, g, s)
    PROVE  Owned(h2, g, s)
BY DEF Owned

LEMMA RcLinkGrows ==
    ASSUME NEW link, NEW h, NEW a, NEW h2, NEW a2, h \subseteq h2, a \subseteq a2,
           RcLinkOK(link, h, a)
    PROVE  RcLinkOK(link, h2, a2)
BY OwnedGrows DEF RcLinkOK, ToRcOK

LEMMA RcLinkTail ==
    ASSUME NEW link \in Seq(Frame), NEW h, NEW a, RcLinkOK(link, h, a),
           link # <<>>
    PROVE  RcLinkOK(Tail(link), h, a) /\ ToRcOK(Head(link), h, a)
<1>1. /\ Len(link) \in Nat \ {0} /\ Len(Tail(link)) = Len(link) - 1
      /\ Head(link) = link[1]
      /\ \A i \in 1 .. Len(Tail(link)) : Tail(link)[i] = link[i + 1]
  OBVIOUS
<1>2. ASSUME NEW i \in 1 .. Len(Tail(link)) PROVE ToRcOK(Tail(link)[i], h, a)
  <2>1. i + 1 \in 1 .. Len(link)
    BY <1>1
  <2> QED
    BY <1>1, <2>1 DEF RcLinkOK
<1>3. 1 \in 1 .. Len(link)
  BY <1>1
<1> QED
  BY <1>1, <1>2, <1>3 DEF RcLinkOK

LEMMA RcLinkSent ==
    ASSUME NEW link \in Seq(Frame), NEW f \in Frame, NEW h, NEW a,
           RcLinkOK(link, h, a), ToRcOK(f, h, a)
    PROVE  RcLinkOK(Sent(link, f), h, a)
<1>1. CASE Sent(link, f) = link
  BY <1>1
<1>2. CASE Sent(link, f) = Append(link, f)
  <2>1. /\ Len(link) \in Nat /\ Len(Append(link, f)) = Len(link) + 1
        /\ \A i \in 1 .. Len(link) : Append(link, f)[i] = link[i]
        /\ Append(link, f)[Len(link) + 1] = f
    OBVIOUS
  <2>2. ASSUME NEW i \in 1 .. Len(link) + 1 PROVE ToRcOK(Append(link, f)[i], h, a)
    <3>1. i \in 1 .. Len(link) \/ i = Len(link) + 1
      BY <2>1
    <3> QED
      BY <2>1, <3>1 DEF RcLinkOK
  <2> QED
    BY <1>2, <2>1, <2>2 DEF RcLinkOK
<1> QED
  BY <1>1, <1>2 DEF Sent

LEMMA GwLinkGrows ==
    ASSUME NEW link, NEW c, NEW c2, c \subseteq c2, GwLinkOK(link, c)
    PROVE  GwLinkOK(link, c2)
BY DEF GwLinkOK, ToGwOK

LEMMA GwLinkTail ==
    ASSUME NEW link \in Seq(Frame), NEW c, GwLinkOK(link, c), link # <<>>
    PROVE  GwLinkOK(Tail(link), c) /\ ToGwOK(Head(link), c)
<1>1. /\ Len(link) \in Nat \ {0} /\ Len(Tail(link)) = Len(link) - 1
      /\ Head(link) = link[1]
      /\ \A i \in 1 .. Len(Tail(link)) : Tail(link)[i] = link[i + 1]
  OBVIOUS
<1>2. ASSUME NEW i \in 1 .. Len(Tail(link)) PROVE ToGwOK(Tail(link)[i], c)
  <2>1. i + 1 \in 1 .. Len(link)
    BY <1>1
  <2> QED
    BY <1>1, <2>1 DEF GwLinkOK
<1>3. 1 \in 1 .. Len(link)
  BY <1>1
<1> QED
  BY <1>1, <1>2, <1>3 DEF GwLinkOK

LEMMA GwLinkSent ==
    ASSUME NEW link \in Seq(Frame), NEW f \in Frame, NEW c, GwLinkOK(link, c),
           ToGwOK(f, c)
    PROVE  GwLinkOK(Sent(link, f), c)
<1>1. CASE Sent(link, f) = link
  BY <1>1
<1>2. CASE Sent(link, f) = Append(link, f)
  <2>1. /\ Len(link) \in Nat /\ Len(Append(link, f)) = Len(link) + 1
        /\ \A i \in 1 .. Len(link) : Append(link, f)[i] = link[i]
        /\ Append(link, f)[Len(link) + 1] = f
    OBVIOUS
  <2>2. ASSUME NEW i \in 1 .. Len(link) + 1 PROVE ToGwOK(Append(link, f)[i], c)
    <3>1. i \in 1 .. Len(link) \/ i = Len(link) + 1
      BY <2>1
    <3> QED
      BY <2>1, <3>1 DEF GwLinkOK
  <2> QED
    BY <1>2, <2>1, <2>2 DEF GwLinkOK
<1> QED
  BY <1>1, <1>2 DEF Sent

-----------------------------------------------------------------------------
(* The gateway's steps.                                                    *)

\* The RC's part holds on, whatever a gateway does.
LEMMA GatewaySide ==
    ASSUME TypeInv, KeyInv, UNCHANGED <<rcVars, committed>>,
           held \subseteq held', HeldInv', GatewayInv',
           RcLinkOK(toRc', held', acknowledged'), GwLinkOK(toGw', committed')
    PROVE  KeyInv'
<1>1. RcInv'
  <2>1. UNCHANGED <<package, rcSession, fleet, committed>>
    BY DEF rcVars, exchangeVars, storedVars
  <2> QED
    BY <2>1, OwnedGrows DEF KeyInv, RcInv, Waiting
<1>2. StoredKeysAreHeld'
  BY DEF KeyInv, StoredKeysAreHeld, rcVars, storedVars
<1> QED
  BY <1>1, <1>2 DEF KeyInv

LEMMA KeyGwConfigures ==
    ASSUME TypeInv, KeyInv, NEW g \in Gateway, NEW p \in Chosen,
           GwConfigures(g, p)
    PROVE  KeyInv'
<1> DEFINE key == DerivedKey(salts + 1, p)
           new == [gw |-> g, key |-> key]
<1>1. /\ held' = held \cup {new} /\ salts' = salts + 1 /\ salts \in Nat
      /\ new.key.salt = salts + 1
      /\ UNCHANGED <<running, gwSession, toRc, toGw, rcVars, committed,
                     acknowledged>>
  BY PairingAssumption DEF GwConfigures, DerivedKey, TypeInv, PairingTypeOK,
     Salt, linkVars
<1>2. HeldInv'
  <2>1. \A k \in held : k.key.salt \in Nat /\ k.key.salt <= salts
    BY PairingAssumption DEF TypeInv, PairingTypeOK, Key, Salt, KeyInv, HeldInv
  <2>2. \A k \in held : k.key.salt # new.key.salt
    BY <1>1, <2>1
  <2>3. \A k, l \in held' : k.key.salt = l.key.salt => k = l
    BY <1>1, <2>2 DEF KeyInv, HeldInv
  <2>4. \A k \in held' : k.key.salt <= salts'
    BY <1>1, <2>1
  <2> QED
    BY <2>3, <2>4 DEF HeldInv
<1>3. GatewayInv'
  <2>1. ASSUME NEW h \in Gateway
        PROVE  saved'[h].generation # 0
               => [gw |-> h, key |-> saved'[h].key] \in held'
    BY <1>1 DEF GwConfigures, TypeInv, PairingTypeOK, KeyInv, GatewayInv
  <2> QED
    BY <1>1, <2>1 DEF KeyInv, GatewayInv, VerifiedIsStored
<1>4. /\ RcLinkOK(toRc', held', acknowledged') /\ GwLinkOK(toGw', committed')
  BY <1>1, RcLinkGrows DEF KeyInv
<1> QED
  BY <1>1, <1>2, <1>3, <1>4, GatewaySide

\* What a gateway announces is what it holds.
LEMMA AnnouncedOK ==
    ASSUME NEW g, NEW n, NEW k, NEW h, NEW a, [gw |-> g, key |-> k] \in h
    PROVE  ToRcOK(Open("PACKAGE", [gw |-> g, generation |-> n,
                                   salt |-> k.salt], 0), h, a)
BY DEF ToRcOK, Open, Owned

LEMMA KeyGwStarts ==
    ASSUME TypeInv, KeyInv, TypeInv', NEW g \in Gateway, GwStarts(g)
    PROVE  KeyInv'
<1>1. UNCHANGED <<saved, toGw, salts, rcVars, held, committed, acknowledged>>
  BY DEF GwStarts, historyVars
<1>2. running' = [running EXCEPT ![g] = saved[g]]
  BY DEF GwStarts, GwLoads
<1>3. GatewayInv'
  <2>1. ASSUME NEW h \in Gateway
        PROVE  running'[h].generation # 0
               => [gw |-> h, key |-> running'[h].key] \in held'
    BY <1>1, <1>2 DEF TypeInv, PairingTypeOK, KeyInv, GatewayInv
  <2>2. gwSession'[g].state # "IDLE" \/ ~gwSession'[g].told
        => running'[g].generation # 0
    BY <1>2 DEF GwStarts, TypeInv, PairingTypeOK, NoGatewaySession
  <2>3. gwSession'[g].state # "RC_RESULT_VERIFIED"
    <3>1. gwSession'[g] \in {NoGatewaySession, Started(challenges')}
      BY DEF GwStarts, TypeInv, PairingTypeOK
    <3>2. Started(challenges').state = "CHALLENGE_READY"
      BY DEF Started, NoGatewaySession
    <3> QED
      BY <3>1, <3>2 DEF NoGatewaySession
  <2>4. \A h \in Gateway \ {g} : UNCHANGED <<gwSession[h], running[h]>>
    BY <1>2 DEF GwStarts, TypeInv, PairingTypeOK
  <2> QED
    BY <1>1, <2>1, <2>2, <2>3, <2>4 DEF KeyInv, GatewayInv, VerifiedIsStored
<1>4. RcLinkOK(toRc', held', acknowledged')
  <2>1. CASE UNCHANGED toRc
    BY <1>1, <2>1 DEF KeyInv
  <2>2. CASE saved[g].generation # 0
    <3> DEFINE f == Open("PACKAGE", Announced(g)', 0)
    <3>1. Announced(g)' = [gw |-> g, generation |-> saved[g].generation,
                           salt |-> saved[g].key.salt]
      BY <1>2 DEF Announced, TypeInv, PairingTypeOK
    <3>2. ToRcOK(f, held, acknowledged)
      BY <2>2, <3>1, AnnouncedOK DEF KeyInv, GatewayInv
    <3>3. f \in Frame
      <4>1. saved[g] \in Config /\ 0 \in 0 .. MaxChallenge
        BY PairingAssumption DEF TypeInv, PairingTypeOK
      <4> QED
        BY <3>1, <4>1, OpenType DEF Config, Key, FrameType
    <3>4. toRc' = Sent(toRc, f)
      BY <2>2 DEF GwStarts
    <3> QED
      BY <1>1, <3>2, <3>3, <3>4, RcLinkSent DEF KeyInv, TypeInv, PairingTypeOK
  <2> QED
    BY <2>1, <2>2 DEF GwStarts
<1> QED
  BY <1>1, <1>3, <1>4, GatewaySide DEF KeyInv, HeldInv

\* The other gateways, and this one as long as it does not verify anything.
LEMMA GatewayInvKept ==
    ASSUME TypeInv, KeyInv, NEW g \in Gateway,
           UNCHANGED <<saved, running, held, committed>>,
           NEW s, gwSession' = [gwSession EXCEPT ![g] = s],
           s.state # "IDLE" \/ ~s.told => running[g].generation # 0,
           s.state = "RC_RESULT_VERIFIED"
           => [gw |-> g, key |-> running[g].key, nonce |-> s.nonce] \in committed
    PROVE  GatewayInv'
<1>1. gwSession'[g] = s /\ \A h \in Gateway \ {g} : gwSession'[h] = gwSession[h]
  BY DEF TypeInv, PairingTypeOK
<1> QED
  BY <1>1 DEF KeyInv, GatewayInv, VerifiedIsStored

LEMMA KeyGwChallenges ==
    ASSUME TypeInv, KeyInv, NEW g \in Gateway, GwChallenges(g) \/ GwExpires(g)
    PROVE  KeyInv'
<1>1. UNCHANGED <<saved, running, toGw, salts, rcVars, held, committed,
                  acknowledged>>
  BY DEF GwChallenges, GwExpires, historyVars, drawnVars, linkVars
<1>2. GatewayInv'
  <2>1. CASE GwChallenges(g)
    BY <1>1, <2>1 DEF GwChallenges, TypeInv, PairingTypeOK, GatewaySession,
       KeyInv, GatewayInv, VerifiedIsStored
  <2>2. CASE GwExpires(g)
    BY <1>1, <2>2, GatewayInvKept DEF GwExpires, NoGatewaySession
  <2> QED
    BY <2>1, <2>2
<1>3. RcLinkOK(toRc', held', acknowledged')
  <2>1. CASE GwChallenges(g)
    <3>1. toRc' = Sent(toRc, Challenge(g))
      BY <2>1 DEF GwChallenges, Challenge
    <3>2. Challenge(g) \in Frame /\ Challenge(g).type = "CHALLENGE"
      BY ChallengeType DEF TypeInv
    <3>3. ToRcOK(Challenge(g), held, acknowledged)
      BY <3>2 DEF ToRcOK
    <3> QED
      BY <1>1, <3>1, <3>2, <3>3, RcLinkSent DEF KeyInv, TypeInv, PairingTypeOK
  <2>2. CASE GwExpires(g)
    BY <1>1, <2>2 DEF GwExpires, linkVars, KeyInv
  <2> QED
    BY <2>1, <2>2
<1> QED
  BY <1>1, <1>2, <1>3, GatewaySide DEF KeyInv, HeldInv

LEMMA KeyGwHearsProof ==
    ASSUME TypeInv, KeyInv, NEW g \in Gateway, GwHearsProof(g)
    PROVE  KeyInv'
<1> DEFINE f == Head(toGw)
           reply == Proven("GATEWAY_PROOF", g, running[g].generation,
                           running[g].key, f.challenge, f.nonce)
<1>1. /\ UNCHANGED <<saved, running, salts, rcVars, held, committed,
                     acknowledged>>
      /\ toGw # <<>> /\ toGw' = Tail(toGw) /\ f \in Frame
  BY TailType DEF GwHearsProof, GwReads, historyVars, drawnVars, TypeInv,
     PairingTypeOK
<1>2. GwLinkOK(toGw', committed')
  BY <1>1, GwLinkTail DEF KeyInv, TypeInv, PairingTypeOK
<1>3. CASE UNCHANGED <<gwSession, toRc>>
  <2>1. GatewayInv'
    BY <1>1, <1>3 DEF KeyInv, GatewayInv, VerifiedIsStored
  <2> QED
    BY <1>1, <1>2, <1>3, <2>1, GatewaySide DEF KeyInv, HeldInv
<1>4. CASE gwSession[g].state = "CHALLENGE_READY" /\ Answers(g, f)
  <2>1. [gw |-> g, key |-> running[g].key] \in held
    BY <1>4 DEF KeyInv, GatewayInv
  <2>2. GatewayInv'
    <3>1. gwSession[g] \in GatewaySession /\ running[g].generation # 0
      BY <1>4 DEF TypeInv, PairingTypeOK, KeyInv, GatewayInv
    <3>2. CASE gwSession' = [gwSession EXCEPT ![g] = Failed(gwSession[g])]
      <4>1. Failed(gwSession[g]).state \in {"IDLE", "CHALLENGE_READY"}
        BY <1>4, <3>1 DEF Failed, NoGatewaySession, GatewaySession
      <4> QED
        BY <1>1, <3>1, <3>2, <4>1, GatewayInvKept
    <3>3. CASE gwSession' = [gwSession EXCEPT ![g] = NoGatewaySession]
      BY <1>1, <3>3, GatewayInvKept DEF NoGatewaySession
    <3>4. CASE gwSession' = [gwSession EXCEPT ![g].nonce = f.nonce,
                               ![g].state = "WAIT_RC_RESULT"]
      <4> DEFINE s == [gwSession[g] EXCEPT !.nonce = f.nonce,
                                           !.state = "WAIT_RC_RESULT"]
      <4>1. gwSession' = [gwSession EXCEPT ![g] = s]
        BY <3>1, <3>4 DEF TypeInv, PairingTypeOK, GatewaySession
      <4>2. s.state = "WAIT_RC_RESULT"
        BY <3>1 DEF GatewaySession
      <4> QED
        BY <1>1, <3>1, <4>1, <4>2, GatewayInvKept
    <3> QED
      BY <1>4, <3>2, <3>3, <3>4 DEF Answers
  <2>3. RcLinkOK(toRc', held', acknowledged')
    <3>1. reply \in Frame
      <4>1. running[g] \in Config
        BY DEF TypeInv, PairingTypeOK
      <4> QED
        BY <1>1, <4>1, ProvenType DEF Config, Frame, FrameType
    <3>2. ToRcOK(reply, held, acknowledged)
      BY <2>1 DEF ToRcOK, Proven, Open
    <3>3. RcLinkOK(Sent(toRc, reply), held, acknowledged)
      BY <3>1, <3>2, RcLinkSent DEF KeyInv, TypeInv, PairingTypeOK
    <3> QED
      BY <1>1, <1>4, <3>3 DEF Answers, KeyInv
  <2> QED
    BY <1>1, <1>2, <2>2, <2>3, GatewaySide DEF KeyInv, HeldInv
<1> QED
  BY <1>3, <1>4 DEF GwHearsProof

LEMMA KeyGwHearsResult ==
    ASSUME TypeInv, KeyInv, NEW g \in Gateway, GwHearsResult(g)
    PROVE  KeyInv'
<1> DEFINE f == Head(toGw)
           nonce == gwSession[g].nonce
           reply == Proven("GATEWAY_COMMITTED", g, saved[g].generation,
                           saved[g].key, gwSession[g].challenge, nonce)
           ack == [gw |-> g, key |-> saved[g].key, nonce |-> nonce]
<1>1. /\ UNCHANGED <<saved, running, salts, rcVars, held, committed>>
      /\ toGw # <<>> /\ toGw' = Tail(toGw) /\ f.type = "RC_COMMITTED"
      /\ f.gw = g
  BY DEF GwHearsResult, GwReads, drawnVars
<1>2. GwLinkOK(toGw', committed') /\ ToGwOK(f, committed)
  BY <1>1, GwLinkTail DEF KeyInv, TypeInv, PairingTypeOK
<1>3. CASE UNCHANGED <<gwSession, toRc, acknowledged>>
  <2>1. GatewayInv'
    BY <1>1, <1>3 DEF KeyInv, GatewayInv, VerifiedIsStored
  <2> QED
    BY <1>1, <1>2, <1>3, <2>1, GatewaySide DEF KeyInv, HeldInv
<1>4. CASE /\ gwSession[g].state \in {"WAIT_RC_RESULT", "RC_RESULT_VERIFIED"}
           /\ Verifies(f, running[g].key, gwSession[g].challenge, nonce)
           /\ gwSession' = [gwSession EXCEPT ![g].state = "RC_RESULT_VERIFIED"]
           /\ Acknowledges(g, nonce)
  <2>1. [gw |-> g, key |-> running[g].key] \in held
        /\ running[g].generation # 0
    BY <1>4 DEF KeyInv, GatewayInv
  <2>2. GatewayInv'
    <3> DEFINE s == [gwSession[g] EXCEPT !.state = "RC_RESULT_VERIFIED"]
    <3>1. [gw |-> g, key |-> running[g].key, nonce |-> nonce] \in committed
      BY <1>1, <1>2, <1>4 DEF Verifies, ToGwOK
    <3>2. gwSession[g] \in GatewaySession
      BY DEF TypeInv, PairingTypeOK
    <3>3. s.nonce = nonce /\ gwSession' = [gwSession EXCEPT ![g] = s]
      BY <1>4, <3>2 DEF GatewaySession, TypeInv, PairingTypeOK
    <3> QED
      BY <1>1, <2>1, <3>1, <3>3, GatewayInvKept
  <2>3. acknowledged \subseteq acknowledged'
        /\ RcLinkOK(toRc', held', acknowledged')
    <3>1. CASE UNCHANGED <<toRc, acknowledged>>
      BY <1>1, <3>1 DEF KeyInv
    <3>2. CASE /\ StillSaved(g) /\ toRc' = Sent(toRc, reply)
               /\ acknowledged' = acknowledged \cup {ack}
      <4>1. reply \in Frame
        BY ProvenType DEF TypeInv, PairingTypeOK, Config, GatewaySession,
           FrameType
      <4>2. saved[g] = running[g]
        BY <3>2 DEF StillSaved
      <4>3. ToRcOK(reply, held, acknowledged')
        BY <2>1, <3>2, <4>2 DEF ToRcOK, Proven, Open
      <4>4. RcLinkOK(toRc, held, acknowledged')
        BY <3>2, RcLinkGrows DEF KeyInv
      <4> QED
        BY <1>1, <3>2, <4>1, <4>3, <4>4, RcLinkSent DEF TypeInv, PairingTypeOK
    <3> QED
      BY <1>4, <3>1, <3>2 DEF Acknowledges
  <2> QED
    BY <1>1, <1>2, <2>2, <2>3, GatewaySide DEF KeyInv, HeldInv
<1> QED
  BY <1>3, <1>4 DEF GwHearsResult

-----------------------------------------------------------------------------
(* The RC's steps.                                                         *)

\* The gateways' part holds on, whatever the RC does.
LEMMA RcSide ==
    ASSUME TypeInv, KeyInv, UNCHANGED <<gwVars, salts, held, acknowledged>>,
           committed \subseteq committed', RcInv', StoredKeysAreHeld',
           RcLinkOK(toRc', held, acknowledged), GwLinkOK(toGw', committed')
    PROVE  KeyInv'
<1>1. HeldInv' /\ GatewayInv'
  BY DEF KeyInv, HeldInv, GatewayInv, VerifiedIsStored, gwVars
<1> QED
  BY <1>1 DEF KeyInv

\* The RC's session stays, ends, or only changes what the invariant does not
\* speak of.
LEMMA RcInvKept ==
    ASSUME KeyInv, UNCHANGED <<held, fleet, committed>>,
           package' \in {package, NoPackage},
           \/ rcSession'.state = "IDLE"
           \/ /\ rcSession'.state = rcSession.state
              /\ rcSession'.gw = rcSession.gw /\ rcSession'.salt = rcSession.salt
              /\ rcSession'.key = rcSession.key
              /\ rcSession'.nonce = rcSession.nonce
    PROVE  RcInv' /\ StoredKeysAreHeld'
BY DEF KeyInv, RcInv, Waiting, StoredKeysAreHeld, NoPackage

LEMMA RcReadsOK ==
    ASSUME TypeInv, KeyInv, NEW types, RcReads(types)
    PROVE  /\ Head(toRc) \in Frame /\ ToRcOK(Head(toRc), held, acknowledged)
           /\ RcLinkOK(toRc', held, acknowledged)
BY TailType, RcLinkTail DEF RcReads, TypeInv, PairingTypeOK, KeyInv

LEMMA KeyElsewhere ==
    ASSUME TypeInv, KeyInv,
           UNCHANGED <<gwVars, salts, historyVars, package, rcSession, fleet,
                       linkVars>>
    PROVE  KeyInv'
BY RcInvKept, RcSide DEF KeyInv, historyVars, linkVars

LEMMA KeyLose == TypeInv /\ KeyInv /\ Lose => KeyInv'
<1> SUFFICES ASSUME TypeInv, KeyInv, Lose PROVE KeyInv'
  OBVIOUS
<1>1. RcLinkOK(toRc', held, acknowledged) /\ GwLinkOK(toGw', committed)
  BY RcLinkTail, GwLinkTail DEF Lose, KeyInv, TypeInv, PairingTypeOK
<1> QED
  BY <1>1, RcInvKept, RcSide DEF Lose, drawnVars, historyVars, rcVars,
     exchangeVars, storedVars

LEMMA KeyRcTakes == TypeInv /\ KeyInv /\ RcTakes => KeyInv'
<1> SUFFICES ASSUME TypeInv, KeyInv, RcTakes PROVE KeyInv'
  OBVIOUS
<1> DEFINE key == DerivedKey(rcSession.salt, queue.pass)
           proof == Proven("RC_PROOF", rcSession.gw, rcSession.generation, key,
                           rcSession.challenge, rcSession.nonce)
<1>1. UNCHANGED <<gwVars, salts, held, acknowledged, committed, fleet, toRc>>
  BY DEF RcTakes, drawnVars, storedVars, historyVars
<1>2. rcSession \in RcSession
  BY DEF TypeInv, PairingTypeOK
<1>3. CASE TurnsDown
  BY <1>1, <1>3, RcInvKept, RcSide DEF TurnsDown, exchangeVars, KeyInv
<1>4. CASE Cleanup /\ UNCHANGED toGw
  BY <1>1, <1>4, RcInvKept, RcSide DEF Cleanup, NoRcSession, KeyInv
<1>5. CASE Refuses
  <2>1. CASE rcSession' = [rcSession EXCEPT !.retries = @ + 1]
             /\ UNCHANGED package
    BY <1>1, <1>2, <1>5, <2>1, RcInvKept, RcSide DEF Refuses, KeyInv, RcSession
  <2> QED
    BY <1>4, <1>5, <2>1 DEF Refuses
<1>6. CASE rcSession.state = "CHALLENGE_READY" /\ ProvesWith(key)
  <2>1. CASE Cleanup /\ UNCHANGED toGw
    BY <1>4, <2>1
  <2>2. CASE /\ rcSession' = [rcSession EXCEPT !.state = "RC_PROOF_READY",
                                              !.key = key]
             /\ toGw' = Sent(toGw, proof) /\ UNCHANGED package
    <3>1. RcInv'
      BY <1>1, <1>2, <1>6, <2>2 DEF RcInv, Waiting, RcSession, DerivedKey,
         KeyInv
    <3>2. proof \in Frame /\ ToGwOK(proof, committed)
      <4>1. key \in Key
        BY KeyType DEF TypeInv, PairingTypeOK, RcSession, Request
      <4>2. proof \in Frame
        BY <1>6, <4>1, SessionFrame DEF FrameType
      <4> QED
        BY <4>2 DEF ToGwOK, Proven, Open
    <3>3. GwLinkOK(toGw', committed')
      BY <1>1, <2>2, <3>2, GwLinkSent DEF KeyInv, TypeInv, PairingTypeOK
    <3>4. StoredKeysAreHeld'
      BY <1>1 DEF KeyInv, StoredKeysAreHeld
    <3> QED
      BY <1>1, <3>1, <3>3, <3>4, RcSide DEF KeyInv
  <2> QED
    BY <1>6, <2>1, <2>2 DEF ProvesWith
<1> QED
  BY <1>3, <1>4, <1>5, <1>6 DEF RcTakes

LEMMA KeyRcTimes ==
    ASSUME TypeInv, KeyInv, RcGivesUp \/ RcFallsDue \/ RcRestarts
    PROVE  KeyInv'
<1> USE DEF drawnVars, historyVars, linkVars, storedVars
<1>1. rcSession \in RcSession
  BY DEF TypeInv, PairingTypeOK
<1>2. CASE RcGivesUp
  BY <1>2, RcInvKept, RcSide DEF RcGivesUp, NoRcSession, KeyInv
<1>3. CASE RcFallsDue
  BY <1>1, <1>3, RcInvKept, RcSide DEF RcFallsDue, RcSession, KeyInv
<1>4. CASE RcRestarts
  <2>1. RcLinkOK(toRc', held, acknowledged)
    BY <1>4 DEF RcRestarts, RcLinkOK
  <2> QED
    BY <1>4, <2>1, RcInvKept, RcSide DEF RcRestarts, Cleanup, NoRcSession,
       KeyInv
<1> QED
  BY <1>2, <1>3, <1>4

\* What the RC says of its commit is so.
LEMMA ResultOK ==
    ASSUME NEW c, [gw |-> rcSession.gw, key |-> rcSession.key,
                   nonce |-> rcSession.nonce] \in c
    PROVE  ToGwOK(Result, c)
BY DEF ToGwOK, Result, Proven, Open

LEMMA KeyRcPolls == TypeInv /\ KeyInv /\ RcPolls => KeyInv'
<1> SUFFICES ASSUME TypeInv, KeyInv, RcPolls PROVE KeyInv'
  OBVIOUS
<1> USE DEF drawnVars, historyVars, storedVars
<1>1. CASE rcSession.due
  BY <1>1, RcInvKept, RcSide DEF RcPolls, Cleanup, NoRcSession, KeyInv
<1>2. CASE ~rcSession.due
  <2>1. Result \in Frame
    BY SessionFrame DEF RcPolls, Waiting, Result, TypeInv, PairingTypeOK,
       RcSession, FrameType
  <2>2. ToGwOK(Result, committed)
    BY ResultOK DEF RcPolls, KeyInv, RcInv
  <2>3. GwLinkOK(toGw', committed')
    BY <1>2, <2>1, <2>2, GwLinkSent DEF RcPolls, KeyInv, TypeInv, PairingTypeOK
  <2> QED
    BY <1>2, <2>3, RcInvKept, RcSide DEF RcPolls, KeyInv
<1> QED
  BY <1>1, <1>2

LEMMA KeyRcHearsPackage == TypeInv /\ KeyInv /\ RcHearsPackage => KeyInv'
<1> SUFFICES ASSUME TypeInv, KeyInv, RcHearsPackage PROVE KeyInv'
  OBVIOUS
<1> DEFINE f == Head(toRc)
<1>1. RcLinkOK(toRc', held, acknowledged) /\ Owned(held, f.gw, f.salt)
  BY RcReadsOK DEF RcHearsPackage, RcReads, ToRcOK
<1>2. UNCHANGED <<gwVars, toGw, salts, fleet, held, committed, acknowledged>>
  BY DEF RcHearsPackage, drawnVars, storedVars, historyVars
<1>3. CASE UNCHANGED <<package, rcSession>>
  BY <1>1, <1>2, <1>3, RcInvKept, RcSide DEF KeyInv
<1>4. CASE ~UNCHANGED <<package, rcSession>>
  <2>1. /\ rcSession'.state = "IDLE"
        /\ package'.gw = f.gw /\ package'.salt = f.salt
    BY <1>4 DEF RcHearsPackage, NoRcSession
  <2>2. RcInv' /\ StoredKeysAreHeld'
    BY <1>1, <1>2, <2>1 DEF RcInv, Waiting, KeyInv, StoredKeysAreHeld
  <2> QED
    BY <1>1, <1>2, <2>2, RcSide DEF KeyInv
<1> QED
  BY <1>3, <1>4

LEMMA KeyRcHearsChallenge == TypeInv /\ KeyInv /\ RcHearsChallenge => KeyInv'
<1> SUFFICES ASSUME TypeInv, KeyInv, RcHearsChallenge PROVE KeyInv'
  OBVIOUS
<1> DEFINE f == Head(toRc)
<1>1. RcLinkOK(toRc', held, acknowledged) /\ f.gw \in Gateway
  BY RcReadsOK DEF RcHearsChallenge, Frame
<1>2. UNCHANGED <<gwVars, toGw, salts, package, fleet, held, committed,
                  acknowledged>>
  BY DEF RcHearsChallenge, storedVars, historyVars
<1>3. CASE UNCHANGED rcSession
  BY <1>1, <1>2, <1>3, RcInvKept, RcSide DEF KeyInv
<1>4. CASE ~UNCHANGED rcSession
  <2>1. /\ rcSession'.state = "CHALLENGE_READY" /\ rcSession'.gw = f.gw
        /\ rcSession'.salt = package.salt /\ package.gw = f.gw
    BY <1>4 DEF RcHearsChallenge, NoRcSession
  <2>2. Owned(held, rcSession'.gw, rcSession'.salt)
    BY <1>1, <2>1, NoneAssumption DEF KeyInv, RcInv
  <2>3. RcInv' /\ StoredKeysAreHeld'
    BY <1>2, <2>1, <2>2 DEF RcInv, Waiting, KeyInv, StoredKeysAreHeld
  <2> QED
    BY <1>1, <1>2, <2>3, RcSide DEF KeyInv
<1> QED
  BY <1>3, <1>4

\* A key that some gateway has proved, with the salt of the session, is a key
\* of the session's gateway.
LEMMA ProvedKeyIsMeant ==
    ASSUME TypeInv, KeyInv, NEW f \in Frame,
           rcSession.state \in {"RC_PROOF_READY", "WAIT_GATEWAY_RESULT"},
           [gw |-> f.gw, key |-> f.key] \in held, Proves(f)
    PROVE  f.gw = rcSession.gw /\ f.key = rcSession.key
           /\ f.nonce = rcSession.nonce
<1>1. f.key = rcSession.key /\ f.key.salt = rcSession.salt
      /\ f.nonce = rcSession.nonce
  BY DEF Proves, Verifies, KeyInv, RcInv
<1>2. PICK k \in held : k.gw = rcSession.gw /\ k.key.salt = rcSession.salt
  BY DEF KeyInv, RcInv, Owned
<1>3. k = [gw |-> f.gw, key |-> f.key]
  BY <1>1, <1>2 DEF KeyInv, HeldInv
<1> QED
  BY <1>1, <1>2, <1>3

LEMMA KeyRcHearsProof == TypeInv /\ KeyInv /\ RcHearsProof => KeyInv'
<1> SUFFICES ASSUME TypeInv, KeyInv, RcHearsProof PROVE KeyInv'
  OBVIOUS
<1> DEFINE f == Head(toRc)
           offer == Offer(rcSession.key)
<1>1. /\ RcLinkOK(toRc', held, acknowledged) /\ f \in Frame
      /\ [gw |-> f.gw, key |-> f.key] \in held
  BY RcReadsOK DEF RcHearsProof, RcReads, ToRcOK
<1>2. UNCHANGED <<gwVars, salts, held, acknowledged>>
  BY DEF RcHearsProof, drawnVars
<1>3. CASE UNCHANGED <<exchangeVars, toGw, storedVars, committed>>
  BY <1>1, <1>2, <1>3, RcInvKept, RcSide DEF exchangeVars, storedVars, KeyInv
<1>4. CASE \/ ProofComesLate
           \/ EndsFailed /\ UNCHANGED <<fleet, committed>>
  BY <1>1, <1>2, <1>4, RcInvKept, RcSide DEF ProofComesLate, EndsFailed,
     Cleanup, NoRcSession, storedVars, KeyInv
<1>5. CASE /\ rcSession.state = "RC_PROOF_READY" /\ Proves(f)
           /\ StoresBoth(offer)
           /\ AwaitsResult \/ EndsFailed
  <2>1. /\ rcSession \in RcSession /\ rcSession.gw \in Gateway
        /\ offer = [gw |-> rcSession.gw, generation |-> rcSession.generation,
                    key |-> rcSession.key]
    BY <1>5 DEF TypeInv, PairingTypeOK, SessionHasGateway, Offer
  <2>2. [gw |-> rcSession.gw, key |-> rcSession.key] \in held
    BY <1>1, <1>5, ProvedKeyIsMeant
  <2>3. /\ fleet' = [fleet EXCEPT ![rcSession.gw] = offer]
        /\ committed' = committed \cup
             {[gw |-> rcSession.gw, key |-> rcSession.key,
               nonce |-> rcSession.nonce]}
    BY <1>5, <2>1 DEF StoresBoth
  <2>4. fleet'[rcSession.gw] = offer
        /\ \A g \in Gateway \ {rcSession.gw} : fleet'[g] = fleet[g]
    BY <2>1, <2>3 DEF TypeInv, PairingTypeOK
  <2>5. StoredKeysAreHeld'
    BY <1>2, <2>1, <2>2, <2>4 DEF StoredKeysAreHeld, KeyInv
  <2>6. CASE AwaitsResult
    <3>1. /\ rcSession' = [rcSession EXCEPT !.state = "WAIT_GATEWAY_RESULT"]
          /\ toGw' = Sent(toGw, Result) /\ UNCHANGED package
      BY <2>6 DEF AwaitsResult
    <3>2. RcInv'
      BY <1>2, <1>5, <2>1, <2>3, <2>4, <3>1 DEF RcInv, Waiting, RcSession, KeyInv
    <3>3. Result \in Frame
      BY <1>5, <2>1, SessionFrame DEF Result, RcSession, FrameType
    <3>4. ToGwOK(Result, committed') /\ GwLinkOK(toGw, committed')
      BY <2>3, ResultOK, GwLinkGrows DEF KeyInv
    <3>5. GwLinkOK(toGw', committed')
      BY <3>1, <3>3, <3>4, GwLinkSent DEF TypeInv, PairingTypeOK
    <3> QED
      BY <1>1, <1>2, <2>3, <2>5, <3>2, <3>5, RcSide
  <2>7. CASE EndsFailed
    <3>1. RcInv'
      BY <2>7 DEF EndsFailed, Cleanup, NoRcSession, NoPackage, RcInv, Waiting
    <3>2. GwLinkOK(toGw', committed')
      BY <2>3, <2>7, GwLinkGrows DEF EndsFailed, KeyInv
    <3> QED
      BY <1>1, <1>2, <2>3, <2>5, <3>1, <3>2, RcSide
  <2> QED
    BY <1>5, <2>6, <2>7
<1> QED
  BY <1>3, <1>4, <1>5 DEF RcHearsProof, CommitsBoth, CommitFails

LEMMA KeyRcHearsResult == TypeInv /\ KeyInv /\ RcHearsResult => KeyInv'
<1> SUFFICES ASSUME TypeInv, KeyInv, RcHearsResult PROVE KeyInv'
  OBVIOUS
<1>1. RcLinkOK(toRc', held, acknowledged)
  BY RcReadsOK DEF RcHearsResult
<1>2. /\ rcSession'.state = "IDLE" \/ UNCHANGED rcSession
      /\ package' \in {package, NoPackage}
  BY DEF RcHearsResult, Cleanup, NoRcSession, exchangeVars
<1> QED
  BY <1>1, <1>2, RcInvKept, RcSide DEF RcHearsResult, drawnVars, storedVars,
     historyVars, KeyInv

-----------------------------------------------------------------------------
LEMMA KeyInit == Init => KeyInv
<1> SUFFICES ASSUME Init PROVE KeyInv
  OBVIOUS
<1>1. PICK g \in Gateway, p \in Chosen :
        LET key == [salt |-> 1, pass |-> p]
        IN  \/ /\ salts = 1 /\ held = {[gw |-> g, key |-> key]}
               /\ saved = [h \in Gateway |->
                    IF h = g THEN [generation |-> 1, key |-> key]
                    ELSE Unprovisioned]
               /\ fleet = [h \in Gateway |->
                    IF h = g THEN [gw |-> g, generation |-> 1, key |-> key]
                    ELSE Unpaired]
            \/ /\ salts = 0 /\ held = {}
               /\ saved = [h \in Gateway |-> Unprovisioned]
               /\ fleet = [h \in Gateway |-> Unpaired]
  BY DEF Init
<1>2. HeldInv /\ StoredKeysAreHeld
  BY <1>1 DEF HeldInv, StoredKeysAreHeld, Unpaired
<1>3. GatewayInv
  BY <1>1 DEF Init, GatewayInv, VerifiedIsStored, Unprovisioned,
     NoGatewaySession
<1>4. RcInv
  BY DEF Init, RcInv, Waiting, NoRcSession, NoPackage
<1>5. RcLinkOK(toRc, held, acknowledged) /\ GwLinkOK(toGw, committed)
  BY DEF Init, RcLinkOK, GwLinkOK
<1> QED
  BY <1>2, <1>3, <1>4, <1>5 DEF KeyInv

LEMMA KeyStep == TypeInv /\ KeyInv /\ [Next]_vars => KeyInv'
<1> SUFFICES ASSUME TypeInv, KeyInv, [Next]_vars PROVE KeyInv'
  OBVIOUS
<1>1. CASE \/ UNCHANGED vars \/ HttpNext \/ RcLooks
           \/ Submit
  <2>1. UNCHANGED <<gwVars, salts, historyVars, package, rcSession, fleet,
                    linkVars>>
    BY <1>1 DEF vars, HttpNext, Admit, Tell, Enqueue, RcLooks, Submit,
       drawnVars, rcVars, exchangeVars, storedVars
  <2> QED
    BY <2>1, KeyElsewhere
<1>2. ASSUME NEW g \in Gateway, GwNext(g) PROVE KeyInv'
  BY <1>2, TypeStep, KeyGwConfigures, KeyGwStarts, KeyGwChallenges,
     KeyGwHearsProof, KeyGwHearsResult DEF GwNext
<1>3. CASE RcTask
  BY <1>3, KeyRcTakes, KeyRcTimes, KeyRcPolls, KeyRcHearsPackage,
     KeyRcHearsChallenge, KeyRcHearsProof, KeyRcHearsResult DEF RcTask
<1> QED
  BY <1>1, <1>2, <1>3, KeyLose, KeyRcTimes DEF Next

LEMMA KeysSafe == Spec => [](TypeInv /\ KeyInv)
<1>1. Init => TypeInv /\ KeyInv
  BY TypeInit, KeyInit
<1>2. TypeInv /\ KeyInv /\ [Next]_vars => (TypeInv /\ KeyInv)'
  BY TypeStep, KeyStep
<1> QED
  BY <1>1, <1>2, PTL DEF Spec

\* The fleet never holds for an aircraft a key of another one, or one that no
\* gateway ever had, whatever passphrases are typed and frames are late.
THEOREM StoredKeysAlwaysHeld == Spec => []StoredKeysAreHeld
<1>1. KeyInv => StoredKeysAreHeld
  BY DEF KeyInv
<1> QED
  BY <1>1, KeysSafe, PTL

\* A gateway believes that it is paired only after the RC has stored the key,
\* in this session.
THEOREM VerifiedIsAlwaysStored == Spec => []VerifiedIsStored
<1>1. KeyInv => VerifiedIsStored
  BY DEF KeyInv, GatewayInv
<1> QED
  BY <1>1, KeysSafe, PTL

\* SUCCESS on the RC's page means that the gateway has acknowledged the very
\* key that the fleet holds for it.
THEOREM SuccessIsAlwaysMutual == Spec => SuccessIsMutual
<1>1. TypeInv /\ KeyInv /\ [Next]_vars
      => [status' = "SUCCESS" /\ status # "SUCCESS" =>
            [gw |-> rcSession.gw, key |-> fleet[rcSession.gw].key,
             nonce |-> rcSession.nonce] \in acknowledged]_vars
  <2> SUFFICES ASSUME TypeInv, KeyInv, Next, status' = "SUCCESS",
                      status # "SUCCESS"
               PROVE  [gw |-> rcSession.gw, key |-> fleet[rcSession.gw].key,
                       nonce |-> rcSession.nonce] \in acknowledged
    OBVIOUS
  <2> DEFINE f == Head(toRc)
  <2>1. RcHearsResult /\ Waiting /\ Proves(f)
    <3>1. ~(\E g \in Gateway : GwNext(g)) /\ ~Lose
      BY DEF GwNext, GwConfigures, GwStarts, GwChallenges, GwExpires,
         GwHearsProof, GwHearsResult, Lose, rcVars, pageVars
    <3>2. ~HttpNext /\ ~RcLooks /\ ~RcFallsDue /\ ~RcRestarts
          /\ ~(Submit)
      BY DEF HttpNext, Admit, Tell, Enqueue, RcLooks, RcFallsDue, RcRestarts,
         Submit, pageVars
    <3>3. ~RcTakes /\ ~RcGivesUp /\ ~RcPolls /\ ~RcHearsPackage
          /\ ~RcHearsChallenge
      BY DEF RcTakes, TurnsDown, ProvesWith, Refuses, RcGivesUp, RcPolls,
         RcHearsPackage, RcHearsChallenge, pageVars
    <3>4. ~RcHearsProof
      BY DEF RcHearsProof, ProofComesLate, CommitsBoth, AwaitsResult,
         CommitFails, EndsFailed
    <3> QED
      BY <3>1, <3>2, <3>3, <3>4 DEF Next, RcTask, RcHearsResult
  <2>2. /\ f \in Frame /\ f.type = "GATEWAY_COMMITTED"
        /\ ToRcOK(f, held, acknowledged)
    BY <2>1, RcReadsOK DEF RcHearsResult, RcReads
  <2>3. f.gw = rcSession.gw /\ f.key = rcSession.key
        /\ f.nonce = rcSession.nonce
    BY <2>1, <2>2, ProvedKeyIsMeant DEF Waiting, ToRcOK
  <2>4. fleet[rcSession.gw].key = rcSession.key
    BY <2>1 DEF KeyInv, RcInv
  <2> QED
    BY <2>2, <2>3, <2>4 DEF ToRcOK
<1> QED
  BY <1>1, KeysSafe, PTL DEF Spec, SuccessIsMutual

-----------------------------------------------------------------------------
(* Pairing implements the agreement.  What KeyInv does not say is the order: *)
(* of a gateway's keys, and of the exchanges.                                *)

\* The RC waits for a proof in an exchange that has not committed anything.
Undecided == rcSession.state \in {"CHALLENGE_READY", "RC_PROOF_READY"}

InLink(f, link) == \E i \in 1 .. Len(link) : f = link[i]

\* What a gateway has in flash is its newest key; what it runs with is not
\* older than what the RC holds.
NewestInv ==
    \A g \in Gateway :
        /\ saved[g].generation # 0
           => Agreement!IsLatest(saved[g].key, g, held)
        /\ running[g].generation # 0
           => /\ saved[g].generation # 0
              /\ Agreement!IsLatest(running[g].key, g, Stored)

\* A proof under way is of a key that its gateway still runs with, or ran with
\* before, and the one the RC waits for is not older than what the RC holds:
\* the RC has stored nothing since it drew the nonce.
ProofOK(f) ==
    f.type = "GATEWAY_PROOF" =>
        /\ f.nonce <= nonces
        /\ running[f.gw].generation # 0
        /\ f.key.salt <= running[f.gw].key.salt
        /\ Undecided /\ f.nonce = rcSession.nonce
           => Agreement!IsLatest(f.key, f.gw, Stored)

NonceInv ==
    /\ rcSession.nonce <= nonces
    /\ \A c \in committed : c.nonce <= nonces
    /\ Undecided => \A c \in committed : c.nonce # rcSession.nonce
    /\ \A f \in Frame :
          InLink(f, toGw) /\ f.type = "RC_PROOF" => f.nonce <= nonces

\* An aircraft that is not in the fleet has no pairing at all.
FleetInv == \A g \in Gateway : fleet[g].generation = 0 => fleet[g].gw = None

OrderInv ==
    NewestInv /\ NonceInv /\ FleetInv
    /\ \A f \in Frame : InLink(f, toRc) => ProofOK(f)

\* Sending and reading, as sets of frames.
LEMMA LinkFrames ==
    ASSUME NEW link \in Seq(Frame)
    PROVE  /\ link # <<>> => InLink(Head(link), link)
           /\ link # <<>> => \A f : InLink(f, Tail(link)) => InLink(f, link)
           /\ \A f, g \in Frame :
                 InLink(f, Sent(link, g)) => f = g \/ InLink(f, link)
           /\ \A f : ~InLink(f, <<>>)
<1>1. ASSUME link # <<>> PROVE InLink(Head(link), link)
  <2>1. 1 \in 1 .. Len(link) /\ Head(link) = link[1]
    BY <1>1
  <2> QED
    BY <2>1 DEF InLink
<1>2. ASSUME link # <<>>, NEW f, InLink(f, Tail(link)) PROVE InLink(f, link)
  <2>1. PICK i \in 1 .. Len(Tail(link)) : f = Tail(link)[i]
    BY <1>2 DEF InLink
  <2>2. i + 1 \in 1 .. Len(link) /\ Tail(link)[i] = link[i + 1]
    BY <1>2
  <2> QED
    BY <2>1, <2>2 DEF InLink
<1>3. ASSUME NEW f \in Frame, NEW g \in Frame, InLink(f, Sent(link, g)), f # g
      PROVE  InLink(f, link)
  <2>1. CASE Sent(link, g) = link
    BY <1>3, <2>1
  <2>2. CASE Sent(link, g) = Append(link, g)
    <3>1. PICK i \in 1 .. Len(link) + 1 : f = Append(link, g)[i]
      BY <1>3, <2>2 DEF InLink
    <3>2. i \in 1 .. Len(link) /\ f = link[i]
      BY <1>3, <3>1
    <3> QED
      BY <3>2 DEF InLink
  <2> QED
    BY <2>1, <2>2 DEF Sent
<1>4. \A f : ~InLink(f, <<>>)
  BY DEF InLink
<1> QED
  BY <1>1, <1>2, <1>3, <1>4

\* A frame of type t made from Proven has the fields it was given.
LEMMA ProvenFields ==
    ASSUME NEW t, NEW g, NEW n, NEW k, NEW c, NEW x
    PROVE  /\ Proven(t, g, n, k, c, x).type = t
           /\ Proven(t, g, n, k, c, x).gw = g
           /\ Proven(t, g, n, k, c, x).key = k
           /\ Proven(t, g, n, k, c, x).nonce = x
BY DEF Proven, Open

\* Keys are drawn and loaded by the owner's two steps only.
LEMMA KeySteps ==
    ASSUME Next
    PROVE  \/ UNCHANGED <<saved, running, held>>
           \/ \E g \in Gateway, p \in Chosen : GwConfigures(g, p)
           \/ \E g \in Gateway : GwStarts(g)
<1> USE DEF gwVars, historyVars
<1>1. ASSUME NEW g \in Gateway,
             GwChallenges(g) \/ GwExpires(g) \/ GwHearsProof(g) \/ GwHearsResult(g)
      PROVE  UNCHANGED <<saved, running, held>>
  BY <1>1 DEF GwChallenges, GwExpires, GwHearsProof, GwHearsResult
<1>2. \/ HttpNext \/ RcLooks \/ RcFallsDue \/ Lose \/ RcRestarts
      \/ Submit
      => UNCHANGED <<saved, running, held>>
  BY DEF HttpNext, Admit, Tell, Enqueue, RcLooks, RcFallsDue, Lose, RcRestarts,
     Submit
<1>3. RcTask => UNCHANGED <<saved, running, held>>
  BY DEF RcTask, RcTakes, RcGivesUp, RcPolls, RcHearsPackage, RcHearsChallenge,
     RcHearsProof, RcHearsResult
<1> QED
  BY <1>1, <1>2, <1>3 DEF Next, GwNext

\* A proof that was not on the link has just been sent by its gateway, for a
\* nonce that the RC has sent.
LEMMA ProofsSent ==
    ASSUME TypeInv, KeyInv, Next, NEW f \in Frame, InLink(f, toRc'),
           f.type = "GATEWAY_PROOF"
    PROVE  \/ InLink(f, toRc)
           \/ /\ running[f.gw].generation # 0 /\ f.key = running[f.gw].key
              /\ \E h \in Frame : /\ InLink(h, toGw) /\ h.type = "RC_PROOF"
                                  /\ f.nonce = h.nonce
              /\ UNCHANGED <<saved, running, held, nonces, rcSession, fleet,
                             committed>>
<1> DEFINE Old == InLink(f, toRc)
<1>0. toRc \in Seq(Frame) /\ toGw \in Seq(Frame)
  BY DEF TypeInv, PairingTypeOK
<1>1. ASSUME NEW g \in Frame, toRc' = Sent(toRc, g), f # g PROVE Old
  BY <1>0, <1>1, LinkFrames
<1>2. toRc' = toRc => Old
  OBVIOUS
<1>3. ASSUME NEW g \in Gateway, GwStarts(g) PROVE Old
  <2> DEFINE e == Open("PACKAGE", Announced(g)', 0)
  <2>1. running'[g] = saved[g] /\ saved[g] \in Config /\ 0 \in 0 .. MaxChallenge
    BY <1>3, PairingAssumption DEF GwStarts, GwLoads, TypeInv, PairingTypeOK
  <2>2. e \in Frame /\ e.type = "PACKAGE"
    BY <2>1, OpenType DEF Announced, Config, Key, FrameType
  <2> QED
    BY <1>1, <1>3, <2>2 DEF GwStarts
<1>4. ASSUME NEW g \in Gateway, GwChallenges(g) PROVE Old
  <2>1. toRc' = Sent(toRc, Challenge(g))
    BY <1>4 DEF GwChallenges, Challenge
  <2>2. Challenge(g) \in Frame /\ Challenge(g).type = "CHALLENGE"
    BY ChallengeType DEF TypeInv
  <2> QED
    BY <1>1, <2>1, <2>2
<1>5. ASSUME NEW g \in Gateway, GwHearsResult(g) PROVE Old
  <2> DEFINE e == Proven("GATEWAY_COMMITTED", g, saved[g].generation,
                         saved[g].key, gwSession[g].challenge,
                         gwSession[g].nonce)
  <2>1. e \in Frame /\ e.type = "GATEWAY_COMMITTED"
    BY ProvenType, ProvenFields
       DEF TypeInv, PairingTypeOK, Config, GatewaySession, FrameType
  <2>2. toRc' = toRc \/ toRc' = Sent(toRc, e)
    BY <1>5 DEF GwHearsResult, Acknowledges
  <2> QED
    BY <1>1, <2>1, <2>2
<1>6. ASSUME NEW g \in Gateway, GwHearsProof(g), ~Old
      PROVE  /\ running[f.gw].generation # 0 /\ f.key = running[f.gw].key
             /\ \E h \in Frame : /\ InLink(h, toGw) /\ h.type = "RC_PROOF"
                                 /\ f.nonce = h.nonce
             /\ UNCHANGED <<saved, running, held, nonces, rcSession, fleet,
                            committed>>
  <2> DEFINE h == Head(toGw)
             e == Proven("GATEWAY_PROOF", g, running[g].generation,
                         running[g].key, h.challenge, h.nonce)
  <2>1. /\ h \in Frame /\ h.type = "RC_PROOF" /\ InLink(h, toGw)
        /\ UNCHANGED <<saved, running, held, nonces, rcSession, fleet,
                       committed>>
    BY <1>0, <1>6, LinkFrames, TailType
       DEF GwHearsProof, GwReads, drawnVars, rcVars, exchangeVars, storedVars,
           historyVars, TypeInv, PairingTypeOK
  <2>2. e \in Frame
    <3>1. running[g] \in Config
      BY DEF TypeInv, PairingTypeOK
    <3> QED
      BY <2>1, <3>1, ProvenType DEF Config, Frame, FrameType
  <2>3. f = e /\ gwSession[g].state = "CHALLENGE_READY"
    BY <1>1, <1>6, <2>2 DEF GwHearsProof, Answers
  <2>4. running[g].generation # 0
    BY <2>3 DEF KeyInv, GatewayInv
  <2> QED
    BY <2>1, <2>3, <2>4, ProvenFields
<1>7. ASSUME NEW g \in Gateway,
             GwExpires(g) \/ \E p \in Chosen : GwConfigures(g, p)
      PROVE  Old
  BY <1>7 DEF GwExpires, GwConfigures, linkVars
<1>8. Lose => Old
  BY <1>0, LinkFrames DEF Lose
<1>9. ASSUME NEW types, RcReads(types) PROVE Old
  BY <1>0, <1>9, LinkFrames DEF RcReads
<1>10. RcRestarts => Old
  BY <1>0, LinkFrames DEF RcRestarts
<1>11. \/ HttpNext \/ RcLooks \/ RcFallsDue
       \/ Submit
       => Old
  BY DEF HttpNext, Admit, Tell, Enqueue, RcLooks, RcFallsDue, Submit, linkVars
<1>12. RcTask => Old
  BY <1>9 DEF RcTask, RcTakes, RcGivesUp, RcPolls, RcHearsPackage,
     RcHearsChallenge, RcHearsProof, RcHearsResult, linkVars
<1> QED
  BY <1>3, <1>4, <1>5, <1>6, <1>7, <1>8, <1>10, <1>11, <1>12 DEF Next, GwNext

\* The RC asks for a proof with the nonce of its session.
LEMMA ProofsAsked ==
    ASSUME TypeInv, Next, NEW f \in Frame, InLink(f, toGw'),
           f.type = "RC_PROOF"
    PROVE  InLink(f, toGw) \/ f.nonce = rcSession.nonce
<1> DEFINE Old == InLink(f, toGw)
<1>0. toGw \in Seq(Frame) /\ rcSession \in RcSession
  BY DEF TypeInv, PairingTypeOK
<1>1. ASSUME NEW g \in Frame, toGw' = Sent(toGw, g), f # g PROVE Old
  BY <1>0, <1>1, LinkFrames
<1>2. ASSUME NEW g \in Gateway, GwNext(g) PROVE Old
  <2>1. \/ toGw' = toGw
        \/ toGw # <<>> /\ toGw' = Tail(toGw)
    BY <1>2 DEF GwNext, GwConfigures, GwStarts, GwChallenges, GwExpires,
       GwHearsProof, GwHearsResult, GwReads, linkVars
  <2> QED
    BY <1>0, <2>1, LinkFrames
<1>3. Lose => Old
  BY <1>0, LinkFrames DEF Lose
<1>4. \/ HttpNext \/ RcLooks \/ RcFallsDue \/ RcRestarts
      \/ Submit
      => Old
  BY DEF HttpNext, Admit, Tell, Enqueue, RcLooks, RcFallsDue, RcRestarts,
     Submit, linkVars
<1>5. RcGivesUp \/ RcHearsPackage \/ RcHearsChallenge \/ RcHearsResult => Old
  BY DEF RcGivesUp, RcHearsPackage, RcHearsChallenge, RcHearsResult, linkVars
<1>6. ASSUME toGw' = Sent(toGw, Result), rcSession.state # "IDLE" PROVE Old
  <2>1. Result \in Frame /\ Result.type = "RC_COMMITTED"
    BY <1>0, <1>6, SessionFrame, ProvenFields
       DEF Result, TypeInv, RcSession, FrameType
  <2> QED
    BY <1>1, <1>6, <2>1
<1>7. RcPolls => Old
  BY <1>6 DEF RcPolls, Waiting
<1>8. RcHearsProof => Old
  <2>1. ASSUME RcHearsProof
        PROVE  \/ toGw' = toGw
               \/ toGw' = Sent(toGw, Result) /\ rcSession.state # "IDLE"
    BY <2>1 DEF RcHearsProof, ProofComesLate, CommitsBoth, AwaitsResult,
       CommitFails, EndsFailed
  <2> QED
    BY <1>6, <2>1
<1>9. ASSUME RcTakes PROVE Old \/ f.nonce = rcSession.nonce
  <2> DEFINE key == DerivedKey(rcSession.salt, queue.pass)
             e == Proven("RC_PROOF", rcSession.gw, rcSession.generation, key,
                         rcSession.challenge, rcSession.nonce)
  <2>1. \/ toGw' = toGw
        \/ toGw' = Sent(toGw, e) /\ rcSession.state # "IDLE"
    BY <1>9 DEF RcTakes, TurnsDown, ProvesWith, Refuses
  <2>2. CASE toGw' = Sent(toGw, e) /\ rcSession.state # "IDLE"
    <3>1. key \in Key
      BY KeyType DEF TypeInv, PairingTypeOK, RcSession, Request
    <3>2. e \in Frame
      BY <2>2, <3>1, SessionFrame DEF FrameType, TypeInv
    <3>3. e.nonce = rcSession.nonce
      BY ProvenFields
    <3> QED
      BY <1>1, <2>2, <3>2, <3>3
  <2> QED
    BY <2>1, <2>2
<1> QED
  BY <1>2, <1>3, <1>4, <1>5, <1>7, <1>8, <1>9 DEF Next, RcTask

\* What a step does to the RC's exchange and to what the RC has stored: it
\* goes on or ends, another one begins, or this one stores its pairing.
Commits(f) ==
    LET c == [gw |-> f.gw, key |-> f.key, nonce |-> f.nonce]
        offer == Offer(rcSession.key)
    IN  /\ InLink(f, toRc) /\ f.type = "GATEWAY_PROOF" /\ Undecided
        /\ f.nonce = rcSession.nonce
        /\ f.gw = rcSession.gw /\ f.key = rcSession.key
        /\ [gw |-> f.gw, key |-> f.key] \in held
        /\ FleetTakes(offer) /\ fleet' = [fleet EXCEPT ![f.gw] = offer]
        /\ committed' = committed \cup {c}
        /\ rcSession'.nonce \in {0, rcSession.nonce} /\ ~Undecided'
        /\ UNCHANGED <<saved, running, held, acknowledged, nonces>>

LEMMA ExchangeSteps ==
    ASSUME TypeInv, KeyInv, Next
    PROVE  \/ /\ UNCHANGED <<nonces, fleet, committed>>
              /\ rcSession'.nonce \in {0, rcSession.nonce}
              /\ Undecided' => Undecided /\ rcSession'.nonce = rcSession.nonce
           \/ /\ nonces' = nonces + 1 /\ rcSession'.nonce = nonces'
              /\ UNCHANGED <<saved, running, held, fleet, committed>>
           \/ \E f \in Frame : Commits(f)
<1> DEFINE On == /\ UNCHANGED <<nonces, fleet, committed>>
                 /\ rcSession'.nonce \in {0, rcSession.nonce}
                 /\ Undecided' => Undecided /\ rcSession'.nonce = rcSession.nonce
<1> USE DEF gwVars, drawnVars, storedVars, historyVars
<1>0. rcSession \in RcSession
  BY DEF TypeInv, PairingTypeOK
<1>1. UNCHANGED <<nonces, fleet, committed, rcSession>> => On
  BY DEF Undecided
<1>2. UNCHANGED <<nonces, fleet, committed>> /\ rcSession' = NoRcSession => On
  BY DEF Undecided, NoRcSession
<1>3. ASSUME NEW g \in Gateway, GwNext(g) PROVE On
  BY <1>1, <1>3 DEF GwNext, GwConfigures, GwStarts, GwChallenges, GwExpires,
     GwHearsProof, GwHearsResult, rcVars, exchangeVars
<1>4. \/ HttpNext \/ RcLooks \/ Lose
      \/ Submit
      => On
  BY <1>1 DEF HttpNext, Admit, Tell, Enqueue, RcLooks, Lose, Submit, rcVars,
     exchangeVars
<1>5. RcFallsDue => On
  BY <1>0 DEF RcFallsDue, RcSession, Undecided
<1>6. RcRestarts \/ RcGivesUp => On
  BY <1>2 DEF RcRestarts, RcGivesUp, Cleanup
<1>7. RcPolls \/ RcHearsPackage \/ RcHearsResult => On
  BY <1>1, <1>2 DEF RcPolls, RcHearsPackage, RcHearsResult, Cleanup,
     exchangeVars
<1>8. ASSUME RcTakes PROVE On
  <2>1. UNCHANGED <<nonces, fleet, committed>>
    BY <1>8 DEF RcTakes
  <2>2. CASE rcSession' = rcSession \/ rcSession' = NoRcSession
    BY <1>1, <1>2, <2>1, <2>2
  <2>3. CASE rcSession' = [rcSession EXCEPT !.retries = @ + 1]
    BY <1>0, <2>1, <2>3 DEF RcSession, Undecided
  <2>4. CASE /\ rcSession.state = "CHALLENGE_READY"
             /\ \E key : rcSession' = [rcSession EXCEPT !.state = "RC_PROOF_READY",
                                                       !.key = key]
    BY <1>0, <2>1, <2>4 DEF RcSession, Undecided
  <2> QED
    BY <1>8, <2>2, <2>3, <2>4 DEF RcTakes, TurnsDown, ProvesWith, Refuses,
       Cleanup, exchangeVars
<1>9. ASSUME RcHearsChallenge, ~On
      PROVE  /\ nonces' = nonces + 1 /\ rcSession'.nonce = nonces'
             /\ UNCHANGED <<saved, running, held, fleet, committed>>
  <2>1. ~UNCHANGED <<nonces, rcSession>> /\ UNCHANGED <<fleet, committed>>
    BY <1>1, <1>9 DEF RcHearsChallenge
  <2> QED
    BY <1>9, <2>1 DEF RcHearsChallenge, NoRcSession
<1>10. ASSUME RcHearsProof, ~On PROVE \E f \in Frame : Commits(f)
  <2> DEFINE f == Head(toRc)
             offer == Offer(rcSession.key)
  <2>1. /\ f \in Frame /\ f.type = "GATEWAY_PROOF" /\ InLink(f, toRc)
        /\ [gw |-> f.gw, key |-> f.key] \in held
    BY <1>10, RcReadsOK, LinkFrames
       DEF RcHearsProof, RcReads, ToRcOK, TypeInv, PairingTypeOK
  <2>2. ~ProofComesLate /\ ~(EndsFailed /\ UNCHANGED <<fleet, committed>>)
        /\ ~UNCHANGED <<exchangeVars, storedVars, committed>>
    BY <1>1, <1>2, <1>10
       DEF RcHearsProof, ProofComesLate, EndsFailed, Cleanup, exchangeVars
  <2>3. /\ rcSession.state = "RC_PROOF_READY" /\ Proves(f)
        /\ StoresBoth(offer)
        /\ AwaitsResult \/ EndsFailed
    BY <1>10, <2>2 DEF RcHearsProof, CommitsBoth, CommitFails
  <2>4. f.gw = rcSession.gw /\ f.key = rcSession.key
        /\ f.nonce = rcSession.nonce
    BY <2>1, <2>3, ProvedKeyIsMeant
  <2>5. offer.gw = rcSession.gw /\ offer.key = rcSession.key
    BY DEF Offer
  <2>6. rcSession'.nonce \in {0, rcSession.nonce} /\ ~Undecided'
    BY <1>0, <2>3 DEF AwaitsResult, EndsFailed, Cleanup, NoRcSession, RcSession,
       Undecided
  <2> QED
    BY <1>10, <2>1, <2>3, <2>4, <2>5, <2>6
       DEF Commits, StoresBoth, RcHearsProof, Undecided
<1> QED
  BY <1>3, <1>4, <1>5, <1>6, <1>7, <1>8, <1>9, <1>10 DEF Next, RcTask

\* What the commit makes of the stored pairings.
LEMMA CommitStores ==
    ASSUME TypeInv, FleetInv, NEW f \in Frame, Commits(f)
    PROVE  /\ Stored' = {k \in Stored : k.gw # f.gw}
                          \cup {[gw |-> f.gw, key |-> f.key]}
           /\ FleetInv'
<1>1. /\ f.gw \in Gateway /\ f.gw # None
      /\ Offer(rcSession.key).gw = f.gw /\ Offer(rcSession.key).key = f.key
      /\ fleet' = [fleet EXCEPT ![f.gw] = Offer(rcSession.key)]
  BY NoneAssumption DEF Commits, Frame, Offer
<1>2. Offer(rcSession.key).generation # 0
  <2>1. fleet[f.gw].generation \in Nat
    BY <1>1 DEF TypeInv, PairingTypeOK, Pairing, Generation
  <2>2. CASE Offer(rcSession.key).generation > fleet[f.gw].generation
    BY <2>1, <2>2
  <2>3. CASE Offer(rcSession.key) = fleet[f.gw]
    BY <1>1, <2>3 DEF FleetInv
  <2> QED
    BY <1>1, <2>2, <2>3 DEF Commits, FleetTakes
<1>3. /\ fleet'[f.gw] = Offer(rcSession.key)
      /\ \A g \in Gateway \ {f.gw} : fleet'[g] = fleet[g]
  BY <1>1 DEF TypeInv, PairingTypeOK
<1>4. FleetInv'
  BY <1>2, <1>3 DEF FleetInv
<1>5. Stored' \subseteq {k \in Stored : k.gw # f.gw}
                        \cup {[gw |-> f.gw, key |-> f.key]}
  BY <1>1, <1>3 DEF Stored
<1>6. \A k \in Stored : k.gw # f.gw => k \in Stored'
  BY <1>3 DEF Stored
<1>7. [gw |-> f.gw, key |-> f.key] \in Stored'
  BY <1>1, <1>2, <1>3 DEF Stored
<1> QED
  BY <1>4, <1>5, <1>6, <1>7

\* Salts are numbers.
LEMMA SaltRange ==
    ASSUME TypeInv
    PROVE  /\ \A k \in held : k.key.salt \in Nat
           /\ \A k \in Stored : k.key.salt \in Nat
           /\ \A g \in Gateway : /\ saved[g].key.salt \in Nat
                               /\ running[g].key.salt \in Nat
           /\ \A f \in Frame : f.key.salt \in Nat /\ f.nonce \in Nat
                              /\ f.gw \in Gateway
           /\ nonces \in Nat /\ salts \in Nat /\ rcSession.nonce \in Nat
           /\ \A c \in committed : c.nonce \in Nat
<1>1. \A k \in Key : k.salt \in Nat
  BY PairingAssumption DEF Key, Salt
<1>2. /\ \A k \in held : k.key \in Key
      /\ \A g \in Gateway : /\ saved[g].key \in Key /\ running[g].key \in Key
                          /\ fleet[g].key \in Key
      /\ \A f \in Frame : f.key \in Key /\ f.nonce \in 0 .. MaxNonce
                         /\ f.gw \in Gateway
      /\ nonces \in 0 .. MaxNonce /\ salts \in Salt
      /\ rcSession.nonce \in 0 .. MaxNonce
      /\ \A c \in committed : c.nonce \in 0 .. MaxNonce
  BY DEF TypeInv, PairingTypeOK, Config, Pairing, Frame, RcSession, Confirmation
<1> QED
  BY <1>1, <1>2, PairingAssumption DEF Stored, Salt

\* What the RC holds for a gateway, that gateway has drawn.
LEMMA StoredIsHeld == StoredKeysAreHeld => Stored \subseteq held
BY DEF StoredKeysAreHeld, Stored

LEMMA OrderDrawn ==
    ASSUME TypeInv, KeyInv, OrderInv, NEW g \in Gateway, NEW p \in Chosen,
           GwConfigures(g, p)
    PROVE  /\ NewestInv'
           /\ \E k \in held' \ held : Agreement!Draw(k)
<1> DEFINE key == DerivedKey(salts + 1, p)
           new == [gw |-> g, key |-> key]
<1>1. /\ held' = held \cup {new} /\ new.key.salt = salts + 1 /\ salts \in Nat
      /\ saved' = [saved EXCEPT ![g] = [generation |-> NextGeneration(g),
                                       key |-> key]]
      /\ UNCHANGED <<running, fleet, committed, acknowledged>>
  BY SaltRange DEF GwConfigures, DerivedKey, rcVars, storedVars
<1>2. \A k \in held : k.key.salt \in Nat /\ k.key.salt < new.key.salt
  BY <1>1, SaltRange DEF KeyInv, HeldInv
<1>3. NextGeneration(g) # 0
  BY DEF NextGeneration, TypeInv, PairingTypeOK, Config, Generation
<1>4. UNCHANGED Stored
  BY <1>1 DEF Stored
<1>5. saved'[g].generation # 0 /\ saved'[g].key = key
      /\ \A h \in Gateway \ {g} : saved'[h] = saved[h]
  BY <1>1, <1>3 DEF TypeInv, PairingTypeOK
<1>6. Agreement!IsLatest(key, g, held')
  BY <1>1, <1>2 DEF Agreement!IsLatest
<1>7. ASSUME NEW h \in Gateway \ {g}, saved[h].generation # 0
      PROVE  Agreement!IsLatest(saved[h].key, h, held')
  BY <1>1, <1>7 DEF OrderInv, NewestInv, Agreement!IsLatest
<1>8. NewestInv'
  BY <1>1, <1>4, <1>5, <1>6, <1>7 DEF OrderInv, NewestInv, Agreement!IsLatest
<1>9. new \notin held
  BY <1>1, <1>2
<1> QED
  BY <1>1, <1>2, <1>4, <1>8, <1>9 DEF Agreement!Draw

LEMMA OrderLoaded ==
    ASSUME TypeInv, KeyInv, OrderInv, NEW g \in Gateway, GwStarts(g)
    PROVE  /\ NewestInv' /\ UNCHANGED <<held, fleet, committed, acknowledged>>
           /\ \A h \in Gateway : running[h].generation # 0 =>
                /\ running'[h].generation # 0
                /\ running[h].key.salt <= running'[h].key.salt
<1>1. /\ running' = [running EXCEPT ![g] = saved[g]]
      /\ UNCHANGED <<saved, held, fleet, committed, acknowledged>>
  BY DEF GwStarts, GwLoads, rcVars, storedVars, historyVars
<1>2. UNCHANGED Stored /\ Stored \subseteq held
  BY <1>1, StoredIsHeld DEF Stored, KeyInv
<1>3. running'[g] = saved[g] /\ \A h \in Gateway \ {g} : running'[h] = running[h]
  BY <1>1 DEF TypeInv, PairingTypeOK
<1>4. saved[g].generation # 0 => Agreement!IsLatest(saved[g].key, g, Stored)
  BY <1>2 DEF OrderInv, NewestInv, Agreement!IsLatest
<1>5. NewestInv'
  BY <1>1, <1>2, <1>3, <1>4 DEF OrderInv, NewestInv, Agreement!IsLatest
<1>6. ASSUME running[g].generation # 0
      PROVE  /\ saved[g].generation # 0
             /\ running[g].key.salt <= saved[g].key.salt
  <2>1. [gw |-> g, key |-> running[g].key] \in held
    BY <1>6 DEF KeyInv, GatewayInv
  <2> QED
    BY <1>6, <2>1 DEF OrderInv, NewestInv, Agreement!IsLatest
<1> QED
  BY <1>1, <1>3, <1>5, <1>6, SaltRange

LEMMA OrderCommitted ==
    ASSUME TypeInv, KeyInv, OrderInv, NEW f \in Frame, Commits(f)
    PROVE  /\ NewestInv' /\ FleetInv'
           /\ \E c \in committed' \ committed : Agreement!Commit(c)
<1> DEFINE c == [gw |-> f.gw, key |-> f.key, nonce |-> f.nonce]
<1>1. /\ Stored' = {k \in Stored : k.gw # f.gw}
                     \cup {[gw |-> f.gw, key |-> f.key]}
      /\ FleetInv'
  BY CommitStores DEF OrderInv
<1>2. /\ f.key.salt <= running[f.gw].key.salt
      /\ Agreement!IsLatest(f.key, f.gw, Stored)
  BY DEF Commits, OrderInv, ProofOK
<1>3. NewestInv'
  BY <1>1, <1>2 DEF Commits, OrderInv, NewestInv, Agreement!IsLatest
<1>4. \A d \in committed : d.nonce # c.nonce
  BY DEF Commits, OrderInv, NonceInv
<1>5. c \notin committed
  BY <1>4
<1> QED
  BY <1>1, <1>2, <1>3, <1>4, <1>5
     DEF Commits, Agreement!Commit, Agreement!KeyOf

LEMMA OrderStep ==
    ASSUME TypeInv, KeyInv, OrderInv, Next, TypeInv'
    PROVE  OrderInv'
<1> DEFINE On == /\ UNCHANGED <<nonces, fleet, committed>>
                 /\ rcSession'.nonce \in {0, rcSession.nonce}
                 /\ Undecided' => Undecided /\ rcSession'.nonce = rcSession.nonce
           Begins == /\ nonces' = nonces + 1 /\ rcSession'.nonce = nonces'
                     /\ UNCHANGED <<saved, running, held, fleet, committed>>
<1>0. On \/ Begins \/ \E f \in Frame : Commits(f)
  BY ExchangeSteps
<1>a. /\ nonces \in Nat /\ rcSession.nonce \in Nat
      /\ rcSession.nonce <= nonces
      /\ \A c \in committed : c.nonce \in Nat /\ c.nonce <= nonces
      /\ \A f \in Frame : f.nonce \in Nat
  BY SaltRange DEF OrderInv, NonceInv
<1>b. nonces' = nonces \/ nonces' = nonces + 1
  BY <1>0 DEF Commits
<1>1. NewestInv'
  <2>1. UNCHANGED <<saved, running, held, fleet>> => NewestInv'
    BY DEF OrderInv, NewestInv, Agreement!IsLatest, Stored
  <2>2. CASE On
    BY <2>1, <2>2, KeySteps, OrderDrawn, OrderLoaded
  <2> QED
    BY <1>0, <2>1, <2>2, OrderCommitted
<1>2. FleetInv'
  <2>1. UNCHANGED fleet => FleetInv'
    BY DEF OrderInv, FleetInv
  <2> QED
    BY <1>0, <2>1, OrderCommitted
<1>3. NonceInv'
  <2>1. nonces' >= nonces /\ nonces' \in Nat
    BY <1>a, <1>b
  <2>2. rcSession'.nonce <= nonces'
    <3>1. rcSession'.nonce \in {0, rcSession.nonce, nonces'}
      BY <1>0 DEF Commits
    <3> QED
      BY <1>a, <2>1, <3>1
  <2>3. \A c \in committed' : c.nonce <= nonces'
    <3>1. CASE UNCHANGED committed
      BY <1>a, <2>1, <3>1
    <3>2. ASSUME NEW f \in Frame, Commits(f) PROVE \A c \in committed' : c.nonce <= nonces'
      BY <3>2 DEF Commits, OrderInv, NonceInv
    <3> QED
      BY <1>0, <3>1, <3>2
  <2>4. Undecided' => \A c \in committed' : c.nonce # rcSession'.nonce
    <3>1. CASE Begins
      <4>1. \A c \in committed : c.nonce <= nonces /\ c.nonce \in Nat
        BY <1>a
      <4> QED
        BY <3>1, <4>1, <1>a
    <3>2. CASE On
      BY <3>2 DEF OrderInv, NonceInv
    <3> QED
      BY <1>0, <3>1, <3>2 DEF Commits
  <2>5. ASSUME NEW f \in Frame, InLink(f, toGw'), f.type = "RC_PROOF"
        PROVE  f.nonce <= nonces'
    <3>1. f.nonce <= nonces
      BY <2>5, ProofsAsked DEF OrderInv, NonceInv
    <3> QED
      BY <1>a, <2>1, <3>1
  <2> QED
    BY <2>2, <2>3, <2>4, <2>5 DEF NonceInv
<1>4. ASSUME NEW f \in Frame, InLink(f, toRc'), f.type = "GATEWAY_PROOF"
      PROVE  ProofOK(f)'
  <2>1. CASE InLink(f, toRc)
    <3>1. /\ f.nonce <= nonces /\ running[f.gw].generation # 0
          /\ f.key.salt <= running[f.gw].key.salt
          /\ Undecided /\ f.nonce = rcSession.nonce
             => Agreement!IsLatest(f.key, f.gw, Stored)
      BY <1>4, <2>1 DEF OrderInv, ProofOK
    <3>2. f.nonce <= nonces'
      BY <1>a, <1>b, <3>1
    <3>3. /\ running'[f.gw].generation # 0
          /\ f.key.salt <= running'[f.gw].key.salt
      <4>1. UNCHANGED running \/ \E g \in Gateway : GwStarts(g)
        BY KeySteps DEF GwConfigures
      <4>2. ASSUME NEW g \in Gateway, GwStarts(g)
            PROVE  /\ running'[f.gw].generation # 0
                   /\ running[f.gw].key.salt <= running'[f.gw].key.salt
        BY <3>1, <4>2, OrderLoaded, SaltRange
      <4>3. running'[f.gw].key.salt \in Nat
        <5>1. f.gw \in Gateway
          BY SaltRange
        <5>2. running'[f.gw].key \in Key
          BY <5>1 DEF TypeInv, PairingTypeOK, Config
        <5> QED
          BY <5>2, PairingAssumption DEF Key, Salt
      <4>4. f.key.salt \in Nat /\ running[f.gw].key.salt \in Nat
        BY SaltRange
      <4>5. CASE UNCHANGED running
        BY <3>1, <4>5
      <4>6. CASE \E g \in Gateway : GwStarts(g)
        BY <3>1, <4>2, <4>3, <4>4, <4>6
      <4> QED
        BY <4>1, <4>5, <4>6
    <3>4. ASSUME Undecided', f.nonce = rcSession'.nonce
          PROVE  Agreement!IsLatest(f.key, f.gw, Stored)'
      <4>1. On
        BY <1>0, <3>1, <3>4, SaltRange DEF Commits
      <4> QED
        BY <3>1, <3>4, <4>1 DEF Agreement!IsLatest, Stored
    <3> QED
      BY <3>2, <3>3, <3>4 DEF ProofOK
  <2>2. CASE /\ running[f.gw].generation # 0 /\ f.key = running[f.gw].key
             /\ \E h \in Frame : /\ InLink(h, toGw) /\ h.type = "RC_PROOF"
                                 /\ f.nonce = h.nonce
             /\ UNCHANGED <<saved, running, held, nonces, rcSession, fleet,
                            committed>>
    <3>1. f.nonce <= nonces
      BY <2>2 DEF OrderInv, NonceInv
    <3>2. Agreement!IsLatest(f.key, f.gw, Stored)
      BY <2>2, SaltRange DEF OrderInv, NewestInv
    <3>3. f.key.salt <= running[f.gw].key.salt
      BY <2>2, SaltRange
    <3> QED
      BY <2>2, <3>1, <3>2, <3>3 DEF ProofOK, Agreement!IsLatest, Stored, Undecided
  <2> QED
    BY <1>4, <2>1, <2>2, ProofsSent
<1> QED
  BY <1>1, <1>2, <1>3, <1>4 DEF OrderInv, ProofOK

LEMMA OrderInit == Init => OrderInv /\ Agreement!Init
<1> SUFFICES ASSUME Init PROVE OrderInv /\ Agreement!Init
  OBVIOUS
<1>1. PICK g \in Gateway, p \in Chosen :
        LET key == [salt |-> 1, pass |-> p]
        IN  \/ /\ held = {[gw |-> g, key |-> key]}
               /\ saved = [h \in Gateway |->
                    IF h = g THEN [generation |-> 1, key |-> key]
                    ELSE Unprovisioned]
               /\ fleet = [h \in Gateway |->
                    IF h = g THEN [gw |-> g, generation |-> 1, key |-> key]
                    ELSE Unpaired]
            \/ /\ held = {}
               /\ saved = [h \in Gateway |-> Unprovisioned]
               /\ fleet = [h \in Gateway |-> Unpaired]
  BY DEF Init
<1>2. \A h \in Gateway : running[h].generation = 0
  BY DEF Init, Unprovisioned
<1>3. NewestInv
  BY <1>1, <1>2 DEF NewestInv, Agreement!IsLatest, Unprovisioned
<1>4. FleetInv
  BY <1>1 DEF FleetInv, Unpaired
<1>5. NonceInv /\ \A f \in Frame : ~InLink(f, toRc)
  BY DEF Init, NonceInv, Undecided, NoRcSession, InLink
<1>6. Agreement!Init
  <2>1. StoredKeysAreHeld
    BY KeyInit DEF KeyInv
  <2> QED
    BY <2>1, StoredIsHeld DEF Init, Agreement!Init
<1> QED
  BY <1>3, <1>4, <1>5, <1>6 DEF OrderInv

\* Only a gateway that has verified the RESULT acknowledges.
LEMMA AcknowledgeSteps ==
    ASSUME Next
    PROVE  UNCHANGED acknowledged \/ \E g \in Gateway : GwHearsResult(g)
<1> USE DEF historyVars
<1>1. ASSUME NEW g \in Gateway,
             \/ GwStarts(g) \/ GwChallenges(g) \/ GwExpires(g) \/ GwHearsProof(g)
             \/ \E p \in Chosen : GwConfigures(g, p)
      PROVE  UNCHANGED acknowledged
  BY <1>1 DEF GwConfigures, GwStarts, GwChallenges, GwExpires, GwHearsProof
<1>2. \/ HttpNext \/ RcLooks \/ RcFallsDue \/ Lose \/ RcRestarts
      \/ Submit
      => UNCHANGED acknowledged
  BY DEF HttpNext, Admit, Tell, Enqueue, RcLooks, RcFallsDue, Lose, RcRestarts,
     Submit
<1>3. RcTask => UNCHANGED acknowledged
  BY DEF RcTask, RcTakes, RcGivesUp, RcPolls, RcHearsPackage, RcHearsChallenge,
     RcHearsProof, RcHearsResult
<1> QED
  BY <1>1, <1>2, <1>3 DEF Next, GwNext

LEMMA Acknowledged ==
    ASSUME TypeInv, KeyInv, OrderInv, NEW g \in Gateway, GwHearsResult(g)
    PROVE  \/ UNCHANGED Agreement!agreementVars
           \/ \E c \in committed : Agreement!Acknowledge(c)
<1> DEFINE f == Head(toGw)
           c == [gw |-> g, key |-> saved[g].key, nonce |-> gwSession[g].nonce]
<1>1. UNCHANGED <<held, Stored, committed>>
  BY DEF GwHearsResult, rcVars, storedVars, Stored
<1>2. CASE UNCHANGED acknowledged
  BY <1>1, <1>2 DEF Agreement!agreementVars
<1>3. CASE ~UNCHANGED acknowledged
  <2>1. /\ gwSession[g].state \in {"WAIT_RC_RESULT", "RC_RESULT_VERIFIED"}
        /\ Verifies(f, running[g].key, gwSession[g].challenge,
                    gwSession[g].nonce)
        /\ toGw # <<>> /\ f.type = "RC_COMMITTED" /\ f.gw = g
        /\ saved[g] = running[g] /\ acknowledged' = acknowledged \cup {c}
    BY <1>3 DEF GwHearsResult, GwReads, Acknowledges, StillSaved
  <2>2. ToGwOK(f, committed)
    BY <2>1, GwLinkTail DEF KeyInv, TypeInv, PairingTypeOK
  <2>3. c \in committed
    BY <2>1, <2>2 DEF ToGwOK, Verifies
  <2>4. saved[g].generation # 0
    BY <2>1 DEF KeyInv, GatewayInv
  <2>5. Agreement!IsLatest(c.key, c.gw, held)
    BY <2>4 DEF OrderInv, NewestInv
  <2> QED
    BY <1>1, <2>1, <2>3, <2>5 DEF Agreement!Acknowledge
<1> QED
  BY <1>2, <1>3

LEMMA AgreementStep ==
    ASSUME TypeInv, KeyInv, OrderInv, Next
    PROVE  Agreement!Next \/ UNCHANGED Agreement!agreementVars
<1>1. ASSUME NEW g \in Gateway, NEW p \in Chosen, GwConfigures(g, p)
      PROVE  Agreement!Next
  BY <1>1, OrderDrawn DEF Agreement!Next
<1>2. ASSUME NEW g \in Gateway, GwStarts(g)
      PROVE  UNCHANGED Agreement!agreementVars
  BY <1>2, OrderLoaded DEF Agreement!agreementVars, Stored
<1>3. ASSUME NEW g \in Gateway, GwHearsResult(g)
      PROVE  Agreement!Next \/ UNCHANGED Agreement!agreementVars
  BY <1>3, Acknowledged DEF Agreement!Next
<1>4. ASSUME NEW f \in Frame, Commits(f) PROVE Agreement!Next
  BY <1>4, OrderCommitted DEF Agreement!Next
<1>5. CASE UNCHANGED <<held, acknowledged, fleet, committed>>
  BY <1>5 DEF Agreement!agreementVars, Stored
<1> QED
  BY <1>1, <1>2, <1>3, <1>4, <1>5, KeySteps, AcknowledgeSteps, ExchangeSteps

\* Pairing keeps its promise to the owner (module PairingAgreement), also when
\* exchanges fail after their record is in flash and others follow.  Keys are
\* stored in the order they were drawn because a proof counts only in the
\* exchange whose nonce it carries, while nothing else can be stored.
THEOREM PairingImplementsAgreement == Spec => PairingAgrees
<1> DEFINE Inv == TypeInv /\ KeyInv /\ OrderInv
<1>1. Init => Inv /\ Agreement!Init
  BY TypeInit, KeyInit, OrderInit
<1>2. Inv /\ [Next]_vars => Inv'
  <2> SUFFICES ASSUME Inv, [Next]_vars PROVE Inv'
    OBVIOUS
  <2>1. TypeInv' /\ KeyInv'
    BY TypeStep, KeyStep
  <2>2. CASE Next
    BY <2>1, <2>2, OrderStep
  <2>3. CASE UNCHANGED vars
    <3>1. UNCHANGED <<saved, running, held, fleet, nonces, rcSession,
                      committed, toRc, toGw>>
      BY <2>3 DEF vars, gwVars, historyVars, drawnVars, linkVars, rcVars,
         exchangeVars, storedVars
    <3>2. NewestInv' /\ FleetInv'
      BY <3>1 DEF OrderInv, NewestInv, FleetInv, Agreement!IsLatest, Stored
    <3>3. NonceInv'
      BY <3>1 DEF OrderInv, NonceInv, Undecided, InLink
    <3>4. \A f \in Frame : InLink(f, toRc') => ProofOK(f)'
      BY <3>1 DEF OrderInv, ProofOK, Undecided, Agreement!IsLatest, Stored
    <3> QED
      BY <2>1, <3>1, <3>2, <3>3, <3>4 DEF OrderInv, InLink
  <2> QED
    BY <2>2, <2>3
<1>3. Inv /\ [Next]_vars => [Agreement!Next]_(Agreement!agreementVars)
  <2> SUFFICES ASSUME Inv, [Next]_vars
               PROVE  [Agreement!Next]_(Agreement!agreementVars)
    OBVIOUS
  <2>1. CASE Next
    BY <2>1, AgreementStep
  <2>2. CASE UNCHANGED vars
    BY <2>2 DEF vars, rcVars, historyVars, storedVars,
       Agreement!agreementVars, Stored
  <2> QED
    BY <2>1, <2>2
<1> HIDE DEF Inv
<1> QED
  BY <1>1, <1>2, <1>3, PTL DEF Spec, PairingAgrees, Agreement!Spec
=============================================================================
