-------------------------- MODULE CreditAgentProofs --------------------------
(***************************************************************************)
(* Theorems about CreditScoreOracle, for any wallets, thresholds and       *)
(* periods, and about CreditAgent, which publishes to it, for any number   *)
(* of calls that overlap, any cache terms, and any answers of the RPC and  *)
(* the classifier.                                                         *)
(*                                                                         *)
(* The theorems about the agent rest on four invariants: what the caches   *)
(* of the ML API hold (CachesInv), what a call carries over its awaits     *)
(* (CallsKnown), that the pushes confirmed to one process within a cooldown*)
(* and those that may still be are together no more than the calls         *)
(* (PushesInv), and that each earlier process was ended by a restart after *)
(* its pushes (PastInv).                                                   *)
(***************************************************************************)
EXTENDS CreditAgent, SetSums, TLAPS

-----------------------------------------------------------------------------
(* The oracle: types.                                                       *)

\* A score has one of the five tiers.
LEMMA RiskTierRange ==
    ASSUME NEW score \in Nat PROVE CalculateRiskTier(score) \in 0..4
  BY OracleAssumption DEF CalculateRiskTier

\* A score an oracle publishes is well typed and expires a period from now.
LEMMA ScoreWrites ==
    ASSUME TypeOK, NEW o \in Oracles, NEW score \in Nat
    PROVE  [exists |-> TRUE, score |-> score,
            risk_tier |-> CalculateRiskTier(score), timestamp |-> now,
            expires_at |-> now + oracle.score_validity_secs, oracle_agent |-> o]
              \in CreditScores
  <1>1. oracle.score_validity_secs \in Nat /\ now \in Nat
    BY OracleAssumption DEF TypeOK, OracleStates, Periods
  <1>2. QED
    BY <1>1, RiskTierRange DEF CreditScores

LEMMA InitType == Init => TypeOK
  <1> SUFFICES ASSUME Init PROVE TypeOK
    OBVIOUS
  <1>1. oracle \in OracleStates
    BY DEF Init, OracleStates
  <1>2. authority \in [Oracles -> OracleAuthorities]
    BY DEF Init, OracleAuthorities
  <1>3. credit_score \in [Scored -> CreditScores]
    BY DEF Init, CreditScores
  <1>4. history \in [Scored -> CreditHistories]
    BY DEF Init, CreditHistories
  <1>5. did \in [Scored -> Dids \cup {NoDid}]
    BY DEF Init
  <1>6. QED
    BY <1>1, <1>2, <1>3, <1>4, <1>5 DEF Init, TypeOK

LEMMA NextType == TypeOK /\ [Next]_vars => TypeOK'
  <1> SUFFICES ASSUME TypeOK, [Next]_vars PROVE TypeOK'
    OBVIOUS
  <1>t. /\ now \in Nat /\ oracle \in OracleStates
        /\ authority \in [Oracles -> OracleAuthorities]
        /\ credit_score \in [Scored -> CreditScores]
        /\ history \in [Scored -> CreditHistories]
        /\ did \in [Scored -> Dids \cup {NoDid}]
    BY DEF TypeOK
  <1>1. CASE Tick \/ UNCHANGED vars
    BY <1>t, <1>1 DEF Tick, vars, oracleVars, TypeOK
  <1>2. ASSUME NEW o \in Oracles, GrantOracleRole(o) \/ RevokeOracleRole(o)
        PROVE  TypeOK'
    <2>a. authority[o] \in OracleAuthorities
      BY <1>t
    <2>b. [exists |-> TRUE, is_active |-> TRUE, scores_pushed |-> 0]
            \in OracleAuthorities
      BY DEF OracleAuthorities
    <2>c. [authority[o] EXCEPT !.is_active = FALSE] \in OracleAuthorities
      BY <2>a DEF OracleAuthorities
    <2>1. authority' \in [Oracles -> OracleAuthorities]
      <3>1. CASE GrantOracleRole(o)
        BY <1>t, <2>b, <3>1 DEF GrantOracleRole
      <3>2. CASE RevokeOracleRole(o)
        BY <1>t, <2>c, <3>2 DEF RevokeOracleRole
      <3>3. QED
        BY <1>2, <3>1, <3>2
    <2>2. QED
      BY <1>t, <1>2, <2>1 DEF GrantOracleRole, RevokeOracleRole, TypeOK
  <1>3. ASSUME NEW o \in Oracles, NEW b \in Scored, NEW score \in GivenScores,
               NEW c \in GivenConfidences, UpdateScore(o, b, score, c)
        PROVE  TypeOK'
    <2>1. score \in Nat
      BY OracleAssumption
    <2>2. credit_score' \in [Scored -> CreditScores]
      BY <1>t, <1>3, <2>1, ScoreWrites DEF UpdateScore
    <2>3. authority' \in [Oracles -> OracleAuthorities]
      BY <1>t, <1>3 DEF UpdateScore, OracleAuthorities
    <2>4. oracle' \in OracleStates
      BY <1>t, <1>3 DEF UpdateScore, OracleStates
    <2>5. QED
      BY <1>t, <1>3, <2>2, <2>3, <2>4 DEF UpdateScore, TypeOK
  <1>4. ASSUME NEW key \in Keys, NEW b \in Scored, NEW a \in LoanAmounts,
               \/ RecordLoanIssued(key, b, a)
               \/ RecordLoanRepaid(key, b, a)
        PROVE  TypeOK'
    <2>1. a \in Nat
      BY OracleAssumption
    <2>2. history' \in [Scored -> CreditHistories]
      BY <1>t, <1>4, <2>1 DEF RecordLoanIssued, RecordLoanRepaid, CreditHistories
    <2>3. QED
      BY <1>t, <1>4, <2>2 DEF RecordLoanIssued, RecordLoanRepaid, TypeOK
  <1>5. ASSUME NEW key \in Keys, NEW b \in Scored, RecordLoanDefaulted(key, b)
        PROVE  TypeOK'
    <2>1. history' \in [Scored -> CreditHistories]
      BY <1>t, <1>5 DEF RecordLoanDefaulted, CreditHistories
    <2>2. QED
      BY <1>t, <1>5, <2>1 DEF RecordLoanDefaulted, TypeOK
  <1>6. ASSUME NEW b \in Scored, NEW d \in Dids, RegisterDid(b, d)
        PROVE  TypeOK'
    BY <1>t, <1>6 DEF RegisterDid, TypeOK
  <1>7. ASSUME \/ Pause \/ Unpause
               \/ \E period \in GivenPeriods : SetValidityPeriod(period)
               \/ \E key \in Keys : SetHistoryAuthority(key)
        PROVE  TypeOK'
    <2>1. oracle' \in OracleStates
      BY <1>t, <1>7
         DEF Pause, Unpause, SetPaused, SetValidityPeriod, SetHistoryAuthority,
             OracleStates
    <2>2. QED
      BY <1>t, <1>7, <2>1
         DEF Pause, Unpause, SetPaused, SetValidityPeriod, SetHistoryAuthority, TypeOK
  <1>8. QED
    BY <1>1, <1>2, <1>3, <1>4, <1>5, <1>6, <1>7 DEF Next, OracleStep

\* The oracle's accounts stay well typed; in particular every validity period
\* is within the limits, through every instruction that sets one.
THEOREM OracleTypeCorrect == Spec => []TypeOK
  BY InitType, NextType, PTL DEF Spec

-----------------------------------------------------------------------------
(* Lifetimes.                                                              *)

\* No instruction moves the clock.
LEMMA OracleKeepsTime == OracleStep => now' = now
  BY DEF OracleStep, GrantOracleRole, RevokeOracleRole, UpdateScore,
       RecordLoanIssued, RecordLoanRepaid, RecordLoanDefaulted, RegisterDid,
       Pause, Unpause, SetPaused, SetValidityPeriod, SetHistoryAuthority

LEMMA NextLifetime == TypeOK /\ ScoreLifetime /\ [Next]_vars => ScoreLifetime'
  <1> SUFFICES ASSUME TypeOK, ScoreLifetime, [Next]_vars, NEW b \in Scored,
                      credit_score'[b].exists
               PROVE  /\ credit_score'[b].timestamp <= now'
                      /\ credit_score'[b].expires_at \in
                            {credit_score'[b].timestamp + period : period \in Periods}
                      /\ credit_score'[b].risk_tier =
                            CalculateRiskTier(credit_score'[b].score)
    BY DEF ScoreLifetime
  <1>t. /\ now \in Nat
        /\ credit_score \in [Scored -> CreditScores]
        /\ oracle.score_validity_secs \in Periods
    BY DEF TypeOK, OracleStates
  <1>1. now' \in Nat /\ now <= now'
    <2>1. Tick \/ now' = now
      BY OracleKeepsTime DEF Next, vars
    <2>2. QED
      BY <1>t, <2>1 DEF Tick
  <1>2. CASE credit_score'[b] = credit_score[b]
    <2>1. credit_score[b].timestamp \in Nat
      BY <1>t DEF CreditScores
    <2>2. QED
      BY <1>t, <1>1, <1>2, <2>1 DEF ScoreLifetime
  <1>3. ASSUME NEW o \in Oracles, NEW score \in GivenScores,
               NEW c \in GivenConfidences, UpdateScore(o, b, score, c)
        PROVE  /\ credit_score'[b].timestamp = now
               /\ credit_score'[b].expires_at = now + oracle.score_validity_secs
               /\ credit_score'[b].risk_tier =
                     CalculateRiskTier(credit_score'[b].score)
    BY <1>t, <1>3 DEF UpdateScore
  <1>4. \/ credit_score'[b] = credit_score[b]
        \/ \E o \in Oracles, score \in GivenScores, c \in GivenConfidences :
              UpdateScore(o, b, score, c)
    BY <1>t DEF Next, Tick, OracleStep, vars, oracleVars, GrantOracleRole,
         RevokeOracleRole, UpdateScore, RecordLoanIssued, RecordLoanRepaid,
         RecordLoanDefaulted, RegisterDid, Pause, Unpause, SetPaused,
         SetValidityPeriod, SetHistoryAuthority
  <1>5. QED
    BY <1>t, <1>1, <1>2, <1>3, <1>4

\* Each score lives between the least and the greatest validity period from
\* its publication and carries its own tier.
THEOREM ScoresLiveAsPublished == Spec => []ScoreLifetime
  <1>1. Init => ScoreLifetime
    BY DEF Init, ScoreLifetime
  <1>2. QED
    BY <1>1, NextLifetime, OracleTypeCorrect, PTL DEF Spec

-----------------------------------------------------------------------------
(* Revocation and pause.                                                   *)

\* A revoked oracle never publishes again.
THEOREM RevokedForGood == Spec => RevocationIsFinal
  <1>1. TypeOK /\ [Next]_vars =>
           [\A o \in Oracles :
              authority[o].exists /\ ~authority[o].is_active =>
                 /\ authority'[o] = authority[o]
                 /\ \A b \in Scored :
                       credit_score'[b].oracle_agent = o =>
                          credit_score'[b] = credit_score[b]]_vars
    <2> SUFFICES ASSUME TypeOK, Next, NEW o \in Oracles,
                        authority[o].exists, ~authority[o].is_active
                 PROVE  /\ authority'[o] = authority[o]
                        /\ \A b \in Scored :
                              credit_score'[b].oracle_agent = o =>
                                 credit_score'[b] = credit_score[b]
      OBVIOUS
    <2>t. /\ authority \in [Oracles -> OracleAuthorities]
          /\ credit_score \in [Scored -> CreditScores]
      BY DEF TypeOK
    <2>1. ASSUME NEW q \in Oracles, GrantOracleRole(q) \/ RevokeOracleRole(q)
          PROVE  authority'[o] = authority[o] /\ credit_score' = credit_score
      <3>1. CASE GrantOracleRole(q)
        BY <2>t, <3>1 DEF GrantOracleRole
      <3>2. CASE RevokeOracleRole(q)
        <4>1. authority[o] \in OracleAuthorities
          BY <2>t
        <4>2. [authority[o] EXCEPT !.is_active = FALSE] = authority[o]
          BY <4>1 DEF OracleAuthorities
        <4>3. QED
          BY <2>t, <3>2, <4>2 DEF RevokeOracleRole
      <3>3. QED
        BY <2>1, <3>1, <3>2
    <2>2. ASSUME NEW q \in Oracles, NEW c \in Scored, NEW score \in GivenScores,
                 NEW conf \in GivenConfidences, UpdateScore(q, c, score, conf)
          PROVE  /\ authority'[o] = authority[o]
                 /\ \A b \in Scored :
                       credit_score'[b].oracle_agent = o =>
                          credit_score'[b] = credit_score[b]
      <3>1. q # o
        BY <2>2 DEF UpdateScore
      <3>2. credit_score'[c].oracle_agent = q
        BY <2>t, <2>2 DEF UpdateScore
      <3>3. \A b \in Scored : b # c => credit_score'[b] = credit_score[b]
        BY <2>t, <2>2 DEF UpdateScore
      <3>4. authority'[o] = authority[o]
        BY <2>t, <2>2, <3>1 DEF UpdateScore
      <3>5. QED
        BY <3>1, <3>2, <3>3, <3>4
    <2>3. \/ authority' = authority /\ credit_score' = credit_score
          \/ \E q \in Oracles : GrantOracleRole(q) \/ RevokeOracleRole(q)
          \/ \E q \in Oracles, c \in Scored, score \in GivenScores,
                conf \in GivenConfidences : UpdateScore(q, c, score, conf)
      BY DEF Next, Tick, OracleStep, oracleVars, RecordLoanIssued,
           RecordLoanRepaid, RecordLoanDefaulted, RegisterDid, Pause, Unpause,
           SetPaused, SetValidityPeriod, SetHistoryAuthority
    <2>4. QED
      BY <2>1, <2>2, <2>3
  <1>2. QED
    BY <1>1, OracleTypeCorrect, PTL DEF Spec, RevocationIsFinal

\* A paused oracle changes no score and no history.
THEOREM PausedOracleIsFrozen == Spec => PausedIsFrozen
  <1>1. [Next]_vars => [oracle.is_paused => UNCHANGED <<credit_score, history>>]_vars
    BY DEF Next, Tick, OracleStep, oracleVars, GrantOracleRole, RevokeOracleRole,
         UpdateScore, MayRecord, RecordLoanIssued, RecordLoanRepaid,
         RecordLoanDefaulted, RegisterDid, Pause, Unpause, SetPaused,
         SetValidityPeriod, SetHistoryAuthority
  <1>2. QED
    BY <1>1, PTL DEF Spec, PausedIsFrozen

-----------------------------------------------------------------------------
(* What the caches of the ML API hold.                                      *)

Observations == [at : Nat, seen : Nat, evidence : Evidence]
Extractions == [at : Nat, seen : Nat, features : {Extracted[e] : e \in Evidence}]

CachesTyped ==
    /\ now \in Times
    /\ evidence \in [Scored -> Evidence]
    /\ rpcCache \in [Scored -> Observations \cup {None}]
    /\ featureCache \in [Scored -> Extractions \cup {None}]

ObservedInTime ==
    \A b \in Scored : rpcCache[b] # None =>
        rpcCache[b].at <= now /\ rpcCache[b].seen = rpcCache[b].at

MadeInTime ==
    \A b \in Scored : featureCache[b] # None =>
        /\ featureCache[b].at <= now
        /\ featureCache[b].at - featureCache[b].seen < RPC_CACHE_TTL

CachesInv == CachesTyped /\ ObservedInTime /\ MadeInTime

\* What scoreBorrower keeps over its awaits: the score with its tier, and once
\* update_score has landed the tier the program gave to that score.
KnownCall(k) ==
    \/ k = Idle
    \/ k.at = "ml" /\ k.b \in Scored
    \/ /\ k.at \in {"push", "landed"} /\ k.b \in Scored
       /\ k.tier = ClassifyRiskTier(k.score)
       /\ k.at = "landed" =>
             k.score \in MIN_SCORE..MAX_SCORE /\ k.given = CalculateRiskTier(k.score)

CallsKnown ==
    /\ call = [c \in Calls |-> call[c]]
    /\ \A c \in Calls : KnownCall(call[c])
    /\ credit_score = [b \in Scored |-> credit_score[b]]

\* The clock.
LEMMA TimesNat == MaxTime \in Nat /\ \A t \in Times : t \in Nat
  BY OracleAssumption DEF Times

\* The answer of the ML API moves neither the clock nor the chain.
LEMMA MLCall ==
    ASSUME CallsKnown, NEW c \in Calls, MLAnswers(c)
    PROVE  /\ call[c].at = "ml" /\ call[c].b \in Scored
           /\ now' = now /\ evidence' = evidence /\ credit_score' = credit_score
           /\ pushTimestamps' = pushTimestamps /\ confirmed' = confirmed
  <1>1. /\ call[c].at = "ml"
        /\ UNCHANGED <<vars, evidence, pushTimestamps, confirmed>>
    BY Zenon DEF MLAnswers
  <1>2. KnownCall(call[c])
    BY DEF CallsKnown
  <1>3. call[c].b \in Scored
    BY <1>1, <1>2 DEF KnownCall, Idle
  <1>4. QED
    BY <1>1, <1>3 DEF vars, oracleVars

\* What an extraction works with was seen less than a term of the RPC cache ago.
LEMMA ObservationFacts ==
    ASSUME CachesInv, NEW b \in Scored
    PROVE  /\ Observation(b) \in Observations
           /\ Observation(b).at <= now
           /\ Observation(b).seen = Observation(b).at
           /\ now - Observation(b).seen < RPC_CACHE_TTL
  <1>1. now \in Nat /\ evidence[b] \in Evidence /\ RPC_CACHE_TTL \in Nat \ {0}
    BY TimesNat, CreditAssumption DEF CachesInv, CachesTyped
  <1>2. CASE rpcCache[b] # None /\ now - rpcCache[b].at < RPC_CACHE_TTL
    <2>1. rpcCache[b] \in Observations
      BY <1>2 DEF CachesInv, CachesTyped
    <2>2. rpcCache[b].at <= now /\ rpcCache[b].seen = rpcCache[b].at
      BY <1>2 DEF CachesInv, ObservedInTime
    <2>3. Observation(b) = rpcCache[b]
      BY <1>2 DEF Observation
    <2>4. QED
      BY <1>2, <2>1, <2>2, <2>3
  <1>3. CASE ~(rpcCache[b] # None /\ now - rpcCache[b].at < RPC_CACHE_TTL)
    <2>1. Observation(b) = [at |-> now, seen |-> now, evidence |-> evidence[b]]
      BY <1>3 DEF Observation
    <2>2. QED
      BY <1>1, <2>1 DEF Observations
  <1>4. QED
    BY <1>2, <1>3

\* An extraction keeps the caches in order.
LEMMA LiveFeaturesKeeps ==
    ASSUME CachesInv, NEW b \in Scored, NEW fresh, NEW told,
           LiveFeatures(b, fresh, told), now' = now, evidence' = evidence
    PROVE  CachesInv'
  <1>1. CASE UNCHANGED mlVars
    BY <1>1 DEF mlVars, CachesInv, CachesTyped, ObservedInTime, MadeInTime
  <1>2. CASE /\ rpcCache' = [rpcCache EXCEPT ![b] = Observation(b)]
             /\ told = [at |-> now, seen |-> Observation(b).seen,
                        features |-> Extracted[Observation(b).evidence]]
             /\ featureCache' = [featureCache EXCEPT ![b] = told]
    <2> DEFINE o == Observation(b)
    <2>1. /\ o \in Observations /\ o.at <= now /\ o.seen = o.at
          /\ now - o.seen < RPC_CACHE_TTL
      BY ObservationFacts
    <2>2. now \in Nat
      BY TimesNat DEF CachesInv, CachesTyped
    <2>3. told \in Extractions /\ told.at = now /\ told.seen = o.seen
      BY <1>2, <2>1, <2>2 DEF Observations, Extractions
    <2>4. /\ rpcCache \in [Scored -> Observations \cup {None}]
          /\ featureCache \in [Scored -> Extractions \cup {None}]
          /\ rpcCache' = [rpcCache EXCEPT ![b] = o]
      BY <1>2 DEF CachesInv, CachesTyped
    <2> HIDE DEF o
    <2>5. CachesTyped'
      BY <1>2, <2>1, <2>3, <2>4 DEF CachesInv, CachesTyped
    <2>6. ObservedInTime'
      BY <2>1, <2>4 DEF CachesInv, ObservedInTime
    <2>7. MadeInTime'
      BY <1>2, <2>1, <2>2, <2>3, <2>4 DEF CachesInv, MadeInTime
    <2>8. QED
      BY <2>5, <2>6, <2>7 DEF CachesInv
  <1>3. QED
    BY <1>1, <1>2 DEF LiveFeatures

LEMMA CreditInitCaches == CreditInit => CachesInv
  BY OracleAssumption DEF CreditInit, Init, CachesInv, CachesTyped, ObservedInTime,
       MadeInTime, Times

\* The caches of the ML API change when it is asked and when it restarts.
LEMMA CreditNextCaches == CachesInv /\ CallsKnown /\ [CreditNext]_allVars => CachesInv'
  <1> SUFFICES ASSUME CachesInv, CallsKnown, [CreditNext]_allVars PROVE CachesInv'
    OBVIOUS
  <1>1. ASSUME UNCHANGED <<rpcCache, featureCache, evidence>>, now' \in Times, now <= now'
        PROVE  CachesInv'
    <2>1. now \in Nat /\ now' \in Nat
      BY <1>1, TimesNat DEF CachesInv, CachesTyped
    <2>2. CachesTyped'
      BY <1>1 DEF CachesInv, CachesTyped
    <2>3. ObservedInTime'
      <3>1. ASSUME NEW b \in Scored, rpcCache[b] # None PROVE rpcCache[b].at \in Nat
        BY <3>1 DEF CachesInv, CachesTyped, Observations
      <3>2. QED
        BY <1>1, <2>1, <3>1 DEF CachesInv, ObservedInTime
    <2>4. MadeInTime'
      <3>1. ASSUME NEW b \in Scored, featureCache[b] # None PROVE featureCache[b].at \in Nat
        BY <3>1 DEF CachesInv, CachesTyped, Extractions
      <3>2. QED
        BY <1>1, <2>1, <3>1 DEF CachesInv, MadeInTime
    <2>5. QED
      BY <2>2, <2>3, <2>4 DEF CachesInv
  <1>2. now \in Times /\ now \in Nat
    BY TimesNat DEF CachesInv, CachesTyped
  <1>3. ASSUME UNCHANGED <<vars, evidence, mlVars>> PROVE CachesInv'
    BY <1>1, <1>2, <1>3 DEF vars, mlVars
  <1>4. CASE ChainStep
    <2>1. now' \in Times /\ now <= now'
      BY <1>2, <1>4, TimesNat, OracleAssumption DEF ChainStep, Tick, GrantOracleRole, Times
    <2>2. QED
      BY <1>1, <1>4, <2>1 DEF ChainStep, mlVars
  <1>5. CASE RestartAgent
    BY <1>3, <1>5 DEF RestartAgent
  <1>6. CASE RestartML
    BY <1>2, <1>6 DEF RestartML, vars, CachesInv, CachesTyped, ObservedInTime, MadeInTime
  <1>7. ASSUME NEW b \in Scored, WalletActs(b) PROVE CachesInv'
    BY <1>7 DEF WalletActs, vars, mlVars, CachesInv, CachesTyped, ObservedInTime, MadeInTime
  <1>8. ASSUME NEW b \in Scored, SomeoneScores(b) \/ ScoreAndPush(b) PROVE CachesInv'
    BY <1>8, LiveFeaturesKeeps DEF SomeoneScores, ScoreAndPush, vars
  <1>9. ASSUME NEW c \in Calls, CallStep(c) PROVE CachesInv'
    <2>1. CASE \E b \in Scored, forceFresh \in BOOLEAN, dryRun \in BOOLEAN :
                  ScoreBorrower(c, b, forceFresh, dryRun)
      BY <1>3, <2>1 DEF ScoreBorrower
    <2>2. CASE MLAnswers(c)
      <3>1. PICK told : ExtractedFor(call[c].b, FALSE, told)
        BY <2>2 DEF MLAnswers
      <3>2. call[c].b \in Scored /\ now' = now /\ evidence' = evidence
        BY <2>2, MLCall
      <3>3. CASE LiveFeatures(call[c].b, FALSE, told)
        BY <3>2, <3>3, LiveFeaturesKeeps
      <3>4. CASE FallBack(call[c].b, told)
        BY <1>3, <2>2, <3>4 DEF FallBack, MLAnswers
      <3>5. QED
        BY <3>1, <3>3, <3>4 DEF ExtractedFor
    <2>3. CASE Fails(c)
      BY <1>3, <2>3 DEF Fails
    <2>4. CASE PushLands(c)
      BY <1>1, <1>2, <2>4 DEF PushLands, UpdateScore, mlVars
    <2>5. CASE PushConfirmed(c)
      BY <1>3, <2>5 DEF PushConfirmed
    <2>6. QED
      BY <1>9, <2>1, <2>2, <2>3, <2>4, <2>5 DEF CallStep
  <1>10. CASE UNCHANGED allVars
    BY <1>3, <1>10 DEF allVars
  <1>11. QED
    BY <1>4, <1>5, <1>6, <1>7, <1>8, <1>9, <1>10 DEF CreditNext

-----------------------------------------------------------------------------
(* The calls under way.                                                     *)

\* A score of the ML API carries the tier of that score.
LEMMA AnswerTier ==
    ASSUME CachesInv, NEW b \in Scored, NEW told \in Told(b) \ {None},
           ExtractedFor(b, FALSE, told), NEW pd \in DefaultProbabilities
    PROVE  LET r == Results[told.features][pd] IN r.tier = ClassifyRiskTier(r.score)
  <1> DEFINE known == {Extracted[e] : e \in Evidence} \cup {Drawn[a] : a \in Scored}
  <1>1. told.features \in known
    <2>1. CASE featureCache[b] # None /\ told = featureCache[b]
      <3>1. featureCache[b] \in Extractions
        BY <2>1 DEF CachesInv, CachesTyped
      <3>2. QED
        BY <2>1, <3>1 DEF Extractions
    <2>2. CASE told = [at |-> now, seen |-> Observation(b).seen,
                       features |-> Extracted[Observation(b).evidence]]
      <3>1. Observation(b).evidence \in Evidence
        BY ObservationFacts DEF Observations
      <3>2. QED
        BY <2>2, <3>1
    <2>3. CASE FallBack(b, told)
      BY <2>3 DEF FallBack
    <2>4. \/ featureCache[b] # None /\ told = featureCache[b]
          \/ told = [at |-> now, seen |-> Observation(b).seen,
                     features |-> Extracted[Observation(b).evidence]]
          \/ FallBack(b, told)
      BY Zenon DEF ExtractedFor, LiveFeatures
    <2>5. QED
      BY <2>1, <2>2, <2>3, <2>4, Zenon
  <1>2. Results[told.features][pd] = ComputeCreditScore(told.features, pd)
    <2> HIDE DEF known
    <2>1. Results = [f \in known |-> [p \in DefaultProbabilities |-> ComputeCreditScore(f, p)]]
      BY DEF Results, known
    <2>2. ASSUME NEW f \in known, NEW p \in DefaultProbabilities
          PROVE  Results[f][p] = ComputeCreditScore(f, p)
      BY <2>1, SMT
    <2>3. QED
      BY <1>1, <2>2, Zenon
  <1> DEFINE f == told.features
             r == ComputeCreditScore(f, pd)
  <1>3. r.score = ScoreOf(f, pd) /\ r.tier = ClassifyRiskTier(ScoreOf(f, pd))
    <2> HIDE DEF f
    <2>1. QED
      BY DEF ComputeCreditScore
  <1>4. QED
    BY <1>2, <1>3, Zenon

LEMMA CreditInitCalls == CreditInit => CallsKnown
  BY DEF CreditInit, Init, CallsKnown, KnownCall

LEMMA CreditNextCalls ==
    CachesInv /\ CallsKnown /\ [CreditNext]_allVars => CallsKnown'
  <1> SUFFICES ASSUME CachesInv, CallsKnown, [CreditNext]_allVars PROVE CallsKnown'
    OBVIOUS
  <1>k. KnownCall(Idle)
    BY DEF KnownCall
  <1>1. ASSUME UNCHANGED <<call, credit_score>> PROVE CallsKnown'
    BY <1>1, Zenon DEF CallsKnown, KnownCall
  <1>2. ASSUME NEW c \in Calls, NEW k, KnownCall(k), call' = [call EXCEPT ![c] = k],
               credit_score' = credit_score
        PROVE  CallsKnown'
    <2>1. call' = [d \in Calls |-> call'[d]]
      BY <1>2 DEF CallsKnown
    <2>2. ASSUME NEW d \in Calls PROVE KnownCall(call'[d])
      <3>1. call'[d] = IF d = c THEN k ELSE call[d]
        BY <1>2 DEF CallsKnown
      <3>2. KnownCall(call[d])
        BY DEF CallsKnown
      <3>3. QED
        BY <1>2, <3>1, <3>2, Zenon
    <2>3. QED
      BY <1>2, <2>1, <2>2 DEF CallsKnown
  <1>3. CASE ChainStep
    BY <1>1, <1>3 DEF ChainStep, Tick, GrantOracleRole, oracleVars
  <1>4. CASE RestartAgent
    BY <1>4, <1>k DEF RestartAgent, CallsKnown, vars, oracleVars
  <1>5. CASE RestartML
    BY <1>1, <1>5 DEF RestartML, vars, oracleVars, agentVars
  <1>6. ASSUME NEW b \in Scored, WalletActs(b) \/ SomeoneScores(b) \/ ScoreAndPush(b)
        PROVE  CallsKnown'
    BY <1>1, <1>6 DEF WalletActs, SomeoneScores, ScoreAndPush, vars, oracleVars, agentVars
  <1>7. ASSUME NEW c \in Calls, CallStep(c) PROVE CallsKnown'
    <2>1. ASSUME NEW b \in Scored, NEW forceFresh \in BOOLEAN, NEW dryRun \in BOOLEAN,
                 ScoreBorrower(c, b, forceFresh, dryRun)
          PROVE  CallsKnown'
      <3>1. KnownCall([at |-> "ml", b |-> b, forceFresh |-> forceFresh,
                       dryRun |-> dryRun])
        BY DEF KnownCall
      <3>2. QED
        BY <1>2, <2>1, <3>1 DEF ScoreBorrower, vars, oracleVars
    <2>2. CASE MLAnswers(c)
      <3>1. PICK pd \in DefaultProbabilities, told \in Told(call[c].b) \ {None} :
              LET b == call[c].b
                  result == Results[told.features][pd]
              IN  /\ ExtractedFor(b, FALSE, told)
                  /\ \/ call' = [call EXCEPT ![c] = Idle]
                     \/ call' = [call EXCEPT ![c] =
                          [at |-> "push", b |-> b, forceFresh |-> call[c].forceFresh,
                           score |-> result.score, tier |-> result.tier,
                           confidence |-> result.confidence]]
        BY <2>2 DEF MLAnswers
      <3>2. call[c].b \in Scored /\ credit_score' = credit_score
        BY <2>2, MLCall
      <3> DEFINE r == Results[told.features][pd]
                 k == [at |-> "push", b |-> call[c].b, forceFresh |-> call[c].forceFresh,
                       score |-> r.score, tier |-> r.tier, confidence |-> r.confidence]
      <3>3. r.tier = ClassifyRiskTier(r.score)
        BY <3>1, <3>2, AnswerTier
      <3> HIDE DEF r
      <3>4. KnownCall(k)
        BY <3>2, <3>3 DEF KnownCall
      <3>5. call' = [call EXCEPT ![c] = Idle] \/ call' = [call EXCEPT ![c] = k]
        BY <3>1 DEF r
      <3> HIDE DEF k
      <3>6. QED
        BY <1>2, <1>k, <3>2, <3>4, <3>5
    <2>3. CASE Fails(c)
      BY <1>2, <1>k, <2>3 DEF Fails, vars, oracleVars
    <2>4. CASE PushLands(c)
      <3> DEFINE b == call[c].b
                 k == [at |-> "landed", b |-> b, forceFresh |-> call[c].forceFresh,
                       score |-> call[c].score, tier |-> call[c].tier,
                       given |-> CalculateRiskTier(call[c].score)]
      <3>1. /\ b \in Scored /\ call[c].tier = ClassifyRiskTier(call[c].score)
            /\ call[c].score \in MIN_SCORE..MAX_SCORE
        BY <2>4 DEF PushLands, UpdateScore, CallsKnown, KnownCall, Idle
      <3>2. /\ credit_score' = [a \in Scored |-> credit_score'[a]]
            /\ credit_score'[b].risk_tier = CalculateRiskTier(call[c].score)
        BY <2>4, <3>1 DEF PushLands, UpdateScore, CallsKnown
      <3>3. KnownCall(k)
        BY <3>1 DEF KnownCall
      <3>4. call' = [call EXCEPT ![c] = k]
        BY <2>4, <3>2 DEF PushLands
      <3>5. QED
        <4> HIDE DEF k
        <4>1. call' = [d \in Calls |-> call'[d]]
          BY <3>4 DEF CallsKnown
        <4>2. ASSUME NEW d \in Calls PROVE KnownCall(call'[d])
          <5>1. call'[d] = IF d = c THEN k ELSE call[d]
            BY <3>4 DEF CallsKnown
          <5>2. KnownCall(call[d])
            BY DEF CallsKnown
          <5>3. QED
            BY <3>3, <5>1, <5>2, Zenon
        <4>3. QED
          BY <3>2, <4>1, <4>2 DEF CallsKnown
    <2>5. CASE PushConfirmed(c)
      BY <1>2, <1>k, <2>5 DEF PushConfirmed, vars, oracleVars
    <2>6. QED
      BY <1>7, <2>1, <2>2, <2>3, <2>4, <2>5 DEF CallStep
  <1>8. CASE UNCHANGED allVars
    BY <1>1, <1>8 DEF allVars, vars, oracleVars, agentVars
  <1>9. QED
    BY <1>3, <1>4, <1>5, <1>6, <1>7, <1>8 DEF CreditNext

-----------------------------------------------------------------------------
(* What the theorems rest on.                                               *)

\* In every state the answers that the ML API keeps were seen when they were
\* stored and the features no more than one term of the RPC cache before they were
\* made (features.py:184-201, 268-272), and a call that awaits its transaction
\* carries a score with the tier of that score (creditAgent.js:70-113).
THEOREM CreditCachesHold == CreditSpec => [](CachesInv /\ CallsKnown)
  <1>1. CreditInit => CachesInv /\ CallsKnown
    BY CreditInitCaches, CreditInitCalls
  <1>2. CachesInv /\ CallsKnown /\ [CreditNext]_allVars => (CachesInv /\ CallsKnown)'
    BY CreditNextCaches, CreditNextCalls
  <1>3. QED
    BY <1>1, <1>2, PTL DEF CreditSpec

\* Features that are answered from the cache were seen no longer ago than the two
\* cache terms allow together, whatever the terms are, through restarts of either
\* process and requests that do and do not insist on fresh features
\* (features.py:184-201, 268-272).
THEOREM EvidenceAlwaysRecent == CreditSpec => []EvidenceIsRecent
  <1>1. CachesInv => EvidenceIsRecent
    <2> SUFFICES ASSUME CachesInv, NEW b \in Scored, featureCache[b] # None,
                        now - featureCache[b].at < FEATURE_CACHE_TTL
                 PROVE  now - featureCache[b].seen
                           <= RPC_CACHE_TTL + FEATURE_CACHE_TTL - 2
      BY DEF EvidenceIsRecent
    <2>1. featureCache[b] \in Extractions
      BY DEF CachesInv, CachesTyped
    <2>2. now \in Nat /\ featureCache[b].at \in Nat /\ featureCache[b].seen \in Nat
      BY <2>1, TimesNat DEF CachesInv, CachesTyped, Extractions
    <2>3. featureCache[b].at - featureCache[b].seen < RPC_CACHE_TTL
      BY DEF CachesInv, MadeInTime
    <2>4. RPC_CACHE_TTL \in Nat /\ FEATURE_CACHE_TTL \in Nat
      BY CreditAssumption
    <2>5. \A n, a, s, r, f \in Int : n - a < f /\ a - s < r => n - s <= r + f - 2
      OBVIOUS
    <2>6. QED
      BY <2>2, <2>3, <2>4, <2>5
  <1>2. QED
    BY <1>1, CreditCachesHold, PTL

LEMMA UpTo ==
    ASSUME NEW k \in Nat PROVE  Cardinality(1..k) = k
  BY FS_Interval

\* The tier of the ML API is the one that the program gives.
LEMMA TiersAgree ==
    ASSUME NEW score \in Int
    PROVE  ClassifyRiskTier(score) = CalculateRiskTier(score)
  <1> DEFINE passed == {i \in DOMAIN TIER_THRESHOLDS : score >= TIER_THRESHOLDS[i]}
             k == CalculateRiskTier(score)
  <1>1. /\ DOMAIN TIER_THRESHOLDS = {1, 2, 3, 4}
        /\ TIER_THRESHOLDS[1] = 450 /\ TIER_THRESHOLDS[2] = 550
        /\ TIER_THRESHOLDS[3] = 650 /\ TIER_THRESHOLDS[4] = 750
    BY DEF TIER_THRESHOLDS
  <1>2. k = IF score >= 750 THEN 4 ELSE IF score >= 650 THEN 3
            ELSE IF score >= 550 THEN 2 ELSE IF score >= 450 THEN 1 ELSE 0
    BY <1>1, SameThresholds DEF CalculateRiskTier
  <1>3. passed = 1..k
    BY <1>1, <1>2
  <1>4. k \in Nat
    BY <1>2
  <1>5. Cardinality(passed) = k
    <2> HIDE DEF passed, k
    <2>1. QED
      BY <1>3, <1>4, UpTo
  <1>6. QED
    BY <1>5 DEF ClassifyRiskTier

\* The cache has an entry for each borrower.
CacheKept == scoreCache = [b \in Scored |-> scoreCache[b]]

LEMMA NextKeepsCache ==
    ASSUME CacheKept, [CreditNext]_allVars PROVE CacheKept'
  <1>1. CASE UNCHANGED scoreCache
    BY <1>1 DEF CacheKept
  <1>2. CASE RestartAgent
    BY <1>2 DEF RestartAgent, CacheKept
  <1>3. ASSUME NEW c \in Calls, MLAnswers(c) \/ PushConfirmed(c) PROVE CacheKept'
    <2>1. UNCHANGED scoreCache \/ \E a, e : scoreCache' = [scoreCache EXCEPT ![a] = e]
      BY <1>3, Zenon DEF MLAnswers, PushConfirmed
    <2>2. QED
      BY <2>1 DEF CacheKept
  <1>4. QED
    BY <1>1, <1>2, <1>3 DEF CreditNext, ChainStep, RestartML, WalletActs, SomeoneScores,
         ScoreAndPush, CallStep, ScoreBorrower, Fails, PushLands, agentVars, allVars

\* An entry that the agent caches as published is of a transaction that landed,
\* with the score and the tier that the program gave to it, however the calls
\* overlap and whichever of their transactions fail
\* (creditAgent.js:90-138).
THEOREM CachedAsPublished == CreditSpec => CacheIsPublished
  <1> DEFINE Published ==
        \A b \in Scored :
           scoreCache'[b] \notin {scoreCache[b], None} /\ scoreCache'[b].onChain =>
              \E c \in Calls :
                 /\ call[c].at = "landed" /\ call[c].b = b
                 /\ call[c].score = scoreCache'[b].score
                 /\ call[c].given = scoreCache'[b].tier
  <1>1. CallsKnown /\ CacheKept /\ [CreditNext]_allVars => Published
    <2> SUFFICES ASSUME CallsKnown, CacheKept, [CreditNext]_allVars, NEW b \in Scored,
                        scoreCache'[b] \notin {scoreCache[b], None}, scoreCache'[b].onChain
                 PROVE  \E c \in Calls :
                           /\ call[c].at = "landed" /\ call[c].b = b
                           /\ call[c].score = scoreCache'[b].score
                           /\ call[c].given = scoreCache'[b].tier
      BY Zenon
    <2>1. PICK c \in Calls : MLAnswers(c) \/ PushConfirmed(c)
      BY DEF CreditNext, ChainStep, RestartAgent, RestartML, WalletActs, SomeoneScores,
             ScoreAndPush, CallStep, ScoreBorrower, Fails, PushLands, agentVars, allVars
    <2>2. KnownCall(call[c])
      BY DEF CallsKnown
    <2>3. CASE MLAnswers(c)
      <3>1. PICK e : scoreCache' = [scoreCache EXCEPT ![call[c].b] = e] /\ e.onChain = FALSE
        <4>1. UNCHANGED scoreCache \/ \E r : scoreCache' = [scoreCache EXCEPT ![call[c].b] = Entry(r, FALSE)]
          BY <2>3, Zenon DEF MLAnswers
        <4>2. PICK r : scoreCache' = [scoreCache EXCEPT ![call[c].b] = Entry(r, FALSE)]
          BY <4>1
        <4>3. Entry(r, FALSE).onChain = FALSE
          BY DEF Entry
        <4>4. QED
          BY <4>2, <4>3
      <3>2. QED
        BY <3>1 DEF CacheKept
    <2>4. CASE PushConfirmed(c)
      <3>1. /\ call[c].at = "landed"
            /\ scoreCache' = [scoreCache EXCEPT ![call[c].b] = Entry(call[c], TRUE)]
        BY <2>4, Zenon DEF PushConfirmed
      <3>2. /\ call[c].b = b
            /\ scoreCache'[b] = Entry(call[c], TRUE)
        BY <3>1 DEF CacheKept
      <3>3. scoreCache'[b].score = call[c].score /\ scoreCache'[b].tier = call[c].tier
        BY <3>2 DEF Entry
      <3>4. /\ call[c].tier = ClassifyRiskTier(call[c].score)
            /\ call[c].score \in MIN_SCORE..MAX_SCORE
            /\ call[c].given = CalculateRiskTier(call[c].score)
        BY <2>2, <3>1 DEF KnownCall, Idle
      <3>5. call[c].given = call[c].tier
        BY <3>4, TiersAgree, OracleAssumption
      <3>6. QED
        BY <3>1, <3>2, <3>3, <3>5
    <2>5. QED
      BY <2>1, <2>3, <2>4
  <1>2. CreditInit => CacheKept
    BY DEF CreditInit, CacheKept
  <1>3. CallsKnown /\ CacheKept /\ [CreditNext]_allVars => CacheKept'
    BY NextKeepsCache
  <1>4. QED
    <2>1. [](CallsKnown /\ CacheKept) /\ [][CreditNext]_allVars => [][Published]_allVars
      BY <1>1, PTL
    <2>2. CreditSpec => []CacheKept
      BY <1>2, <1>3, CreditCachesHold, PTL DEF CreditSpec
    <2>3. QED
      BY <2>1, <2>2, CreditCachesHold, PTL DEF CreditSpec, CacheIsPublished

-----------------------------------------------------------------------------
(* The pushes of one cooldown.                                              *)

PushesTyped ==
    /\ pushTimestamps \in [Scored -> Times \cup {Never}]
    /\ \A b \in Scored : pushTimestamps[b] <= now
    /\ confirmed \in [Scored -> [Times -> Nat]]

PushesRecent ==
    \A b \in Scored, t \in Times :
       confirmed[b][t] # 0 => t <= pushTimestamps[b] /\ now - t < PUSH_COOLDOWN

\* Calls in cl that are past the cooldown and will confirm a push of b, not forced.
Waiting(cl, b) ==
    {c \in Calls : cl[c].at \in {"push", "landed"} /\ cl[c].b = b /\ ~cl[c].forceFresh}

Counted(f, cl, b) == SumOf(f, Times) + Cardinality(Waiting(cl, b)) <= Cardinality(Calls)

PushesCounted == \A b \in Scored : Counted(confirmed[b], call, b)

PushesInv == PushesTyped /\ PushesRecent /\ PushesCounted

LEMMA TimesFinite == IsFiniteSet(Times)
  BY FS_Interval, OracleAssumption DEF Times

\* How the count moves: when fewer wait, when nothing is counted, when the clock
\* takes confirmed pushes out of the cooldown, and when one that waited is confirmed.
LEMMA WaitingFacts ==
    ASSUME NEW cl, NEW b
    PROVE  /\ IsFiniteSet(Waiting(cl, b)) /\ Cardinality(Waiting(cl, b)) \in Nat
           /\ Cardinality(Waiting(cl, b)) <= Cardinality(Calls)
           /\ Cardinality(Calls) \in Nat
  <1>1. Waiting(cl, b) \subseteq Calls
    BY DEF Waiting
  <1>2. QED
    BY <1>1, CreditAssumption, FS_Subset, FS_CardinalityType

LEMMA FewerWaiting ==
    ASSUME NEW f \in [Times -> Nat], NEW cl, NEW ncl, NEW b, Counted(f, cl, b),
           Waiting(ncl, b) \subseteq Waiting(cl, b)
    PROVE  Counted(f, ncl, b)
  <1> DEFINE x == Cardinality(Waiting(cl, b))
             y == Cardinality(Waiting(ncl, b))
             z == Cardinality(Calls)
             s == SumOf(f, Times)
  <1>1. y <= x
    BY WaitingFacts, FS_Subset
  <1>2. x \in Nat /\ y \in Nat /\ z \in Nat /\ s \in Nat
    BY WaitingFacts, SumNat, TimesFinite
  <1>3. s + x <= z
    BY DEF Counted
  <1> HIDE DEF x, y, z, s
  <1>4. s + y <= z
    BY <1>1, <1>2, <1>3
  <1>5. QED
    BY <1>4 DEF Counted, s, y, z

LEMMA NoneConfirmed ==
    ASSUME NEW f, \A t \in Times : f[t] = 0, NEW cl, NEW b
    PROVE  Counted(f, cl, b)
  BY SumZeros, TimesFinite, WaitingFacts DEF Counted

LEMMA FewerConfirmed ==
    ASSUME NEW f \in [Times -> Nat], NEW g \in [Times -> Nat], NEW cl, NEW b,
           Counted(f, cl, b), \A t \in Times : g[t] \in {f[t], 0}
    PROVE  Counted(g, cl, b)
  <1> DEFINE kept == {t \in Times : g[t] = f[t]}
             x == Cardinality(Waiting(cl, b))
             z == Cardinality(Calls)
             s == SumOf(f, Times)
             r == SumOf(g, Times)
  <1>1. SumOf(f, kept) = r
    <2>1. \A t \in kept : f[t] \in Int /\ g[t] = f[t]
      OBVIOUS
    <2>2. \A t \in Times \ kept : g[t] = 0
      OBVIOUS
    <2>3. kept \in SUBSET Times
      OBVIOUS
    <2> HIDE DEF kept
    <2>4. QED
      BY <2>1, <2>2, <2>3, SumOfPart, TimesFinite
  <1>2. SumOf(f, kept) <= s
    BY SumSubset, TimesFinite
  <1>3. x \in Nat /\ z \in Nat /\ s \in Nat /\ r \in Nat
    BY WaitingFacts, SumNat, TimesFinite
  <1>4. s + x <= z
    BY DEF Counted
  <1> HIDE DEF kept, x, z, s, r
  <1>5. r + x <= z
    BY <1>1, <1>2, <1>3, <1>4
  <1>6. QED
    BY <1>5 DEF Counted, r, x, z

LEMMA OneConfirmed ==
    ASSUME NEW f \in [Times -> Nat], NEW t \in Times, NEW cl, NEW ncl, NEW b, NEW c,
           c \in Waiting(cl, b), Waiting(ncl, b) \subseteq Waiting(cl, b) \ {c},
           Counted(f, cl, b)
    PROVE  Counted([f EXCEPT ![t] = @ + 1], ncl, b)
  <1> DEFINE g == [f EXCEPT ![t] = @ + 1]
             x == Cardinality(Waiting(cl, b))
             y == Cardinality(Waiting(ncl, b))
             z == Cardinality(Calls)
             s == SumOf(f, Times)
             r == SumOf(g, Times)
  <1>1. r = s + 1
    <2>1. /\ \A u \in Times : f[u] \in Int /\ g[u] \in Int
          /\ \A u \in Times \ {t} : g[u] = f[u]
          /\ g[t] = f[t] + 1 /\ f[t] \in Int
      OBVIOUS
    <2>2. s \in Int
      BY SumInt, TimesFinite
    <2> HIDE DEF g, s
    <2>3. r = SumOf(f, Times) + g[t] - f[t]
      BY <2>1, SumChange, TimesFinite
    <2>4. QED
      BY <2>1, <2>2, <2>3 DEF s
  <1>2. y <= x - 1
    <2>1. Cardinality(Waiting(cl, b) \ {c}) = x - 1
      BY WaitingFacts, FS_RemoveElement
    <2>2. IsFiniteSet(Waiting(cl, b) \ {c})
      BY WaitingFacts, FS_RemoveElement
    <2>3. QED
      BY <2>1, <2>2, FS_Subset
  <1>3. x \in Nat /\ y \in Nat /\ z \in Nat /\ s \in Nat
    BY WaitingFacts, SumNat, TimesFinite
  <1>4. s + x <= z
    BY DEF Counted
  <1> HIDE DEF g, x, y, z, s, r
  <1>5. r + y <= z
    BY <1>1, <1>2, <1>3, <1>4
  <1>6. QED
    BY <1>5 DEF Counted, r, y, z, g

\* A call that changes, and is none of those that wait or was one already, adds
\* nobody.
LEMMA CallChanges ==
    ASSUME NEW cl, cl = [d \in Calls |-> cl[d]], NEW c \in Calls, NEW k, NEW b,
           \/ k.at \notin {"push", "landed"} \/ k.b # b \/ k.forceFresh
           \/ c \in Waiting(cl, b)
    PROVE  Waiting([cl EXCEPT ![c] = k], b) \subseteq Waiting(cl, b)
  BY DEF Waiting

\* A call that ends waits no more.
LEMMA CallLeaves ==
    ASSUME NEW cl, cl = [d \in Calls |-> cl[d]], NEW c \in Calls, NEW b
    PROVE  Waiting([cl EXCEPT ![c] = Idle], b) \subseteq Waiting(cl, b) \ {c}
  <1>1. Idle.at \notin {"push", "landed"}
    BY DEF Idle
  <1>2. QED
    BY <1>1 DEF Waiting

\* When no cooldown runs, no push of the last one is counted any more.
LEMMA CooledDown ==
    ASSUME PushesInv, now \in Nat, NEW b \in Scored, ~CoolingDown(b)
    PROVE  \A t \in Times : confirmed[b][t] = 0
  <1> SUFFICES ASSUME NEW t \in Times, confirmed[b][t] # 0 PROVE FALSE
    OBVIOUS
  <1>1. t <= pushTimestamps[b] /\ now - t < PUSH_COOLDOWN /\ t \in Nat
    BY TimesNat DEF PushesInv, PushesRecent
  <1>2. pushTimestamps[b] \in Nat \/ pushTimestamps[b] = -1
    BY TimesNat DEF PushesInv, PushesTyped, Never
  <1>3. PUSH_COOLDOWN \in Nat
    BY CreditAssumption
  <1>4. pushTimestamps[b] # Never /\ now - pushTimestamps[b] < PUSH_COOLDOWN
    BY <1>1, <1>2, <1>3 DEF Never
  <1>5. QED
    BY <1>4 DEF CoolingDown

\* A step of the calls alone: where a call comes to wait, no cooldown runs.
LEMMA OnlyCallsMove ==
    ASSUME PushesInv, now \in Nat, UNCHANGED <<now, pushTimestamps, confirmed>>,
           NEW ncl, ncl = call',
           \A b \in Scored :
              ~CoolingDown(b) \/ Waiting(ncl, b) \subseteq Waiting(call, b)
    PROVE  PushesInv'
  <1>1. PushesTyped' /\ PushesRecent'
    BY DEF PushesInv, PushesTyped, PushesRecent
  <1>2. ASSUME NEW b \in Scored PROVE Counted(confirmed[b], ncl, b)
    <2>1. confirmed[b] \in [Times -> Nat] /\ Counted(confirmed[b], call, b)
      BY DEF PushesInv, PushesTyped, PushesCounted
    <2>2. CASE ~CoolingDown(b)
      BY <2>2, CooledDown, NoneConfirmed
    <2>3. CASE Waiting(ncl, b) \subseteq Waiting(call, b)
      BY <2>1, <2>3, FewerWaiting
    <2>4. QED
      BY <2>2, <2>3
  <1>3. PushesCounted'
    BY <1>2 DEF PushesCounted
  <1>4. QED
    BY <1>1, <1>3 DEF PushesInv

LEMMA CreditInitPushes == CreditInit => PushesInv
  <1> SUFFICES ASSUME CreditInit PROVE PushesInv
    OBVIOUS
  <1>1. now = 0 /\ now \in Times
    BY OracleAssumption DEF CreditInit, Init, Times
  <1>2. /\ pushTimestamps = [b \in Scored |-> -1]
        /\ confirmed = [b \in Scored |-> NoPushes]
        /\ NoPushes \in [Times -> Nat] /\ \A t \in Times : NoPushes[t] = 0
    BY DEF CreditInit, NoPushes, Never
  <1>3. PushesTyped
    BY <1>1, <1>2 DEF PushesTyped, Never
  <1>4. PushesRecent
    BY <1>2 DEF PushesRecent
  <1>5. PushesCounted
    BY <1>2, NoneConfirmed DEF PushesCounted
  <1>6. QED
    BY <1>3, <1>4, <1>5 DEF PushesInv

LEMMA CreditNextPushes ==
    CachesInv /\ CachesInv' /\ CallsKnown /\ PushesInv /\ [CreditNext]_allVars
       => PushesInv'
  <1> SUFFICES ASSUME CachesInv, CachesInv', CallsKnown, PushesInv,
                      [CreditNext]_allVars
               PROVE  PushesInv'
    OBVIOUS
  <1>n. /\ now \in Times /\ now' \in Times /\ now \in Nat /\ now' \in Nat
        /\ call = [d \in Calls |-> call[d]]
    BY TimesNat DEF CallsKnown, CachesInv, CachesTyped
  <1>t. /\ pushTimestamps \in [Scored -> Times \cup {Never}]
        /\ confirmed \in [Scored -> [Times -> Nat]]
        /\ \A b \in Scored : pushTimestamps[b] <= now
        /\ \A b \in Scored : Counted(confirmed[b], call, b)
    BY DEF PushesInv, PushesTyped, PushesCounted
  <1>1. ASSUME UNCHANGED <<now, pushTimestamps, confirmed, call>> PROVE PushesInv'
    BY <1>1, <1>n, OnlyCallsMove, Zenon
  <1>2. CASE ChainStep
    <2>1. /\ now <= now' /\ call' = call /\ pushTimestamps' = pushTimestamps
          /\ confirmed' = [b \in Scored |-> [t \in Times |->
                IF now' - t < PUSH_COOLDOWN THEN confirmed[b][t] ELSE 0]]
      BY <1>2, <1>n DEF ChainStep, Tick, GrantOracleRole, LastCooldown
    <2>2. PushesTyped'
      <3>1. \A b \in Scored : pushTimestamps[b] <= now'
        BY <1>n, <1>t, <2>1, TimesNat DEF Never
      <3>2. confirmed' \in [Scored -> [Times -> Nat]]
        BY <1>t, <2>1
      <3>3. QED
        BY <1>t, <2>1, <3>1, <3>2 DEF PushesTyped
    <2>3. PushesRecent'
      BY <2>1 DEF PushesInv, PushesRecent
    <2>4. ASSUME NEW b \in Scored PROVE Counted(confirmed'[b], call, b)
      <3>1. confirmed'[b] \in [Times -> Nat] /\ confirmed[b] \in [Times -> Nat]
        BY <1>t, <2>1
      <3>2. \A t \in Times : confirmed'[b][t] \in {confirmed[b][t], 0}
        BY <2>1
      <3>3. QED
        BY <1>t, <3>1, <3>2, FewerConfirmed
    <2>5. QED
      BY <2>1, <2>2, <2>3, <2>4 DEF PushesInv, PushesCounted
  <1>3. CASE RestartAgent
    <2>1. /\ now' = now /\ pushTimestamps' = [b \in Scored |-> Never]
          /\ confirmed' = [b \in Scored |-> NoPushes]
          /\ NoPushes \in [Times -> Nat] /\ \A t \in Times : NoPushes[t] = 0
      BY <1>3 DEF RestartAgent, NoPushes, vars
    <2>2. PushesTyped'
      BY <1>n, <2>1 DEF PushesTyped, Never
    <2>3. PushesRecent'
      BY <2>1 DEF PushesRecent
    <2>4. PushesCounted'
      BY <2>1, NoneConfirmed DEF PushesCounted
    <2>5. QED
      BY <2>2, <2>3, <2>4 DEF PushesInv
  <1>4. CASE RestartML
    BY <1>1, <1>4 DEF RestartML, vars, agentVars
  <1>5. ASSUME NEW b \in Scored, WalletActs(b) \/ SomeoneScores(b) \/ ScoreAndPush(b)
        PROVE  PushesInv'
    BY <1>1, <1>5 DEF WalletActs, SomeoneScores, ScoreAndPush, vars, agentVars
  <1>6. ASSUME NEW c \in Calls, CallStep(c) PROVE PushesInv'
    <2>1. ASSUME NEW b \in Scored, NEW forceFresh \in BOOLEAN, NEW dryRun \in BOOLEAN,
                 ScoreBorrower(c, b, forceFresh, dryRun)
          PROVE  PushesInv'
      <3> DEFINE k == [at |-> "ml", b |-> b, forceFresh |-> forceFresh, dryRun |-> dryRun]
      <3>1. call' = [call EXCEPT ![c] = k] /\ UNCHANGED <<now, pushTimestamps, confirmed>>
        BY <2>1 DEF ScoreBorrower, vars
      <3>2. k.at \notin {"push", "landed"}
        OBVIOUS
      <3> HIDE DEF k
      <3>3. \A a \in Scored : Waiting([call EXCEPT ![c] = k], a) \subseteq Waiting(call, a)
        BY <1>n, <3>2, CallChanges
      <3>4. QED
        BY <1>n, <3>1, <3>3, OnlyCallsMove
    <2>2. CASE MLAnswers(c)
      <3>1. UNCHANGED <<now, pushTimestamps, confirmed>>
        BY <2>2, MLCall
      <3>2. PICK k : /\ call' = [call EXCEPT ![c] = k]
                     /\ \/ k = Idle
                        \/ /\ k.b = call[c].b
                           /\ ~CoolingDown(k.b) \/ k.forceFresh
        <4>1. \/ call' = [call EXCEPT ![c] = Idle]
              \/ \E r : /\ call' = [call EXCEPT ![c] =
                              [at |-> "push", b |-> call[c].b,
                               forceFresh |-> call[c].forceFresh,
                               score |-> r.score, tier |-> r.tier,
                               confidence |-> r.confidence]]
                        /\ ~CoolingDown(call[c].b) \/ call[c].forceFresh
          BY <2>2, Zenon DEF MLAnswers
        <4>2. CASE call' = [call EXCEPT ![c] = Idle]
          BY <4>2
        <4>3. ASSUME NEW r, call' = [call EXCEPT ![c] =
                              [at |-> "push", b |-> call[c].b,
                               forceFresh |-> call[c].forceFresh,
                               score |-> r.score, tier |-> r.tier,
                               confidence |-> r.confidence]],
                     ~CoolingDown(call[c].b) \/ call[c].forceFresh
              PROVE  \E k : /\ call' = [call EXCEPT ![c] = k]
                            /\ \/ k = Idle
                               \/ /\ k.b = call[c].b
                                  /\ ~CoolingDown(k.b) \/ k.forceFresh
          <5> DEFINE k == [at |-> "push", b |-> call[c].b,
                           forceFresh |-> call[c].forceFresh,
                           score |-> r.score, tier |-> r.tier,
                           confidence |-> r.confidence]
          <5>1. k.b = call[c].b /\ k.forceFresh = call[c].forceFresh
            OBVIOUS
          <5>2. call' = [call EXCEPT ![c] = k]
            BY <4>3
          <5> HIDE DEF k
          <5>3. ~CoolingDown(k.b) \/ k.forceFresh
            BY <4>3, <5>1
          <5>4. QED
            BY <5>1, <5>2, <5>3
        <4>4. QED
          BY <4>1, <4>2, <4>3
      <3>3. ASSUME NEW a \in Scored
            PROVE  \/ ~CoolingDown(a)
                   \/ Waiting([call EXCEPT ![c] = k], a) \subseteq Waiting(call, a)
        BY <1>n, <3>2, CallChanges DEF Idle
      <3>4. QED
        BY <1>n, <3>1, <3>2, <3>3, OnlyCallsMove
    <2>3. CASE Fails(c)
      <3>1. call' = [call EXCEPT ![c] = Idle] /\ UNCHANGED <<now, pushTimestamps, confirmed>>
        BY <2>3 DEF Fails, vars
      <3>2. \A a \in Scored : Waiting([call EXCEPT ![c] = Idle], a) \subseteq Waiting(call, a)
        BY <1>n, CallLeaves
      <3>3. QED
        BY <1>n, <3>1, <3>2, OnlyCallsMove
    <2>4. CASE PushLands(c)
      <3>1. PICK k : /\ call' = [call EXCEPT ![c] = k]
                     /\ k.b = call[c].b /\ k.forceFresh = call[c].forceFresh
        <4>1. call' = [call EXCEPT ![c] =
                 [at |-> "landed", b |-> call[c].b, forceFresh |-> call[c].forceFresh,
                  score |-> call[c].score, tier |-> call[c].tier,
                  given |-> credit_score'[call[c].b].risk_tier]]
          BY <1>n, <2>4 DEF PushLands
        <4> DEFINE k == [at |-> "landed", b |-> call[c].b,
                         forceFresh |-> call[c].forceFresh,
                         score |-> call[c].score, tier |-> call[c].tier,
                         given |-> credit_score'[call[c].b].risk_tier]
        <4>2. k.b = call[c].b /\ k.forceFresh = call[c].forceFresh
          OBVIOUS
        <4>3. call' = [call EXCEPT ![c] = k]
          BY <4>1
        <4> HIDE DEF k
        <4>4. QED
          BY <4>2, <4>3
      <3>2. call[c].at = "push" /\ UNCHANGED <<now, pushTimestamps, confirmed>>
        BY <2>4 DEF PushLands, UpdateScore
      <3>3. ASSUME NEW a \in Scored
            PROVE  Waiting([call EXCEPT ![c] = k], a) \subseteq Waiting(call, a)
        <4>1. CASE c \in Waiting(call, a)
          BY <1>n, <4>1, CallChanges
        <4>2. CASE c \notin Waiting(call, a)
          <5>1. call[c].b # a \/ call[c].forceFresh
            BY <3>2, <4>2 DEF Waiting
          <5>2. QED
            BY <1>n, <3>1, <5>1, CallChanges
        <4>3. QED
          BY <4>1, <4>2
      <3>4. QED
        BY <1>n, <3>1, <3>2, <3>3, OnlyCallsMove
    <2>5. CASE PushConfirmed(c)
      <3> DEFINE b == call[c].b
      <3>1. /\ call[c].at = "landed" /\ now' = now
            /\ call' = [call EXCEPT ![c] = Idle]
            /\ pushTimestamps' = [pushTimestamps EXCEPT ![b] = now]
            /\ confirmed' = [confirmed EXCEPT ![b][now] =
                  IF call[c].forceFresh THEN @ ELSE @ + 1]
        BY <2>5 DEF PushConfirmed, vars
      <3>2. b \in Scored
        BY <3>1 DEF CallsKnown, KnownCall, Idle
      <3> HIDE DEF b
      <3>c. PUSH_COOLDOWN \in Nat \ {0}
        BY CreditAssumption
      <3>3. /\ confirmed' \in [Scored -> [Times -> Nat]]
            /\ \A a \in Scored : a # b => confirmed'[a] = confirmed[a]
            /\ \A t \in Times : t # now => confirmed'[b][t] = confirmed[b][t]
            /\ call[c].forceFresh => confirmed'[b] = confirmed[b]
            /\ ~call[c].forceFresh =>
                  confirmed'[b] = [confirmed[b] EXCEPT ![now] = @ + 1]
        <4> DEFINE g == [confirmed[b] EXCEPT ![now] =
                            IF call[c].forceFresh THEN @ ELSE @ + 1]
        <4>1. confirmed' = [confirmed EXCEPT ![b] = g]
          BY <3>1
        <4>2. /\ confirmed[b] \in [Times -> Nat]
              /\ \A t \in Times : t # now => g[t] = confirmed[b][t]
              /\ call[c].forceFresh => g = confirmed[b]
              /\ ~call[c].forceFresh => g = [confirmed[b] EXCEPT ![now] = @ + 1]
          BY <1>t, <3>2
        <4> HIDE DEF g
        <4>3. g \in [Times -> Nat]
          <5>1. CASE call[c].forceFresh
            BY <4>2, <5>1
          <5>2. CASE ~call[c].forceFresh
            BY <1>n, <4>2, <5>2
          <5>3. QED
            BY <5>1, <5>2
        <4>4. confirmed'[b] = g
          BY <1>t, <3>2, <4>1
        <4>5. QED
          BY <1>t, <3>2, <4>1, <4>2, <4>3, <4>4
      <3>4. PushesTyped'
        BY <1>n, <1>t, <3>1, <3>2, <3>3 DEF PushesTyped
      <3>5. PushesRecent'
        <4> SUFFICES ASSUME NEW a \in Scored, NEW t \in Times, confirmed'[a][t] # 0
                     PROVE  t <= pushTimestamps'[a] /\ now - t < PUSH_COOLDOWN
          BY <3>1 DEF PushesRecent
        <4>1. t \in Nat
          BY TimesNat
        <4>2. confirmed[a][t] # 0 => t <= pushTimestamps[a] /\ now - t < PUSH_COOLDOWN
          BY DEF PushesInv, PushesRecent
        <4>3. CASE a # b
          BY <1>t, <3>1, <3>3, <4>2, <4>3
        <4>4. CASE a = b /\ t = now
          BY <1>n, <1>t, <3>1, <3>2, <3>c, <4>4
        <4>5. CASE a = b /\ t # now
          <5>1. t <= pushTimestamps[a] /\ now - t < PUSH_COOLDOWN
            BY <3>3, <4>2, <4>5
          <5>2. pushTimestamps[a] <= now /\ pushTimestamps'[a] = now
            BY <1>t, <3>1, <3>2, <4>5
          <5>3. pushTimestamps[a] \in Int
            BY <1>t, TimesNat DEF Never
          <5>4. QED
            BY <1>n, <4>1, <5>1, <5>2, <5>3
        <4>6. QED
          BY <4>3, <4>4, <4>5
      <3>6. ASSUME NEW a \in Scored
            PROVE  Counted(confirmed'[a], [call EXCEPT ![c] = Idle], a)
        <4>1. /\ Counted(confirmed[a], call, a) /\ confirmed[a] \in [Times -> Nat]
              /\ Waiting([call EXCEPT ![c] = Idle], a) \subseteq Waiting(call, a) \ {c}
          BY <1>n, <1>t, CallLeaves
        <4>2. CASE confirmed'[a] = confirmed[a]
          BY <4>1, <4>2, FewerWaiting
        <4>3. CASE a = b /\ ~call[c].forceFresh
          <5>1. c \in Waiting(call, a)
            BY <3>1, <4>3 DEF Waiting, b
          <5>2. confirmed'[a] = [confirmed[a] EXCEPT ![now] = @ + 1]
            BY <3>3, <4>3
          <5>3. Counted([confirmed[a] EXCEPT ![now] = @ + 1],
                        [call EXCEPT ![c] = Idle], a)
            <6> DEFINE ncl == [call EXCEPT ![c] = Idle]
            <6> HIDE DEF ncl
            <6>1. /\ Counted(confirmed[a], call, a) /\ confirmed[a] \in [Times -> Nat]
                  /\ Waiting(ncl, a) \subseteq Waiting(call, a) \ {c}
              BY <4>1 DEF ncl
            <6>2. Counted([confirmed[a] EXCEPT ![now] = @ + 1], ncl, a)
              BY <1>n, <5>1, <6>1, OneConfirmed
            <6>3. QED
              BY <6>2 DEF ncl
          <5>4. QED
            BY <5>2, <5>3
        <4>4. QED
          BY <3>3, <4>2, <4>3
      <3>7. PushesCounted'
        BY <3>1, <3>6 DEF PushesCounted
      <3>8. QED
        BY <3>4, <3>5, <3>7 DEF PushesInv
    <2>6. QED
      BY <1>6, <2>1, <2>2, <2>3, <2>4, <2>5 DEF CallStep
  <1>7. CASE UNCHANGED allVars
    BY <1>1, <1>7 DEF allVars, vars, agentVars
  <1>8. QED
    BY <1>2, <1>3, <1>4, <1>5, <1>6, <1>7 DEF CreditNext

\* The times from t on.
From(t) == {u \in Times : t <= u}

PastTyped == earlier \in [Scored -> [Times -> Nat]] /\ restarts \in [Times -> Nat]

\* What the processes before this one had confirmed from some time on, each of
\* them ended by a restart from that time on.
PastCounted ==
    \A b \in Scored, t \in Times :
       SumOf(earlier[b], From(t)) <= Cardinality(Calls) * SumOf(restarts, From(t))

PastInv == PastTyped /\ PastCounted

LEMMA FromFacts ==
    ASSUME NEW t \in Times
    PROVE  From(t) \in SUBSET Times /\ IsFiniteSet(From(t)) /\ From(0) = Times
  <1>1. From(t) \in SUBSET Times /\ From(0) = Times
    BY TimesNat DEF From
  <1>2. QED
    BY <1>1, TimesFinite, FS_Subset

\* The first time of the cooldown that ends at n, or t when that is later.
Later(n, t) == IF n - PUSH_COOLDOWN + 1 <= t THEN t ELSE n - PUSH_COOLDOWN + 1

\* What the clock leaves of a history, from a time on, is what the history had
\* from the same or a later time on.
LEMMA LaterCooldown ==
    ASSUME NEW f \in [Times -> Nat], NEW t \in Times, NEW n \in Times, NEW g,
           \A u \in Times : g[u] = IF n - u < PUSH_COOLDOWN THEN f[u] ELSE 0
    PROVE  Later(n, t) \in Times /\ SumOf(g, From(t)) = SumOf(f, From(Later(n, t)))
  <1> DEFINE m == Later(n, t)
  <1>1. PUSH_COOLDOWN \in Nat \ {0}
    BY CreditAssumption
  <1>2. n \in Nat /\ t \in Nat /\ n <= MaxTime /\ t <= MaxTime /\ MaxTime \in Nat
    BY TimesNat DEF Times
  <1>3. m \in Nat /\ t <= m /\ n - PUSH_COOLDOWN + 1 <= m /\ m <= MaxTime
    BY <1>1, <1>2 DEF Later
  <1>m. \A u \in Nat : t <= u /\ ~(m <= u) => u < n - PUSH_COOLDOWN + 1
    BY <1>1, <1>2 DEF Later
  <1> HIDE DEF m
  <1>4. m \in Times
    BY <1>2, <1>3 DEF Times
  <1>5. From(m) \in SUBSET From(t)
    <2>1. \A u \in Times : m <= u => t <= u
      BY <1>2, <1>3, TimesNat
    <2>2. QED
      BY <2>1 DEF From
  <1>6. ASSUME NEW u \in From(m) PROVE f[u] \in Int /\ g[u] = f[u]
    <2>1. u \in Times /\ m <= u /\ u \in Nat
      BY <1>6, TimesNat DEF From
    <2>2. n - u < PUSH_COOLDOWN
      BY <1>1, <1>2, <1>3, <2>1
    <2>3. QED
      BY <2>1, <2>2
  <1>7. ASSUME NEW u \in From(t) \ From(m) PROVE g[u] = 0
    <2>1. u \in Times /\ t <= u /\ u \in Nat /\ ~(m <= u)
      BY <1>7, TimesNat DEF From
    <2>2. ~(n - u < PUSH_COOLDOWN)
      BY <1>1, <1>2, <1>m, <2>1
    <2>3. QED
      BY <2>1, <2>2
  <1>8. SumOf(f, From(m)) = SumOf(g, From(t))
    BY <1>5, <1>6, <1>7, FromFacts, SumOfPart
  <1>9. QED
    BY <1>4, <1>8 DEF m

LEMMA CreditInitPast == CreditInit => PastInv
  <1> SUFFICES ASSUME CreditInit PROVE PastInv
    OBVIOUS
  <1>1. /\ earlier = [b \in Scored |-> NoPushes] /\ restarts = NoPushes
        /\ NoPushes \in [Times -> Nat] /\ \A t \in Times : NoPushes[t] = 0
    BY DEF CreditInit, NoPushes
  <1>2. \A t \in Times : SumOf(NoPushes, From(t)) = 0
    BY <1>1, FromFacts, SumZeros
  <1>3. Cardinality(Calls) \in Nat
    BY CreditAssumption, FS_CardinalityType
  <1>4. PastCounted
    BY <1>1, <1>2, <1>3 DEF PastCounted
  <1>5. QED
    BY <1>1, <1>4 DEF PastInv, PastTyped

\* A restart moves what its process has confirmed to the past, and pays for it.
LEMMA RestartPast ==
    ASSUME PushesInv, PastInv, now \in Times, RestartAgent
    PROVE  PastInv'
  <1> DEFINE z == Cardinality(Calls)
  <1>t. /\ earlier \in [Scored -> [Times -> Nat]] /\ restarts \in [Times -> Nat]
        /\ confirmed \in [Scored -> [Times -> Nat]]
    BY DEF PastInv, PastTyped, PushesInv, PushesTyped
  <1>z. z \in Nat
    BY CreditAssumption, FS_CardinalityType
  <1>1. /\ earlier' = [b \in Scored |->
                          [t \in Times |-> earlier[b][t] + confirmed[b][t]]]
        /\ restarts' = [restarts EXCEPT ![now] = @ + 1]
    BY DEF RestartAgent
  <1>2. PastTyped'
    BY <1>t, <1>1 DEF PastTyped
  <1>3. ASSUME NEW b \in Scored, NEW t \in Times
        PROVE  SumOf(earlier'[b], From(t)) <= z * SumOf(restarts', From(t))
    <2> DEFINE e == SumOf(earlier[b], From(t))
               c == SumOf(confirmed[b], From(t))
               r == SumOf(restarts, From(t))
               s == SumOf(restarts', From(t))
    <2>1. SumOf(earlier'[b], From(t)) = e + c
      <3>1. \A u \in From(t) : /\ earlier[b][u] \in Int /\ confirmed[b][u] \in Int
                               /\ earlier'[b][u] = earlier[b][u] + confirmed[b][u]
        BY <1>t, <1>1, FromFacts
      <3>2. QED
        BY <3>1, FromFacts, SumOfBoth
    <2>2. e \in Nat /\ c \in Nat /\ r \in Nat
      BY <1>t, FromFacts, SumNat
    <2>3. e <= z * r
      BY DEF PastInv, PastCounted
    <2>4. CASE t <= now
      <3>1. now \in From(t)
        BY <2>4 DEF From
      <3>2. s = r + 1
        <4>1. /\ \A u \in From(t) : restarts[u] \in Int /\ restarts'[u] \in Int
              /\ \A u \in From(t) \ {now} : restarts'[u] = restarts[u]
              /\ restarts'[now] = restarts[now] + 1 /\ restarts[now] \in Int
          BY <1>t, <1>1, FromFacts
        <4>2. s = r + restarts'[now] - restarts[now]
          BY <3>1, <4>1, FromFacts, SumChange
        <4>3. QED
          BY <2>2, <4>1, <4>2
      <3>3. c <= z
        <4>1. c <= SumOf(confirmed[b], Times)
          BY <1>t, FromFacts, TimesFinite, SumSubset
        <4>2. /\ SumOf(confirmed[b], Times) + Cardinality(Waiting(call, b)) <= z
              /\ SumOf(confirmed[b], Times) \in Nat
          BY <1>t, TimesFinite, SumNat DEF PushesInv, PushesCounted, Counted
        <4>3. Cardinality(Waiting(call, b)) \in Nat
          BY WaitingFacts
        <4> HIDE DEF c, z
        <4>4. QED
          BY <1>z, <2>2, <4>1, <4>2, <4>3
      <3>4. z * (r + 1) = z * r + z
        <4> HIDE DEF z, r
        <4>1. QED
          BY <1>z, <2>2
      <3>5. z * r \in Int
        <4> HIDE DEF z, r
        <4>1. QED
          BY <1>z, <2>2
      <3> HIDE DEF e, c, r, s, z
      <3>6. e + c <= z * s
        BY <1>z, <2>2, <2>3, <3>2, <3>3, <3>4, <3>5
      <3>7. QED
        BY <2>1, <3>6 DEF s
    <2>5. CASE ~(t <= now)
      <3>1. \A u \in From(t) : u # now /\ ~(u <= now)
        BY <2>5, TimesNat DEF From
      <3>2. \A u \in From(t) : confirmed[b][u] = 0
        <4> SUFFICES ASSUME NEW u \in From(t), confirmed[b][u] # 0 PROVE FALSE
          OBVIOUS
        <4>1. u \in Times /\ u <= pushTimestamps[b] /\ pushTimestamps[b] <= now
          BY FromFacts DEF PushesInv, PushesTyped, PushesRecent
        <4>2. pushTimestamps[b] \in Int /\ u \in Int /\ now \in Int
          BY <4>1, TimesNat DEF PushesInv, PushesTyped, Never
        <4>3. QED
          BY <3>1, <4>1, <4>2
      <3>3. c = 0
        BY <3>2, FromFacts, SumZeros
      <3>4. s = r
        <4>1. \A u \in From(t) : restarts'[u] = restarts[u]
          BY <1>t, <1>1, <3>1, FromFacts
        <4>2. QED
          BY <4>1, FromFacts, SumSame
      <3> HIDE DEF e, c, r, s, z
      <3>5. e + c <= z * s
        BY <2>2, <2>3, <3>3, <3>4
      <3>6. QED
        BY <2>1, <3>5 DEF s
    <2>6. QED
      BY <2>4, <2>5
  <1>4. QED
    BY <1>2, <1>3 DEF PastInv, PastCounted

LEMMA CreditNextPast ==
    CachesInv /\ CachesInv' /\ PushesInv /\ PastInv /\ [CreditNext]_allVars => PastInv'
  <1> SUFFICES ASSUME CachesInv, CachesInv', PushesInv, PastInv, [CreditNext]_allVars
               PROVE  PastInv'
    OBVIOUS
  <1>n. now \in Times /\ now' \in Times
    BY DEF CachesInv, CachesTyped
  <1>t. earlier \in [Scored -> [Times -> Nat]] /\ restarts \in [Times -> Nat]
    BY DEF PastInv, PastTyped
  <1>1. CASE UNCHANGED pastVars
    BY <1>1 DEF pastVars, PastInv, PastTyped, PastCounted
  <1>2. CASE RestartAgent
    BY <1>n, <1>2, RestartPast
  <1>3. CASE ChainStep
    <2>1. /\ earlier' = [b \in Scored |-> [t \in Times |->
                IF now' - t < PUSH_COOLDOWN THEN earlier[b][t] ELSE 0]]
          /\ restarts' = [t \in Times |->
                IF now' - t < PUSH_COOLDOWN THEN restarts[t] ELSE 0]
      BY <1>3 DEF ChainStep, LastCooldown
    <2>2. PastTyped'
      BY <1>t, <2>1 DEF PastTyped
    <2>3. ASSUME NEW b \in Scored, NEW t \in Times
          PROVE  SumOf(earlier'[b], From(t))
                    <= Cardinality(Calls) * SumOf(restarts', From(t))
      <3> DEFINE n == now'
                 e == earlier'[b]
                 r == restarts'
                 m == Later(n, t)
      <3>1. /\ earlier[b] \in [Times -> Nat] /\ n \in Times
            /\ \A u \in Times : e[u] = IF n - u < PUSH_COOLDOWN THEN earlier[b][u] ELSE 0
            /\ \A u \in Times : r[u] = IF n - u < PUSH_COOLDOWN THEN restarts[u] ELSE 0
        BY <1>n, <1>t, <2>1
      <3> HIDE DEF n, e, r
      <3>2. m \in Times /\ SumOf(e, From(t)) = SumOf(earlier[b], From(m))
        BY <3>1, LaterCooldown
      <3>3. SumOf(r, From(t)) = SumOf(restarts, From(m))
        BY <1>t, <3>1, LaterCooldown
      <3> HIDE DEF m
      <3>4. SumOf(earlier[b], From(m)) <= Cardinality(Calls) * SumOf(restarts, From(m))
        BY <3>2 DEF PastInv, PastCounted
      <3>5. QED
        BY <3>2, <3>3, <3>4 DEF e, r
    <2>4. QED
      BY <2>2, <2>3 DEF PastInv, PastCounted
  <1>4. CASE RestartML
    BY <1>1, <1>4 DEF RestartML, agentVars, pastVars
  <1>5. ASSUME NEW b \in Scored, WalletActs(b) \/ SomeoneScores(b) \/ ScoreAndPush(b)
        PROVE  PastInv'
    BY <1>1, <1>5 DEF WalletActs, SomeoneScores, ScoreAndPush, agentVars, pastVars
  <1>6. ASSUME NEW c \in Calls, CallStep(c) PROVE PastInv'
    BY <1>1, <1>6, Zenon DEF CallStep, ScoreBorrower, MLAnswers, Fails, PushLands,
                             PushConfirmed, pastVars
  <1>7. CASE UNCHANGED allVars
    BY <1>1, <1>7 DEF allVars, agentVars
  <1>8. QED
    BY <1>2, <1>3, <1>4, <1>5, <1>6, <1>7 DEF CreditNext

\* Of the pushes of one borrower that are confirmed within a cooldown, forced ones
\* apart, there are at most as many as calls may be under way, once for the process
\* that runs and once for each restart within that cooldown: the calls that were
\* past the cooldown when it was set are all that can still confirm one, and only a
\* restart forgets that it was set (creditAgent.js:21, 70-138).
THEOREM PushesAlwaysBounded == CreditSpec => []PushesBounded
  <1>1. PushesInv /\ PastInv => PushesBounded
    <2> SUFFICES ASSUME PushesInv, PastInv, NEW b \in Scored
                 PROVE  SumFunction(confirmed[b]) + SumFunction(earlier[b])
                           <= Cardinality(Calls) * (1 + SumFunction(restarts))
      BY DEF PushesBounded
    <2> DEFINE z == Cardinality(Calls)
               s == SumOf(confirmed[b], Times)
               e == SumOf(earlier[b], Times)
               r == SumOf(restarts, Times)
    <2>1. /\ confirmed[b] \in [Times -> Nat] /\ Counted(confirmed[b], call, b)
          /\ earlier[b] \in [Times -> Nat] /\ restarts \in [Times -> Nat]
      BY DEF PushesInv, PushesTyped, PushesCounted, PastInv, PastTyped
    <2>2. /\ SumFunction(confirmed[b]) = s
          /\ SumFunction(earlier[b]) = e
          /\ SumFunction(restarts) = r
      BY <2>1 DEF SumFunction, SumOf
    <2>3. s \in Nat /\ e \in Nat /\ r \in Nat /\ z \in Nat
      BY <2>1, SumNat, TimesFinite, WaitingFacts
    <2>4. s <= z
      <3>1. s + Cardinality(Waiting(call, b)) <= z /\ Cardinality(Waiting(call, b)) \in Nat
        BY <2>1, WaitingFacts DEF Counted
      <3> HIDE DEF s, z
      <3>2. QED
        BY <2>3, <3>1
    <2>5. e <= z * r
      <3>1. 0 \in Times
        BY OracleAssumption DEF Times
      <3>2. From(0) = Times
        BY <3>1, FromFacts
      <3>3. QED
        BY <3>1, <3>2 DEF PastInv, PastCounted
    <2> HIDE DEF z, s, e, r
    <2>6. z * (1 + r) = z + z * r /\ z * r \in Int
      BY <2>3
    <2>7. s + e <= z * (1 + r)
      BY <2>3, <2>4, <2>5, <2>6
    <2>8. QED
      BY <2>2, <2>7 DEF z
  <1>2. CreditSpec => []PushesInv
    BY CreditInitPushes, CreditNextPushes, CreditCachesHold, PTL DEF CreditSpec
  <1>3. CreditSpec => []PastInv
    BY CreditInitPast, CreditNextPast, CreditCachesHold, <1>2, PTL DEF CreditSpec
  <1>4. QED
    BY <1>1, <1>2, <1>3, PTL

=============================================================================
