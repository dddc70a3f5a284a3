----------------------------- MODULE CreditAgent -----------------------------
(***************************************************************************)
(* The credit agent (agent/src/creditAgent.js) between the ML API          *)
(* (ml-api/app.py, features.py) and the credit_score_oracle program.       *)
(* scoreBorrower awaits a balance, the ML API and the transaction that     *)
(* publishes the score; calls of it overlap.  The ML API keeps two caches, *)
(* of what the RPC told and of the features made of it, and falls back to  *)
(* features drawn from the address when the RPC fails.                     *)
(*                                                                         *)
(* The answers of the RPC about one wallet are cached each on its own; they*)
(* are asked for together and are one observation here, which an           *)
(* extraction that fails leaves alone.  The classifier is any function.    *)
(* /score/batch and /features are requests that leave their trace in the   *)
(* caches, and so does the script oracle_push.py, which only pretends to   *)
(* publish.                                                                *)
(* What the ML API cannot answer stands also for its rate limit and for    *)
(* the bridge's timeout.                                                   *)
(***************************************************************************)
EXTENDS CreditScoreOracle, CreditScoring, Functions

CONSTANTS
    Self,           \* the wallet of the credit agent
    Calls,          \* calls of scoreBorrower that may be under way
    Evidence,       \* what the RPC may show of a wallet, its credit history included
    DemoFeatures,   \* extract_features_demo, by address
    DefaultProbabilities,  \* what the classifier may say, in UNIT
    RPC_CACHE_TTL, FEATURE_CACHE_TTL,
    STALENESS_WINDOW, PUSH_COOLDOWN, CACHE_EXPIRY,
    MaxRestarts     \* bound: restarts of the agent within a cooldown

ASSUME CreditAssumption ==
    /\ Self \in Oracles
    /\ IsFiniteSet(Calls) /\ Calls # {}
    /\ DefaultProbabilities \subseteq 10..9990
    /\ RPC_CACHE_TTL \in Nat \ {0} /\ FEATURE_CACHE_TTL \in Nat \ {0}
    /\ STALENESS_WINDOW \in Nat /\ PUSH_COOLDOWN \in Nat \ {0} /\ CACHE_EXPIRY \in Nat
    /\ MaxRestarts \in Nat

\* The thresholds of scoring.py are those of the program.
ASSUME SameThresholds ==
    /\ BB_THRESHOLD = TIER_THRESHOLDS[1] /\ A_THRESHOLD = TIER_THRESHOLDS[2]
    /\ AA_THRESHOLD = TIER_THRESHOLDS[3] /\ AAA_THRESHOLD = TIER_THRESHOLDS[4]

VARIABLES
    evidence,       \* what the RPC shows of each wallet now
    rpcCache,       \* _RPC_CACHE
    featureCache,   \* _FEATURE_CACHE
    call,           \* the calls under way
    scoreCache,     \* #scoreCache
    pushTimestamps, \* #pushTimestamps
    confirmed,      \* history: how many pushes that were not forced were
                    \* confirmed at each time of the last cooldown, to the
                    \* process of the agent that runs now
    earlier,        \* history: the same, to the processes before it
    restarts        \* history: restarts at each time of the last cooldown

mlVars == <<rpcCache, featureCache>>
pastVars == <<earlier, restarts>>
agentVars == <<call, scoreCache, pushTimestamps, confirmed, pastVars>>
allVars == <<vars, evidence, mlVars, agentVars>>

Never == -1
None == [at |-> Never]
Idle == [at |-> "idle"]
Times == 0..MaxTime
NoPushes == [t \in Times |-> 0]

CreditInit ==
    /\ Init
    /\ evidence \in [Scored -> Evidence]
    /\ rpcCache = [b \in Scored |-> None]
    /\ featureCache = [b \in Scored |-> None]
    /\ call = [c \in Calls |-> Idle]
    /\ scoreCache = [b \in Scored |-> None]
    /\ pushTimestamps = [b \in Scored |-> Never]
    /\ confirmed = [b \in Scored |-> NoPushes]
    /\ earlier = [b \in Scored |-> NoPushes]
    /\ restarts = NoPushes

-----------------------------------------------------------------------------
(* The ML API.                                                              *)

\* What the wallets and the addresses can give, computed once.
Extracted == [e \in Evidence |-> ExtractFeatures(e)]
Drawn == [b \in Scored |-> ValidateFeatures(DemoFeatures[b])]
Results ==
    [f \in {Extracted[e] : e \in Evidence} \cup {Drawn[b] : b \in Scored} |->
        [pd \in DefaultProbabilities |-> ComputeCreditScore(f, pd)]]

\* Variant: an answer that is used again is kept for another term.
ObservationRenewed(b) ==
    IF rpcCache[b] # None /\ now - rpcCache[b].at < RPC_CACHE_TTL
    THEN [rpcCache[b] EXCEPT !.at = now]
    ELSE [at |-> now, seen |-> now, evidence |-> evidence[b]]

\* What the extraction works with: the RPC is asked again when its answers
\* have been kept for their term, forced or not.
Observation(b) ==
    IF rpcCache[b] # None /\ now - rpcCache[b].at < RPC_CACHE_TTL THEN rpcCache[b]
    ELSE [at |-> now, seen |-> now, evidence |-> evidence[b]]

\* extract_features: the features, with what that does to the caches.
LiveFeatures(b, fresh, told) ==
    IF ~fresh /\ featureCache[b] # None /\ now - featureCache[b].at < FEATURE_CACHE_TTL
    THEN told = featureCache[b] /\ UNCHANGED mlVars
    ELSE /\ rpcCache' = [rpcCache EXCEPT ![b] = Observation(b)]
         /\ told = [at |-> now, seen |-> Observation(b).seen,
                    features |-> Extracted[Observation(b).evidence]]
         /\ featureCache' = [featureCache EXCEPT ![b] = told]

FallBack(b, told) ==
    /\ told = [at |-> now, seen |-> Never,
               features |-> Drawn[b]]
    /\ UNCHANGED mlVars

\* The answers extract_features may give now.
Told(b) ==
    {featureCache[b], [at |-> now, seen |-> Never,
                       features |-> Drawn[b]],
     [at |-> now, seen |-> Observation(b).seen,
      features |-> Extracted[Observation(b).evidence]]}

ExtractedFor(b, fresh, told) == LiveFeatures(b, fresh, told) \/ FallBack(b, told)

\* A request of someone else; one that does not insist on fresh features does no
\* more.
SomeoneScores(b) ==
    /\ \E told \in Told(b) \ {None} : LiveFeatures(b, TRUE, told)
    /\ UNCHANGED <<vars, evidence, agentVars>>

\* score_and_push of the script asks for a score and makes up a hash: nothing
\* reaches the chain, dry run or not.
ScoreAndPush(b) ==
    /\ \E told \in Told(b) \ {None} : LiveFeatures(b, FALSE, told)
    /\ UNCHANGED <<vars, evidence, agentVars>>

-----------------------------------------------------------------------------
(* scoreBorrower.                                                           *)

\* #checkStaleness: there is an entry, and it still counts.
Fresh(b) ==
    /\ scoreCache[b] # None
    /\ scoreCache[b].expiresAt >= now
    /\ now - scoreCache[b].at <= STALENESS_WINDOW

CoolingDown(b) ==
    pushTimestamps[b] # Never /\ now - pushTimestamps[b] < PUSH_COOLDOWN

\* A score that is cached is answered at once and changes nothing.  The balance
\* that is asked for before the ML API decides nothing but LOW_BALANCE.
ScoreBorrower(c, b, forceFresh, dryRun) ==
    /\ call[c] = Idle
    /\ ~(forceFresh /\ dryRun)     \* bound: one option at a time
    /\ forceFresh \/ ~Fresh(b)
    /\ call' = [call EXCEPT ![c] =
          [at |-> "ml", b |-> b, forceFresh |-> forceFresh, dryRun |-> dryRun]]
    /\ UNCHANGED <<vars, evidence, mlVars, scoreCache, pushTimestamps, confirmed, pastVars>>

\* LOW_BALANCE, ML_ERROR, PUSH_FAILED, whether or not the transaction landed, or
\* an instruction that was only built: the call ends and nothing is kept of it.
Fails(c) ==
    /\ call[c] # Idle
    /\ call' = [call EXCEPT ![c] = Idle]
    /\ UNCHANGED <<vars, evidence, mlVars, scoreCache, pushTimestamps, confirmed, pastVars>>

Entry(result, onChain) ==
    [at |-> now, expiresAt |-> now + CACHE_EXPIRY, score |-> result.score,
     tier |-> result.tier, onChain |-> onChain]

\* The score has arrived: the cooldown is looked at only now.  forceFresh is
\* the agent's own, the ML API is not told of it.
MLAnswers(c) ==
    /\ call[c].at = "ml"
    /\ \E pd \in DefaultProbabilities, told \in Told(call[c].b) \ {None} :
          LET b == call[c].b
              result == Results[told.features][pd]
          IN  /\ ExtractedFor(b, FALSE, told)
              /\ \/ /\ CoolingDown(b) /\ ~call[c].forceFresh
                    /\ call' = [call EXCEPT ![c] = Idle]
                    /\ UNCHANGED scoreCache
                 \/ /\ ~CoolingDown(b) \/ call[c].forceFresh
                    /\ call[c].dryRun
                    /\ call' = [call EXCEPT ![c] = Idle]
                    /\ scoreCache' = [scoreCache EXCEPT ![b] = Entry(result, FALSE)]
                 \/ /\ ~CoolingDown(b) \/ call[c].forceFresh
                    /\ ~call[c].dryRun
                    /\ call' = [call EXCEPT ![c] =
                          [at |-> "push", b |-> b, forceFresh |-> call[c].forceFresh,
                           score |-> result.score, tier |-> result.tier,
                           confidence |-> result.confidence]]
                    /\ UNCHANGED scoreCache
    /\ UNCHANGED <<vars, evidence, pushTimestamps, confirmed, pastVars>>

\* update_score lands, signed by the agent; the answer is still on its way.
PushLands(c) ==
    LET b == call[c].b
    IN  /\ call[c].at = "push"
        /\ UpdateScore(Self, b, call[c].score, call[c].confidence)
        /\ call' = [call EXCEPT ![c] =
              [at |-> "landed", b |-> b, forceFresh |-> @.forceFresh, score |-> @.score,
               tier |-> @.tier, given |-> credit_score'[b].risk_tier]]
        /\ UNCHANGED <<evidence, mlVars, scoreCache, pushTimestamps, confirmed, pastVars>>

\* Variant: the hash is looked for under a wrong name, so that a confirmed push
\* passes for an instruction that was only built.
PushTakenForBuilt(c) ==
    LET b == call[c].b
    IN  /\ call[c].at = "landed"
        /\ call' = [call EXCEPT ![c] = Idle]
        /\ confirmed' = [confirmed EXCEPT ![b][now] =
              IF call[c].forceFresh THEN @ ELSE @ + 1]
        /\ UNCHANGED <<vars, evidence, mlVars, scoreCache, pushTimestamps, pastVars>>

\* Variant: the answer of the bridge is not awaited.
PushUnawaited(c) ==
    LET b == call[c].b
    IN  /\ call[c].at \in {"push", "landed"}
        /\ call' = [call EXCEPT ![c] = Idle]
        /\ scoreCache' = [scoreCache EXCEPT ![b] = Entry(call[c], TRUE)]
        /\ pushTimestamps' = [pushTimestamps EXCEPT ![b] = now]
        /\ confirmed' = [confirmed EXCEPT ![b][now] =
              IF call[c].forceFresh THEN @ ELSE @ + 1]
        /\ UNCHANGED <<vars, evidence, mlVars, pastVars>>

PushConfirmed(c) ==
    LET b == call[c].b
    IN  /\ call[c].at = "landed"
        /\ call' = [call EXCEPT ![c] = Idle]
        /\ scoreCache' = [scoreCache EXCEPT ![b] = Entry(call[c], TRUE)]
        /\ pushTimestamps' = [pushTimestamps EXCEPT ![b] = now]
        /\ confirmed' = [confirmed EXCEPT ![b][now] =
              IF call[c].forceFresh THEN @ ELSE @ + 1]
        /\ UNCHANGED <<vars, evidence, mlVars, pastVars>>

-----------------------------------------------------------------------------
(* The world.                                                               *)

WalletActs(b) ==
    /\ \E e \in Evidence :
          /\ e.transactions > evidence[b].transactions
          /\ evidence' = [evidence EXCEPT ![b] = e]
    /\ UNCHANGED <<vars, mlVars, agentVars>>

\* The agent's process and the ML API lose what they keep in memory; what has
\* been published stays.
RestartAgent ==
    /\ SumFunction(restarts) < MaxRestarts
    /\ call' = [c \in Calls |-> Idle]
    /\ scoreCache' = [b \in Scored |-> None]
    /\ pushTimestamps' = [b \in Scored |-> Never]
    /\ confirmed' = [b \in Scored |-> NoPushes]
    /\ earlier' = [b \in Scored |-> [t \in Times |-> earlier[b][t] + confirmed[b][t]]]
    /\ restarts' = [restarts EXCEPT ![now] = @ + 1]
    /\ UNCHANGED <<vars, evidence, mlVars>>

RestartML ==
    /\ rpcCache' = [b \in Scored |-> None]
    /\ featureCache' = [b \in Scored |-> None]
    /\ UNCHANGED <<vars, evidence, agentVars>>

\* What a history keeps when the clock moves.
LastCooldown(f) == [t \in Times |-> IF now' - t < PUSH_COOLDOWN THEN f[t] ELSE 0]

\* The admin grants the agent its role; a role that is revoked, or a pause, is
\* a push that fails.
ChainStep ==
    /\ Tick \/ GrantOracleRole(Self)
    /\ confirmed' = [b \in Scored |-> LastCooldown(confirmed[b])]
    /\ earlier' = [b \in Scored |-> LastCooldown(earlier[b])]
    /\ restarts' = LastCooldown(restarts)
    /\ UNCHANGED <<evidence, mlVars, call, scoreCache, pushTimestamps>>

CallStep(c) ==
    \/ \E b \in Scored, forceFresh \in BOOLEAN, dryRun \in BOOLEAN :
          ScoreBorrower(c, b, forceFresh, dryRun)
    \/ MLAnswers(c) \/ Fails(c)
    \/ PushLands(c) \/ PushConfirmed(c)

CreditNext ==
    \/ ChainStep \/ RestartAgent \/ RestartML
    \/ \E b \in Scored : WalletActs(b) \/ SomeoneScores(b) \/ ScoreAndPush(b)
    \/ \E c \in Calls : CallStep(c)

CreditSpec == CreditInit /\ [][CreditNext]_allVars

-----------------------------------------------------------------------------
(* Properties.                                                              *)

\* What the cache says is on the chain was put there by a transaction whose
\* answer is known, and the program gave that score the same tier: the
\* thresholds of scoring.py are those of the program, and neither a refusal nor
\* an instruction that was only built passes for a push (creditAgent.js:90-138).
CacheIsPublished ==
    [][\A b \in Scored :
          scoreCache'[b] \notin {scoreCache[b], None} /\ scoreCache'[b].onChain =>
             \E c \in Calls :
                /\ call[c].at = "landed" /\ call[c].b = b
                /\ call[c].score = scoreCache'[b].score
                /\ call[c].given = scoreCache'[b].tier]_allVars

\* The cache and the cooldown are read before the push is awaited and set after
\* it, and both are forgotten when the process ends: calls that overlap pass them
\* together, and those of a new process pass them again.  Of the pushes of a
\* borrower that are confirmed, forced ones apart, no more fall into one cooldown
\* than calls may be under way, once and once more for each restart in that
\* cooldown (creditAgent.js:20-21, 38-44, 70-73, 101-138).
PushesBounded ==
    \A b \in Scored :
       SumFunction(confirmed[b]) + SumFunction(earlier[b])
          <= Cardinality(Calls) * (1 + SumFunction(restarts))

\* Features are cached on top of the answers they are made of, and neither
\* cache is passed by when a fresh score is asked for: yet the features that are
\* answered from the cache were seen no longer ago than what is left of the two
\* terms together, each compared with < in whole units (features.py:184-201,
\* 268-272).
EvidenceIsRecent ==
    \A b \in Scored :
       featureCache[b] # None /\ now - featureCache[b].at < FEATURE_CACHE_TTL =>
          now - featureCache[b].seen <= RPC_CACHE_TTL + FEATURE_CACHE_TTL - 2

\* What features.py:398 says of an extraction ("Protocol-native credit history
\* should outweigh heuristics when present"): the defaults that the RPC tells
\* of are in the features made of its answers.
HistoryOutweighs ==
    [][\A b \in Scored :
          /\ featureCache'[b] \notin {featureCache[b], None}
          /\ rpcCache'[b].evidence.history.found
          => featureCache'[b].features.liquidation_count
                >= rpcCache'[b].evidence.history.defaulted_loans]_allVars

=============================================================================
