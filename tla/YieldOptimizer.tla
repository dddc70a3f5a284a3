--------------------------- MODULE YieldOptimizer ---------------------------
(***************************************************************************)
(* The yield agent (agent/src/yieldAgent.js), which moves its own rate and *)
(* sends idle capital of the pool to other chains, and the bridge service  *)
(* it does that through (wdk-service/src/bridgeService.js).  The caller    *)
(* passes the state of the pool in; evaluateAndBridge awaits the bridge    *)
(* between its checks and what it keeps of the transfer, and evaluations   *)
(* overlap.                                                                *)
(*                                                                         *)
(* The server creates both and never calls the agent, nor initializes the  *)
(* bridge: whoever embeds them does.  Amounts are dollars, as the agent has*)
(* them; the vaults are configured and not the zero address.               *)
(***************************************************************************)
EXTENDS Integers, FiniteSets

CONSTANTS
    Chains,         \* the chains that have a vault
    PoolStates,     \* what callers pass in: [deposited, borrowed, baseRate]
    Evaluations,    \* evaluateAndBridge calls that may be under way
    MAX_SENT,       \* bound: the transfers explored, by chain, in dollars
    TARGET_YIELD_BPS,   \* TARGET_YIELDS, by chain
    BRIDGE_MIN_AMOUNT_USD,
    INITIAL_RATE_BPS, RATE_FLOOR_BPS, RATE_CEILING_BPS, MAX_RATE_CHANGE_BPS

ASSUME YieldAssumption ==
    /\ PoolStates \subseteq [deposited : Nat, borrowed : Nat, baseRate : Nat]
    /\ \A p \in PoolStates : p.borrowed <= p.deposited
    /\ TARGET_YIELD_BPS \in [Chains -> Nat] /\ MAX_SENT \in Nat
    /\ BRIDGE_MIN_AMOUNT_USD \in Nat \ {0}
    /\ RATE_FLOOR_BPS \in Nat /\ MAX_RATE_CHANGE_BPS \in Nat \ {0}
    /\ RATE_FLOOR_BPS <= INITIAL_RATE_BPS /\ INITIAL_RATE_BPS <= RATE_CEILING_BPS

VARIABLES
    currentRate,    \* #currentRateBps
    coolingDown,    \* #lastAdjustment is less than an hour ago
    bridgeReady,    \* BridgeService.isReady
    bridging,       \* the evaluations that await the bridge
    bridgedCapital, \* #bridgedCapital: dollars by chain, 0 for no entry
    sent            \* history: what the bridge has moved, by chain

yieldMemory == <<currentRate, coolingDown, bridgeReady, bridging, bridgedCapital>>
yieldVars == <<yieldMemory, sent>>

Lower(x, y) == IF x < y THEN x ELSE y
Higher(x, y) == IF x > y THEN x ELSE y

Waiting == [chain : Chains, amount : Nat]
NotBridging == [amount |-> 0]

Fresh ==
    [currentRate |-> INITIAL_RATE_BPS, bridging |-> [e \in Evaluations |-> NotBridging],
     bridgedCapital |-> [chain \in Chains |-> 0]]

YieldInit ==
    /\ currentRate = Fresh.currentRate /\ coolingDown = FALSE
    /\ bridgeReady = FALSE
    /\ bridging = Fresh.bridging /\ bridgedCapital = Fresh.bridgedCapital
    /\ sent = [chain \in Chains |-> 0]

-----------------------------------------------------------------------------
(* The rate.                                                                *)

UtilizationBps(p) == IF p.deposited = 0 THEN 0 ELSE (p.borrowed * 10000) \div p.deposited

CalculateOptimalRate(utilization, baseRate) ==
    LET rate == CASE utilization < 4000 -> baseRate + utilization \div 2
                  [] utilization \in 4000..8000 ->
                        baseRate + 2000 + ((utilization - 4000) * 3) \div 2
                  [] OTHER -> baseRate + 8000 + (utilization - 8000) * 5
    IN  Higher(RATE_FLOOR_BPS, Lower(RATE_CEILING_BPS, rate))

\* HOLD for a difference of less than 50, COOLDOWN within the hour.
EvaluateAndAdjust(p) ==
    LET optimal == CalculateOptimalRate(UtilizationBps(p), p.baseRate)
    IN  /\ optimal - currentRate >= 50 \/ currentRate - optimal >= 50
        /\ ~coolingDown
        /\ currentRate' = IF optimal > currentRate
                          THEN Lower(currentRate + MAX_RATE_CHANGE_BPS, optimal)
                          ELSE Higher(currentRate - MAX_RATE_CHANGE_BPS, optimal)
        /\ coolingDown' = TRUE
        /\ UNCHANGED <<bridgeReady, bridging, bridgedCapital, sent>>

HourPasses ==
    /\ coolingDown' = FALSE
    /\ UNCHANGED <<currentRate, bridgeReady, bridging, bridgedCapital, sent>>

-----------------------------------------------------------------------------
(* The bridge.                                                              *)

Initialize ==
    /\ bridgeReady' = TRUE
    /\ UNCHANGED <<currentRate, coolingDown, bridging, bridgedCapital, sent>>

\* 30% of what lies idle, if that is worth it.
BridgeAmount(p) == ((p.deposited - p.borrowed) * 3) \div 10

WorthBridging(p, chain) ==
    /\ UtilizationBps(p) < 2000
    /\ TARGET_YIELD_BPS[chain] - 10 > currentRate + 100
    /\ BridgeAmount(p) >= BRIDGE_MIN_AMOUNT_USD

\* Variant: what is to be sent is kept before the bridge answers.
BridgeAtOnce(e, p, chain) ==
    /\ bridging[e] = NotBridging
    /\ WorthBridging(p, chain)
    /\ bridging' = [bridging EXCEPT ![e] = [chain |-> chain, amount |-> BridgeAmount(p)]]
    /\ bridgedCapital' = [bridgedCapital EXCEPT ![chain] = BridgeAmount(p)]
    /\ UNCHANGED <<currentRate, coolingDown, bridgeReady, sent>>

\* evaluateAndBridge up to the transfer it awaits.  What earlier transfers took
\* out of the pool is looked for in p only.
EvaluateAndBridge(e, p, chain) ==
    /\ bridging[e] = NotBridging
    /\ WorthBridging(p, chain)
    /\ bridging' = [bridging EXCEPT ![e] = [chain |-> chain, amount |-> BridgeAmount(p)]]
    /\ UNCHANGED <<currentRate, coolingDown, bridgeReady, bridgedCapital, sent>>

\* bridge_usdt0 moves the capital.
Transfer(e) ==
    /\ bridging[e] # NotBridging
    /\ bridgeReady
    /\ sent[bridging[e].chain] + bridging[e].amount <= MAX_SENT
    /\ sent' = [sent EXCEPT ![bridging[e].chain] = @ + bridging[e].amount]
    /\ bridging' = [bridging EXCEPT ![e] = NotBridging]

\* The entry of the chain is replaced: an earlier transfer is forgotten.
Bridged(e) ==
    /\ Transfer(e)
    /\ bridgedCapital' = [bridgedCapital EXCEPT ![bridging[e].chain] = bridging[e].amount]
    /\ UNCHANGED <<currentRate, coolingDown, bridgeReady>>

\* BRIDGE_FAILED: the bridge is not initialized or refuses, or its answer is
\* lost on the way and the transfer took place.
BridgeFails(e) ==
    /\ bridging[e] # NotBridging
    /\ \/ /\ bridging' = [bridging EXCEPT ![e] = NotBridging]
          /\ UNCHANGED sent
       \/ Transfer(e)
    /\ UNCHANGED <<currentRate, coolingDown, bridgeReady, bridgedCapital>>

\* evaluateRecall drops every entry and moves nothing.
EvaluateRecall(p) ==
    /\ p.borrowed * 100 > p.deposited * 60
    /\ bridgedCapital' = Fresh.bridgedCapital
    /\ UNCHANGED <<currentRate, coolingDown, bridgeReady, bridging, sent>>

\* The process restarts: nothing of this is kept on disk.
ForgetYield ==
    /\ currentRate' = Fresh.currentRate /\ coolingDown' = FALSE
    /\ bridgeReady' = FALSE
    /\ bridging' = Fresh.bridging /\ bridgedCapital' = Fresh.bridgedCapital
    /\ UNCHANGED sent

YieldNext ==
    \/ HourPasses \/ Initialize
    \/ \E p \in PoolStates : EvaluateAndAdjust(p) \/ EvaluateRecall(p)
    \/ \E e \in Evaluations, p \in PoolStates, chain \in Chains : EvaluateAndBridge(e, p, chain)
    \/ \E e \in Evaluations : Bridged(e) \/ BridgeFails(e)

-----------------------------------------------------------------------------
(* Properties.                                                              *)

\* What the agent takes for bridged capital is on the other chain, however
\* evaluations, recalls and lost answers interleave.  The converse does not
\* hold: an entry replaces an earlier one, and a recall drops them and brings
\* nothing back (yieldAgent.js:146-180).
BridgedWasSent == \A chain \in Chains : bridgedCapital[chain] <= sent[chain]

=============================================================================
