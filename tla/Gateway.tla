------------------------------- MODULE Gateway -------------------------------
(***************************************************************************)
(* POST /mcp/call of the MCP server: a request that is authenticated waits *)
(* for its body, is checked against the scope and the tier of its client   *)
(* (mcpServer.js), then by SafetyMiddleware against the pause, the tier    *)
(* and the daily limit of its agent, waits for the bridge to execute the   *)
(* tool, and is only then charged.  Requests overlap at both waits.        *)
(*                                                                         *)
(* The tools are those that the checks tell apart.  The bridge is what its *)
(* answers are: done, only built, or failed, which also stands for a       *)
(* transaction whose confirmation was lost, for a refused parameter and    *)
(* for the bridge's own rate limit.  pause, unpause, resetCircuitBreaker,  *)
(* setDepositsSnapshot and recordLoss are methods the server offers no     *)
(* route to; the embedding program, here the operator, calls them.         *)
(***************************************************************************)
EXTENDS Integers, FiniteSets

CONSTANTS
    Agents,         \* agent ids with a tier and a limit
    AgentTier,      \* DEFAULT_AGENT_TIERS
    DailyLimit,     \* DEFAULT_AGENT_LIMITS
    Clients,        \* what authentication may return: tier and allowed agents
    Calls,          \* requests that may be under way at once
    Principals, Losses, Deposits,   \* amounts a call or the operator gives
    MaxTime, MaxRestarts, MaxLosses,    \* bounds: the clock, the restarts and
                    \* the losses the operator reports
    DAY, CIRCUIT_BREAKER_LOSS_BPS, BPS

ASSUME GatewayAssumption ==
    /\ AgentTier \in [Agents -> 0..3] /\ DailyLimit \in [Agents -> Nat]
    /\ Clients \subseteq [tier : 0..3, allowedAgents : SUBSET Agents]
    /\ IsFiniteSet(Calls) /\ Calls # {}
    /\ Principals \subseteq Nat \ {0} /\ Losses \subseteq Nat /\ Deposits \subseteq Nat
    /\ {MaxTime, MaxRestarts, MaxLosses} \subseteq Nat
    /\ DAY \in Nat \ {0}

VARIABLES
    now,
    limit,          \* #agentLimits
    gate,           \* the pause, the breaker and what it counts
    call,           \* the requests under way
    boots           \* restarts so far

vars == <<now, limit, gate, call, boots>>

READ == 0
OPERATE == 1
MANAGE == 2
ADMIN == 3

TOOL_TIER_MAP ==
    [get_balance |-> READ, send_token |-> OPERATE, pull_installment |-> OPERATE,
     conditional_disburse |-> MANAGE, mark_default |-> MANAGE,
     create_wallet |-> ADMIN]

Tools == DOMAIN TOOL_TIER_MAP
BLOCKED_WHEN_PAUSED == {"conditional_disburse", "pull_installment"}
IsBootstrapAdminTool(tool) == tool = "create_wallet"

Idle == [at |-> "idle"]
CallStates ==
    {Idle} \cup [at : {"body"}, client : Clients]
           \cup [at : {"tool"}, tool : Tools, agent : Agents, principal : Principals \cup {0}]

NewLimit == [dailySpent |-> 0, resetTime |-> now + DAY]
NewGate == [isPaused |-> FALSE, circuitBreakerActive |-> FALSE, losses24h |-> 0,
            depositsSnapshot |-> 0, snapshotTime |-> now]

Init ==
    /\ now = 0
    /\ limit = [a \in Agents |-> NewLimit]
    /\ gate = NewGate
    /\ call = [c \in Calls |-> Idle]
    /\ boots = 0

Tick ==
    /\ now < MaxTime
    /\ now' = now + 1
    /\ UNCHANGED <<limit, gate, call, boots>>

-----------------------------------------------------------------------------
(* The daily limit and the breaker.                                         *)

ResetIfNeeded(state) ==
    IF now >= state.resetTime THEN NewLimit ELSE state

\* getAgentLimitSnapshot, which /runtime/agents asks for, also turns the day.
LimitSnapshot(a) ==
    /\ limit' = [limit EXCEPT ![a] = ResetIfNeeded(@)]
    /\ UNCHANGED <<now, gate, call, boots>>

\* recordLoss: the window starts anew when it is over, and the breaker is
\* looked at only here.
AfterLoss(amount) ==
    LET over == now - gate.snapshotTime > DAY
        losses == amount + IF over THEN 0 ELSE gate.losses24h
        trips == /\ gate.depositsSnapshot > 0
                 /\ (losses * BPS) \div gate.depositsSnapshot >= CIRCUIT_BREAKER_LOSS_BPS
    IN  [gate EXCEPT !.losses24h = losses,
                     !.snapshotTime = IF over THEN now ELSE @,
                     !.circuitBreakerActive = @ \/ trips,
                     !.isPaused = @ \/ trips]

-----------------------------------------------------------------------------
(* A request.                                                               *)

\* requireAuth: authenticated, as some client.
Receive(c, client) ==
    /\ call[c] = Idle
    /\ call' = [call EXCEPT ![c] = [at |-> "body", client |-> client]]
    /\ UNCHANGED <<now, limit, gate, boots>>

\* Its body is no good, or one of the checks before the daily limit refuses it.
TurnAway(c) ==
    /\ call[c].at = "body"
    /\ call' = [call EXCEPT ![c] = Idle]
    /\ UNCHANGED <<now, limit, gate, boots>>

ClientMay(client, tool, agent) ==
    agent \in client.allowedAgents /\ client.tier >= TOOL_TIER_MAP[tool]

Stopped(tool) ==
    /\ gate.isPaused \/ gate.circuitBreakerActive
    /\ tool \in BLOCKED_WHEN_PAUSED

WithinTier(tool, agent) == AgentTier[agent] >= TOOL_TIER_MAP[tool]

Execute(c, tool, agent, principal) ==
    call' = [call EXCEPT ![c] = [at |-> "tool", tool |-> tool, agent |-> agent,
                                 principal |-> principal]]

\* create_wallet goes to the bridge past the middleware.
ForwardBootstrap(c, tool, agent) ==
    /\ call[c].at = "body" /\ IsBootstrapAdminTool(tool)
    /\ ClientMay(call[c].client, tool, agent)
    /\ Execute(c, tool, agent, 0)
    /\ UNCHANGED <<now, limit, gate, boots>>

\* Variant: the pause is looked at by name, the breaker is not.
ForwardUnstopped(c, tool, agent) ==
    /\ call[c].at = "body" /\ ~IsBootstrapAdminTool(tool)
    /\ tool # "conditional_disburse"
    /\ ClientMay(call[c].client, tool, agent)
    /\ WithinTier(tool, agent)
    /\ Execute(c, tool, agent, 0)
    /\ UNCHANGED <<now, limit, gate, boots>>

Forward(c, tool, agent) ==
    /\ call[c].at = "body" /\ ~IsBootstrapAdminTool(tool)
    /\ tool # "conditional_disburse"
    /\ ClientMay(call[c].client, tool, agent)
    /\ ~Stopped(tool)
    /\ WithinTier(tool, agent)
    /\ Execute(c, tool, agent, 0)
    /\ UNCHANGED <<now, limit, gate, boots>>

\* Variant: the limit is compared with what was spent before.
ForwardDisburseAfter(c, agent, principal) ==
    LET state == ResetIfNeeded(limit[agent])
    IN  /\ call[c].at = "body"
        /\ ClientMay(call[c].client, "conditional_disburse", agent)
        /\ ~Stopped("conditional_disburse")
        /\ WithinTier("conditional_disburse", agent)
        /\ limit' = [limit EXCEPT ![agent] = state]
        /\ IF state.dailySpent > DailyLimit[agent]
           THEN call' = [call EXCEPT ![c] = Idle]
           ELSE Execute(c, "conditional_disburse", agent, principal)
        /\ UNCHANGED <<now, gate, boots>>

\* conditional_disburse is checked against the limit, and charged to it when
\* the bridge has answered.
ForwardDisburse(c, agent, principal) ==
    LET state == ResetIfNeeded(limit[agent])
    IN  /\ call[c].at = "body"
        /\ ClientMay(call[c].client, "conditional_disburse", agent)
        /\ ~Stopped("conditional_disburse")
        /\ WithinTier("conditional_disburse", agent)
        /\ limit' = [limit EXCEPT ![agent] = state]
        /\ IF state.dailySpent + principal > DailyLimit[agent]
           THEN call' = [call EXCEPT ![c] = Idle]
           ELSE Execute(c, "conditional_disburse", agent, principal)
        /\ UNCHANGED <<now, gate, boots>>

\* The bridge answers with success: the transaction is done, or an instruction
\* is built (409 to the client), which the middleware does not tell apart.  A
\* loss is recorded with the amount of the call, but the schemas of
\* mark_default and liquidate_escrow admit none: it is 0.
ToolSucceeds(c) ==
    /\ call[c].at = "tool"
    /\ call' = [call EXCEPT ![c] = Idle]
    /\ limit' = IF call[c].tool # "conditional_disburse" THEN limit
                ELSE [limit EXCEPT ![call[c].agent].dailySpent = @ + call[c].principal]
    /\ gate' = IF call[c].tool = "mark_default" THEN AfterLoss(0) ELSE gate
    /\ UNCHANGED <<now, boots>>

ToolFails(c) ==
    /\ call[c].at = "tool"
    /\ call' = [call EXCEPT ![c] = Idle]
    /\ UNCHANGED <<now, limit, gate, boots>>

-----------------------------------------------------------------------------
(* The operator.                                                            *)

SetDepositsSnapshot(amount) ==
    /\ gate' = [gate EXCEPT !.depositsSnapshot = amount]
    /\ UNCHANGED <<now, limit, call, boots>>

RecordLoss(amount) ==
    /\ gate.losses24h + amount <= MaxLosses
    /\ gate' = AfterLoss(amount)
    /\ UNCHANGED <<now, limit, call, boots>>

Pause ==
    /\ gate' = [gate EXCEPT !.isPaused = TRUE]
    /\ UNCHANGED <<now, limit, call, boots>>

\* Variant: unpause does not ask for the breaker.
UnpauseAnyway ==
    /\ gate' = [gate EXCEPT !.isPaused = FALSE]
    /\ UNCHANGED <<now, limit, call, boots>>

Unpause ==
    /\ ~gate.circuitBreakerActive
    /\ gate' = [gate EXCEPT !.isPaused = FALSE]
    /\ UNCHANGED <<now, limit, call, boots>>

ResetCircuitBreaker ==
    /\ gate' = [gate EXCEPT !.circuitBreakerActive = FALSE, !.losses24h = 0,
                            !.snapshotTime = now]
    /\ UNCHANGED <<now, limit, call, boots>>

\* All of it lives in the memory of one process.
Restart ==
    /\ boots < MaxRestarts
    /\ boots' = boots + 1
    /\ limit' = [a \in Agents |-> NewLimit]
    /\ gate' = NewGate
    /\ call' = [c \in Calls |-> Idle]
    /\ UNCHANGED now

-----------------------------------------------------------------------------

Answered(c) == ToolSucceeds(c) \/ ToolFails(c)

CallStep(c) ==
    \/ TurnAway(c) \/ Answered(c)
    \/ \E client \in Clients : Receive(c, client)
    \/ \E agent \in Agents :
          \/ \E principal \in Principals : ForwardDisburse(c, agent, principal)
          \/ \E tool \in Tools : \/ Forward(c, tool, agent)
                                 \/ ForwardBootstrap(c, tool, agent)

Operator ==
    \/ Pause \/ Unpause \/ ResetCircuitBreaker
    \/ \E amount \in Deposits : SetDepositsSnapshot(amount)
    \/ \E amount \in Losses : RecordLoss(amount)

Next ==
    \/ Tick \/ Restart \/ Operator
    \/ \E a \in Agents : LimitSnapshot(a)
    \/ \E c \in Calls : CallStep(c)

\* The bridge answers every tool: its calls end or time out.
Spec == Init /\ [][Next]_vars /\ \A c \in Calls : WF_vars(Answered(c))

-----------------------------------------------------------------------------
(* Properties.                                                              *)

\* The variables have their types.
TypeOK ==
    /\ now \in 0..MaxTime /\ boots \in 0..MaxRestarts
    /\ limit \in [Agents -> [dailySpent : Nat, resetTime : Nat]]
    /\ gate \in [isPaused : BOOLEAN, circuitBreakerActive : BOOLEAN,
                 losses24h : Nat, depositsSnapshot : Nat, snapshotTime : 0..now]
    /\ call \in [Calls -> CallStates]

\* The check and the charge are apart: overlapping disbursements of an agent,
\* also some that cross midnight, take it past its limit, but never further
\* than one limit for each request that may be under way
\* (safetyMiddleware.js:120-144).
OverspendBounded ==
    \A a \in Agents : limit[a].dailySpent <= Cardinality(Calls) * DailyLimit[a]

\* A tripped breaker is left in two steps, a reset and an unpause: no step but
\* a restart takes the gate out of the pause while the breaker is active
\* (SECURITY.md:26, safetyMiddleware.js:205-222).
RecoveryInTwoSteps ==
    [][gate.circuitBreakerActive /\ boots' = boots => gate'.isPaused]_vars

\* A pause is not instantaneous, since admitted calls run on, but it takes
\* effect: if the gate stays shut, no blocked tool is under way in the end
\* (safetyMiddleware.js:88-96, 137).
PauseTakesEffect ==
    <>[]gate.isPaused =>
       <>[](\A c \in Calls :
              call[c].at = "tool" => call[c].tool \notin BLOCKED_WHEN_PAUSED)

=============================================================================
