---------------------------- MODULE GatewayProofs ----------------------------
(***************************************************************************)
(* Theorems about Gateway, for every value of its constants: however many  *)
(* calls overlap, and whatever the limits are.                                  *)
(***************************************************************************)
EXTENDS Gateway, FiniteSetTheorems, TLAPS

-----------------------------------------------------------------------------
(* Type correctness.                                                       *)

LEMMA LimitTypes ==
    ASSUME TypeOK, NEW a \in Agents
    PROVE  /\ NewLimit \in [dailySpent : Nat, resetTime : Nat]
           /\ ResetIfNeeded(limit[a]) \in [dailySpent : Nat, resetTime : Nat]
  BY GatewayAssumption DEF TypeOK, NewLimit, ResetIfNeeded

GateStates(t) ==
    [isPaused : BOOLEAN, circuitBreakerActive : BOOLEAN, losses24h : Nat,
     depositsSnapshot : Nat, snapshotTime : 0..t]

LEMMA AfterLossType ==
    ASSUME TypeOK, NEW amount \in Nat PROVE AfterLoss(amount) \in GateStates(now)
  <1> DEFINE over == now - gate.snapshotTime > DAY
             losses == amount + IF over THEN 0 ELSE gate.losses24h
             trips == /\ gate.depositsSnapshot > 0
                      /\ (losses * BPS) \div gate.depositsSnapshot
                            >= CIRCUIT_BREAKER_LOSS_BPS
  <1>1. /\ gate \in GateStates(now)
        /\ now \in Nat
    BY GatewayAssumption DEF TypeOK, GateStates
  <1>2. losses \in Nat
    BY <1>1 DEF GateStates
  <1>3. (IF over THEN now ELSE gate.snapshotTime) \in 0..now
    BY <1>1 DEF GateStates
  <1>4. (gate.circuitBreakerActive \/ trips) \in BOOLEAN /\ (gate.isPaused \/ trips) \in BOOLEAN
    BY Zenon
  <1>5. AfterLoss(amount) =
          [gate EXCEPT !.losses24h = losses,
                       !.snapshotTime = IF over THEN now ELSE @,
                       !.circuitBreakerActive = @ \/ trips,
                       !.isPaused = @ \/ trips]
    BY DEF AfterLoss
  <1> HIDE DEF over, losses, trips
  <1>6. QED
    BY <1>1, <1>2, <1>3, <1>4, <1>5, Zenon DEF GateStates

LEMMA NextType == TypeOK /\ [Next]_vars => TypeOK'
  <1> SUFFICES ASSUME TypeOK, [Next]_vars PROVE TypeOK'
    OBVIOUS
  <1> DEFINE LimitStates == [dailySpent : Nat, resetTime : Nat]
  <1>1. /\ now \in 0..MaxTime /\ now \in Nat
        /\ boots \in 0..MaxRestarts
        /\ limit \in [Agents -> LimitStates]
        /\ gate \in GateStates(now)
        /\ call \in [Calls -> CallStates]
    BY GatewayAssumption DEF TypeOK, GateStates
  <1>2. Idle \in CallStates
    BY DEF CallStates
  <1>a. ASSUME UNCHANGED <<now, boots>>, limit' \in [Agents -> LimitStates],
               gate' \in GateStates(now), call' \in [Calls -> CallStates]
        PROVE  TypeOK'
    BY <1>1, <1>a DEF TypeOK, GateStates
  <1>3. CASE Tick
    <2>1. now' \in 0..MaxTime /\ 0..now \subseteq 0..now'
      BY <1>1, <1>3, GatewayAssumption DEF Tick
    <2>2. gate' \in GateStates(now')
      BY <1>1, <1>3, <2>1 DEF Tick, GateStates
    <2>3. QED
      BY <1>1, <1>3, <2>1, <2>2 DEF Tick, TypeOK, GateStates
  <1>4. CASE Restart
    <2>1. NewLimit \in LimitStates
      BY <1>1, GatewayAssumption DEF NewLimit
    <2>2. NewGate \in GateStates(now)
      BY <1>1 DEF NewGate, GateStates
    <2>3. boots' \in 0..MaxRestarts
      BY <1>1, <1>4, GatewayAssumption DEF Restart
    <2>4. QED
      BY <1>1, <1>2, <1>4, <2>1, <2>2, <2>3 DEF Restart, TypeOK, GateStates
  <1>5. CASE Operator
    <2>1. gate' \in GateStates(now)
      <3>1. ASSUME NEW amount \in Losses, RecordLoss(amount) PROVE gate' \in GateStates(now)
        BY <3>1, AfterLossType, GatewayAssumption DEF RecordLoss
      <3>2. ASSUME NEW amount \in Deposits, SetDepositsSnapshot(amount)
            PROVE  gate' \in GateStates(now)
        BY <1>1, <3>2, GatewayAssumption DEF SetDepositsSnapshot, GateStates
      <3>3. CASE Pause \/ Unpause
        BY <1>1, <3>3 DEF Pause, Unpause, GateStates
      <3>4. CASE ResetCircuitBreaker
        <4>1. 0 \in Nat /\ now \in 0..now /\ FALSE \in BOOLEAN
          BY <1>1
        <4>2. gate' = [gate EXCEPT !.circuitBreakerActive = FALSE, !.losses24h = 0,
                                   !.snapshotTime = now]
          BY <3>4 DEF ResetCircuitBreaker
        <4>3. QED
          BY <1>1, <4>1, <4>2, Zenon DEF GateStates
      <3>5. QED
        BY <1>5, <3>1, <3>2, <3>3, <3>4 DEF Operator
    <2>2. UNCHANGED <<now, limit, call, boots>>
      BY <1>5 DEF Operator, Pause, Unpause, ResetCircuitBreaker, SetDepositsSnapshot,
                  RecordLoss
    <2>3. QED
      BY <1>1, <1>a, <2>1, <2>2
  <1>6. ASSUME NEW a \in Agents, LimitSnapshot(a) PROVE TypeOK'
    BY <1>1, <1>6, <1>a, LimitTypes DEF LimitSnapshot
  <1>7. ASSUME NEW c \in Calls, TurnAway(c) \/ ToolFails(c) PROVE TypeOK'
    BY <1>1, <1>2, <1>7, <1>a DEF TurnAway, ToolFails
  <1>8. ASSUME NEW c \in Calls, NEW client \in Clients, Receive(c, client) PROVE TypeOK'
    <2>1. [at |-> "body", client |-> client] \in CallStates
      BY DEF CallStates
    <2>2. QED
      BY <1>1, <1>8, <1>a, <2>1 DEF Receive
  <1>9. ASSUME NEW c \in Calls, ToolSucceeds(c) PROVE TypeOK'
    <2>1. gate' \in GateStates(now)
      BY <1>1, <1>9, AfterLossType DEF ToolSucceeds
    <2>2. limit' \in [Agents -> LimitStates]
      <3>1. call[c].agent \in Agents /\ call[c].principal \in Nat
        BY <1>1, <1>9, GatewayAssumption DEF ToolSucceeds, CallStates, Idle
      <3>2. [limit[call[c].agent] EXCEPT !.dailySpent = @ + call[c].principal] \in LimitStates
        BY <1>1, <3>1
      <3>3. QED
        BY <1>1, <1>9, <3>1, <3>2 DEF ToolSucceeds
    <2>3. QED
      BY <1>1, <1>2, <1>9, <1>a, <2>1, <2>2 DEF ToolSucceeds
  <1>10. ASSUME NEW c \in Calls, NEW agent \in Agents, NEW tool \in Tools,
                NEW principal \in Principals \cup {0}, Execute(c, tool, agent, principal)
         PROVE  call' \in [Calls -> CallStates]
    <2>1. [at |-> "tool", tool |-> tool, agent |-> agent, principal |-> principal]
             \in CallStates
      BY DEF CallStates
    <2>2. QED
      BY <1>1, <1>10, <2>1 DEF Execute
  <1>11. ASSUME NEW c \in Calls, NEW agent \in Agents, NEW tool \in Tools,
                Forward(c, tool, agent) \/ ForwardBootstrap(c, tool, agent)
         PROVE  TypeOK'
    BY <1>1, <1>10, <1>11, <1>a DEF Forward, ForwardBootstrap
  <1>12. ASSUME NEW c \in Calls, NEW agent \in Agents, NEW principal \in Principals,
                ForwardDisburse(c, agent, principal)
         PROVE  TypeOK'
    <2>1. "conditional_disburse" \in Tools
      BY DEF Tools, TOOL_TIER_MAP
    <2>2. call' \in [Calls -> CallStates]
      BY <1>1, <1>2, <1>10, <1>12, <2>1 DEF ForwardDisburse
    <2>3. limit' \in [Agents -> LimitStates]
      BY <1>1, <1>12, LimitTypes DEF ForwardDisburse
    <2>4. QED
      BY <1>1, <1>12, <1>a, <2>2, <2>3 DEF ForwardDisburse
  <1>13. CASE UNCHANGED vars
    BY <1>1, <1>13 DEF vars, TypeOK, GateStates
  <1>14. QED
    BY <1>3, <1>4, <1>5, <1>6, <1>7, <1>8, <1>9, <1>11, <1>12, <1>13
       DEF Next, CallStep, Answered

\* The gate, the limits and the calls hold values of their types in every
\* reachable state (safetyMiddleware.js:58-81): no day turns into a debt.
THEOREM GatewayTypeCorrect == Spec => []TypeOK
  <1>1. Init => TypeOK
    BY GatewayAssumption
       DEF Init, TypeOK, NewLimit, NewGate, CallStates
  <1>2. QED
    BY <1>1, NextType, PTL DEF Spec

-----------------------------------------------------------------------------
(* The breaker.                                                             *)

BreakerHolds == gate.circuitBreakerActive => gate.isPaused

LEMMA NextBreaker ==
    ASSUME TypeOK, BreakerHolds, [Next]_vars
    PROVE  /\ BreakerHolds'
           /\ gate.circuitBreakerActive /\ boots' = boots => gate'.isPaused
  <1>1. gate \in GateStates(now) /\ boots \in Nat
    BY GatewayAssumption DEF TypeOK, GateStates
  <1>2. CASE gate' = gate
    BY <1>2 DEF BreakerHolds
  <1>3. ASSUME NEW amount, gate' = AfterLoss(amount)
        PROVE  /\ gate.isPaused => gate'.isPaused
               /\ gate'.circuitBreakerActive => gate'.isPaused
    <2> DEFINE over == now - gate.snapshotTime > DAY
               losses == amount + IF over THEN 0 ELSE gate.losses24h
               trips == /\ gate.depositsSnapshot > 0
                        /\ (losses * BPS) \div gate.depositsSnapshot
                              >= CIRCUIT_BREAKER_LOSS_BPS
    <2>1. gate' = [gate EXCEPT !.losses24h = losses,
                               !.snapshotTime = IF over THEN now ELSE @,
                               !.circuitBreakerActive = @ \/ trips,
                               !.isPaused = @ \/ trips]
      BY <1>3 DEF AfterLoss
    <2> HIDE DEF over, losses, trips
    <2>2. /\ gate'.circuitBreakerActive = (gate.circuitBreakerActive \/ trips)
          /\ gate'.isPaused = (gate.isPaused \/ trips)
      BY <1>1, <2>1, Zenon DEF GateStates
    <2>3. QED
      BY <2>2 DEF BreakerHolds
  <1>4. ASSUME NEW amount, RecordLoss(amount)
        PROVE  BreakerHolds' /\ (gate.circuitBreakerActive => gate'.isPaused)
    BY <1>3, <1>4 DEF RecordLoss, BreakerHolds
  <1>5. ASSUME NEW c \in Calls, ToolSucceeds(c)
        PROVE  BreakerHolds' /\ (gate.circuitBreakerActive => gate'.isPaused)
    BY <1>2, <1>3, <1>5 DEF ToolSucceeds, BreakerHolds
  <1>6. CASE Pause
    <2>1. gate'.isPaused
      BY <1>1, <1>6 DEF Pause, GateStates
    <2>2. QED
      BY <2>1 DEF BreakerHolds
  <1>7. CASE Unpause
    <2>1. ~gate.circuitBreakerActive /\ ~gate'.circuitBreakerActive
      BY <1>1, <1>7 DEF Unpause, GateStates
    <2>2. QED
      BY <2>1 DEF BreakerHolds
  <1>8. CASE ResetCircuitBreaker
    <2>1. ~gate'.circuitBreakerActive /\ gate'.isPaused = gate.isPaused
      BY <1>1, <1>8, Zenon DEF ResetCircuitBreaker, GateStates
    <2>2. QED
      BY <2>1 DEF BreakerHolds
  <1>9. ASSUME NEW amount, SetDepositsSnapshot(amount)
        PROVE  BreakerHolds' /\ (gate.circuitBreakerActive => gate'.isPaused)
    <2>1. /\ gate'.circuitBreakerActive = gate.circuitBreakerActive
          /\ gate'.isPaused = gate.isPaused
      BY <1>1, <1>9, Zenon DEF SetDepositsSnapshot, GateStates
    <2>2. QED
      BY <2>1 DEF BreakerHolds
  <1>10. CASE Restart
    <2>1. ~gate'.circuitBreakerActive /\ boots' # boots
      BY <1>1, <1>10 DEF Restart, NewGate
    <2>2. QED
      BY <2>1 DEF BreakerHolds
  <1>11. ASSUME \/ Tick \/ UNCHANGED vars
                \/ \E a \in Agents : LimitSnapshot(a)
                \/ \E c \in Calls :
                      \/ TurnAway(c) \/ ToolFails(c)
                      \/ \E client \in Clients : Receive(c, client)
                      \/ \E agent \in Agents :
                           \/ \E principal \in Principals : ForwardDisburse(c, agent, principal)
                           \/ \E tool \in Tools : \/ Forward(c, tool, agent)
                                                  \/ ForwardBootstrap(c, tool, agent)
         PROVE  gate' = gate
    BY <1>11 DEF Tick, vars, LimitSnapshot, TurnAway, ToolFails, Receive, ForwardDisburse,
                 Forward, ForwardBootstrap
  <1>12. QED
    BY <1>2, <1>4, <1>5, <1>6, <1>7, <1>8, <1>9, <1>10, <1>11
       DEF Next, Operator, CallStep, Answered, BreakerHolds

\* A tripped breaker is left in two steps: while it is active only a restart
\* takes the gate out of the pause (safetyMiddleware.js:205-222).
THEOREM BreakerIsLeftInTwoSteps == Spec => RecoveryInTwoSteps
  <1>1. Init => BreakerHolds
    BY DEF Init, NewGate, BreakerHolds
  <1>2. TypeOK /\ BreakerHolds /\ [Next]_vars => BreakerHolds'
    BY NextBreaker
  <1>3. TypeOK /\ BreakerHolds /\ [Next]_vars =>
           [gate.circuitBreakerActive /\ boots' = boots => gate'.isPaused]_vars
    BY NextBreaker
  <1>4. QED
    BY <1>1, <1>2, <1>3, GatewayTypeCorrect, PTL DEF Spec, RecoveryInTwoSteps

-----------------------------------------------------------------------------
(* The daily limit.  A disbursement is checked before the bridge is called  *)
(* and charged after: what bounds the day is how many may be between the    *)
(* two.                                                                     *)

Disbursing(a) ==
    {c \in Calls : /\ call[c].at = "tool" /\ call[c].tool = "conditional_disburse"
                   /\ call[c].agent = a}

Spent(a) == limit[a].dailySpent

\* What the calls that are not under way may still have charged.
Room(a) == (Cardinality(Calls) - Cardinality(Disbursing(a))) * DailyLimit[a]

\* The last of the overlapping calls was admitted below the limit, so either
\* it is over or its own principal is still to be charged.
WithinRoom(a) ==
    /\ \A c \in Disbursing(a) : call[c].principal \in 0..DailyLimit[a]
    /\ \/ Spent(a) <= Room(a)
       \/ \E c \in Disbursing(a) : Spent(a) + call[c].principal <= Room(a) + DailyLimit[a]

\* What a step does to the disbursements of an agent.
Stays(a) ==
    /\ Disbursing(a)' = Disbursing(a)
    /\ \A c \in Disbursing(a) : call'[c] = call[c]
    /\ Spent(a)' \in {Spent(a), 0}

Admits(a, c) ==
    /\ c \notin Disbursing(a) /\ Disbursing(a)' = Disbursing(a) \cup {c}
    /\ \A d \in Disbursing(a) : call'[d] = call[d]
    /\ call'[c].principal \in Nat /\ Spent(a)' + call'[c].principal <= DailyLimit[a]

Ends(a, c) ==
    /\ c \in Disbursing(a) /\ Disbursing(a)' = Disbursing(a) \ {c}
    /\ \A d \in Disbursing(a) \ {c} : call'[d] = call[d]
    /\ Spent(a)' \in {Spent(a), Spent(a) + call[c].principal}

Forgets(a) == Disbursing(a)' = {} /\ Spent(a)' = 0

\* The room of a set of calls, and of the set without one of them.
LEMMA RoomOfSets ==
    ASSUME NEW S \in SUBSET Calls, NEW L \in Nat
    PROVE  /\ Cardinality(S) \in 0..Cardinality(Calls) /\ Cardinality(Calls) \in Nat
           /\ (Cardinality(Calls) - Cardinality(S)) * L \in 0..(Cardinality(Calls) * L)
           /\ \A c \in S : /\ (Cardinality(Calls) - Cardinality(S \ {c})) * L
                                = (Cardinality(Calls) - Cardinality(S)) * L + L
                           /\ (Cardinality(Calls) - Cardinality(S)) * L + L
                                <= Cardinality(Calls) * L
  <1>1. IsFiniteSet(Calls)
    BY GatewayAssumption
  <1>2. IsFiniteSet(S) /\ Cardinality(S) \in Nat /\ Cardinality(Calls) \in Nat
        /\ Cardinality(S) <= Cardinality(Calls)
    BY <1>1, FS_Subset, FS_CardinalityType
  <1>3. ASSUME NEW k \in Nat, NEW n \in Nat, k <= n
        PROVE  (n - k) * L \in 0..(n * L)
    <2>1. PICK j \in Nat : n = k + j
      <3>1. n - k \in Nat /\ n = k + (n - k)
        BY <1>3
      <3>2. QED
        BY <3>1
    <2>2. n * L = k * L + j * L
      BY <2>1, SMTT(30)
    <2>3. k * L \in Nat /\ j * L \in Nat
      BY SMTT(30)
    <2>4. n - k = j
      BY <2>1
    <2>5. QED
      BY <2>2, <2>3, <2>4
  <1>4. ASSUME NEW c \in S
        PROVE  /\ (Cardinality(Calls) - Cardinality(S \ {c})) * L
                    = (Cardinality(Calls) - Cardinality(S)) * L + L
               /\ (Cardinality(Calls) - Cardinality(S)) * L + L <= Cardinality(Calls) * L
    <2>1. Cardinality(S \ {c}) = Cardinality(S) - 1
      BY <1>2, <1>4, FS_RemoveElement
    <2>2. Cardinality(S) - 1 \in Nat
      BY <1>2, <2>1, FS_Subset, FS_CardinalityType
    <2>3. (Cardinality(Calls) - (Cardinality(S) - 1)) * L
              = (Cardinality(Calls) - Cardinality(S)) * L + L
      <3>1. ASSUME NEW n \in Int, NEW k \in Int PROVE (n - (k - 1)) * L = (n - k) * L + L
        BY SMTT(30)
      <3>2. QED
        BY <1>2, <3>1
    <2>4. (Cardinality(Calls) - (Cardinality(S) - 1)) * L \in 0..(Cardinality(Calls) * L)
      BY <1>2, <1>3, <2>2
    <2>5. QED
      BY <2>1, <2>3, <2>4
  <1>5. QED
    <2>1. (Cardinality(Calls) - Cardinality(S)) * L \in 0..(Cardinality(Calls) * L)
      BY <1>2, <1>3
    <2>2. Cardinality(S) \in 0..Cardinality(Calls)
      BY <1>2
    <2>3. QED
      BY <1>2, <1>4, <2>1, <2>2, Zenon

LEMMA PrincipalType ==
    ASSUME NEW s \in CallStates, s.at = "tool" PROVE s.principal \in Nat
  <1>1. Principals \cup {0} \subseteq Nat
    BY GatewayAssumption
  <1>2. QED
    BY <1>1 DEF CallStates, Idle

LEMMA DisbursingTypes ==
    ASSUME TypeOK, NEW a \in Agents
    PROVE  /\ Disbursing(a) \in SUBSET Calls
           /\ Spent(a) \in Nat /\ DailyLimit[a] \in Nat
           /\ \A c \in Disbursing(a) : call[c].principal \in Nat
  <1>1. Disbursing(a) \in SUBSET Calls
    BY DEF Disbursing
  <1>2. Spent(a) \in Nat /\ DailyLimit[a] \in Nat
    BY GatewayAssumption DEF TypeOK, Spent
  <1>3. ASSUME NEW c \in Disbursing(a) PROVE call[c].principal \in Nat
    BY <1>3, PrincipalType DEF TypeOK, Disbursing
  <1>4. QED
    BY <1>1, <1>2, <1>3

\* Every step is one of the four kinds, for every agent.
LEMMA StepKinds ==
    ASSUME TypeOK, [Next]_vars, NEW a \in Agents
    PROVE  \/ Stays(a) \/ Forgets(a)
           \/ \E c \in Calls : Admits(a, c) \/ Ends(a, c)
  <1> DEFINE LimitStates == [dailySpent : Nat, resetTime : Nat]
  <1>1. limit \in [Agents -> LimitStates] /\ call \in [Calls -> CallStates]
    BY DEF TypeOK
  <1>2. ResetIfNeeded(limit[a]).dailySpent \in {Spent(a), 0}
    BY DEF ResetIfNeeded, NewLimit, Spent
  <1>3. CASE UNCHANGED <<limit, call>>
    BY <1>3 DEF Stays, Disbursing, Spent
  <1>4. CASE Restart
    <2>1. \A c \in Calls : call'[c] = Idle
      BY <1>4 DEF Restart
    <2>2. Disbursing(a)' = {}
      BY <2>1 DEF Disbursing, Idle
    <2>3. Spent(a)' = 0
      BY <1>4 DEF Restart, Spent, NewLimit
    <2>4. QED
      BY <2>2, <2>3 DEF Forgets
  <1>5. ASSUME NEW b \in Agents, LimitSnapshot(b) PROVE Stays(a)
    <2>1. call' = call /\ Spent(a)' \in {Spent(a), 0}
      BY <1>1, <1>2, <1>5 DEF LimitSnapshot, Spent
    <2>2. QED
      BY <2>1 DEF Stays, Disbursing
  \* A call that does not disburse for the agent, before or after, is no matter.
  <1>6. ASSUME NEW c \in Calls, NEW s, call' = [call EXCEPT ![c] = s],
               c \notin Disbursing(a),
               ~(s.at = "tool" /\ s.tool = "conditional_disburse" /\ s.agent = a),
               Spent(a)' \in {Spent(a), 0}
        PROVE  Stays(a)
    <2>1. call'[c] = s /\ \A d \in Calls \ {c} : call'[d] = call[d]
      BY <1>1, <1>6
    <2>2. QED
      BY <1>6, <2>1 DEF Stays, Disbursing
  <1>7. ASSUME NEW c \in Calls, call' = [call EXCEPT ![c] = Idle], c \in Disbursing(a),
               Spent(a)' \in {Spent(a), Spent(a) + call[c].principal}
        PROVE  Ends(a, c)
    <2>1. call'[c] = Idle /\ \A d \in Calls \ {c} : call'[d] = call[d]
      BY <1>1, <1>7
    <2>2. QED
      BY <1>7, <2>1 DEF Ends, Disbursing, Idle
  <1>8. ~(Idle.at = "tool" /\ Idle.tool = "conditional_disburse" /\ Idle.agent = a)
    BY DEF Idle
  <1>9. ASSUME NEW c \in Calls, call[c].at # "tool" PROVE c \notin Disbursing(a)
    BY <1>9 DEF Disbursing
  <1>10. ASSUME NEW c \in Calls, TurnAway(c) PROVE Stays(a)
    BY <1>6, <1>8, <1>9, <1>10 DEF TurnAway, Spent
  <1>11. ASSUME NEW c \in Calls, NEW client \in Clients, Receive(c, client) PROVE Stays(a)
    <2> DEFINE s == [at |-> "body", client |-> client]
    <2>1. s.at # "tool" /\ call[c].at # "tool" /\ call' = [call EXCEPT ![c] = s]
          /\ Spent(a)' = Spent(a)
      BY <1>11 DEF Receive, Idle, Spent
    <2> HIDE DEF s
    <2>2. QED
      BY <1>6, <1>9, <2>1
  <1>12. ASSUME NEW c \in Calls, ToolFails(c)
         PROVE  Stays(a) \/ Ends(a, c)
    BY <1>6, <1>7, <1>8, <1>12 DEF ToolFails, Spent
  <1>13. ASSUME NEW c \in Calls, ToolSucceeds(c)
         PROVE  Stays(a) \/ Ends(a, c)
    <2>1. CASE c \in Disbursing(a)
      <3>1. Spent(a)' = Spent(a) + call[c].principal
        BY <1>1, <1>13, <2>1 DEF ToolSucceeds, Spent, Disbursing
      <3>2. QED
        BY <1>7, <1>13, <2>1, <3>1 DEF ToolSucceeds
    <2>2. CASE c \notin Disbursing(a)
      <3>1. limit'[a] = limit[a]
        BY <1>1, <1>13, <2>2 DEF ToolSucceeds, Disbursing
      <3>2. QED
        BY <1>6, <1>8, <1>13, <2>2, <3>1 DEF ToolSucceeds, Spent
    <2>3. QED
      BY <2>1, <2>2
  <1>14. ASSUME NEW c \in Calls, NEW b \in Agents, NEW tool \in Tools,
                Forward(c, tool, b) \/ ForwardBootstrap(c, tool, b)
         PROVE  Stays(a)
    <2> DEFINE s == [at |-> "tool", tool |-> tool, agent |-> b, principal |-> 0]
    <2>1. /\ s.tool # "conditional_disburse" /\ call[c].at # "tool"
          /\ call' = [call EXCEPT ![c] = s] /\ Spent(a)' = Spent(a)
      BY <1>14 DEF Forward, ForwardBootstrap, Execute, IsBootstrapAdminTool, Spent
    <2> HIDE DEF s
    <2>2. QED
      BY <1>6, <1>9, <2>1
  <1>15. ASSUME NEW c \in Calls, NEW b \in Agents, NEW principal \in Principals,
                ForwardDisburse(c, b, principal)
         PROVE  Stays(a) \/ Admits(a, c)
    <2> DEFINE s == [at |-> "tool", tool |-> "conditional_disburse", agent |-> b,
                     principal |-> principal]
    <2>1. c \notin Disbursing(a) /\ limit' = [limit EXCEPT ![b] = ResetIfNeeded(limit[b])]
      BY <1>9, <1>15 DEF ForwardDisburse
    <2>2. Spent(a)' \in {Spent(a), 0}
      BY <1>1, <1>2, <2>1 DEF Spent
    <2>3. CASE call' = [call EXCEPT ![c] = Idle]
      BY <1>6, <1>8, <2>1, <2>2, <2>3
    <2>4. CASE /\ call' = [call EXCEPT ![c] = s]
               /\ ~(ResetIfNeeded(limit[b]).dailySpent + principal > DailyLimit[b])
      <3>1. CASE a # b
        <4>1. s.agent = b
          OBVIOUS
        <4> HIDE DEF s
        <4>2. QED
          BY <1>6, <2>1, <2>2, <2>4, <3>1, <4>1
      <3>2. CASE a = b
        <4>1. call'[c] = s /\ \A d \in Calls \ {c} : call'[d] = call[d]
          BY <1>1, <2>4
        <4>2. Disbursing(a)' = Disbursing(a) \cup {c}
          BY <2>1, <3>2, <4>1 DEF Disbursing
        <4>3. \A d \in Disbursing(a) : call'[d] = call[d]
          BY <2>1, <4>1 DEF Disbursing
        <4>4. Spent(a)' = ResetIfNeeded(limit[a]).dailySpent
          BY <1>1, <2>1, <3>2 DEF Spent
        <4>5. principal \in Nat /\ Spent(a)' \in Nat /\ DailyLimit[a] \in Nat
          BY <1>1, <1>2, <4>4, GatewayAssumption DEF Spent
        <4>6. Spent(a)' + principal <= DailyLimit[a]
          BY <2>4, <3>2, <4>4, <4>5
        <4>7. call'[c].principal = principal
          BY <4>1
        <4>8. QED
          BY <2>1, <4>2, <4>3, <4>5, <4>6, <4>7 DEF Admits
      <3>3. QED
        BY <3>1, <3>2
    <2>5. QED
      BY <1>15, <2>3, <2>4 DEF ForwardDisburse, Execute
  <1>16. CASE UNCHANGED vars \/ Tick \/ Operator
    BY <1>3, <1>16 DEF vars, Tick, Operator, Pause, Unpause, ResetCircuitBreaker,
                       SetDepositsSnapshot, RecordLoss
  <1>17. QED
    BY <1>4, <1>5, <1>10, <1>11, <1>12, <1>13, <1>14, <1>15, <1>16
       DEF Next, CallStep, Answered

LEMMA NextWithinRoom ==
    ASSUME TypeOK, TypeOK', [Next]_vars, NEW a \in Agents, WithinRoom(a)
    PROVE  WithinRoom(a)'
  <1> DEFINE L == DailyLimit[a]
             S == Disbursing(a)
             n == Cardinality(Calls)
  <1>1. /\ S \in SUBSET Calls /\ S' \in SUBSET Calls /\ L \in Nat
        /\ Spent(a) \in Nat /\ Spent(a)' \in Nat
        /\ \A c \in S : call[c].principal \in Nat
        /\ \A c \in S' : call'[c].principal \in Nat
    <2>1. /\ Disbursing(a)' \in SUBSET Calls /\ Spent(a)' \in Nat
          /\ \A c \in Disbursing(a)' : call'[c].principal \in Nat
      <3>1. Spent(a)' \in Nat
        BY GatewayAssumption DEF TypeOK, Spent
      <3>2. \A c \in Disbursing(a)' : call'[c].principal \in Nat
        BY PrincipalType DEF TypeOK, Disbursing
      <3>3. QED
        BY <3>1, <3>2 DEF Disbursing
    <2>2. QED
      BY DisbursingTypes, <2>1
  <1>2. /\ Room(a) = (n - Cardinality(S)) * L
        /\ Room(a)' = (n - Cardinality(S')) * L
    BY DEF Room
  <1>3. Room(a) \in Nat /\ Room(a)' \in Nat
    BY <1>1, <1>2, RoomOfSets
  <1>4. CASE Stays(a)
    <2>1. Room(a)' = Room(a)
      BY <1>2, <1>4 DEF Stays
    <2>2. QED
      BY <1>1, <1>3, <1>4, <2>1 DEF Stays, WithinRoom
  <1>5. CASE Forgets(a)
    BY <1>1, <1>3, <1>5 DEF Forgets, WithinRoom
  <1>6. ASSUME NEW c \in Calls, Admits(a, c) PROVE WithinRoom(a)'
    <2>1. call'[c].principal \in 0..L
      BY <1>1, <1>6 DEF Admits
    <2>2. Spent(a)' + call'[c].principal <= Room(a)' + L
      BY <1>1, <1>3, <1>6, <2>1 DEF Admits
    <2>3. QED
      BY <1>6, <2>1, <2>2 DEF Admits, WithinRoom
  <1>7. ASSUME NEW c \in Calls, Ends(a, c) PROVE WithinRoom(a)'
    <2>1. Room(a)' = Room(a) + L
      BY <1>1, <1>2, <1>7, RoomOfSets DEF Ends
    <2>2. \A d \in Disbursing(a)' : d \in S /\ call'[d] = call[d] /\ call'[d].principal \in 0..L
      BY <1>7 DEF Ends, WithinRoom
    <2>3. call[c].principal \in 0..L
      BY <1>7 DEF Ends, WithinRoom
    <2>4. CASE Spent(a) <= Room(a)
      BY <1>1, <1>3, <1>7, <2>1, <2>2, <2>3, <2>4 DEF Ends, WithinRoom
    <2>5. CASE Spent(a) + call[c].principal <= Room(a) + L
      BY <1>1, <1>3, <1>7, <2>1, <2>2, <2>3, <2>5 DEF Ends, WithinRoom
    <2>6. ASSUME NEW d \in S \ {c}, Spent(a) + call[d].principal <= Room(a) + L
          PROVE  WithinRoom(a)'
      <3>1. d \in Disbursing(a)' /\ call'[d] = call[d]
        BY <1>7, <2>6 DEF Ends
      <3>2. call[d].principal \in Nat
        BY <1>1
      <3>3. Spent(a)' + call'[d].principal <= Room(a)' + L
        BY <1>1, <1>3, <1>7, <2>1, <2>3, <2>6, <3>1, <3>2 DEF Ends
      <3>4. QED
        BY <2>2, <3>1, <3>3 DEF WithinRoom
    <2>7. QED
      BY <2>4, <2>5, <2>6 DEF WithinRoom
  <1>8. QED
    BY <1>4, <1>5, <1>6, <1>7, StepKinds

LEMMA RoomBounds ==
    ASSUME TypeOK, NEW a \in Agents, WithinRoom(a)
    PROVE  limit[a].dailySpent <= Cardinality(Calls) * DailyLimit[a]
  <1>1. /\ Disbursing(a) \in SUBSET Calls /\ DailyLimit[a] \in Nat /\ Spent(a) \in Nat
        /\ \A c \in Disbursing(a) : call[c].principal \in Nat
    BY DisbursingTypes
  <1>2. /\ Room(a) \in 0..(Cardinality(Calls) * DailyLimit[a])
        /\ \A c \in Disbursing(a) :
              Room(a) + DailyLimit[a] <= Cardinality(Calls) * DailyLimit[a]
    BY <1>1, RoomOfSets DEF Room
  <1>3. Cardinality(Calls) * DailyLimit[a] \in Nat
    <2>1. Cardinality(Calls) \in Nat
      BY <1>1, RoomOfSets
    <2>2. QED
      BY <1>1, <2>1, SMTT(30)
  <1>4. QED
    BY <1>1, <1>2, <1>3 DEF WithinRoom, Spent

\* However the requests overlap, and whatever the bridge answers, what is
\* charged to an agent on a day is at most one limit for each request that may
\* be under way (safetyMiddleware.js:120-144).
THEOREM DailyOverspendIsBounded == Spec => []OverspendBounded
  <1> DEFINE Inv == \A a \in Agents : WithinRoom(a)
  <1>1. Init /\ TypeOK => Inv
    <2> SUFFICES ASSUME Init, TypeOK, NEW a \in Agents PROVE WithinRoom(a)
      OBVIOUS
    <2>1. Disbursing(a) = {}
      BY DEF Init, Disbursing, Idle
    <2>2. Spent(a) = 0
      BY DEF Init, NewLimit, Spent
    <2>3. Room(a) \in Nat
      BY DisbursingTypes, RoomOfSets DEF Room
    <2>4. QED
      BY <2>1, <2>2, <2>3 DEF WithinRoom
  <1>2. TypeOK /\ TypeOK' /\ Inv /\ [Next]_vars => Inv'
    BY NextWithinRoom
  <1>3. TypeOK /\ Inv => OverspendBounded
    BY RoomBounds DEF OverspendBounded
  <1>4. QED
    BY <1>1, <1>2, <1>3, GatewayTypeCorrect, PTL DEF Spec

=============================================================================
