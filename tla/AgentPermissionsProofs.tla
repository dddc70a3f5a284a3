---------------------- MODULE AgentPermissionsProofs ----------------------
(***************************************************************************)
(* Theorems about AgentPermissions, for every value of its constants.      *)
(***************************************************************************)
EXTENDS AgentPermissions, SetSums

-----------------------------------------------------------------------------
(* Type correctness.                                                       *)

\* Writes that keep an account well typed.
LEMMA SpendWrites ==
    ASSUME NEW a \in AgentIdentities, NEW s \in Nat, NEW n \in Nat
    PROVE  [a EXCEPT !.daily_spent = s, !.total_operations = n] \in AgentIdentities
  BY Zenon DEF AgentIdentities

LEMMA LossWrites ==
    ASSUME NEW s \in PermStates, NEW l \in Nat, NEW b \in BOOLEAN, NEW c \in BOOLEAN
    PROVE  [s EXCEPT !.losses_24h = l, !.circuit_breaker_active = b,
                     !.is_paused = c] \in PermStates
  BY Zenon DEF PermStates

LEMMA NewDayType ==
    ASSUME now \in Nat, NEW a \in AgentIdentities
    PROVE  NewDay(a) \in AgentIdentities
  <1>1. now + SECONDS_PER_DAY \in Nat
    BY PermissionsAssumption
  <1>2. QED
    BY <1>1, Zenon DEF NewDay, AgentIdentities

LEMMA WindowedType ==
    ASSUME now \in Nat, NEW s \in PermStates, NEW d \in Nat
    PROVE  Windowed(s, d) \in PermStates
  BY Zenon DEF Windowed, PermStates

LEMMA InitType == Init => TypeOK
  <1> SUFFICES ASSUME Init PROVE TypeOK
    OBVIOUS
  <1>1. now \in 0..MaxTime /\ announced \in Nat
    BY PermissionsAssumption DEF Init
  <1>2. perm \in PermStates
    BY DEF Init, PermStates
  <1>3. agent \in [Wallets -> AgentIdentities]
    BY DEF Init, AgentIdentities, Roles, Tiers, Read, Admin
  <1>4. spent \in [Wallets -> [0..MaxTime -> Nat]] /\ granted \in [Wallets -> Nat]
    BY DEF Init
  <1>5. QED
    BY <1>1, <1>2, <1>3, <1>4 DEF TypeOK

LEMMA AgentStepType == TypeOK /\ AgentStep => TypeOK'
  <1> SUFFICES ASSUME TypeOK, NEW w \in Wallets, NEW role \in Roles,
                      NEW tier \in Tiers, NEW amount \in Amounts \cup {0},
                      CheckPermissionAndSpend(w, role, tier, amount)
               PROVE  TypeOK'
    BY DEF AgentStep
  <1> DEFINE a == NewDay(agent[w])
             charged == [a EXCEPT !.daily_spent = @ + amount,
                                  !.total_operations = @ + 1]
  <1>1. /\ a \in AgentIdentities
        /\ amount \in Nat
        /\ now \in 0..MaxTime
    BY NewDayType, PermissionsAssumption DEF TypeOK
  <1> HIDE DEF a
  <1>2. a.daily_spent + amount \in Nat /\ a.total_operations + 1 \in Nat
    BY <1>1 DEF AgentIdentities
  <1>3. charged \in AgentIdentities
    BY <1>1, <1>2, SpendWrites
  <1>4. CASE amount = 0
    BY <1>4 DEF CheckPermissionAndSpend, TypeOK
  <1>5. CASE amount # 0
    <2>1. /\ agent' = [agent EXCEPT ![w] = charged]
          /\ spent' = [spent EXCEPT ![w] = [spent[w] EXCEPT ![now] = spent[w][now] + amount]]
          /\ UNCHANGED <<now, perm, granted, announced>>
      BY <1>5 DEF CheckPermissionAndSpend, a
    <2>a. spent[w] \in [0..MaxTime -> Nat]
      BY DEF TypeOK
    <2>b. spent[w][now] \in Nat
      BY Zenon, <1>1, <2>a
    <2>2. spent[w][now] + amount \in Nat
      BY <1>1, <2>b
    <2> HIDE DEF charged
    <2>3. QED
      BY <1>3, <2>1, <2>2 DEF TypeOK
  <1>6. QED
    BY <1>4, <1>5

LEMMA AdminStepType == TypeOK /\ AdminStep => TypeOK'
  <1> SUFFICES ASSUME TypeOK, AdminStep PROVE TypeOK'
    OBVIOUS
  <1>a. /\ now \in Nat /\ perm \in PermStates
        /\ \A w \in Wallets : agent[w] \in AgentIdentities
        /\ Limits \subseteq Nat
    BY PermissionsAssumption DEF TypeOK
  <1>1. ASSUME NEW w \in Wallets, NEW role \in GivenRoles, NEW tier \in GivenTiers,
               NEW limit \in Limits, RegisterAgent(w, role, tier, limit)
        PROVE  TypeOK'
    <2>1. /\ now + SECONDS_PER_DAY \in Nat
          /\ role \in Roles /\ tier \in Tiers \ {Admin}
      BY <1>a, <1>1, PermissionsAssumption
         DEF RegisterAgent, Roles, Tiers, Read, Admin
    <2>2. [registered |-> TRUE, role |-> role, tier |-> tier,
           daily_limit |-> limit, daily_spent |-> 0,
           limit_reset_epoch |-> now + SECONDS_PER_DAY,
           is_active |-> TRUE, total_operations |-> 0] \in AgentIdentities
      BY <1>a, <2>1 DEF AgentIdentities
    <2>3. QED
      BY <1>a, <1>1, <2>2 DEF RegisterAgent, TypeOK
  <1>2. ASSUME NEW w \in Wallets, NEW limit \in Limits, SetDailyLimit(w, limit)
        PROVE  TypeOK'
    <2>1. [agent[w] EXCEPT !.daily_limit = limit] \in AgentIdentities
      BY <1>a DEF AgentIdentities
    <2>2. Larger(granted[w], limit) \in Nat
      BY <1>a DEF TypeOK, Larger
    <2>3. QED
      BY <1>2, <2>1, <2>2 DEF SetDailyLimit, TypeOK
  <1>3. ASSUME NEW w \in Wallets, NEW tier \in GivenTiers, SetAgentTier(w, tier)
        PROVE  TypeOK'
    <2>1. tier \in Tiers \ {Admin}
      BY <1>3, PermissionsAssumption DEF SetAgentTier, Tiers, Read, Admin
    <2>2. [agent[w] EXCEPT !.tier = tier] \in AgentIdentities
      BY <1>a, <2>1 DEF AgentIdentities
    <2>3. QED
      BY <1>3, <2>2 DEF SetAgentTier, TypeOK
  <1>4. ASSUME NEW w \in Wallets, DeactivateAgent(w) PROVE TypeOK'
    <2>1. [agent[w] EXCEPT !.is_active = FALSE] \in AgentIdentities
      BY <1>a DEF AgentIdentities
    <2>2. QED
      BY <1>4, <2>1 DEF DeactivateAgent, TypeOK
  <1>5. ASSUME NEW loss \in Losses, NEW deposits \in DepositLevels,
               RecordLoss(loss, deposits)
        PROVE  TypeOK'
    <2> DEFINE s == Windowed(perm, deposits)
               losses == s.losses_24h + loss
               trips == Trips(losses, s.deposits_snapshot)
    <2>1. s \in PermStates
      BY <1>a, WindowedType, PermissionsAssumption
    <2> HIDE DEF s
    <2>2. losses \in Nat
      BY <2>1, PermissionsAssumption DEF PermStates
    <2>3. trips \in BOOLEAN
      BY DEF Trips
    <2>4. /\ (s.circuit_breaker_active \/ trips) \in BOOLEAN
          /\ (s.is_paused \/ trips) \in BOOLEAN
      OBVIOUS
    <2>5. /\ perm' = [s EXCEPT !.losses_24h = losses,
                               !.circuit_breaker_active = @ \/ trips,
                               !.is_paused = @ \/ trips]
          /\ UNCHANGED <<now, agent, spent, granted, announced>>
      BY <1>5 DEF RecordLoss, s
    <2> HIDE DEF losses, trips
    <2>6. perm' \in PermStates
      BY <2>1, <2>2, <2>4, <2>5, LossWrites
    <2>7. QED
      BY <2>5, <2>6 DEF TypeOK
  <1>6. CASE ResetCircuitBreaker
    <2>1. perm' \in PermStates
      BY <1>a, <1>6, Zenon DEF ResetCircuitBreaker, PermStates
    <2>2. QED
      BY <1>6, <2>1 DEF ResetCircuitBreaker, TypeOK
  <1>7. CASE EmergencyPause \/ Unpause
    <2>1. perm' \in PermStates
      BY <1>a, <1>7 DEF EmergencyPause, Unpause, PermStates
    <2>2. QED
      BY <1>7, <2>1 DEF EmergencyPause, Unpause, TypeOK
  <1>8. ASSUME NEW key \in Candidates, RequestAdminRotation(key) PROVE TypeOK'
    <2>1. key \in Admins \cup {NoKey}
      BY PermissionsAssumption
    <2>2. perm' \in PermStates
      BY <1>a, <1>8, <2>1, Zenon DEF RequestAdminRotation, PermStates
    <2>3. announced' \in Nat
      BY <1>a, <1>8 DEF RequestAdminRotation, TypeOK
    <2>4. QED
      BY <1>8, <2>2, <2>3 DEF RequestAdminRotation, TypeOK
  <1>9. CASE FinalizeAdminRotation
    <2>1. perm.pending_admin \in Admins
      BY <1>a, <1>9 DEF FinalizeAdminRotation, PermStates
    <2>2. perm' \in PermStates
      BY <1>a, <1>9, <2>1, Zenon DEF FinalizeAdminRotation, PermStates
    <2>3. QED
      BY <1>9, <2>2 DEF FinalizeAdminRotation, TypeOK
  <1>10. CASE CancelAdminRotation
    <2>1. perm' \in PermStates
      BY <1>a, <1>10, Zenon DEF CancelAdminRotation, PermStates
    <2>2. QED
      BY <1>10, <2>1 DEF CancelAdminRotation, TypeOK
  <1>11. QED
    BY <1>1, <1>2, <1>3, <1>4, <1>5, <1>6, <1>7, <1>8, <1>9, <1>10 DEF AdminStep

\* Every reachable state is well typed: no registration and no change of tier
\* makes an agent an admin.
THEOREM PermissionsTypeCorrect == Spec => []TypeOK
  <1>1. TypeOK /\ [Next]_vars => TypeOK'
    <2> SUFFICES ASSUME TypeOK, [Next]_vars PROVE TypeOK'
      OBVIOUS
    <2>1. CASE Tick
      BY <2>1, PermissionsAssumption DEF Tick, permVars, TypeOK
    <2>2. CASE UNCHANGED vars
      BY <2>2 DEF vars, permVars, TypeOK
    <2>3. QED
      BY <2>1, <2>2, AdminStepType, AgentStepType DEF Next
  <1>2. QED
    BY InitType, <1>1, PTL DEF Spec

-----------------------------------------------------------------------------
(* The circuit breaker.                                                    *)

\* Both facts about the breaker, proved together: they are inductive.
Breaker == BreakerPauses /\ BreakerTrips

LEMMA RecordLossBreaker ==
    ASSUME TypeOK, Breaker, NEW loss \in Losses, NEW deposits \in DepositLevels,
           RecordLoss(loss, deposits)
    PROVE  Breaker'
  <1> DEFINE s == Windowed(perm, deposits)
             losses == s.losses_24h + loss
             trips == Trips(losses, s.deposits_snapshot)
             ratio == (losses * BPS) \div s.deposits_snapshot
  <1>1. /\ s \in PermStates
        /\ s.circuit_breaker_active = perm.circuit_breaker_active
        /\ s.is_paused = perm.is_paused
    <2>1. now \in Nat /\ perm \in PermStates /\ deposits \in Nat
      BY PermissionsAssumption DEF TypeOK
    <2>2. s \in PermStates
      BY <2>1, WindowedType
    <2>3. QED
      BY <2>1, <2>2 DEF Windowed, PermStates
  <1>2. /\ perm' = [s EXCEPT !.losses_24h = losses,
                             !.circuit_breaker_active = @ \/ trips,
                             !.is_paused = @ \/ trips]
    BY DEF RecordLoss
  <1> HIDE DEF s
  <1>3. losses \in Nat /\ s.deposits_snapshot \in Nat
    BY <1>1, PermissionsAssumption DEF PermStates
  <1> HIDE DEF losses
  <1>4. s.deposits_snapshot > 0 /\ ratio < U16_RANGE
           /\ ratio >= CIRCUIT_BREAKER_LOSS_BPS => trips
    <2> SUFFICES ASSUME s.deposits_snapshot > 0, ratio < U16_RANGE,
                        ratio >= CIRCUIT_BREAKER_LOSS_BPS
                 PROVE  trips
      OBVIOUS
    <2>1. losses * BPS \in Nat
      BY <1>3, PermissionsAssumption
    <2>2. ratio \in Nat
      BY <1>3, <2>1
    <2> HIDE DEF ratio
    <2>3. ratio % U16_RANGE = ratio
      BY <2>2, PermissionsAssumption
    <2>4. QED
      BY <2>3 DEF ratio, Trips, LossBps
  <1> HIDE DEF trips
  <1>5. /\ perm'.losses_24h = losses
        /\ perm'.deposits_snapshot = s.deposits_snapshot
        /\ perm'.circuit_breaker_active = (s.circuit_breaker_active \/ trips)
        /\ perm'.is_paused = (s.is_paused \/ trips)
    BY <1>1, <1>2 DEF PermStates
  <1>6. BreakerPauses'
    BY <1>1, <1>5 DEF Breaker, BreakerPauses
  <1>7. BreakerTrips'
    BY <1>4, <1>5 DEF BreakerTrips
  <1>8. QED
    BY <1>6, <1>7 DEF Breaker

LEMMA NextBreaker == TypeOK /\ Breaker /\ [Next]_vars => Breaker'
  <1> SUFFICES ASSUME TypeOK, Breaker, [Next]_vars PROVE Breaker'
    OBVIOUS
  <1>1. perm \in PermStates
    BY DEF TypeOK
  <1>2. CASE perm' = perm
    BY <1>2 DEF Breaker, BreakerPauses, BreakerTrips
  <1>3. ASSUME NEW loss \in Losses, NEW deposits \in DepositLevels,
               RecordLoss(loss, deposits)
        PROVE  Breaker'
    BY <1>3, RecordLossBreaker
  <1>4. CASE ResetCircuitBreaker
    <2>1. /\ ~perm'.circuit_breaker_active
          /\ perm'.losses_24h = 0
          /\ perm'.deposits_snapshot = perm.deposits_snapshot
          /\ perm.deposits_snapshot \in Nat
      BY <1>1, <1>4 DEF ResetCircuitBreaker, PermStates
    <2>2. perm.deposits_snapshot > 0 => (0 * BPS) \div perm.deposits_snapshot = 0
      BY <2>1, PermissionsAssumption
    <2>3. QED
      BY <2>1, <2>2, PermissionsAssumption DEF Breaker, BreakerPauses, BreakerTrips
  <1>5. ASSUME perm'.circuit_breaker_active = perm.circuit_breaker_active,
               perm'.losses_24h = perm.losses_24h,
               perm'.deposits_snapshot = perm.deposits_snapshot,
               perm'.is_paused = perm.is_paused \/ ~perm.circuit_breaker_active
                                                \/ perm'.is_paused
        PROVE  Breaker'
    BY <1>5 DEF Breaker, BreakerPauses, BreakerTrips
  <1>6. CASE EmergencyPause \/ Unpause
    BY <1>1, <1>5, <1>6 DEF EmergencyPause, Unpause, PermStates
  <1>7. ASSUME NEW key, RequestAdminRotation(key) PROVE Breaker'
    BY <1>1, <1>5, <1>7 DEF RequestAdminRotation, PermStates
  <1>8. CASE FinalizeAdminRotation \/ CancelAdminRotation
    BY <1>1, <1>5, <1>8 DEF FinalizeAdminRotation, CancelAdminRotation, PermStates
  <1>9. QED
    BY <1>2, <1>3, <1>4, <1>6, <1>7, <1>8
       DEF Next, Tick, permVars, AdminStep, AgentStep, RegisterAgent, SetDailyLimit,
           SetAgentTier, DeactivateAgent, CheckPermissionAndSpend, vars

LEMMA InitBreaker == Init => Breaker
  BY DEF Init, Breaker, BreakerPauses, BreakerTrips

\* A tripped breaker keeps the system paused until the admin has reset it.
THEOREM BreakerAlwaysPauses == Spec => []BreakerPauses
  <1>1. Breaker => BreakerPauses
    BY DEF Breaker
  <1>2. QED
    BY <1>1, InitBreaker, NextBreaker, PermissionsTypeCorrect, PTL DEF Spec

\* Losses that reach the threshold of a window with a deposits snapshot, and
\* whose ratio fits a u16, have tripped the breaker.
THEOREM BreakerAlwaysTrips == Spec => []BreakerTrips
  <1>1. Breaker => BreakerTrips
    BY DEF Breaker
  <1>2. QED
    BY <1>1, InitBreaker, NextBreaker, PermissionsTypeCorrect, PTL DEF Spec

-----------------------------------------------------------------------------
(* Admin rotation.                                                         *)

\* The request's clock never runs ahead of the announcement: the inductive
\* invariant of the rotation.
Announcement ==
    /\ announced <= now
    /\ perm.pending_admin # NoKey =>
          announced <= perm.rotation_request_time /\ perm.rotation_request_time <= now

LEMMA NextAnnouncement == TypeOK /\ Announcement /\ [Next]_vars => Announcement'
  <1> SUFFICES ASSUME TypeOK, Announcement, [Next]_vars PROVE Announcement'
    OBVIOUS
  <1>1. /\ perm \in PermStates
        /\ now \in Nat /\ announced \in Nat /\ perm.rotation_request_time \in Nat
    BY DEF TypeOK, PermStates
  <1>2. CASE Tick
    BY <1>1, <1>2 DEF Tick, permVars, Announcement
  <1>3. ASSUME NEW key, RequestAdminRotation(key) PROVE Announcement'
    <2>1. /\ perm'.pending_admin = key
          /\ perm'.rotation_request_time = now
          /\ now' = now
          /\ announced' \in {announced, now}
      BY <1>1, <1>3 DEF RequestAdminRotation, PermStates
    <2>2. QED
      BY <1>1, <2>1 DEF Announcement
  <1>4. CASE FinalizeAdminRotation \/ CancelAdminRotation
    <2>1. perm'.pending_admin = NoKey /\ now' = now /\ announced' = announced
      BY <1>1, <1>4 DEF FinalizeAdminRotation, CancelAdminRotation, PermStates
    <2>2. QED
      BY <2>1 DEF Announcement
  <1>5. ASSUME perm'.pending_admin = perm.pending_admin,
               perm'.rotation_request_time = perm.rotation_request_time,
               now' = now, announced' = announced
        PROVE  Announcement'
    BY <1>5 DEF Announcement
  <1>6. ASSUME NEW loss, NEW deposits, RecordLoss(loss, deposits) PROVE Announcement'
    <2> DEFINE s == Windowed(perm, deposits)
    <2>1. /\ s.pending_admin = perm.pending_admin
          /\ s.rotation_request_time = perm.rotation_request_time
          /\ DOMAIN s = DOMAIN perm
      BY <1>1 DEF Windowed, PermStates
    <2> HIDE DEF s
    <2>2. /\ perm'.pending_admin = s.pending_admin
          /\ perm'.rotation_request_time = s.rotation_request_time
          /\ now' = now /\ announced' = announced
      BY <1>1, <1>6, <2>1 DEF RecordLoss, s, Windowed, PermStates
    <2>3. QED
      BY <1>5, <2>1, <2>2
  <1>7. CASE ResetCircuitBreaker \/ EmergencyPause \/ Unpause
    BY <1>1, <1>5, <1>7
       DEF ResetCircuitBreaker, EmergencyPause, Unpause, PermStates
  <1>8. CASE UNCHANGED <<now, perm, announced>>
    BY <1>5, <1>8
  <1>9. QED
    BY <1>2, <1>3, <1>4, <1>6, <1>7, <1>8
       DEF Next, permVars, AdminStep, AgentStep, RegisterAgent, SetDailyLimit,
           SetAgentTier, DeactivateAgent, CheckPermissionAndSpend, vars

\* The admin changes only to a key that was pending, without interruption, for
\* the whole rotation delay.
THEOREM RotationIsDelayed == Spec => RotationDelayed
  <1>1. Init => Announcement
    BY DEF Init, Announcement
  <1>2. TypeOK /\ Announcement /\ [Next]_vars =>
           [perm'.admin # perm.admin =>
              /\ perm'.admin = perm.pending_admin
              /\ now - announced >= ROTATION_DELAY_SECS]_vars
    <2> SUFFICES ASSUME TypeOK, Announcement, Next, perm'.admin # perm.admin
                 PROVE  /\ perm'.admin = perm.pending_admin
                        /\ now - announced >= ROTATION_DELAY_SECS
      OBVIOUS
    <2>1. /\ perm \in PermStates
          /\ now \in Nat /\ announced \in Nat /\ perm.rotation_request_time \in Nat
      BY DEF TypeOK, PermStates
    <2>2. ASSUME NEW loss, NEW deposits, RecordLoss(loss, deposits) PROVE FALSE
      BY <2>1, <2>2 DEF RecordLoss, Windowed, PermStates
    <2>3. CASE FinalizeAdminRotation
      BY <2>1, <2>3, PermissionsAssumption
         DEF FinalizeAdminRotation, Announcement, PermStates
    <2>4. ASSUME NEW key, RequestAdminRotation(key) PROVE FALSE
      BY <2>1, <2>4 DEF RequestAdminRotation, PermStates
    <2>5. CASE ResetCircuitBreaker \/ EmergencyPause \/ Unpause \/ CancelAdminRotation
      BY <2>1, <2>5 DEF ResetCircuitBreaker, EmergencyPause, Unpause,
                        CancelAdminRotation, PermStates
    <2>6. QED
      BY <2>2, <2>3, <2>4, <2>5
         DEF Next, Tick, permVars, AdminStep, AgentStep, RegisterAgent,
             SetDailyLimit, SetAgentTier, DeactivateAgent, CheckPermissionAndSpend
  <1>3. QED
    BY <1>1, <1>2, NextAnnouncement, PermissionsTypeCorrect, PTL
       DEF Spec, RotationDelayed

-----------------------------------------------------------------------------
(* Daily spending.  A window starts at ws and ends SECONDS_PER_DAY later; a *)
(* period of a day that begins before it takes in at most the rest of the  *)
(* window before and a part of this one.                                   *)

\* What a history f records from one time to another, and from a time on.
Between(f, from, to) == SumOf(f, {t \in 0..MaxTime : from <= t /\ t < to})
Since(f, from) == SumOf(f, {t \in 0..MaxTime : from <= t})

\* The history f of a wallet that was granted g and has spent d in its window.
Window(f, ws, g, d) ==
    /\ Since(f, ws) = d
    /\ \A t \in 0..MaxTime : ws + SECONDS_PER_DAY <= t => f[t] = 0
    /\ \A from \in 0..MaxTime :
          ws < from + SECONDS_PER_DAY => Between(f, from, ws) <= g
    /\ \A from \in 0..MaxTime :
          from + SECONDS_PER_DAY <= ws =>
             Between(f, from, from + SECONDS_PER_DAY) <= 2 * g

Started(a) == a.limit_reset_epoch - SECONDS_PER_DAY

WithinLimit(w) ==
    IF agent[w].registered
    THEN /\ agent[w].daily_spent <= granted[w]
         /\ agent[w].daily_limit <= granted[w]
         /\ Started(agent[w]) <= now
         /\ Window(spent[w], Started(agent[w]), granted[w], agent[w].daily_spent)
    ELSE \A t \in 0..MaxTime : spent[w][t] = 0

Spending == \A w \in Wallets : WithinLimit(w)

Histories == [0..MaxTime -> Nat]

\* Sums over times are sums over finite sets.
LEMMA FiniteTimes == \A S \in SUBSET (0..MaxTime) : IsFiniteSet(S)
  <1>1. IsFiniteSet(0..MaxTime)
    BY FS_Interval, PermissionsAssumption
  <1>2. QED
    BY <1>1, FS_Subset

\* A part of a history records natural numbers, and no more than the whole.
LEMMA PartsOfHistory ==
    ASSUME NEW f \in Histories, NEW S \in SUBSET (0..MaxTime), NEW T \in SUBSET S
    PROVE  SumOf(f, S) \in Nat /\ SumOf(f, T) \in Nat /\ SumOf(f, T) <= SumOf(f, S)
  <1>1. T \in SUBSET (0..MaxTime)
    OBVIOUS
  <1>2. IsFiniteSet(S) /\ IsFiniteSet(T)
    BY <1>1, FiniteTimes
  <1>3. (\A x \in S : f[x] \in Nat) /\ (\A x \in T : f[x] \in Nat)
    BY DEF Histories
  <1>4. QED
    BY <1>2, <1>3, SumNat, SumSubset

\* A day that starts in the window records no more than the window, and any
\* other one no more than twice the grant.
LEMMA DayOfWindow ==
    ASSUME NEW f \in Histories, NEW ws \in Int, NEW g \in Nat, NEW d \in Nat,
           d <= g, Window(f, ws, g, d), NEW from \in 0..MaxTime
    PROVE  Between(f, from, from + SECONDS_PER_DAY) <= 2 * g
  <1> DEFINE day == {t \in 0..MaxTime : from <= t /\ t < from + SECONDS_PER_DAY}
             old == {t \in 0..MaxTime : from <= t /\ t < ws}
             cur == {t \in 0..MaxTime : ws <= t}
             new == day \cap cur
  <1>1. SECONDS_PER_DAY \in Nat \ {0} /\ MaxTime \in Nat
    BY PermissionsAssumption
  <1>2. SumOf(f, cur) = d /\ Between(f, from, from + SECONDS_PER_DAY) = SumOf(f, day)
    BY DEF Window, Since, Between
  <1>3. CASE from + SECONDS_PER_DAY <= ws
    BY <1>3 DEF Window
  <1>4. CASE ws <= from
    <2>1. day \in SUBSET cur /\ cur \in SUBSET (0..MaxTime)
      BY <1>1, <1>4
    <2> HIDE DEF day, cur
    <2>2. SumOf(f, day) <= SumOf(f, cur) /\ SumOf(f, day) \in Nat
      BY <2>1, PartsOfHistory
    <2>3. QED
      BY <1>2, <2>2
  <1>5. CASE from < ws /\ ws < from + SECONDS_PER_DAY
    <2>1. SumOf(f, old) <= g
      BY <1>5 DEF Window, Between
    <2>2. /\ day = old \cup new /\ old \cap new = {}
          /\ old \in SUBSET (0..MaxTime) /\ new \in SUBSET cur
          /\ cur \in SUBSET (0..MaxTime)
      BY <1>1, <1>5
    <2> HIDE DEF day, old, new, cur
    <2>3. /\ SumOf(f, old) \in Nat /\ SumOf(f, new) \in Nat
          /\ SumOf(f, new) <= SumOf(f, cur)
      BY <2>2, PartsOfHistory
    <2>4. SumOf(f, day) = SumOf(f, old) + SumOf(f, new)
      <3>1. IsFiniteSet(old) /\ IsFiniteSet(new)
        <4>1. new \in SUBSET (0..MaxTime)
          BY <2>2
        <4>2. QED
          BY <2>2, <4>1, FiniteTimes
      <3>2. \A x \in old \cup new : f[x] \in Int
        BY <2>2 DEF Histories
      <3>3. QED
        BY <2>2, <3>1, <3>2, SumUnion
    <2>5. QED
      BY <1>2, <2>1, <2>3, <2>4
  <1>6. QED
    BY <1>1, <1>3, <1>4, <1>5

\* A window that is over makes room for one that starts empty.
LEMMA NextWindow ==
    ASSUME NEW f \in Histories, NEW ws \in Int, NEW g \in Nat, NEW d \in Nat,
           d <= g, Window(f, ws, g, d), NEW n \in Int, ws + SECONDS_PER_DAY <= n
    PROVE  Window(f, n, g, 0)
  <1>1. SECONDS_PER_DAY \in Nat \ {0} /\ MaxTime \in Nat
    BY PermissionsAssumption
  <1>2. Since(f, n) = 0
    <2> DEFINE S == {t \in 0..MaxTime : n <= t}
    <2>1. \A t \in S : f[t] = 0
      BY <1>1 DEF Window
    <2>2. IsFiniteSet(S)
      BY FiniteTimes
    <2>3. QED
      BY <2>1, <2>2, SumZeros DEF Since
  <1>3. \A t \in 0..MaxTime : n + SECONDS_PER_DAY <= t => f[t] = 0
    BY <1>1 DEF Window
  <1>4. ASSUME NEW from \in 0..MaxTime, n < from + SECONDS_PER_DAY
        PROVE  Between(f, from, n) <= g
    <2> DEFINE S == {t \in 0..MaxTime : from <= t /\ t < n}
               cur == {t \in 0..MaxTime : ws <= t}
    <2>1. S \in SUBSET cur /\ cur \in SUBSET (0..MaxTime)
      BY <1>1, <1>4
    <2>2. SumOf(f, cur) = d /\ Between(f, from, n) = SumOf(f, S)
      BY DEF Window, Since, Between
    <2> HIDE DEF S, cur
    <2>3. SumOf(f, S) <= SumOf(f, cur) /\ SumOf(f, S) \in Nat
      BY <2>1, PartsOfHistory
    <2>4. QED
      BY <2>2, <2>3
  <1>5. \A from \in 0..MaxTime : Between(f, from, from + SECONDS_PER_DAY) <= 2 * g
    BY DayOfWindow
  <1>6. QED
    BY <1>2, <1>3, <1>4, <1>5 DEF Window

\* Spending in the window is recorded in it.
LEMMA SpendInWindow ==
    ASSUME NEW f \in Histories, NEW ws \in Int, NEW g \in Nat, NEW d \in Nat,
           Window(f, ws, g, d), NEW n \in 0..MaxTime, NEW a \in Nat,
           ws <= n, n < ws + SECONDS_PER_DAY
    PROVE  Window([f EXCEPT ![n] = @ + a], ws, g, d + a)
  <1> DEFINE h == [f EXCEPT ![n] = @ + a]
  <1>1. SECONDS_PER_DAY \in Nat \ {0} /\ MaxTime \in Nat
    BY PermissionsAssumption
  <1>2. /\ h \in Histories /\ h[n] = f[n] + a /\ f[n] \in Nat
        /\ \A t \in 0..MaxTime : t # n => h[t] = f[t]
    BY DEF Histories
  <1>a. \A t \in 0..MaxTime : f[t] \in Int /\ h[t] \in Int
    BY <1>2 DEF Histories
  <1> HIDE DEF h
  <1>3. Since(h, ws) = d + a
    <2> DEFINE S == {t \in 0..MaxTime : ws <= t}
    <2>1. n \in S /\ S \in SUBSET (0..MaxTime)
      BY <1>1
    <2>2. IsFiniteSet(S)
      BY <2>1, FiniteTimes
    <2>3. SumOf(f, S) = d /\ Since(h, ws) = SumOf(h, S)
      BY DEF Window, Since
    <2> HIDE DEF S
    <2>4. /\ \A x \in S : f[x] \in Int /\ h[x] \in Int
          /\ \A x \in S \ {n} : h[x] = f[x]
      BY <1>2, <1>a, <2>1
    <2>5. SumOf(h, S) = SumOf(f, S) + h[n] - f[n]
      BY <2>1, <2>2, <2>4, SumChange
    <2>6. QED
      BY <1>2, <2>3, <2>5
  <1>4. ASSUME NEW from \in 0..MaxTime, NEW to \in Int, to <= ws
        PROVE  Between(h, from, to) = Between(f, from, to)
    <2> DEFINE S == {t \in 0..MaxTime : from <= t /\ t < to}
    <2>1. IsFiniteSet(S)
      BY FiniteTimes
    <2>2. \A x \in S : h[x] = f[x]
      BY <1>1, <1>2, <1>4
    <2>3. SumOf(h, S) = SumOf(f, S)
      <3> HIDE DEF S
      <3>1. QED
        BY <2>1, <2>2, SumSame
    <2>4. QED
      BY <2>3 DEF Between
  <1>5. \A t \in 0..MaxTime : ws + SECONDS_PER_DAY <= t => h[t] = 0
    BY <1>1, <1>2 DEF Window
  <1>6. \A from \in 0..MaxTime : ws < from + SECONDS_PER_DAY => Between(h, from, ws) <= g
    BY <1>4 DEF Window
  <1>7. \A from \in 0..MaxTime : from + SECONDS_PER_DAY <= ws =>
           Between(h, from, from + SECONDS_PER_DAY) <= 2 * g
    <2> SUFFICES ASSUME NEW from \in 0..MaxTime, from + SECONDS_PER_DAY <= ws
                 PROVE  Between(h, from, from + SECONDS_PER_DAY) <= 2 * g
      OBVIOUS
    <2>1. from + SECONDS_PER_DAY \in Int
      BY <1>1
    <2>2. Between(h, from, from + SECONDS_PER_DAY) = Between(f, from, from + SECONDS_PER_DAY)
      BY <1>4, <2>1
    <2>3. QED
      BY <2>2 DEF Window
  <1>8. QED
    BY <1>3, <1>5, <1>6, <1>7 DEF Window, h

\* A larger grant keeps the window within bounds.
LEMMA GrantMore ==
    ASSUME NEW f \in Histories, NEW ws \in Int, NEW g \in Nat, NEW d \in Nat,
           Window(f, ws, g, d), NEW h \in Nat, g <= h
    PROVE  Window(f, ws, h, d)
  <1>1. SECONDS_PER_DAY \in Nat \ {0} /\ MaxTime \in Nat
    BY PermissionsAssumption
  <1>2. \A from \in 0..MaxTime, to \in Int : Between(f, from, to) \in Nat
    <2> SUFFICES ASSUME NEW from \in 0..MaxTime, NEW to \in Int
                 PROVE  Between(f, from, to) \in Nat
      OBVIOUS
    <2>1. {t \in 0..MaxTime : from <= t /\ t < to} \in SUBSET (0..MaxTime)
      OBVIOUS
    <2>2. QED
      BY <2>1, PartsOfHistory DEF Between
  <1>3. \A from \in 0..MaxTime : from + SECONDS_PER_DAY \in Int
    BY <1>1
  <1>4. QED
    BY <1>2, <1>3 DEF Window

\* A wallet that never spent starts with an empty window.
LEMMA FirstWindow ==
    ASSUME NEW f \in Histories, \A t \in 0..MaxTime : f[t] = 0,
           NEW n \in Int, NEW g \in Nat
    PROVE  Window(f, n, g, 0)
  <1>1. SECONDS_PER_DAY \in Nat \ {0} /\ MaxTime \in Nat
    BY PermissionsAssumption
  <1>2. \A S \in SUBSET (0..MaxTime) : SumOf(f, S) = 0
    <2> SUFFICES ASSUME NEW S \in SUBSET (0..MaxTime) PROVE SumOf(f, S) = 0
      OBVIOUS
    <2>1. IsFiniteSet(S) /\ \A x \in S : f[x] = 0
      BY FiniteTimes
    <2>2. QED
      BY <2>1, SumZeros
  <1>3. Since(f, n) = 0
    <2>1. {t \in 0..MaxTime : n <= t} \in SUBSET (0..MaxTime)
      OBVIOUS
    <2>2. QED
      BY <1>2, <2>1 DEF Since
  <1>4. \A to : \A from \in 0..MaxTime : Between(f, from, to) = 0
    <2> SUFFICES ASSUME NEW to, NEW from \in 0..MaxTime PROVE Between(f, from, to) = 0
      OBVIOUS
    <2>1. {t \in 0..MaxTime : from <= t /\ t < to} \in SUBSET (0..MaxTime)
      OBVIOUS
    <2>2. QED
      BY <1>2, <2>1 DEF Between
  <1>5. QED
    BY <1>3, <1>4 DEF Window

\* A charge is recorded in the window of its wallet, or opens the next one.
LEMMA SpendStep ==
    ASSUME TypeOK, Spending, AgentStep PROVE Spending'
  <1> SUFFICES ASSUME NEW w \in Wallets, NEW role \in Roles,
                      NEW tier \in Tiers, NEW amount \in Amounts \cup {0},
                      CheckPermissionAndSpend(w, role, tier, amount)
               PROVE  Spending'
    BY DEF AgentStep
  <1> DEFINE a == NewDay(agent[w])
             charged == [a EXCEPT !.daily_spent = @ + amount, !.total_operations = @ + 1]
             ws == Started(agent[w])
             d == agent[w].daily_spent
             g == granted[w]
  <1>1. CASE amount = 0
    BY <1>1 DEF CheckPermissionAndSpend, Spending, WithinLimit
  <1>2. CASE amount # 0
    <2>1. /\ agent[w].registered
          /\ a.daily_spent + amount <= a.daily_limit
          /\ agent' = [agent EXCEPT ![w] = charged]
          /\ spent' = [spent EXCEPT ![w][now] = @ + amount]
          /\ UNCHANGED <<now, granted>>
      BY <1>2 DEF CheckPermissionAndSpend
    <2>2. /\ agent[w] \in AgentIdentities /\ spent[w] \in Histories
          /\ now \in 0..MaxTime /\ now \in Int /\ now \in Nat
          /\ g \in Nat /\ amount \in Nat /\ MaxTime \in Nat
          /\ SECONDS_PER_DAY \in Nat \ {0}
          /\ spent \in [Wallets -> [0..MaxTime -> Nat]]
          /\ agent \in [Wallets -> AgentIdentities]
      BY PermissionsAssumption DEF TypeOK, Histories
    <2>3. a \in AgentIdentities
      BY <2>2, NewDayType
    <2>4. /\ agent[w].limit_reset_epoch \in Nat /\ d \in Nat
          /\ agent[w].daily_limit \in Nat
          /\ a.daily_spent \in Nat /\ a.limit_reset_epoch \in Nat
      BY <2>2, <2>3 DEF AgentIdentities
    <2>5. /\ d <= g /\ agent[w].daily_limit <= g
          /\ ws <= now /\ Window(spent[w], ws, g, d)
      BY <2>1 DEF Spending, WithinLimit
    <2>6. ws \in Int /\ ws + SECONDS_PER_DAY = agent[w].limit_reset_epoch
      BY <2>2, <2>4 DEF Started
    <2>7. /\ Started(a) \in Int /\ Started(a) <= now /\ now < Started(a) + SECONDS_PER_DAY
          /\ a.daily_limit = agent[w].daily_limit
          /\ a.registered = agent[w].registered
          /\ Window(spent[w], Started(a), g, a.daily_spent)
      <3>1. CASE now >= agent[w].limit_reset_epoch
        <4>1. /\ a.daily_spent = 0 /\ a.limit_reset_epoch = now + SECONDS_PER_DAY
              /\ a.daily_limit = agent[w].daily_limit
              /\ a.registered = agent[w].registered
          BY <2>2, <3>1 DEF NewDay, AgentIdentities
        <4>2. Started(a) = now
          BY <2>2, <4>1 DEF Started
        <4>3. Window(spent[w], now, g, 0)
          <5> HIDE DEF ws, d, g
          <5>1. ws + SECONDS_PER_DAY <= now
            BY <2>2, <2>4, <2>6, <3>1
          <5>2. QED
            BY <2>2, <2>4, <2>5, <2>6, <5>1, NextWindow
        <4>4. QED
          BY <2>2, <4>1, <4>2, <4>3
      <3>2. CASE ~(now >= agent[w].limit_reset_epoch)
        <4>1. a = agent[w]
          BY <3>2 DEF NewDay
        <4>2. QED
          BY <2>2, <2>4, <2>5, <2>6, <3>2, <4>1
      <3>3. QED
        BY <3>1, <3>2
    <2> HIDE DEF a
    <2>8. /\ charged.daily_spent = a.daily_spent + amount
          /\ charged.daily_limit = agent[w].daily_limit
          /\ charged.limit_reset_epoch = a.limit_reset_epoch
          /\ charged.registered = agent[w].registered
      BY <2>3, <2>7 DEF AgentIdentities
    <2>9. /\ agent'[w] = charged
          /\ spent'[w] = [spent[w] EXCEPT ![now] = @ + amount]
          /\ \A x \in Wallets : x # w => agent'[x] = agent[x] /\ spent'[x] = spent[x]
      BY <2>1, <2>2
    <2> HIDE DEF charged
    <2>10. WithinLimit(w)'
      <3>1. Started(agent'[w]) = Started(a)
        BY <2>8, <2>9 DEF Started
      <3>2. Window(spent'[w], Started(a), g, a.daily_spent + amount)
        BY <2>2, <2>4, <2>7, <2>9, SpendInWindow
      <3>3. /\ agent'[w].registered
            /\ agent'[w].daily_spent = a.daily_spent + amount
            /\ agent'[w].daily_limit = agent[w].daily_limit
            /\ granted'[w] = g /\ now' = now
        BY <2>1, <2>8, <2>9
      <3>4. a.daily_spent + amount <= g
        BY <2>1, <2>2, <2>4, <2>5, <2>7
      <3> HIDE DEF g
      <3>5. QED
        BY <2>5, <2>7, <3>1, <3>2, <3>3, <3>4 DEF WithinLimit
    <2>11. \A x \in Wallets : x # w => WithinLimit(x)'
      BY <2>1, <2>9 DEF Spending, WithinLimit
    <2>12. QED
      BY <2>10, <2>11 DEF Spending
  <1>3. QED
    BY <1>1, <1>2

\* No step of the admin lets a wallet's spending out of its bounds.
LEMMA AdminKeepsSpending ==
    ASSUME TypeOK, Spending, AdminStep PROVE Spending'
  <1>1. /\ agent \in [Wallets -> AgentIdentities] /\ granted \in [Wallets -> Nat]
        /\ \A w \in Wallets : spent[w] \in Histories
        /\ now \in Int /\ SECONDS_PER_DAY \in Nat \ {0}
    BY PermissionsAssumption DEF TypeOK, Histories
  <1>2. CASE UNCHANGED <<now, agent, spent, granted>>
    BY <1>2 DEF Spending, WithinLimit
  <1>3. ASSUME NEW w \in Wallets, NEW role \in GivenRoles, NEW tier \in GivenTiers,
               NEW limit \in Limits, RegisterAgent(w, role, tier, limit)
        PROVE  Spending'
    <2>1. /\ agent'[w] = [registered |-> TRUE, role |-> role, tier |-> tier,
                          daily_limit |-> limit, daily_spent |-> 0,
                          limit_reset_epoch |-> now + SECONDS_PER_DAY,
                          is_active |-> TRUE, total_operations |-> 0]
          /\ granted'[w] = limit
          /\ UNCHANGED <<now, spent>>
          /\ ~agent[w].registered
          /\ \A x \in Wallets : x # w => agent'[x] = agent[x] /\ granted'[x] = granted[x]
      BY <1>1, <1>3 DEF RegisterAgent
    <2>2. limit \in Nat
      BY PermissionsAssumption
    <2>3. \A t \in 0..MaxTime : spent[w][t] = 0
      BY <2>1 DEF Spending, WithinLimit
    <2>4. Started(agent'[w]) = now
      BY <1>1, <2>1 DEF Started
    <2>5. Window(spent[w], now, limit, 0)
      BY <1>1, <2>2, <2>3, FirstWindow
    <2>6. WithinLimit(w)'
      BY <1>1, <2>1, <2>2, <2>4, <2>5 DEF WithinLimit
    <2>7. QED
      BY <2>1, <2>6 DEF Spending, WithinLimit
  <1>4. ASSUME NEW w \in Wallets, NEW limit \in Limits, SetDailyLimit(w, limit)
        PROVE  Spending'
    <2> DEFINE d == agent[w].daily_spent
               more == Larger(granted[w], limit)
    <2>1. /\ agent'[w] = [agent[w] EXCEPT !.daily_limit = limit]
          /\ granted'[w] = more
          /\ UNCHANGED <<now, spent>>
          /\ agent[w].registered
          /\ \A x \in Wallets : x # w => agent'[x] = agent[x] /\ granted'[x] = granted[x]
      BY <1>1, <1>4 DEF SetDailyLimit
    <2>2. /\ limit \in Nat /\ granted[w] \in Nat /\ d \in Nat
          /\ agent[w].limit_reset_epoch \in Nat /\ agent[w] \in AgentIdentities
      BY <1>1, PermissionsAssumption DEF AgentIdentities
    <2>3. more \in Nat /\ granted[w] <= more /\ limit <= more
      BY <2>2 DEF Larger
    <2>4. /\ agent'[w].registered /\ agent'[w].daily_limit = limit
          /\ agent'[w].daily_spent = d
          /\ agent'[w].limit_reset_epoch = agent[w].limit_reset_epoch
      BY <2>1, <2>2 DEF AgentIdentities
    <2>5. Started(agent'[w]) = Started(agent[w]) /\ Started(agent[w]) \in Int
      BY <1>1, <2>2, <2>4 DEF Started
    <2>6. /\ d <= granted[w] /\ Started(agent[w]) <= now
          /\ Window(spent[w], Started(agent[w]), granted[w], d)
      BY <2>1 DEF Spending, WithinLimit
    <2> HIDE DEF d, more
    <2>7. Window(spent[w], Started(agent[w]), more, d)
      BY <1>1, <2>2, <2>3, <2>5, <2>6, GrantMore
    <2>8. WithinLimit(w)'
      BY <2>1, <2>2, <2>3, <2>4, <2>5, <2>6, <2>7 DEF WithinLimit
    <2>9. QED
      BY <2>1, <2>8 DEF Spending, WithinLimit
  <1>5. ASSUME NEW w \in Wallets,
               \/ \E tier \in GivenTiers : SetAgentTier(w, tier)
               \/ DeactivateAgent(w)
        PROVE  Spending'
    <2>1. /\ UNCHANGED <<now, spent, granted>>
          /\ \A x \in Wallets : /\ agent'[x].registered = agent[x].registered
                                /\ agent'[x].daily_spent = agent[x].daily_spent
                                /\ agent'[x].daily_limit = agent[x].daily_limit
                                /\ agent'[x].limit_reset_epoch = agent[x].limit_reset_epoch
      BY <1>1, <1>5 DEF SetAgentTier, DeactivateAgent, AgentIdentities
    <2>2. QED
      BY <2>1 DEF Spending, WithinLimit, Started
  <1>6. QED
    BY <1>2, <1>3, <1>4, <1>5
       DEF AdminStep, RecordLoss, ResetCircuitBreaker, EmergencyPause, Unpause,
           RequestAdminRotation, FinalizeAdminRotation, CancelAdminRotation

\* Whatever the admin grants and however an agent splits its spending, in no day
\* does it spend more than twice the largest limit it was given.
THEOREM DailySpendIsBounded == Spec => []DailySpendBounded
  <1>1. Init => Spending
    BY DEF Init, Spending, WithinLimit
  <1>2. TypeOK /\ Spending /\ [Next]_vars => Spending'
    <2> SUFFICES ASSUME TypeOK, Spending, [Next]_vars PROVE Spending'
      OBVIOUS
    <2>1. CASE Tick
      <3>1. /\ now \in Int /\ now' = now + 1 /\ UNCHANGED <<agent, spent, granted>>
            /\ SECONDS_PER_DAY \in Nat
            /\ \A w \in Wallets : agent[w].limit_reset_epoch \in Nat
        BY <2>1, PermissionsAssumption DEF Tick, permVars, TypeOK, AgentIdentities
      <3>2. \A w \in Wallets : Started(agent[w]) <= now => Started(agent[w]) <= now + 1
        BY <3>1 DEF Started
      <3>3. QED
        BY <3>1, <3>2 DEF Spending, WithinLimit
    <2>2. CASE UNCHANGED vars
      BY <2>2 DEF vars, permVars, Spending, WithinLimit
    <2>3. QED
      BY <2>1, <2>2, AdminKeepsSpending, SpendStep DEF Next
  <1>3. TypeOK /\ Spending => DailySpendBounded
    <2> SUFFICES ASSUME TypeOK, Spending, NEW w \in Wallets, NEW from \in 0..MaxTime
                 PROVE  SpentIn(w, from) <= 2 * granted[w]
      BY DEF DailySpendBounded
    <2> DEFINE d == agent[w].daily_spent
    <2>1. /\ spent[w] \in Histories /\ granted[w] \in Nat /\ d \in Nat
          /\ agent[w].limit_reset_epoch \in Nat
      BY DEF TypeOK, Histories, AgentIdentities
    <2>2. SpentIn(w, from) = Between(spent[w], from, from + SECONDS_PER_DAY)
      BY DEF SpentIn, Between, SumOf
    <2>3. CASE agent[w].registered
      <3>1. /\ d <= granted[w]
            /\ Window(spent[w], Started(agent[w]), granted[w], d)
        BY <2>3 DEF Spending, WithinLimit
      <3>2. Started(agent[w]) \in Int
        BY <2>1, PermissionsAssumption DEF Started
      <3> HIDE DEF d
      <3>3. QED
        BY <2>1, <2>2, <3>1, <3>2, DayOfWindow
    <2>4. CASE ~agent[w].registered
      <3>1. \A t \in 0..MaxTime : spent[w][t] = 0
        BY <2>4 DEF Spending, WithinLimit
      <3>2. Window(spent[w], 0, granted[w], 0)
        BY <2>1, <3>1, FirstWindow
      <3>3. QED
        BY <2>1, <2>2, <3>2, DayOfWindow
    <2>5. QED
      BY <2>3, <2>4
  <1>4. QED
    BY <1>1, <1>2, <1>3, PermissionsTypeCorrect, PTL DEF Spec

=============================================================================
