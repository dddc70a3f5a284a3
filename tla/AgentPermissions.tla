-------------------------- MODULE AgentPermissions --------------------------
(***************************************************************************)
(* The agent_permissions program (programs/agent_permissions/src/lib.rs):  *)
(* who may spend how much, the pause, the circuit breaker and the rotation *)
(* of the admin key.  An instruction is one atomic step; a failed require! *)
(* or checked_* reverts it.  An instruction only the admin may sign is a   *)
(* step of whoever holds that key.                                         *)
(*                                                                         *)
(* Three history variables, which no instruction reads, record what the    *)
(* accounts forget: spent, granted and announced.                          *)
(***************************************************************************)
EXTENDS Integers, FiniteSetsExt

CONSTANTS
    Wallets,        \* agent wallets
    Admins,         \* keys that may become admin
    NoKey,          \* Pubkey::default()
    MaxTime,        \* bound: the last clock reading explored
    MAX_U64,        \* largest token amount a u64 holds
    U16_RANGE,      \* number of values of a u16
    Candidates,     \* keys the admin asks to rotate to
    GivenRoles,     \* roles the admin registers agents with
    GivenTiers,     \* tiers the admin tries to give them
    Limits,         \* daily limits it sets
    Amounts,        \* amounts agents spend
    Losses,         \* losses the admin records
    DepositLevels   \* pool deposits the admin reports with a loss

\* The program's constants (lib.rs:11-19), scaled down by the model.
CONSTANTS SECONDS_PER_DAY, ROTATION_DELAY_SECS, CIRCUIT_BREAKER_LOSS_BPS, BPS

ASSUME PermissionsAssumption ==
    /\ NoKey \notin Admins /\ Admins # {}
    /\ Candidates \subseteq Admins \cup {NoKey}
    /\ GivenRoles \subseteq {"Oracle", "Lending", "Collection", "Yield"}
    /\ GivenTiers \subseteq 0..3
    /\ MaxTime \in Nat /\ MAX_U64 \in Nat /\ U16_RANGE \in Nat \ {0}
    /\ Limits \subseteq Nat /\ Amounts \subseteq Nat
    /\ Losses \subseteq Nat /\ DepositLevels \subseteq Nat
    /\ SECONDS_PER_DAY \in Nat \ {0} /\ ROTATION_DELAY_SECS \in Nat
    /\ CIRCUIT_BREAKER_LOSS_BPS \in Nat \ {0} /\ BPS \in Nat \ {0}

VARIABLES
    now,        \* Clock::get().unix_timestamp
    perm,       \* the perm_state account
    agent,      \* agent_identity accounts, by wallet
    spent,      \* history: what each wallet spent at each time
    granted,    \* history: the largest limit each wallet ever had
    announced   \* history: since when the pending admin has been pending

permVars == <<perm, agent, spent, granted, announced>>
vars == <<now, permVars>>

Roles == {"Oracle", "Lending", "Collection", "Yield"}

\* PermissionTier as u8; Admin is the key's own tier, never an agent's.
Read == 0
Operate == 1
Manage == 2
Admin == 3
Tiers == Read..Admin

PermStates ==
    [admin : Admins, is_paused : BOOLEAN, circuit_breaker_active : BOOLEAN,
     losses_24h : Nat, deposits_snapshot : Nat, snapshot_timestamp : Nat,
     pending_admin : Admins \cup {NoKey}, rotation_request_time : Nat]

AgentIdentities ==
    [registered : BOOLEAN, role : Roles, tier : Tiers \ {Admin},
     daily_limit : Nat, daily_spent : Nat, limit_reset_epoch : Nat,
     is_active : BOOLEAN, total_operations : Nat]

Init ==
    /\ now = 0
    /\ \E key \in Admins : perm =
          [admin |-> key, is_paused |-> FALSE, circuit_breaker_active |-> FALSE,
           losses_24h |-> 0, deposits_snapshot |-> 0, snapshot_timestamp |-> 0,
           pending_admin |-> NoKey, rotation_request_time |-> 0]
    /\ agent = [w \in Wallets |->
          [registered |-> FALSE, role |-> "Oracle", tier |-> Read,
           daily_limit |-> 0, daily_spent |-> 0, limit_reset_epoch |-> 0,
           is_active |-> FALSE, total_operations |-> 0]]
    /\ spent = [w \in Wallets |-> [t \in 0..MaxTime |-> 0]]
    /\ granted = [w \in Wallets |-> 0]
    /\ announced = 0

Larger(a, b) == IF a <= b THEN b ELSE a

-----------------------------------------------------------------------------
(* Agents.                                                                 *)

Tick ==
    /\ now < MaxTime
    /\ now' = now + 1
    /\ UNCHANGED permVars

RegisterAgent(w, role, tier, limit) ==
    /\ ~agent[w].registered
    /\ limit > 0
    /\ tier # Admin
    /\ agent' = [agent EXCEPT ![w] =
          [registered |-> TRUE, role |-> role, tier |-> tier,
           daily_limit |-> limit, daily_spent |-> 0,
           limit_reset_epoch |-> now + SECONDS_PER_DAY,
           is_active |-> TRUE, total_operations |-> 0]]
    /\ granted' = [granted EXCEPT ![w] = limit]
    /\ UNCHANGED <<now, perm, spent, announced>>

HasPermission(tier, required) == tier >= required

\* Variant of NewDay: the day once over, the counter is reset by every call.
NewDayForEver(a) ==
    IF now >= a.limit_reset_epoch THEN [a EXCEPT !.daily_spent = 0] ELSE a

\* An agent's account with its daily counter reset if its day is over.
NewDay(a) ==
    IF now >= a.limit_reset_epoch
    THEN [a EXCEPT !.daily_spent = 0,
                   !.limit_reset_epoch = now + SECONDS_PER_DAY]
    ELSE a

\* Variant of CheckPermissionAndSpend: only the breaker stops an agent.
SpendUnlessTripped(w, role, tier, amount) ==
    LET a == NewDay(agent[w])
    IN
    /\ ~perm.circuit_breaker_active
    /\ agent[w].registered
    /\ agent[w].is_active
    /\ agent[w].role = role
    /\ HasPermission(agent[w].tier, tier)
    /\ a.daily_spent + amount <= a.daily_limit
    /\ agent' = [agent EXCEPT ![w] = [a EXCEPT !.daily_spent = @ + amount]]
    /\ spent' = [spent EXCEPT ![w][now] = @ + amount]
    /\ UNCHANGED <<now, perm, granted, announced>>

CheckPermissionAndSpend(w, role, tier, amount) ==
    LET a == NewDay(agent[w])
    IN
    /\ ~perm.is_paused
    /\ ~perm.circuit_breaker_active
    /\ agent[w].registered
    /\ agent[w].is_active
    /\ agent[w].role = role
    /\ HasPermission(agent[w].tier, tier)
    /\ IF amount = 0 THEN UNCHANGED <<agent, spent>>
       ELSE /\ a.daily_spent + amount <= a.daily_limit
            /\ agent' = [agent EXCEPT ![w] =
                  [a EXCEPT !.daily_spent = @ + amount,
                            !.total_operations = @ + 1]]
            /\ spent' = [spent EXCEPT ![w][now] = @ + amount]
    /\ UNCHANGED <<now, perm, granted, announced>>

SetDailyLimit(w, limit) ==
    /\ agent[w].registered
    /\ limit > 0
    /\ agent' = [agent EXCEPT ![w].daily_limit = limit]
    /\ granted' = [granted EXCEPT ![w] = Larger(@, limit)]
    /\ UNCHANGED <<now, perm, spent, announced>>

SetAgentTier(w, tier) ==
    /\ agent[w].registered
    /\ tier # Admin
    /\ agent' = [agent EXCEPT ![w].tier = tier]
    /\ UNCHANGED <<now, perm, spent, granted, announced>>

DeactivateAgent(w) ==
    /\ agent[w].registered
    /\ agent' = [agent EXCEPT ![w].is_active = FALSE]
    /\ UNCHANGED <<now, perm, spent, granted, announced>>

-----------------------------------------------------------------------------
(* Circuit breaker and pause.                                              *)

\* perm_state with a fresh 24h window if the last one is over.
Windowed(s, current_deposits) ==
    IF now - s.snapshot_timestamp > SECONDS_PER_DAY
    THEN [s EXCEPT !.losses_24h = 0,
                   !.deposits_snapshot = current_deposits,
                   !.snapshot_timestamp = now]
    ELSE s

\* The ratio is cut down to a u16.
LossBps(losses, deposits) == ((losses * BPS) \div deposits) % U16_RANGE

Trips(losses, deposits) ==
    deposits > 0 /\ LossBps(losses, deposits) >= CIRCUIT_BREAKER_LOSS_BPS

RecordLoss(loss_amount, current_deposits) ==
    LET s == Windowed(perm, current_deposits)
        losses == s.losses_24h + loss_amount
        trips == Trips(losses, s.deposits_snapshot)
    IN
    /\ losses <= MAX_U64
    /\ perm' = [s EXCEPT !.losses_24h = losses,
                         !.circuit_breaker_active = @ \/ trips,
                         !.is_paused = @ \/ trips]
    /\ UNCHANGED <<now, agent, spent, granted, announced>>

\* Variant of ResetCircuitBreaker: the losses stay on the books.
ResetKeepingLosses ==
    /\ perm' = [perm EXCEPT !.circuit_breaker_active = FALSE,
                            !.snapshot_timestamp = now]
    /\ UNCHANGED <<now, agent, spent, granted, announced>>

ResetCircuitBreaker ==
    /\ perm' = [perm EXCEPT !.circuit_breaker_active = FALSE,
                            !.losses_24h = 0,
                            !.snapshot_timestamp = now]
    /\ UNCHANGED <<now, agent, spent, granted, announced>>

EmergencyPause ==
    /\ perm' = [perm EXCEPT !.is_paused = TRUE]
    /\ UNCHANGED <<now, agent, spent, granted, announced>>

\* Variant of Unpause: it does not look at the breaker.
UnpauseAnyway ==
    /\ perm' = [perm EXCEPT !.is_paused = FALSE]
    /\ UNCHANGED <<now, agent, spent, granted, announced>>

Unpause ==
    /\ ~perm.circuit_breaker_active
    /\ perm' = [perm EXCEPT !.is_paused = FALSE]
    /\ UNCHANGED <<now, agent, spent, granted, announced>>

-----------------------------------------------------------------------------
(* Admin rotation.                                                         *)

\* Variant of RequestAdminRotation: the clock of a pending request runs on.
RequestOnRunningClock(key) ==
    /\ perm' = [perm EXCEPT !.pending_admin = key,
                            !.rotation_request_time =
                                IF perm.pending_admin = NoKey THEN now ELSE @]
    /\ announced' = IF key = perm.pending_admin THEN announced ELSE now
    /\ UNCHANGED <<now, agent, spent, granted>>

RequestAdminRotation(key) ==
    /\ perm' = [perm EXCEPT !.pending_admin = key,
                            !.rotation_request_time = now]
    /\ announced' = IF key = perm.pending_admin THEN announced ELSE now
    /\ UNCHANGED <<now, agent, spent, granted>>

\* Signed by the admin or by the pending admin.
FinalizeAdminRotation ==
    /\ perm.pending_admin # NoKey
    /\ now - perm.rotation_request_time >= ROTATION_DELAY_SECS
    /\ perm' = [perm EXCEPT !.admin = perm.pending_admin,
                            !.pending_admin = NoKey,
                            !.rotation_request_time = 0]
    /\ UNCHANGED <<now, agent, spent, granted, announced>>

CancelAdminRotation ==
    /\ perm' = [perm EXCEPT !.pending_admin = NoKey,
                            !.rotation_request_time = 0]
    /\ UNCHANGED <<now, agent, spent, granted, announced>>

-----------------------------------------------------------------------------

AdminStep ==
    \/ \E w \in Wallets, role \in GivenRoles, tier \in GivenTiers, limit \in Limits :
          RegisterAgent(w, role, tier, limit)
    \/ \E w \in Wallets, limit \in Limits : SetDailyLimit(w, limit)
    \/ \E w \in Wallets, tier \in GivenTiers : SetAgentTier(w, tier)
    \/ \E w \in Wallets : DeactivateAgent(w)
    \/ \E loss \in Losses, deposits \in DepositLevels : RecordLoss(loss, deposits)
    \/ ResetCircuitBreaker
    \/ EmergencyPause
    \/ Unpause
    \/ \E key \in Candidates : RequestAdminRotation(key)
    \/ FinalizeAdminRotation
    \/ CancelAdminRotation

\* An agent may call check_permission_and_spend itself, and so run down its
\* own limit, as well as through lending_pool.
AgentStep ==
    \E w \in Wallets, role \in Roles, tier \in Tiers, amount \in Amounts \cup {0} :
        CheckPermissionAndSpend(w, role, tier, amount)

Next == Tick \/ AdminStep \/ AgentStep

Spec == Init /\ [][Next]_vars

-----------------------------------------------------------------------------
(* Properties.                                                             *)

\* The accounts are well typed; no agent ever holds the Admin tier.
TypeOK ==
    /\ now \in 0..MaxTime
    /\ perm \in PermStates
    /\ agent \in [Wallets -> AgentIdentities]
    /\ spent \in [Wallets -> [0..MaxTime -> Nat]]
    /\ granted \in [Wallets -> Nat]
    /\ announced \in Nat

\* A tripped breaker keeps the system paused, through every pause, unpause,
\* reset and new 24h window, until the admin has reset it (lib.rs:357-359).
BreakerPauses == perm.circuit_breaker_active => perm.is_paused

\* Losses of the current window that reach the threshold have tripped the
\* breaker, if the window has a snapshot of the deposits and the ratio fits its
\* u16.
BreakerTrips ==
    LET ratio == (perm.losses_24h * BPS) \div perm.deposits_snapshot
    IN perm.deposits_snapshot > 0 /\ ratio < U16_RANGE
          => (ratio >= CIRCUIT_BREAKER_LOSS_BPS => perm.circuit_breaker_active)

SpentIn(w, from) ==
    SumFunctionOnSet(spent[w],
                     {t \in 0..MaxTime : from <= t /\ t < from + SECONDS_PER_DAY})

\* However an agent splits its spending and whenever its limit is changed, it
\* spends in no 24 hours more than twice the largest limit it was ever given:
\* the rest of one window and the whole of the next.
DailySpendBounded ==
    \A w \in Wallets, from \in 0..MaxTime : SpentIn(w, from) <= 2 * granted[w]

\* The admin changes only to a key that everybody could see pending, without
\* interruption, for the whole rotation delay (lib.rs:388-390).
RotationDelayed ==
    [][perm'.admin # perm.admin =>
          /\ perm'.admin = perm.pending_admin
          /\ now - announced >= ROTATION_DELAY_SECS]_vars

=============================================================================
