---------------------------- MODULE LendingPool ----------------------------
(***************************************************************************)
(* The lending_pool program (programs/lending_pool/src).  An instruction   *)
(* is one atomic step: a failed require!, account constraint or checked_*  *)
(* call reverts the whole transaction, so each of them is a guard.         *)
(*                                                                         *)
(* Account addresses.  A loan's PDA is seeded by the pool and the loan id; *)
(* the PDAs of an escrow and of a schedule are seeded by the loan id only, *)
(* so every pool shares them (state.rs, seeds).                            *)
(*                                                                         *)
(* Signers are not modelled: where the program compares a signer with a    *)
(* stored key, the action is a step of the holder of that key.  The        *)
(* wallets of depositors and borrowers are outside the program: a transfer *)
(* out of them succeeds when its owner chooses to fund (or delegate) it.   *)
(***************************************************************************)
EXTENDS Integers, FiniteSetsExt

CONSTANTS
    Pools,          \* pool_state accounts, one per token mint
    Borrowers,      \* borrower wallets
    Mints,          \* mints collateral can be locked in
    CollateralMint, \* [Pools -> Mints]: PoolState.collateral_mint
    MaxLoanId,      \* bound: loan ids 1..MaxLoanId are explored
    MaxTime,        \* bound: the last clock reading explored
    MAX_U64,        \* largest token amount a u64 holds
    Deposits,       \* amounts depositors bring
    Withdrawals,    \* amounts the pool authority takes out
    Payments,       \* amounts borrowers offer to repay
    Principals,     \* principals the lending agent asks for
    Pledges,        \* collateral amounts a borrower locks
    Prices,         \* collateral prices the price oracle reports
    Durations,      \* loan durations, in days
    Rates,          \* negotiated interest rates, in bps
    Scores,         \* credit scores (risk_tier, expires_at) gate 1 may read
    Counts,         \* installment counts the lending agent asks for
    Intervals,      \* installment intervals it asks for
    BaseRate,       \* PoolState.base_rate_bps
    PriceFeedDispatched  \* does lib.rs dispatch update_collateral_price?

\* The program's constants (state.rs), scaled down by the model.
CONSTANTS
    DAY, GRACE_PERIOD_SECS, SECONDS_PER_YEAR, DEFAULT_PRICE_MAX_AGE_SECS,
    BPS_DENOMINATOR, PRECISION, PRICE_UNIT,
    MAX_INTEREST_RATE_BPS, MAX_UTILIZATION_BPS, MIN_COLLATERAL_RATIO_BPS,
    MAX_LOAN_DURATION_DAYS, MAX_INSTALLMENTS,
    STARTER_MAX_PRINCIPAL, STARTER_MAX_DURATION_DAYS, STARTER_MIN_RATE_BPS

ASSUME InputsAssumption ==
    /\ Pools # {} /\ Borrowers # {} /\ Mints # {}
    /\ CollateralMint \in [Pools -> Mints]
    /\ MaxLoanId \in Nat /\ MaxTime \in Nat /\ MAX_U64 \in Nat
    /\ Deposits \subseteq Nat /\ Withdrawals \subseteq Nat /\ Payments \subseteq Nat
    /\ Principals \subseteq Nat /\ Pledges \subseteq Nat
    /\ Prices \subseteq Nat /\ Durations \subseteq Nat /\ Rates \subseteq Nat
    /\ Counts \subseteq Nat /\ Intervals \subseteq Nat
    /\ Scores \subseteq [risk_tier : Nat, expires_at : Nat]
    /\ BaseRate \in 1..MAX_INTEREST_RATE_BPS
    /\ PriceFeedDispatched \in BOOLEAN

ASSUME ProgramAssumption ==
    /\ DAY \in Nat \ {0} /\ GRACE_PERIOD_SECS \in Nat
    /\ SECONDS_PER_YEAR \in Nat \ {0} /\ BPS_DENOMINATOR \in Nat \ {0}
    /\ PRECISION \in Nat \ {0} /\ PRICE_UNIT \in Nat \ {0}
    /\ DEFAULT_PRICE_MAX_AGE_SECS \in Nat /\ MIN_COLLATERAL_RATIO_BPS \in Nat
    /\ MAX_INTEREST_RATE_BPS \in Nat /\ MAX_UTILIZATION_BPS \in Nat
    /\ MAX_LOAN_DURATION_DAYS \in Nat /\ MAX_INSTALLMENTS \in Nat
    /\ STARTER_MAX_PRINCIPAL \in Nat /\ STARTER_MAX_DURATION_DAYS \in Nat
    /\ STARTER_MIN_RATE_BPS \in Nat

LoanIds == 1..MaxLoanId

VARIABLES
    now,       \* Clock::get().unix_timestamp
    pool,      \* pool_state accounts
    vault,     \* token balance of each pool_vault
    loan,      \* loan accounts, by pool and id
    escrow,    \* escrow_state accounts with their vaults, by id
    schedule   \* installment schedules, by id

vars == <<now, pool, vault, loan, escrow, schedule>>

-----------------------------------------------------------------------------
(* Accounts.  Status "None" stands for a PDA nobody has initialised.  Of a *)
(* loan, start_time and interest_rate_bps are left out: the program stores *)
(* both and reads neither; debt follows the pool's interest index alone.   *)

PoolStates ==
    [total_deposited : Nat, total_borrowed : Nat, total_interest_earned : Nat,
     total_defaults : Nat, active_loans : Nat, total_loans_issued : Nat,
     next_loan_id : Nat \ {0}, collateral_price : Nat, price_updated_at : Nat,
     interest_index : Nat, last_update_ts : Nat]

Loans ==
    [status : {"None", "Active", "Repaid", "Defaulted"}, borrower : Borrowers,
     principal : Nat, due_date : Nat, repaid_amount : Nat,
     has_schedule : BOOLEAN, index_snapshot : Nat]

Escrows ==
    [status : {"None", "Locked", "Released", "Liquidated"},
     borrower : Borrowers, mint : Mints, amount : Nat]

Schedules ==
    [exists : BOOLEAN, is_active : BOOLEAN, pool : Pools, total : Nat,
     paid : Nat, amount_per : Nat, interval : Nat, next_due : Nat]

IsPaused(p) == FALSE    \* set by initialize_pool; no instruction writes it

Init ==
    /\ now = 0
    /\ pool = [p \in Pools |->
          [total_deposited |-> 0, total_borrowed |-> 0,
           total_interest_earned |-> 0, total_defaults |-> 0,
           active_loans |-> 0, total_loans_issued |-> 0, next_loan_id |-> 1,
           collateral_price |-> 0, price_updated_at |-> 0,
           interest_index |-> PRECISION, last_update_ts |-> 0]]
    /\ vault = [p \in Pools |-> 0]
    /\ loan = [p \in Pools |-> [i \in LoanIds |->
          [status |-> "None", borrower |-> CHOOSE b \in Borrowers : TRUE,
           principal |-> 0, due_date |-> 0, repaid_amount |-> 0,
           has_schedule |-> FALSE, index_snapshot |-> 0]]]
    /\ escrow = [i \in LoanIds |->
          [status |-> "None", borrower |-> CHOOSE b \in Borrowers : TRUE,
           mint |-> CHOOSE m \in Mints : TRUE, amount |-> 0]]
    /\ schedule = [i \in LoanIds |->
          [exists |-> FALSE, is_active |-> FALSE,
           pool |-> CHOOSE p \in Pools : TRUE, total |-> 0, paid |-> 0,
           amount_per |-> 0, interval |-> 0, next_due |-> 0]]

-----------------------------------------------------------------------------
(* Interest streaming.                                                     *)

UtilizationBps(deposited, borrowed) ==
    IF deposited = 0 THEN 0
    ELSE LET util == (borrowed * BPS_DENOMINATOR) \div deposited
         IN IF util <= BPS_DENOMINATOR THEN util ELSE BPS_DENOMINATOR

ComputeNewIndex(index, rate, elapsed) ==
    index + (index * rate * elapsed) \div (SECONDS_PER_YEAR * BPS_DENOMINATOR)

EffectiveRate(s) ==
    (BaseRate * UtilizationBps(s.total_deposited, s.total_borrowed))
        \div BPS_DENOMINATOR

\* Variant of Accrued: an idle pool returns before it moves its clock.
AccruedUnlessIdle(s) ==
    IF now <= s.last_update_ts \/ s.total_borrowed = 0 THEN s
    ELSE [s EXCEPT
            !.last_update_ts = now,
            !.interest_index =
                ComputeNewIndex(@, EffectiveRate(s), now - s.last_update_ts)]

\* A pool state after accrue_pool_state: an idle pool only moves its clock.
Accrued(s) ==
    IF now <= s.last_update_ts THEN s
    ELSE [s EXCEPT
            !.last_update_ts = now,
            !.interest_index =
                IF s.total_borrowed = 0 THEN @
                ELSE ComputeNewIndex(@, EffectiveRate(s), now - s.last_update_ts)]

ComputeInterestOwed(ln, index) ==
    IF index <= ln.index_snapshot THEN 0
    ELSE (ln.principal * (index - ln.index_snapshot)) \div PRECISION

TotalOwed(ln, index) == ln.principal + ComputeInterestOwed(ln, index)

\* Variant of Remaining: the interest streamed so far is forgotten.
RemainingPrincipal(ln, index) == ln.principal - ln.repaid_amount

Remaining(ln, index) == TotalOwed(ln, index) - ln.repaid_amount

\* checked_sub and the u64 cast of total_owed.
Owes(ln, index) ==
    /\ TotalOwed(ln, index) <= MAX_U64
    /\ ln.repaid_amount <= TotalOwed(ln, index)

-----------------------------------------------------------------------------
(* Pool liquidity.                                                         *)

Tick ==
    /\ now < MaxTime
    /\ now' = now + 1
    /\ UNCHANGED <<pool, vault, loan, escrow, schedule>>

Deposit(p, amount) ==
    /\ amount > 0
    /\ ~IsPaused(p)
    /\ vault[p] + amount <= MAX_U64
    /\ pool[p].total_deposited + amount <= MAX_U64
    /\ vault' = [vault EXCEPT ![p] = @ + amount]
    /\ pool' = [pool EXCEPT ![p].total_deposited = @ + amount]
    /\ UNCHANGED <<now, loan, escrow, schedule>>

\* Variant of Available: the withdrawal relies on the token transfer to fail.
AvailableUnchecked(s, amount) == TRUE

\* total_deposited - total_borrowed is a checked_sub.
Available(s, amount) ==
    /\ s.total_borrowed <= s.total_deposited
    /\ amount <= s.total_deposited - s.total_borrowed

Withdraw(p, amount) ==
    /\ amount > 0
    /\ Available(pool[p], amount)
    /\ amount <= vault[p]
    /\ vault' = [vault EXCEPT ![p] = @ - amount]
    /\ pool' = [pool EXCEPT ![p].total_deposited = @ - amount]
    /\ UNCHANGED <<now, loan, escrow, schedule>>

AccrueInterest(p) ==
    /\ pool' = [pool EXCEPT ![p] = Accrued(@)]
    /\ UNCHANGED <<now, vault, loan, escrow, schedule>>

SetNextLoanId(p, id) ==
    /\ id > 0
    /\ id >= pool[p].next_loan_id
    /\ pool' = [pool EXCEPT ![p].next_loan_id = id]
    /\ UNCHANGED <<now, vault, loan, escrow, schedule>>

UpdateCollateralPrice(p, price) ==
    /\ PriceFeedDispatched
    /\ price > 0
    /\ pool' = [pool EXCEPT ![p].collateral_price = price,
                            ![p].price_updated_at = now]
    /\ UNCHANGED <<now, vault, loan, escrow, schedule>>

-----------------------------------------------------------------------------
(* Origination.                                                            *)

LockCollateral(p, id, b, m, amount) ==
    /\ amount > 0
    /\ ~IsPaused(p)
    /\ id = pool[p].next_loan_id
    /\ escrow[id].status = "None"
    /\ escrow' = [escrow EXCEPT ![id] =
          [status |-> "Locked", borrower |-> b, mint |-> m, amount |-> amount]]
    /\ UNCHANGED <<now, pool, vault, loan, schedule>>

StarterProfile(principal, rate, days) ==
    /\ principal <= STARTER_MAX_PRINCIPAL
    /\ days <= STARTER_MAX_DURATION_DAYS
    /\ rate >= STARTER_MIN_RATE_BPS

ScoreGate(score, principal, rate, days) ==
    /\ score.expires_at > now
    /\ score.risk_tier >= 1 \/ StarterProfile(principal, rate, days)

CollateralValue(amount, price) == (amount * price) \div PRICE_UNIT

CollateralGate(p, s, e, b, principal) ==
    /\ e.borrower = b
    /\ e.status = "Locked"
    /\ e.amount > 0
    /\ e.mint = CollateralMint[p]
    /\ s.collateral_price > 0
    /\ now - s.price_updated_at \in 0..DEFAULT_PRICE_MAX_AGE_SECS
    /\ CollateralValue(e.amount, s.collateral_price) \in
          ((principal * MIN_COLLATERAL_RATIO_BPS) \div BPS_DENOMINATOR)..MAX_U64

UtilizationGate(s, principal) ==
    /\ s.total_borrowed + principal <= MAX_U64
    /\ UtilizationBps(s.total_deposited, s.total_borrowed + principal)
          <= MAX_UTILIZATION_BPS
    /\ Available(s, principal)

\* Gate 4, the agent's permission and spending limit, is a call into
\* agent_permissions: its effect is conjoined by the module that composes both.
ConditionalDisburse(p, id, b, score, principal, rate, days) ==
    LET s == Accrued(pool[p])
    IN
    /\ principal > 0
    /\ rate \in 1..MAX_INTEREST_RATE_BPS
    /\ days \in 1..MAX_LOAN_DURATION_DAYS
    /\ ~IsPaused(p)
    /\ id = s.next_loan_id
    /\ loan[p][id].status = "None"
    /\ ScoreGate(score, principal, rate, days)
    /\ CollateralGate(p, s, escrow[id], b, principal)
    /\ UtilizationGate(s, principal)
    /\ principal <= vault[p]
    /\ loan' = [loan EXCEPT ![p][id] =
          [status |-> "Active", borrower |-> b, principal |-> principal,
           due_date |-> now + days * DAY, repaid_amount |-> 0,
           has_schedule |-> FALSE, index_snapshot |-> s.interest_index]]
    /\ vault' = [vault EXCEPT ![p] = @ - principal]
    /\ pool' = [pool EXCEPT ![p] =
          [s EXCEPT !.total_borrowed = @ + principal,
                    !.active_loans = @ + 1,
                    !.total_loans_issued = @ + 1,
                    !.next_loan_id = @ + 1]]
    /\ UNCHANGED <<now, escrow, schedule>>

CreateSchedule(p, id, n, interval) ==
    /\ loan[p][id].status = "Active"
    /\ ~schedule[id].exists
    /\ n \in 1..MAX_INSTALLMENTS
    /\ interval > 0
    /\ ~loan[p][id].has_schedule
    /\ schedule' = [schedule EXCEPT ![id] =
          [exists |-> TRUE, is_active |-> TRUE, pool |-> p, total |-> n,
           paid |-> 0, amount_per |-> loan[p][id].principal \div n,
           interval |-> interval, next_due |-> now + interval]]
    /\ loan' = [loan EXCEPT ![p][id].has_schedule = TRUE]
    /\ UNCHANGED <<now, pool, vault, escrow>>

-----------------------------------------------------------------------------
(* Repayment, default and the end of the escrow.                           *)

\* The pool's side of closing a loan that has repaid the given amount.
CanSettle(s, ln, repaid) ==
    /\ ln.principal <= s.total_borrowed
    /\ ln.principal <= repaid
    /\ s.active_loans > 0
    /\ s.total_interest_earned + (repaid - ln.principal) <= MAX_U64

\* Variant of Settled: the whole repayment is taken off the amount borrowed.
SettledByRepayment(s, ln, repaid) ==
    [s EXCEPT !.total_borrowed = @ - repaid,
              !.total_interest_earned = @ + (repaid - ln.principal),
              !.active_loans = @ - 1]

Settled(s, ln, repaid) ==
    [s EXCEPT !.total_borrowed = @ - ln.principal,
              !.total_interest_earned = @ + (repaid - ln.principal),
              !.active_loans = @ - 1]

\* Credit `paid` to loan i of pool q in pool p, closing the loan if `closes`.
Credit(p, s, q, id, paid, closes) ==
    LET ln == loan[q][id]
        repaid == ln.repaid_amount + paid
    IN
    /\ repaid <= MAX_U64
    /\ vault[p] + paid <= MAX_U64
    /\ closes => CanSettle(s, ln, repaid)
    /\ vault' = [vault EXCEPT ![p] = @ + paid]
    /\ loan' = [loan EXCEPT ![q][id].repaid_amount = repaid,
                            ![q][id].status = IF closes THEN "Repaid" ELSE @]
    /\ pool' = [pool EXCEPT ![p] =
          IF closes THEN Settled(s, ln, repaid) ELSE s]

Repay(p, id, amount) ==
    LET s == Accrued(pool[p])
        ln == loan[p][id]
        remaining == Remaining(ln, s.interest_index)
        paid == IF amount <= remaining THEN amount ELSE remaining
    IN
    /\ amount > 0
    /\ ln.status = "Active"
    /\ Owes(ln, s.interest_index)
    /\ Credit(p, s, p, id, paid,
              ln.repaid_amount + paid >= TotalOwed(ln, s.interest_index))
    /\ UNCHANGED <<now, escrow, schedule>>

\* Variant of InstallmentDue: installments can be pulled early.
InstallmentLeft(sch) == sch.exists /\ sch.is_active /\ sch.paid < sch.total

InstallmentDue(sch) ==
    /\ sch.exists /\ sch.is_active
    /\ now >= sch.next_due
    /\ sch.paid < sch.total

\* The loan is tied to the schedule by its id alone, and the pool to neither.
PullInstallment(p, q, id) ==
    LET s == Accrued(pool[p])
        ln == loan[q][id]
        sch == schedule[id]
        is_last == sch.paid + 1 = sch.total
        pull_amount == IF is_last THEN Remaining(ln, s.interest_index)
                       ELSE sch.amount_per
    IN
    /\ InstallmentDue(sch)
    /\ ln.status = "Active"
    /\ is_last => Owes(ln, s.interest_index)
    /\ Credit(p, s, q, id, pull_amount, is_last)
    /\ schedule' = [schedule EXCEPT ![id] =
          [sch EXCEPT !.paid = @ + 1,
                      !.next_due = @ + sch.interval,
                      !.is_active = ~is_last]]
    /\ UNCHANGED <<now, escrow>>

MarkDefault(p, id) ==
    LET s == Accrued(pool[p])
        ln == loan[p][id]
        debt == Remaining(ln, s.interest_index)
    IN
    /\ ln.status = "Active"
    /\ now > ln.due_date + GRACE_PERIOD_SECS
    /\ Owes(ln, s.interest_index)
    /\ ln.principal <= s.total_borrowed
    /\ s.total_defaults + debt <= MAX_U64
    /\ debt <= s.total_deposited
    /\ s.active_loans > 0
    /\ loan' = [loan EXCEPT ![p][id].status = "Defaulted"]
    /\ pool' = [pool EXCEPT ![p] =
          [s EXCEPT !.total_borrowed = @ - ln.principal,
                    !.total_defaults = @ + debt,
                    !.total_deposited = @ - debt,
                    !.active_loans = @ - 1]]
    /\ UNCHANGED <<now, vault, escrow, schedule>>

\* Variant of ReleaseCollateral: any loan that did not default gets it back.
ReleaseUnlessDefaulted(p, id) ==
    /\ loan[p][id].status \in {"Active", "Repaid"}
    /\ escrow[id].status = "Locked"
    /\ escrow' = [escrow EXCEPT ![id].status = "Released"]
    /\ UNCHANGED <<now, pool, vault, loan, schedule>>

ReleaseCollateral(p, id) ==
    /\ loan[p][id].status = "Repaid"
    /\ escrow[id].status = "Locked"
    /\ escrow' = [escrow EXCEPT ![id].status = "Released"]
    /\ UNCHANGED <<now, pool, vault, loan, schedule>>

\* Variant of LiquidateEscrow: an overdue loan is liquidated unmarked.
LiquidateOverdue(p, id) ==
    /\ loan[p][id].status \in {"Active", "Defaulted"}
    /\ now > loan[p][id].due_date + GRACE_PERIOD_SECS
    /\ escrow[id].status = "Locked"
    /\ escrow' = [escrow EXCEPT ![id].status = "Liquidated"]
    /\ UNCHANGED <<now, pool, vault, loan, schedule>>

LiquidateEscrow(p, id) ==
    /\ loan[p][id].status = "Defaulted"
    /\ escrow[id].status = "Locked"
    /\ escrow' = [escrow EXCEPT ![id].status = "Liquidated"]
    /\ UNCHANGED <<now, pool, vault, loan, schedule>>

-----------------------------------------------------------------------------

Lend(p) ==
    \E id \in LoanIds, b \in Borrowers, score \in Scores,
       a \in Principals, rate \in Rates, days \in Durations :
       ConditionalDisburse(p, id, b, score, a, rate, days)

\* Everything a pool does but lend.
Service(p) ==
    \/ \E a \in Deposits : Deposit(p, a)
    \/ \E a \in Withdrawals : Withdraw(p, a)
    \/ AccrueInterest(p)
    \/ \E id \in 1..(MaxLoanId + 1) : SetNextLoanId(p, id)
    \/ \E price \in Prices : UpdateCollateralPrice(p, price)
    \/ \E id \in LoanIds, b \in Borrowers, m \in Mints, a \in Pledges :
          LockCollateral(p, id, b, m, a)
    \/ \E id \in LoanIds, n \in Counts, i \in Intervals :
          CreateSchedule(p, id, n, i)
    \/ \E id \in LoanIds, a \in Payments : Repay(p, id, a)
    \/ \E q \in Pools, id \in LoanIds : PullInstallment(p, q, id)
    \/ \E id \in LoanIds : MarkDefault(p, id)
    \/ \E id \in LoanIds : ReleaseCollateral(p, id)
    \/ \E id \in LoanIds : LiquidateEscrow(p, id)

Step(p) == Lend(p) \/ Service(p)

Next == Tick \/ \E p \in Pools : Step(p)

Spec == Init /\ [][Next]_vars

-----------------------------------------------------------------------------
(* Properties.                                                             *)

\* Every account holds values of its type.
TypeOK ==
    /\ now \in Nat
    /\ pool \in [Pools -> PoolStates]
    /\ vault \in [Pools -> Nat]
    /\ loan \in [Pools -> [LoanIds -> Loans]]
    /\ escrow \in [LoanIds -> Escrows]
    /\ schedule \in [LoanIds -> Schedules]

LoansIn(p, status) == {id \in LoanIds : loan[p][id].status = status}

SumOver(p, status, f(_)) ==
    SumFunctionOnSet([id \in LoanIds |-> f(loan[p][id])], LoansIn(p, status))

Principal(ln) == ln.principal
Repaid(ln) == ln.repaid_amount
WrittenOff(ln) == ln.principal - ln.repaid_amount

\* The pool's counters are those of its open loans, and the tokens in its vault
\* are exactly what the books say: liquidity not lent out, plus what open loans
\* have paid back, plus interest earned; a default writes the whole debt off
\* the deposits although only its principal ever left the vault.
BooksBalance ==
    \A p \in Pools :
        /\ pool[p].total_borrowed = SumOver(p, "Active", Principal)
        /\ pool[p].active_loans = Cardinality(LoansIn(p, "Active"))
        /\ vault[p] = pool[p].total_deposited - pool[p].total_borrowed
                      + SumOver(p, "Active", Repaid)
                      + pool[p].total_interest_earned + pool[p].total_defaults
                      - SumOver(p, "Defaulted", WrittenOff)

\* While a loan is open, the collateral it was granted against sits in escrow,
\* in its borrower's name: no other loan's end can move it
\* (lock_collateral.rs:17, "loan_id ties escrow to exactly one loan").
CollateralHeld ==
    \A p \in Pools, id \in LoanIds :
        loan[p][id].status = "Active" =>
            /\ escrow[id].status = "Locked"
            /\ escrow[id].borrower = loan[p][id].borrower
            /\ escrow[id].amount > 0

\* A schedule belongs to the loan it was created for and never runs ahead of
\* it: no installment before its due date, every pulled installment credited,
\* and a finished schedule means a repaid loan, whatever else was repaid
\* beside it (create_schedule.rs, the AUDIT notes of both handlers).
ScheduleTracksLoan ==
    \A id \in LoanIds :
        LET s == schedule[id]
            ln == loan[s.pool][id]
        IN s.exists =>
             /\ ln.has_schedule
             /\ ln.status # "None"
             /\ s.next_due - s.interval <= now
             /\ s.paid * s.amount_per <= ln.repaid_amount
             /\ s.is_active <=> s.paid < s.total
             /\ ~s.is_active => ln.status = "Repaid"

\* A loan is closed as repaid only by paying exactly its principal and the
\* interest streamed up to this very moment.
ClosedInFull ==
    [][\A p \in Pools, id \in LoanIds :
          loan[p][id].status # "Repaid" /\ loan'[p][id].status = "Repaid" =>
              /\ pool'[p].last_update_ts = now
              /\ loan'[p][id].repaid_amount =
                    TotalOwed(loan[p][id], pool'[p].interest_index)]_vars

\* Whatever opens, pays or ends a loan sees an interest index that is accrued
\* to the current clock (accrue_interest.rs:37-38).
FreshIndex ==
    [][\A p \in Pools, id \in LoanIds :
          \/ loan'[p][id].status # loan[p][id].status
          \/ loan'[p][id].repaid_amount # loan[p][id].repaid_amount
          => pool'[p].last_update_ts = now]_vars

-----------------------------------------------------------------------------
(* The life of a loan, as one pool implements it.                          *)

ThePool == CHOOSE p \in Pools : TRUE

StageOf(id) ==
    LET ln == loan[ThePool][id].status
        esc == escrow[id].status
    IN CASE esc = "None" -> "vacant"
         [] esc # "None" /\ ln = "None" -> "pledged"
         [] esc # "None" /\ ln = "Active" -> "funded"
         [] esc = "Locked" /\ ln = "Repaid" -> "repaid"
         [] esc = "Locked" /\ ln = "Defaulted" -> "defaulted"
         [] esc = "Released" /\ ln = "Repaid" -> "returned"
         [] esc = "Liquidated" /\ ln = "Defaulted" -> "seized"
         [] OTHER -> "broken"

Lifecycle == INSTANCE LoanLifecycle WITH
    stage <- [id \in LoanIds |-> StageOf(id)],
    cursor <- pool[ThePool].next_loan_id

\* The steps of a pool are steps of the life cycle of its loans: no operation
\* takes a loan or its collateral where the life cycle does not lead.
ImplementsLifecycle == Lifecycle!Spec

=============================================================================
