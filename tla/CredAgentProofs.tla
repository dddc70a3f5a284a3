---------------------------- MODULE CredAgentProofs ----------------------------
(***************************************************************************)
(* The pools, the three programs together and the dashboard over the       *)
(* pools, for every value of the constants.                                *)
(*                                                                         *)
(* First LendingPool: its types, what the program never does as it is      *)
(* dispatched, and, of one pool, who holds the collateral, what interest a *)
(* payment sees, that schedules stay in step with their loans, and that    *)
(* the books balance.  Pools share the escrows and schedules of equal loan *)
(* ids: with two of them the collateral of an open loan may leave          *)
(* (TwoPools.cfg), and an installment that is credited to one pool may be  *)
(* of a loan of the other.                                                 *)
(*                                                                         *)
(* Then CredAgent: each step of the system is a step of the pools, of the  *)
(* permissions and of the oracle, so the theorems about each hold of all;  *)
(* and three facts that no program shows alone: no pool lends while the    *)
(* system is paused, every loan rests on a fresh score, and all that was   *)
(* ever lent is covered by what was charged to the agents.                 *)
(*                                                                         *)
(* Last Dashboard, over the pools: what its pages show was so, they never  *)
(* ask for more than is due, and a loan they say has started is there.     *)
(* All of it rests on LedgerNeverTakesBack: whatever is read of a loan or  *)
(* an index keeps its meaning while it is carried over awaits.             *)
(***************************************************************************)
EXTENDS CredAgent, Dashboard, SetSums

-----------------------------------------------------------------------------
(* Arithmetic.                                                             *)

\* Products and quotients of the interest formulas are natural numbers.
LEMMA ProductNat == ASSUME NEW a \in Nat, NEW b \in Nat PROVE a * b \in Nat
  OBVIOUS

LEMMA QuotientNat ==
    ASSUME NEW a \in Nat, NEW b \in Nat \ {0} PROVE a \div b \in Nat
  OBVIOUS

\* Utilisation is a rate between 0 and 100% (state.rs, utilization_bps).
LEMMA UtilizationRange ==
    ASSUME NEW d \in Nat, NEW b \in Nat
    PROVE  UtilizationBps(d, b) \in 0..BPS_DENOMINATOR
  <1>1. b * BPS_DENOMINATOR \in Nat
    BY ProgramAssumption, ProductNat
  <1>2. CASE d = 0
    BY <1>2, ProgramAssumption DEF UtilizationBps
  <1>3. CASE d # 0
    <2>1. (b * BPS_DENOMINATOR) \div d \in Nat
      BY <1>1, <1>3, QuotientNat
    <2>2. QED
      BY <1>3, <2>1, ProgramAssumption DEF UtilizationBps
  <1>4. QED
    BY <1>2, <1>3

\* The interest index only grows when it is accrued.
LEMMA IndexGrows ==
    ASSUME NEW i \in Nat, NEW r \in Nat, NEW t \in Nat
    PROVE  /\ ComputeNewIndex(i, r, t) \in Nat
           /\ i <= ComputeNewIndex(i, r, t)
  <1>1. i * r * t \in Nat
    BY ProductNat
  <1>2. SECONDS_PER_YEAR * BPS_DENOMINATOR \in Nat \ {0}
    BY ProgramAssumption
  <1>3. (i * r * t) \div (SECONDS_PER_YEAR * BPS_DENOMINATOR) \in Nat
    BY <1>1, <1>2, QuotientNat
  <1>4. QED
    BY <1>3 DEF ComputeNewIndex

LEMMA EffectiveRateNat ==
    ASSUME NEW s \in PoolStates PROVE EffectiveRate(s) \in Nat
  <1>1. UtilizationBps(s.total_deposited, s.total_borrowed) \in Nat
    BY UtilizationRange, ProgramAssumption DEF PoolStates
  <1>2. BaseRate * UtilizationBps(s.total_deposited, s.total_borrowed) \in Nat
    BY <1>1, ProductNat, InputsAssumption, ProgramAssumption
  <1>3. QED
    BY <1>2, QuotientNat, ProgramAssumption DEF EffectiveRate

\* accrue_pool_state touches the interest index and its clock, nothing else.
LEMMA AccruedFacts ==
    ASSUME NEW s \in PoolStates, now \in Nat
    PROVE  /\ Accrued(s) \in PoolStates
           /\ s.interest_index <= Accrued(s).interest_index
           /\ s.last_update_ts <= now => Accrued(s).last_update_ts = now
           /\ Accrued(s).total_deposited = s.total_deposited
           /\ Accrued(s).total_borrowed = s.total_borrowed
           /\ Accrued(s).active_loans = s.active_loans
           /\ Accrued(s).total_interest_earned = s.total_interest_earned
           /\ Accrued(s).total_defaults = s.total_defaults
           /\ Accrued(s).next_loan_id = s.next_loan_id
           /\ Accrued(s).collateral_price = s.collateral_price
  <1> DEFINE elapsed == now - s.last_update_ts
  <1>1. CASE now <= s.last_update_ts
    BY <1>1 DEF Accrued, PoolStates
  <1>2. CASE ~(now <= s.last_update_ts)
    <2>1. /\ elapsed \in Nat
          /\ s.interest_index \in Nat
          /\ EffectiveRate(s) \in Nat
      BY <1>2, EffectiveRateNat DEF PoolStates
    <2> HIDE DEF elapsed
    <2>2. /\ ComputeNewIndex(s.interest_index, EffectiveRate(s), elapsed) \in Nat
          /\ s.interest_index <=
               ComputeNewIndex(s.interest_index, EffectiveRate(s), elapsed)
      BY <2>1, IndexGrows
    <2> DEFINE index == IF s.total_borrowed = 0 THEN s.interest_index
                        ELSE ComputeNewIndex(s.interest_index, EffectiveRate(s), elapsed)
               fresh == [s EXCEPT !.last_update_ts = now, !.interest_index = index]
    <2>3. Accrued(s) = fresh
      BY <1>2 DEF Accrued, PoolStates, elapsed
    <2>4. index \in Nat /\ s.interest_index <= index
      BY <2>1, <2>2
    <2> HIDE DEF index
    <2>5. /\ fresh \in PoolStates
          /\ fresh.interest_index = index
          /\ fresh.last_update_ts = now
          /\ fresh.total_deposited = s.total_deposited
          /\ fresh.total_borrowed = s.total_borrowed
          /\ fresh.active_loans = s.active_loans
          /\ fresh.total_interest_earned = s.total_interest_earned
          /\ fresh.total_defaults = s.total_defaults
          /\ fresh.next_loan_id = s.next_loan_id
          /\ fresh.collateral_price = s.collateral_price
      BY <2>4 DEF PoolStates
    <2> HIDE DEF fresh
    <2>6. QED
      BY <2>3, <2>4, <2>5
  <1>3. QED
    BY <1>1, <1>2

\* A loan owes at least its principal.
LEMMA OwedNat ==
    ASSUME NEW ln \in Loans, NEW i \in Nat
    PROVE  /\ TotalOwed(ln, i) \in Nat
           /\ ln.principal <= TotalOwed(ln, i)
  <1>1. CASE i <= ln.index_snapshot
    BY <1>1 DEF TotalOwed, ComputeInterestOwed, Loans
  <1>2. CASE ~(i <= ln.index_snapshot)
    <2>1. ln.principal \in Nat /\ i - ln.index_snapshot \in Nat
      BY <1>2 DEF Loans
    <2>2. ln.principal * (i - ln.index_snapshot) \in Nat
      BY <2>1, ProductNat
    <2>3. (ln.principal * (i - ln.index_snapshot)) \div PRECISION \in Nat
      BY <2>2, QuotientNat, ProgramAssumption
    <2>4. QED
      BY <1>2, <2>1, <2>3 DEF TotalOwed, ComputeInterestOwed
  <1>3. QED
    BY <1>1, <1>2 DEF Loans

\* What is left to pay of a debt the program can represent.
LEMMA RemainingNat ==
    ASSUME NEW ln \in Loans, NEW i \in Nat, Owes(ln, i)
    PROVE  Remaining(ln, i) \in Nat
  BY OwedNat DEF Owes, Remaining, Loans

-----------------------------------------------------------------------------
(* Type correctness.                                                       *)

\* Records stay in their record set when fields are given values of their
\* types: the writes of a disbursement, of a repayment, of a default, of one
\* credited payment and of one pulled installment.
LEMMA LentWrites ==
    ASSUME NEW s \in PoolStates, NEW b \in Nat, NEW n \in Nat, NEW i \in Nat,
           NEW k \in Nat \ {0}
    PROVE  [s EXCEPT !.total_borrowed = b, !.active_loans = n,
                     !.total_loans_issued = i, !.next_loan_id = k] \in PoolStates
  BY Zenon DEF PoolStates

LEMMA SettledWrites ==
    ASSUME NEW s \in PoolStates, NEW b \in Nat, NEW e \in Nat, NEW n \in Nat
    PROVE  [s EXCEPT !.total_borrowed = b, !.total_interest_earned = e,
                     !.active_loans = n] \in PoolStates
  BY Zenon DEF PoolStates

LEMMA DefaultWrites ==
    ASSUME NEW s \in PoolStates, NEW b \in Nat, NEW x \in Nat, NEW d \in Nat,
           NEW n \in Nat
    PROVE  [s EXCEPT !.total_borrowed = b, !.total_defaults = x,
                     !.total_deposited = d, !.active_loans = n] \in PoolStates
  BY Zenon DEF PoolStates

LEMMA LoanWrites ==
    ASSUME NEW ln \in Loans, NEW r \in Nat,
           NEW st \in {"None", "Active", "Repaid", "Defaulted"}
    PROVE  [ln EXCEPT !.repaid_amount = r, !.status = st] \in Loans
  BY Zenon DEF Loans

LEMMA ScheduleWrites ==
    ASSUME NEW sch \in Schedules, NEW k \in Nat, NEW due \in Nat,
           NEW on \in BOOLEAN
    PROVE  [sch EXCEPT !.paid = k, !.next_due = due, !.is_active = on] \in Schedules
  BY Zenon DEF Schedules

LEMMA InitType == Init => TypeOK
  <1> SUFFICES ASSUME Init PROVE TypeOK
    OBVIOUS
  <1>1. /\ (CHOOSE b \in Borrowers : TRUE) \in Borrowers
        /\ (CHOOSE m \in Mints : TRUE) \in Mints
        /\ (CHOOSE p \in Pools : TRUE) \in Pools
    BY InputsAssumption
  <1>2. pool \in [Pools -> PoolStates]
    BY ProgramAssumption DEF Init, PoolStates
  <1>3. loan \in [Pools -> [LoanIds -> Loans]]
    BY <1>1 DEF Init, Loans
  <1>4. escrow \in [LoanIds -> Escrows]
    BY <1>1 DEF Init, Escrows
  <1>5. schedule \in [LoanIds -> Schedules]
    BY <1>1 DEF Init, Schedules
  <1>6. QED
    BY <1>2, <1>3, <1>4, <1>5 DEF Init, TypeOK

\* Crediting a payment keeps the three accounts it writes well typed.
LEMMA CreditType ==
    ASSUME TypeOK, NEW p \in Pools, NEW q \in Pools, NEW id \in LoanIds,
           NEW s \in PoolStates, NEW paid \in Nat, NEW closes \in BOOLEAN,
           Credit(p, s, q, id, paid, closes)
    PROVE  /\ pool' \in [Pools -> PoolStates]
           /\ vault' \in [Pools -> Nat]
           /\ loan' \in [Pools -> [LoanIds -> Loans]]
  <1> DEFINE ln == loan[q][id]
             repaid == ln.repaid_amount + paid
             paidLoan == [ln EXCEPT !.repaid_amount = repaid,
                                    !.status = IF closes THEN "Repaid" ELSE @]
  <1>1. ln \in Loans
    BY DEF TypeOK
  <1>a. repaid \in Nat
    BY <1>1 DEF Loans
  <1>2. paidLoan \in Loans
    <2>1. (IF closes THEN "Repaid" ELSE ln.status)
             \in {"None", "Active", "Repaid", "Defaulted"}
      BY <1>1 DEF Loans
    <2> HIDE DEF repaid
    <2>2. QED
      BY <1>a, <1>1, <2>1, LoanWrites
  <1>3. vault' \in [Pools -> Nat]
    BY DEF TypeOK, Credit
  <1>4. loan' = [loan EXCEPT ![q] = [loan[q] EXCEPT ![id] = paidLoan]]
    <2>1. /\ loan \in [Pools -> [LoanIds -> Loans]]
          /\ loan' = [loan EXCEPT ![q][id].repaid_amount = repaid,
                                  ![q][id].status = IF closes THEN "Repaid" ELSE @]
      BY DEF TypeOK, Credit
    <2> HIDE DEF repaid
    <2>2. QED
      BY <2>1 DEF Loans
  <1>5. loan' \in [Pools -> [LoanIds -> Loans]]
    <2> HIDE DEF paidLoan
    <2>1. QED
      BY <1>2, <1>4 DEF TypeOK
  <1>6. closes => Settled(s, ln, repaid) \in PoolStates
    <2> SUFFICES ASSUME closes PROVE Settled(s, ln, repaid) \in PoolStates
      OBVIOUS
    <2>1. /\ s.total_borrowed - ln.principal \in Nat
          /\ s.total_interest_earned + (repaid - ln.principal) \in Nat
          /\ s.active_loans - 1 \in Nat
      BY <1>1, <1>a DEF Credit, CanSettle, PoolStates, Loans
    <2> HIDE DEF ln, repaid
    <2>2. QED
      BY <2>1, SettledWrites DEF Settled
  <1>7. pool' \in [Pools -> PoolStates]
    BY <1>6 DEF TypeOK, Credit
  <1>8. QED
    BY <1>3, <1>5, <1>7

LEMMA StepType ==
    ASSUME TypeOK, NEW p \in Pools, Step(p) PROVE TypeOK'
  <1> DEFINE s == Accrued(pool[p])
  <1>1. s \in PoolStates /\ pool[p] \in PoolStates
    BY AccruedFacts DEF TypeOK
  <1>a. s.interest_index \in Nat /\ now \in Nat
    BY <1>1 DEF TypeOK, PoolStates
  <1> HIDE DEF s
  <1>2. ASSUME NEW a \in Deposits, Deposit(p, a) PROVE TypeOK'
    <2>1. [pool[p] EXCEPT !.total_deposited = @ + a] \in PoolStates
      BY <1>1, InputsAssumption DEF PoolStates
    <2>2. QED
      BY <1>2, <2>1, InputsAssumption DEF Deposit, TypeOK
  <1>3. ASSUME NEW a \in Withdrawals, Withdraw(p, a) PROVE TypeOK'
    <2>1. [pool[p] EXCEPT !.total_deposited = @ - a] \in PoolStates
      BY <1>1, <1>3, InputsAssumption DEF Withdraw, Available, PoolStates
    <2>2. QED
      BY <1>3, <2>1, InputsAssumption DEF Withdraw, TypeOK
  <1>4. CASE AccrueInterest(p)
    BY <1>1, <1>4 DEF AccrueInterest, TypeOK, s
  <1>5. ASSUME NEW id \in 1..(MaxLoanId + 1), SetNextLoanId(p, id) PROVE TypeOK'
    <2>1. [pool[p] EXCEPT !.next_loan_id = id] \in PoolStates
      BY <1>1, InputsAssumption DEF PoolStates
    <2>2. QED
      BY <1>5, <2>1 DEF SetNextLoanId, TypeOK
  <1>6. ASSUME NEW price \in Prices, UpdateCollateralPrice(p, price) PROVE TypeOK'
    <2>1. [pool[p] EXCEPT !.collateral_price = price, !.price_updated_at = now]
             \in PoolStates
      BY <1>1, <1>a, InputsAssumption DEF PoolStates
    <2>2. pool' = [pool EXCEPT ![p] =
             [pool[p] EXCEPT !.collateral_price = price, !.price_updated_at = now]]
      BY <1>6, <1>1 DEF UpdateCollateralPrice, TypeOK, PoolStates
    <2>3. QED
      BY <1>6, <2>1, <2>2 DEF UpdateCollateralPrice, TypeOK
  <1>7. ASSUME NEW id \in LoanIds, NEW b \in Borrowers, NEW m \in Mints,
               NEW a \in Pledges, LockCollateral(p, id, b, m, a)
        PROVE  TypeOK'
    <2>1. [status |-> "Locked", borrower |-> b, mint |-> m, amount |-> a] \in Escrows
      BY InputsAssumption DEF Escrows
    <2>2. QED
      BY <1>7, <2>1 DEF LockCollateral, TypeOK
  <1>8. ASSUME NEW id \in LoanIds, NEW b \in Borrowers, NEW score \in Scores,
               NEW a \in Principals, NEW rate \in Rates, NEW days \in Durations,
               ConditionalDisburse(p, id, b, score, a, rate, days)
        PROVE  TypeOK'
    <2> DEFINE new == [status |-> "Active", borrower |-> b, principal |-> a,
                       due_date |-> now + days * DAY, repaid_amount |-> 0,
                       has_schedule |-> FALSE,
                       index_snapshot |-> s.interest_index]
               lent == [s EXCEPT !.total_borrowed = @ + a,
                                 !.active_loans = @ + 1,
                                 !.total_loans_issued = @ + 1,
                                 !.next_loan_id = @ + 1]
    <2>1. a \in Nat /\ days * DAY \in Nat
      BY ProductNat, InputsAssumption, ProgramAssumption
    <2>2. new \in Loans
      BY <1>a, <2>1 DEF Loans
    <2>b. /\ s.total_borrowed + a \in Nat
          /\ s.active_loans + 1 \in Nat
          /\ s.total_loans_issued + 1 \in Nat
          /\ s.next_loan_id + 1 \in Nat \ {0}
      BY <1>1, <2>1 DEF PoolStates
    <2>3. lent \in PoolStates
      BY <1>1, <2>b, LentWrites
    <2> HIDE DEF new, lent
    <2>4. /\ loan' = [loan EXCEPT ![p] = [loan[p] EXCEPT ![id] = new]]
          /\ pool' = [pool EXCEPT ![p] = lent]
          /\ vault' = [vault EXCEPT ![p] = @ - a]
          /\ a <= vault[p]
          /\ UNCHANGED <<now, escrow, schedule>>
      BY <1>8 DEF ConditionalDisburse, new, lent, s
    <2>5. QED
      BY <2>1, <2>2, <2>3, <2>4 DEF TypeOK
  <1>9. ASSUME NEW id \in LoanIds, NEW n \in Counts, NEW i \in Intervals,
               CreateSchedule(p, id, n, i)
        PROVE  TypeOK'
    <2> DEFINE new == [exists |-> TRUE, is_active |-> TRUE, pool |-> p,
                       total |-> n, paid |-> 0,
                       amount_per |-> loan[p][id].principal \div n,
                       interval |-> i, next_due |-> now + i]
    <2>1. loan[p][id] \in Loans
      BY DEF TypeOK
    <2>2. loan[p][id].principal \div n \in Nat
      BY <1>9, <2>1, QuotientNat, ProgramAssumption DEF CreateSchedule, Loans
    <2>3. new \in Schedules
      BY <1>a, <2>2, InputsAssumption DEF Schedules
    <2>4. [loan[p][id] EXCEPT !.has_schedule = TRUE] \in Loans
      BY <2>1 DEF Loans
    <2>5. QED
      BY <1>9, <2>3, <2>4 DEF CreateSchedule, TypeOK
  <1>10. ASSUME NEW id \in LoanIds, NEW a \in Payments, Repay(p, id, a)
         PROVE  TypeOK'
    <2> DEFINE ln == loan[p][id]
               remaining == Remaining(ln, s.interest_index)
               paid == IF a <= remaining THEN a ELSE remaining
               closes == ln.repaid_amount + paid >= TotalOwed(ln, s.interest_index)
    <2>1. ln \in Loans
      BY DEF TypeOK
    <2>2. /\ Owes(ln, s.interest_index)
          /\ Credit(p, s, p, id, paid, closes)
          /\ UNCHANGED <<now, escrow, schedule>>
      BY <1>10 DEF Repay, s
    <2>3. remaining \in Nat
      BY <1>a, <2>1, <2>2, RemainingNat
    <2>4. paid \in Nat
      BY <2>3, InputsAssumption
    <2>5. closes \in BOOLEAN
      OBVIOUS
    <2> HIDE DEF paid, closes
    <2>6. QED
      BY <1>1, <2>2, <2>4, <2>5, CreditType DEF TypeOK
  <1>11. ASSUME NEW q \in Pools, NEW id \in LoanIds, PullInstallment(p, q, id)
         PROVE  TypeOK'
    <2> DEFINE ln == loan[q][id]
               sch == schedule[id]
               is_last == sch.paid + 1 = sch.total
               amount == IF is_last THEN Remaining(ln, s.interest_index)
                         ELSE sch.amount_per
               next == [sch EXCEPT !.paid = @ + 1,
                                   !.next_due = @ + sch.interval,
                                   !.is_active = ~is_last]
    <2>1. ln \in Loans /\ sch \in Schedules
      BY DEF TypeOK
    <2>a. /\ is_last => Owes(ln, s.interest_index)
          /\ UNCHANGED <<now, escrow>>
      BY <1>11 DEF PullInstallment, s
    <2>2. is_last => Remaining(ln, s.interest_index) \in Nat
      BY <1>a, <2>1, <2>a, RemainingNat
    <2>c. Credit(p, s, q, id, amount, is_last)
      BY <1>11 DEF PullInstallment, s
    <2>3. schedule' = [schedule EXCEPT ![id] = next]
      BY <1>11 DEF PullInstallment
    <2>4. amount \in Nat
      BY <2>1, <2>2 DEF Schedules
    <2>b. /\ sch.paid + 1 \in Nat
          /\ sch.next_due + sch.interval \in Nat
          /\ (~is_last) \in BOOLEAN
      BY <2>1 DEF Schedules
    <2>5. next \in Schedules
      BY <2>1, <2>b, ScheduleWrites
    <2> HIDE DEF amount, next, is_last
    <2>6. is_last \in BOOLEAN
      BY DEF is_last
    <2>7. QED
      BY <1>1, <2>a, <2>c, <2>3, <2>4, <2>5, <2>6, CreditType DEF TypeOK
  <1>12. ASSUME NEW id \in LoanIds, MarkDefault(p, id) PROVE TypeOK'
    <2> DEFINE ln == loan[p][id]
               debt == Remaining(ln, s.interest_index)
               wrote == [s EXCEPT !.total_borrowed = @ - ln.principal,
                                  !.total_defaults = @ + debt,
                                  !.total_deposited = @ - debt,
                                  !.active_loans = @ - 1]
    <2>1. ln \in Loans
      BY DEF TypeOK
    <2>3. /\ Owes(ln, s.interest_index)
          /\ ln.principal <= s.total_borrowed
          /\ debt <= s.total_deposited
          /\ s.active_loans > 0
          /\ loan' = [loan EXCEPT ![p][id].status = "Defaulted"]
          /\ pool' = [pool EXCEPT ![p] = wrote]
          /\ UNCHANGED <<now, vault, escrow, schedule>>
      BY <1>12 DEF MarkDefault, s
    <2>4. debt \in Nat /\ ln.principal \in Nat
      BY <1>a, <2>1, <2>3, RemainingNat DEF Loans
    <2> HIDE DEF debt
    <2>b. /\ s.total_borrowed - ln.principal \in Nat
          /\ s.total_defaults + debt \in Nat
          /\ s.total_deposited - debt \in Nat
          /\ s.active_loans - 1 \in Nat
      BY <1>1, <2>3, <2>4 DEF PoolStates
    <2>5. wrote \in PoolStates
      BY <1>1, <2>b, DefaultWrites
    <2>6. [ln EXCEPT !.status = "Defaulted"] \in Loans
      BY <2>1 DEF Loans
    <2> HIDE DEF wrote
    <2>7. QED
      BY <2>3, <2>5, <2>6 DEF TypeOK
  <1>13. ASSUME NEW id \in LoanIds,
                ReleaseCollateral(p, id) \/ LiquidateEscrow(p, id)
         PROVE  TypeOK'
    <2>1. \A st \in {"Released", "Liquidated"} :
             [escrow[id] EXCEPT !.status = st] \in Escrows
      BY DEF TypeOK, Escrows
    <2>2. QED
      BY <1>13, <2>1 DEF ReleaseCollateral, LiquidateEscrow, TypeOK
  <1>14. QED
    BY <1>2, <1>3, <1>4, <1>5, <1>6, <1>7, <1>8, <1>9, <1>10, <1>11, <1>12,
       <1>13 DEF Step, Lend, Service

\* Every reachable state is well typed: no amount, counter or remainder the
\* program computes by subtraction goes below zero.
THEOREM TypeCorrect == Spec => []TypeOK
  <1>1. TypeOK /\ [Next]_vars => TypeOK'
    <2> SUFFICES ASSUME TypeOK, [Next]_vars PROVE TypeOK'
      OBVIOUS
    <2>1. CASE Tick
      BY <2>1 DEF Tick, TypeOK
    <2>2. ASSUME NEW p \in Pools, Step(p) PROVE TypeOK'
      BY <2>2, StepType
    <2>3. CASE UNCHANGED vars
      BY <2>3 DEF vars, TypeOK
    <2>4. QED
      BY <2>1, <2>2, <2>3 DEF Next
  <1>2. QED
    BY InitType, <1>1, PTL DEF Spec

-----------------------------------------------------------------------------
(* The program as it is dispatched.                                        *)

\* No pool has a price for its collateral, and none has lent.
Unpriced ==
    \A p \in Pools :
        /\ pool[p].collateral_price = 0
        /\ \A id \in LoanIds : loan[p][id].status = "None"

\* Without the price feed a disbursement is stopped by gate 2, and what else a
\* pool does to a loan asks for one that was disbursed.
LEMMA StepUnpriced ==
    ASSUME ~PriceFeedDispatched, TypeOK, Unpriced, NEW p \in Pools, Step(p)
    PROVE  Unpriced'
  <1> DEFINE s == Accrued(pool[p])
  <1>1. /\ pool \in [Pools -> PoolStates]
        /\ s.collateral_price = 0
    BY AccruedFacts DEF TypeOK, Unpriced
  <1> HIDE DEF s
  <1>2. ASSUME NEW v, v.collateral_price = 0, pool' = [pool EXCEPT ![p] = v], loan' = loan
        PROVE  Unpriced'
    BY <1>1, <1>2 DEF Unpriced
  <1>3. ASSUME NEW a, Deposit(p, a) \/ Withdraw(p, a) PROVE Unpriced'
    <2>1. PICK v : pool' = [pool EXCEPT ![p] = [pool[p] EXCEPT !.total_deposited = v]]
      BY <1>3 DEF Deposit, Withdraw
    <2>2. [pool[p] EXCEPT !.total_deposited = v].collateral_price = 0
      BY <1>1 DEF PoolStates, Unpriced
    <2>3. QED
      BY <1>2, <1>3, <2>1, <2>2 DEF Deposit, Withdraw
  <1>4. CASE AccrueInterest(p)
    BY <1>1, <1>2, <1>4 DEF AccrueInterest, s
  <1>5. ASSUME NEW id, SetNextLoanId(p, id) PROVE Unpriced'
    <2>1. pool' = [pool EXCEPT ![p] = [pool[p] EXCEPT !.next_loan_id = id]]
      BY <1>5 DEF SetNextLoanId
    <2>2. [pool[p] EXCEPT !.next_loan_id = id].collateral_price = 0
      BY <1>1 DEF PoolStates, Unpriced
    <2>3. QED
      BY <1>2, <1>5, <2>1, <2>2 DEF SetNextLoanId
  <1>6. ASSUME NEW id \in LoanIds, NEW b, NEW m, NEW a,
               LockCollateral(p, id, b, m, a) \/ ReleaseCollateral(p, id)
                  \/ LiquidateEscrow(p, id)
        PROVE  Unpriced'
    BY <1>6 DEF LockCollateral, ReleaseCollateral, LiquidateEscrow, Unpriced
  <1>7. ASSUME NEW price PROVE ~UpdateCollateralPrice(p, price)
    BY DEF UpdateCollateralPrice
  <1>8. ASSUME NEW id \in LoanIds, NEW b, NEW score, NEW a, NEW rate, NEW days
        PROVE  ~ConditionalDisburse(p, id, b, score, a, rate, days)
    BY <1>1 DEF ConditionalDisburse, CollateralGate, s
  <1>9. ASSUME NEW id \in LoanIds, NEW q \in Pools, NEW a, NEW n, NEW i
        PROVE  /\ ~CreateSchedule(p, id, n, i)
               /\ ~Repay(p, id, a)
               /\ ~PullInstallment(p, q, id)
               /\ ~MarkDefault(p, id)
    BY DEF Unpriced, CreateSchedule, Repay, PullInstallment, MarkDefault
  <1>10. QED
    BY <1>3, <1>4, <1>5, <1>6, <1>7, <1>8, <1>9 DEF Step, Lend, Service

\* With the instructions lib.rs dispatches (lib.rs:13-97), which do not include
\* update_collateral_price, no pool ever disburses a loan.
THEOREM UnpricedPoolNeverLends ==
    ASSUME ~PriceFeedDispatched PROVE Spec => []Unpriced
  <1>1. Init => Unpriced
    BY DEF Init, Unpriced
  <1>2. TypeOK /\ Unpriced /\ [Next]_vars => Unpriced'
    <2> SUFFICES ASSUME TypeOK, Unpriced, [Next]_vars PROVE Unpriced'
      OBVIOUS
    <2>1. CASE Tick \/ UNCHANGED vars
      BY <2>1 DEF Tick, vars, Unpriced
    <2>2. ASSUME NEW p \in Pools, Step(p) PROVE Unpriced'
      BY <2>2, StepUnpriced
    <2>3. QED
      BY <2>1, <2>2 DEF Next
  <1>3. QED
    BY <1>1, <1>2, TypeCorrect, PTL DEF Spec

OnePool == \A p, q \in Pools : p = q

\* A loan and the escrow under its id agree: the inductive invariant.  The
\* first three conjuncts say that a granted loan has an escrow with collateral
\* of its borrower, the others which escrow goes with which status.
Agree(ln, esc) ==
    /\ ln.status # "None" => esc.status # "None"
    /\ ln.status # "None" => esc.borrower = ln.borrower
    /\ ln.status # "None" => esc.amount > 0
    /\ ln.status = "None" => esc.status \in {"None", "Locked"}
    /\ ln.status = "Active" => esc.status = "Locked"
    /\ ln.status = "Repaid" => esc.status \in {"Locked", "Released"}
    /\ ln.status = "Defaulted" => esc.status \in {"Locked", "Liquidated"}

Custody == \A p \in Pools, id \in LoanIds : Agree(loan[p][id], escrow[id])

-----------------------------------------------------------------------------
(* What a step does to statuses, borrowers and loan ids.                   *)

\* The loan keeps its status and its borrower.
SameLoan(p, id) ==
    /\ loan'[p][id].status = loan[p][id].status
    /\ loan'[p][id].borrower = loan[p][id].borrower

SameLoansBut(p, id) ==
    \A q \in Pools, i \in LoanIds : q # p \/ i # id => SameLoan(q, i)

\* A loan changes its status and keeps its borrower.
Moves(p, id, from, to) ==
    /\ loan[p][id].status = from
    /\ loan'[p][id].status = to
    /\ loan'[p][id].borrower = loan[p][id].borrower
    /\ SameLoansBut(p, id)

SameIds == \A p \in Pools : pool'[p].next_loan_id = pool[p].next_loan_id

\* Money and time move, loans and escrows stay as they are.
Quiet ==
    /\ escrow' = escrow
    /\ \A p \in Pools, id \in LoanIds : SameLoan(p, id)
    /\ \A p \in Pools :
          \/ pool'[p].next_loan_id = pool[p].next_loan_id
          \/ pool'[p].next_loan_id \in pool[p].next_loan_id..(MaxLoanId + 1)

Pledged(p, id, b, a) ==
    /\ id = pool[p].next_loan_id
    /\ escrow[id].status = "None"
    /\ a > 0
    /\ \E m \in Mints : escrow' = [escrow EXCEPT ![id] =
          [status |-> "Locked", borrower |-> b, mint |-> m, amount |-> a]]
    /\ \A q \in Pools, i \in LoanIds : SameLoan(q, i)
    /\ SameIds

Granted(p, id, b) ==
    /\ id = pool[p].next_loan_id
    /\ loan[p][id].status = "None"
    /\ loan'[p][id].status = "Active"
    /\ loan'[p][id].borrower = b
    /\ SameLoansBut(p, id)
    /\ escrow[id].status = "Locked"
    /\ escrow[id].borrower = b
    /\ escrow[id].amount > 0
    /\ escrow' = escrow
    /\ pool'[p].next_loan_id = id + 1

Closed(p, id, to) ==
    /\ Moves(p, id, "Active", to)
    /\ escrow' = escrow
    /\ SameIds

Paid(p, id, outcome, to) ==
    /\ loan[p][id].status = outcome
    /\ escrow[id].status = "Locked"
    /\ escrow' = [escrow EXCEPT ![id].status = to]
    /\ \A q \in Pools, i \in LoanIds : SameLoan(q, i)
    /\ SameIds

\* Every step of a pool is one of these.
Effect(p) ==
    \/ Quiet
    \/ \E id \in LoanIds, b \in Borrowers, a \in Pledges : Pledged(p, id, b, a)
    \/ \E id \in LoanIds, b \in Borrowers : Granted(p, id, b)
    \/ \E q \in Pools, id \in LoanIds :
          Closed(q, id, "Repaid") \/ Closed(q, id, "Defaulted")
    \/ \E id \in LoanIds :
          \/ Paid(p, id, "Repaid", "Released")
          \/ Paid(p, id, "Defaulted", "Liquidated")

\* A payment leaves the loans quiet or closes one of them.
LEMMA CreditEffect ==
    ASSUME TypeOK, NEW p \in Pools, NEW q \in Pools, NEW id \in LoanIds,
           NEW s \in PoolStates, s.next_loan_id = pool[p].next_loan_id,
           NEW paid \in Nat, NEW closes \in BOOLEAN,
           loan[q][id].status = "Active",
           Credit(p, s, q, id, paid, closes), escrow' = escrow
    PROVE  Quiet \/ Closed(q, id, "Repaid")
  <1> DEFINE status == IF closes THEN "Repaid" ELSE loan[q][id].status
             repaid == loan[q][id].repaid_amount + paid
             paidLoan == [loan[q][id] EXCEPT !.repaid_amount = repaid,
                                             !.status = status]
  <1>1. loan \in [Pools -> [LoanIds -> Loans]] /\ pool \in [Pools -> PoolStates]
    BY DEF TypeOK
  <1>2. loan' = [loan EXCEPT ![q] = [loan[q] EXCEPT ![id] = paidLoan]]
    <2>1. loan' = [loan EXCEPT ![q][id].repaid_amount = repaid,
                               ![q][id].status = IF closes THEN "Repaid" ELSE @]
      BY DEF Credit
    <2> HIDE DEF repaid
    <2>2. QED
      BY <1>1, <2>1 DEF Loans
  <1>3. /\ paidLoan.status = status
        /\ paidLoan.borrower = loan[q][id].borrower
    <2> HIDE DEF status, repaid
    <2>1. QED
      BY <1>1 DEF Loans
  <1>4. /\ loan'[q][id].status = status
        /\ loan'[q][id].borrower = loan[q][id].borrower
        /\ SameLoansBut(q, id)
    <2> HIDE DEF paidLoan, status
    <2>1. QED
      BY <1>1, <1>2, <1>3 DEF SameLoansBut, SameLoan
  <1>5. SameIds
    <2>1. (IF closes THEN Settled(s, loan[q][id], repaid) ELSE s).next_loan_id
             = pool[p].next_loan_id
      BY DEF Settled, PoolStates
    <2>2. pool' = [pool EXCEPT ![p] =
                     IF closes THEN Settled(s, loan[q][id], repaid) ELSE s]
      BY DEF Credit
    <2>3. QED
      BY <1>1, <2>1, <2>2 DEF SameIds
  <1>6. pool[p].next_loan_id \in Nat /\ \A r \in Pools : pool[r].next_loan_id \in Nat
    BY <1>1 DEF PoolStates
  <1>7. CASE closes
    BY <1>4, <1>5, <1>7 DEF Closed, Moves
  <1>8. CASE ~closes
    BY <1>4, <1>5, <1>6, <1>8 DEF Quiet, SameIds, SameLoan, SameLoansBut
  <1>9. QED
    BY <1>7, <1>8

LEMMA StepEffect ==
    ASSUME TypeOK, NEW p \in Pools, Step(p) PROVE Effect(p)
  <1> DEFINE s == Accrued(pool[p])
  <1>1. /\ s \in PoolStates /\ pool[p] \in PoolStates
        /\ s.next_loan_id = pool[p].next_loan_id
        /\ s.interest_index \in Nat
    BY AccruedFacts DEF TypeOK, PoolStates
  <1>2. /\ loan \in [Pools -> [LoanIds -> Loans]]
        /\ pool \in [Pools -> PoolStates]
        /\ escrow \in [LoanIds -> Escrows]
        /\ \A q \in Pools : pool[q].next_loan_id \in Nat
    BY DEF TypeOK, PoolStates
  <1> HIDE DEF s
  <1>3. ASSUME loan' = loan, escrow' = escrow, SameIds PROVE Quiet
    BY <1>2, <1>3 DEF Quiet, SameIds, SameLoan
  <1>4. ASSUME NEW a, Deposit(p, a) \/ Withdraw(p, a) PROVE Effect(p)
    <2>1. PICK v : pool' = [pool EXCEPT ![p].total_deposited = v]
      BY <1>4 DEF Deposit, Withdraw
    <2>a. SameIds
      BY <1>2, <2>1 DEF SameIds, PoolStates
    <2>2. QED
      BY <1>3, <1>4, <2>a DEF Deposit, Withdraw, Effect
  <1>5. CASE AccrueInterest(p)
    <2>1. SameIds
      BY <1>1, <1>2, <1>5 DEF AccrueInterest, SameIds, s
    <2>2. QED
      BY <1>3, <1>5, <2>1 DEF AccrueInterest, Effect
  <1>6. ASSUME NEW id \in 1..(MaxLoanId + 1), SetNextLoanId(p, id) PROVE Effect(p)
    <2>1. \A q \in Pools :
             \/ pool'[q].next_loan_id = pool[q].next_loan_id
             \/ pool'[q].next_loan_id \in pool[q].next_loan_id..(MaxLoanId + 1)
      BY <1>2, <1>6, InputsAssumption DEF SetNextLoanId, PoolStates
    <2>2. QED
      BY <1>6, <2>1 DEF SetNextLoanId, Effect, Quiet, SameLoan
  <1>7. ASSUME NEW price \in Prices, UpdateCollateralPrice(p, price) PROVE Effect(p)
    <2>1. SameIds
      BY <1>2, <1>7 DEF UpdateCollateralPrice, SameIds, PoolStates
    <2>2. QED
      BY <1>3, <1>7, <2>1 DEF UpdateCollateralPrice, Effect
  <1>8. ASSUME NEW id \in LoanIds, NEW b \in Borrowers, NEW m \in Mints,
               NEW a \in Pledges, LockCollateral(p, id, b, m, a)
        PROVE  Effect(p)
    <2>1. Pledged(p, id, b, a)
      BY <1>8 DEF LockCollateral, Pledged, SameLoan, SameIds
    <2>2. QED
      BY <2>1 DEF Effect
  <1>9. ASSUME NEW id \in LoanIds, NEW b \in Borrowers, NEW score \in Scores,
               NEW a \in Principals, NEW rate \in Rates, NEW days \in Durations,
               ConditionalDisburse(p, id, b, score, a, rate, days)
        PROVE  Effect(p)
    <2> DEFINE new == [status |-> "Active", borrower |-> b, principal |-> a,
                       due_date |-> now + days * DAY, repaid_amount |-> 0,
                       has_schedule |-> FALSE,
                       index_snapshot |-> s.interest_index]
               lent == [s EXCEPT !.total_borrowed = @ + a,
                                 !.active_loans = @ + 1,
                                 !.total_loans_issued = @ + 1,
                                 !.next_loan_id = @ + 1]
    <2>1. /\ loan' = [loan EXCEPT ![p] = [loan[p] EXCEPT ![id] = new]]
          /\ pool' = [pool EXCEPT ![p] = lent]
          /\ id = s.next_loan_id
          /\ loan[p][id].status = "None"
          /\ CollateralGate(p, s, escrow[id], b, a)
          /\ UNCHANGED escrow
      BY <1>9 DEF ConditionalDisburse, s
    <2>2. lent.next_loan_id = id + 1
      BY <1>1, <2>1 DEF PoolStates
    <2>3. new.status = "Active" /\ new.borrower = b
      OBVIOUS
    <2> HIDE DEF new, lent
    <2>4. /\ loan'[p][id] = new
          /\ SameLoansBut(p, id)
          /\ pool'[p].next_loan_id = id + 1
      BY <1>2, <2>1, <2>2 DEF SameLoansBut, SameLoan
    <2>5. Granted(p, id, b)
      BY <1>1, <2>1, <2>3, <2>4 DEF Granted, CollateralGate
    <2>6. QED
      BY <2>5 DEF Effect
  <1>10. ASSUME NEW id \in LoanIds, NEW n \in Counts, NEW i \in Intervals,
                CreateSchedule(p, id, n, i)
         PROVE  Effect(p)
    <2> DEFINE new == [loan[p][id] EXCEPT !.has_schedule = TRUE]
    <2>1. /\ loan' = [loan EXCEPT ![p] = [loan[p] EXCEPT ![id] = new]]
          /\ UNCHANGED <<pool, escrow>>
      BY <1>2, <1>10 DEF CreateSchedule
    <2>2. new.status = loan[p][id].status /\ new.borrower = loan[p][id].borrower
      BY <1>2 DEF Loans
    <2> HIDE DEF new
    <2>3. \A q \in Pools, j \in LoanIds : SameLoan(q, j)
      BY <1>2, <2>1, <2>2 DEF SameLoan
    <2>4. QED
      BY <1>2, <2>1, <2>3 DEF Effect, Quiet
  <1>11. ASSUME NEW id \in LoanIds, NEW a \in Payments, Repay(p, id, a)
         PROVE  Effect(p)
    <2> DEFINE ln == loan[p][id]
               remaining == Remaining(ln, s.interest_index)
               paid == IF a <= remaining THEN a ELSE remaining
               closes == ln.repaid_amount + paid >= TotalOwed(ln, s.interest_index)
    <2>1. /\ Owes(ln, s.interest_index)
          /\ ln.status = "Active"
          /\ Credit(p, s, p, id, paid, closes)
          /\ escrow' = escrow
      BY <1>11 DEF Repay, s
    <2>2. paid \in Nat /\ closes \in BOOLEAN
      BY <1>1, <1>2, <2>1, RemainingNat, InputsAssumption
    <2> HIDE DEF paid, closes
    <2>3. QED
      BY <1>1, <2>1, <2>2, CreditEffect DEF Effect
  <1>12. ASSUME NEW q \in Pools, NEW id \in LoanIds, PullInstallment(p, q, id)
         PROVE  Effect(p)
    <2> DEFINE ln == loan[q][id]
               sch == schedule[id]
               is_last == sch.paid + 1 = sch.total
               amount == IF is_last THEN Remaining(ln, s.interest_index)
                         ELSE sch.amount_per
    <2>1. /\ is_last => Owes(ln, s.interest_index)
          /\ ln.status = "Active"
          /\ Credit(p, s, q, id, amount, is_last)
          /\ escrow' = escrow
      BY <1>12 DEF PullInstallment, s
    <2>2. is_last => Remaining(ln, s.interest_index) \in Nat
      BY <1>1, <1>2, <2>1, RemainingNat
    <2>3. amount \in Nat /\ is_last \in BOOLEAN
      BY <2>2 DEF TypeOK, Schedules
    <2> HIDE DEF amount, is_last
    <2>4. QED
      BY <1>1, <2>1, <2>3, CreditEffect DEF Effect
  <1>13. ASSUME NEW id \in LoanIds, MarkDefault(p, id) PROVE Effect(p)
    <2> DEFINE ln == loan[p][id]
               new == [ln EXCEPT !.status = "Defaulted"]
               debt == Remaining(ln, s.interest_index)
               wrote == [s EXCEPT !.total_borrowed = @ - ln.principal,
                                  !.total_defaults = @ + debt,
                                  !.total_deposited = @ - debt,
                                  !.active_loans = @ - 1]
    <2>1. /\ ln.status = "Active"
          /\ loan' = [loan EXCEPT ![p] = [loan[p] EXCEPT ![id] = new]]
          /\ pool' = [pool EXCEPT ![p] = wrote]
          /\ escrow' = escrow
      BY <1>2, <1>13 DEF MarkDefault, s
    <2>2. /\ wrote.next_loan_id = pool[p].next_loan_id
          /\ new.status = "Defaulted" /\ new.borrower = ln.borrower
      BY <1>1, <1>2 DEF PoolStates, Loans
    <2> HIDE DEF new, wrote
    <2>3. Moves(p, id, "Active", "Defaulted") /\ SameIds
      BY <1>2, <2>1, <2>2 DEF Moves, SameLoansBut, SameLoan, SameIds
    <2>4. QED
      BY <2>1, <2>3 DEF Effect, Closed
  <1>14. ASSUME NEW id \in LoanIds,
                ReleaseCollateral(p, id) \/ LiquidateEscrow(p, id)
         PROVE  Effect(p)
    BY <1>14 DEF ReleaseCollateral, LiquidateEscrow, Effect, Paid, SameLoan, SameIds
  <1>15. QED
    BY <1>4, <1>5, <1>6, <1>7, <1>8, <1>9, <1>10, <1>11, <1>12, <1>13, <1>14
       DEF Step, Lend, Service

-----------------------------------------------------------------------------
(* Custody.                                                                *)

LEMMA EffectCustody ==
    ASSUME OnePool, TypeOK, Custody, NEW p \in Pools, Effect(p) PROVE Custody'
  <1>1. /\ escrow \in [LoanIds -> Escrows]
        /\ \A q \in Pools : q = p
    BY DEF TypeOK, OnePool
  <1>2. CASE Quiet
    BY <1>2 DEF Quiet, SameLoan, Custody, Agree
  <1>3. ASSUME NEW id \in LoanIds, NEW b \in Borrowers, NEW a \in Pledges,
               Pledged(p, id, b, a)
        PROVE  Custody'
    <2>1. PICK m \in Mints : escrow' = [escrow EXCEPT ![id] =
             [status |-> "Locked", borrower |-> b, mint |-> m, amount |-> a]]
      BY <1>3 DEF Pledged
    <2>2. escrow'[id].status = "Locked" /\ \A i \in LoanIds : i # id => escrow'[i] = escrow[i]
      BY <1>1, <2>1
    <2>3. \A q \in Pools : loan[q][id].status = "None"
      BY <1>3 DEF Custody, Agree, Pledged
    <2>4. QED
      BY <1>3, <2>2, <2>3 DEF Pledged, SameLoan, Custody, Agree
  <1>4. ASSUME NEW id \in LoanIds, NEW b \in Borrowers, Granted(p, id, b)
        PROVE  Custody'
    BY <1>1, <1>4 DEF Granted, SameLoansBut, SameLoan, Custody, Agree
  <1>5. ASSUME NEW q \in Pools, NEW id \in LoanIds,
               Closed(q, id, "Repaid") \/ Closed(q, id, "Defaulted")
        PROVE  Custody'
    BY <1>1, <1>5 DEF Closed, Moves, SameLoansBut, SameLoan, Custody, Agree
  <1>6. ASSUME NEW id \in LoanIds,
               \/ Paid(p, id, "Repaid", "Released")
               \/ Paid(p, id, "Defaulted", "Liquidated")
        PROVE  Custody'
    BY <1>1, <1>6 DEF Paid, SameLoan, Custody, Agree, Escrows
  <1>7. QED
    BY <1>2, <1>3, <1>4, <1>5, <1>6 DEF Effect

\* With one pool the collateral of an open loan stays in its escrow.
THEOREM CollateralIsHeld == ASSUME OnePool PROVE Spec => []CollateralHeld
  <1>1. Init => Custody
    BY DEF Init, Custody, Agree
  <1>2. TypeOK /\ Custody /\ [Next]_vars => Custody'
    <2> SUFFICES ASSUME TypeOK, Custody, [Next]_vars PROVE Custody'
      OBVIOUS
    <2>1. CASE Tick \/ UNCHANGED vars
      BY <2>1 DEF Tick, vars, Custody
    <2>2. ASSUME NEW p \in Pools, Step(p) PROVE Custody'
      BY <2>2, StepEffect, EffectCustody
    <2>3. QED
      BY <2>1, <2>2 DEF Next
  <1>3. Custody => CollateralHeld
    BY DEF Custody, Agree, CollateralHeld
  <1>4. QED
    BY <1>1, <1>2, <1>3, TypeCorrect, PTL DEF Spec

-----------------------------------------------------------------------------
(* The life cycle of a loan.                                               *)

LEMMA PoolExists == ThePool \in Pools
  BY InputsAssumption DEF ThePool

\* Where a loan stands is read off its two statuses.
LEMMA StageTable ==
    ASSUME Custody, NEW id \in LoanIds
    PROVE  LET ln == loan[ThePool][id].status
               esc == escrow[id].status
           IN /\ esc = "None" => StageOf(id) = "vacant" /\ ln = "None"
              /\ esc = "Locked" /\ ln = "None" => StageOf(id) = "pledged"
              /\ ln = "Active" => StageOf(id) = "funded"
              /\ esc = "Locked" /\ ln = "Repaid" => StageOf(id) = "repaid"
              /\ esc = "Locked" /\ ln = "Defaulted" => StageOf(id) = "defaulted"
              /\ esc = "Released" /\ ln = "Repaid" => StageOf(id) = "returned"
              /\ esc = "Liquidated" /\ ln = "Defaulted" => StageOf(id) = "seized"
  <1>1. Agree(loan[ThePool][id], escrow[id])
    BY PoolExists DEF Custody
  <1>2. QED
    BY <1>1 DEF Agree, StageOf

LEMMA StageTableNext ==
    ASSUME Custody', NEW id \in LoanIds
    PROVE  LET ln == loan'[ThePool][id].status
               esc == escrow'[id].status
           IN /\ esc = "Locked" /\ ln = "None" => StageOf(id)' = "pledged"
              /\ ln = "Active" => StageOf(id)' = "funded"
              /\ esc = "Locked" /\ ln = "Repaid" => StageOf(id)' = "repaid"
              /\ esc = "Locked" /\ ln = "Defaulted" => StageOf(id)' = "defaulted"
              /\ esc = "Released" /\ ln = "Repaid" => StageOf(id)' = "returned"
              /\ esc = "Liquidated" /\ ln = "Defaulted" => StageOf(id)' = "seized"
  <1>1. Agree(loan[ThePool][id], escrow[id])'
    BY PoolExists DEF Custody
  <1>2. QED
    BY <1>1 DEF Agree, StageOf

\* An id whose loan keeps its status and whose escrow stays put stays put.
LEMMA SameStage ==
    ASSUME NEW id \in LoanIds, SameLoan(ThePool, id), escrow'[id] = escrow[id]
    PROVE  StageOf(id)' = StageOf(id)
  BY DEF SameLoan, StageOf

\* One id moving from stage to stage, the others staying where they are, is a
\* step of the abstract array of stages.
LEMMA OneMoves ==
    ASSUME NEW id \in LoanIds, NEW from, NEW to, StageOf(id) = from,
           StageOf(id)' = to,
           \A i \in LoanIds : i # id => StageOf(i)' = StageOf(i)
    PROVE  Lifecycle!Advance(id, from, to)
  BY DEF Lifecycle!Advance

LEMMA EffectRefines ==
    ASSUME OnePool, TypeOK, Custody, Custody', NEW p \in Pools, Effect(p)
    PROVE  Lifecycle!Next \/ UNCHANGED Lifecycle!vars
  <1>1. /\ p = ThePool
        /\ escrow \in [LoanIds -> Escrows]
        /\ pool[p].next_loan_id \in Nat
    BY PoolExists DEF OnePool, TypeOK, PoolStates
  <1> DEFINE cursor == pool[ThePool].next_loan_id
  <1>2. CASE Quiet
    <2>1. \A i \in LoanIds : StageOf(i)' = StageOf(i)
      BY <1>1, <1>2, SameStage DEF Quiet
    <2>2. \/ cursor' = cursor
          \/ cursor' \in cursor..(MaxLoanId + 1)
      BY <1>1, <1>2 DEF Quiet
    <2>3. [i \in LoanIds |-> StageOf(i)]' = [i \in LoanIds |-> StageOf(i)]
      BY <2>1
    <2>4. CASE cursor' = cursor
      BY <2>3, <2>4 DEF Lifecycle!vars
    <2>5. CASE cursor' # cursor
      BY <2>2, <2>3, <2>5 DEF Lifecycle!Next, Lifecycle!Skip
    <2>6. QED
      BY <2>4, <2>5
  <1>3. ASSUME NEW id \in LoanIds, NEW b \in Borrowers, NEW a \in Pledges,
               Pledged(p, id, b, a)
        PROVE  Lifecycle!Next
    <2>1. PICK m \in Mints : escrow' = [escrow EXCEPT ![id] =
             [status |-> "Locked", borrower |-> b, mint |-> m, amount |-> a]]
      BY <1>3 DEF Pledged
    <2>2. /\ escrow'[id].status = "Locked"
          /\ \A i \in LoanIds : i # id => escrow'[i] = escrow[i]
      BY <1>1, <2>1
    <2>3. StageOf(id) = "vacant" /\ loan[p][id].status = "None"
      BY <1>1, <1>3, StageTable DEF Pledged
    <2>4. StageOf(id)' = "pledged"
      BY <1>1, <1>3, <2>2, <2>3, StageTableNext DEF Pledged, SameLoan
    <2>5. \A i \in LoanIds : i # id => StageOf(i)' = StageOf(i)
      BY <1>1, <1>3, <2>2, SameStage DEF Pledged
    <2>6. Lifecycle!Pledge(id)
      BY <1>1, <1>3, <2>3, <2>4, <2>5, OneMoves DEF Pledged, SameIds, Lifecycle!Pledge
    <2>7. QED
      BY <2>6 DEF Lifecycle!Next, Lifecycle!Ids, LoanIds
  <1>4. ASSUME NEW id \in LoanIds, NEW b \in Borrowers, Granted(p, id, b)
        PROVE  Lifecycle!Next
    <2>1. StageOf(id) = "pledged" /\ StageOf(id)' = "funded"
      BY <1>1, <1>4, StageTable, StageTableNext DEF Granted
    <2>2. \A i \in LoanIds : i # id => StageOf(i)' = StageOf(i)
      BY <1>1, <1>4, SameStage DEF Granted, SameLoansBut
    <2>3. Lifecycle!Fund(id)
      BY <1>1, <1>4, <2>1, <2>2, OneMoves DEF Granted, Lifecycle!Fund
    <2>4. QED
      BY <2>3 DEF Lifecycle!Next, Lifecycle!Ids, LoanIds
  <1>5. ASSUME NEW q \in Pools, NEW id \in LoanIds,
               Closed(q, id, "Repaid") \/ Closed(q, id, "Defaulted")
        PROVE  Lifecycle!Next
    <2>1. q = ThePool
      BY <1>1 DEF OnePool
    <2>2. escrow[id].status = "Locked" /\ escrow' = escrow /\ StageOf(id) = "funded"
      BY <1>5, <2>1, StageTable DEF Closed, Moves, Custody, Agree
    <2>3. \A i \in LoanIds : i # id => StageOf(i)' = StageOf(i)
      BY <1>5, <2>1, SameStage DEF Closed, Moves, SameLoansBut
    <2>4. CASE Closed(q, id, "Repaid")
      <3>1. StageOf(id)' = "repaid"
        BY <2>1, <2>2, <2>4, StageTableNext DEF Closed, Moves
      <3>2. Lifecycle!Repay(id)
        BY <2>1, <2>2, <2>3, <2>4, <3>1, OneMoves
           DEF Closed, SameIds, Lifecycle!Repay
      <3>3. QED
        BY <3>2 DEF Lifecycle!Next, Lifecycle!Ids, LoanIds
    <2>5. CASE Closed(q, id, "Defaulted")
      <3>1. StageOf(id)' = "defaulted"
        BY <2>1, <2>2, <2>5, StageTableNext DEF Closed, Moves
      <3>2. Lifecycle!Default(id)
        BY <2>1, <2>2, <2>3, <2>5, <3>1, OneMoves
           DEF Closed, SameIds, Lifecycle!Default
      <3>3. QED
        BY <3>2 DEF Lifecycle!Next, Lifecycle!Ids, LoanIds
    <2>6. QED
      BY <1>5, <2>4, <2>5
  <1>6. ASSUME NEW id \in LoanIds, Paid(p, id, "Repaid", "Released")
        PROVE  Lifecycle!Next
    <2>1. escrow'[id].status = "Released" /\ \A i \in LoanIds : i # id => escrow'[i] = escrow[i]
      BY <1>1, <1>6 DEF Paid, Escrows
    <2>2. StageOf(id) = "repaid" /\ StageOf(id)' = "returned"
      BY <1>1, <1>6, <2>1, StageTable, StageTableNext DEF Paid, SameLoan
    <2>3. \A i \in LoanIds : i # id => StageOf(i)' = StageOf(i)
      BY <1>1, <1>6, <2>1, SameStage DEF Paid
    <2>4. Lifecycle!Return(id)
      BY <1>1, <1>6, <2>2, <2>3, OneMoves DEF Paid, SameIds, Lifecycle!Return
    <2>5. QED
      BY <2>4 DEF Lifecycle!Next, Lifecycle!Ids, LoanIds
  <1>7. ASSUME NEW id \in LoanIds, Paid(p, id, "Defaulted", "Liquidated")
        PROVE  Lifecycle!Next
    <2>1. escrow'[id].status = "Liquidated" /\ \A i \in LoanIds : i # id => escrow'[i] = escrow[i]
      BY <1>1, <1>7 DEF Paid, Escrows
    <2>2. StageOf(id) = "defaulted" /\ StageOf(id)' = "seized"
      BY <1>1, <1>7, <2>1, StageTable, StageTableNext DEF Paid, SameLoan
    <2>3. \A i \in LoanIds : i # id => StageOf(i)' = StageOf(i)
      BY <1>1, <1>7, <2>1, SameStage DEF Paid
    <2>4. Lifecycle!Seize(id)
      BY <1>1, <1>7, <2>2, <2>3, OneMoves DEF Paid, SameIds, Lifecycle!Seize
    <2>5. QED
      BY <2>4 DEF Lifecycle!Next, Lifecycle!Ids, LoanIds
  <1>8. QED
    BY <1>2, <1>3, <1>4, <1>5, <1>6, <1>7 DEF Effect

\* With one pool every step of the program is a step of the life cycle of a
\* loan or leaves it alone: an id is funded once, against collateral pledged
\* under it, and the collateral ends where the loan's outcome says.
THEOREM RefinesLifecycle == ASSUME OnePool PROVE Spec => ImplementsLifecycle
  <1>1. Init => Custody
    BY DEF Init, Custody, Agree
  <1>2. Init => Lifecycle!Init
    BY PoolExists DEF Init, Lifecycle!Init, Lifecycle!Ids, LoanIds, StageOf
  <1>3. TypeOK /\ Custody /\ [Next]_vars
           => Custody' /\ [Lifecycle!Next]_(Lifecycle!vars)
    <2> SUFFICES ASSUME TypeOK, Custody, [Next]_vars
                 PROVE  Custody' /\ [Lifecycle!Next]_(Lifecycle!vars)
      OBVIOUS
    <2>1. CASE Tick \/ UNCHANGED vars
      <3>1. UNCHANGED <<pool, loan, escrow>>
        BY <2>1 DEF Tick, vars
      <3>2. QED
        BY <3>1 DEF Custody, StageOf, Lifecycle!vars
    <2>2. ASSUME NEW p \in Pools, Step(p)
          PROVE  Custody' /\ [Lifecycle!Next]_(Lifecycle!vars)
      BY <2>2, StepEffect, EffectCustody, EffectRefines
    <2>3. QED
      BY <2>1, <2>2 DEF Next
  <1>4. QED
    BY <1>1, <1>2, <1>3, TypeCorrect, PTL DEF Spec, ImplementsLifecycle, Lifecycle!Spec

\* No pool has accrued into the future.
ClockBehind == \A p \in Pools : pool[p].last_update_ts <= now

\* Nothing is paid on the loan and it does not change its status.
Untouched(p, id) ==
    /\ loan'[p][id].status = loan[p][id].status
    /\ loan'[p][id].repaid_amount = loan[p][id].repaid_amount

\* The pool is accrued to now, and a loan it closes has paid what it owes.
UpToDate(p, id) ==
    /\ pool'[p].last_update_ts = now
    /\ loan'[p][id].status = "Repaid" =>
          loan'[p][id].repaid_amount =
             TotalOwed(loan[p][id], pool'[p].interest_index)

\* A payment credited by an accrued pool, that closes the loan only when it
\* brings the loan to all it owes.
LEMMA CreditUpToDate ==
    ASSUME TypeOK, NEW p \in Pools, NEW id \in LoanIds,
           NEW s \in PoolStates, s.last_update_ts = now,
           NEW paid \in Nat, NEW closes \in BOOLEAN,
           loan[p][id].status = "Active",
           closes => loan[p][id].repaid_amount + paid
                        = TotalOwed(loan[p][id], s.interest_index),
           Credit(p, s, p, id, paid, closes)
    PROVE  /\ pool'[p].last_update_ts = now
           /\ \A i \in LoanIds : Untouched(p, i) \/ UpToDate(p, i)
  <1> DEFINE status == IF closes THEN "Repaid" ELSE loan[p][id].status
             repaid == loan[p][id].repaid_amount + paid
             paidLoan == [loan[p][id] EXCEPT !.repaid_amount = repaid,
                                             !.status = status]
             after == IF closes THEN Settled(s, loan[p][id], repaid) ELSE s
  <1>1. loan \in [Pools -> [LoanIds -> Loans]] /\ pool \in [Pools -> PoolStates]
    BY DEF TypeOK
  <1>2. loan' = [loan EXCEPT ![p] = [loan[p] EXCEPT ![id] = paidLoan]]
    <2>1. loan' = [loan EXCEPT ![p][id].repaid_amount = repaid,
                               ![p][id].status = IF closes THEN "Repaid" ELSE @]
      BY DEF Credit
    <2> HIDE DEF repaid
    <2>2. QED
      BY <1>1, <2>1 DEF Loans
  <1>3. paidLoan.status = status /\ paidLoan.repaid_amount = repaid
    <2> HIDE DEF status, repaid
    <2>1. QED
      BY <1>1 DEF Loans
  <1>4. /\ after.last_update_ts = now
        /\ after.interest_index = s.interest_index
    <2> HIDE DEF repaid
    <2>1. QED
      BY DEF Settled, PoolStates
  <1>5. pool'[p] = after
    BY <1>1 DEF Credit
  <1>6. /\ loan'[p][id].status = status
        /\ loan'[p][id].repaid_amount = repaid
        /\ \A i \in LoanIds : i # id => loan'[p][i] = loan[p][i]
    <2> HIDE DEF paidLoan, status, repaid
    <2>1. QED
      BY <1>1, <1>2, <1>3
  <1> HIDE DEF after, repaid, paidLoan
  <1>7. closes => repaid = TotalOwed(loan[p][id], s.interest_index)
    BY DEF repaid
  <1>8. UpToDate(p, id)
    BY <1>4, <1>5, <1>6, <1>7 DEF UpToDate
  <1>9. QED
    BY <1>4, <1>5, <1>6, <1>8 DEF Untouched

LEMMA StepUpToDate ==
    ASSUME OnePool, TypeOK, ClockBehind, NEW p \in Pools, Step(p)
    PROVE  \A i \in LoanIds : Untouched(p, i) \/ UpToDate(p, i)
  <1> DEFINE s == Accrued(pool[p])
  <1>1. /\ s \in PoolStates
        /\ s.last_update_ts = now
        /\ s.interest_index \in Nat
    BY AccruedFacts DEF TypeOK, PoolStates, ClockBehind
  <1>2. /\ loan \in [Pools -> [LoanIds -> Loans]]
        /\ pool \in [Pools -> PoolStates]
    BY DEF TypeOK
  <1> HIDE DEF s
  <1>3. CASE loan' = loan
    BY <1>3 DEF Untouched
  <1>4. ASSUME NEW id \in LoanIds, NEW b \in Borrowers, NEW score \in Scores,
               NEW a \in Principals, NEW rate \in Rates, NEW days \in Durations,
               ConditionalDisburse(p, id, b, score, a, rate, days)
        PROVE  \A i \in LoanIds : Untouched(p, i) \/ UpToDate(p, i)
    <2> DEFINE new == [status |-> "Active", borrower |-> b, principal |-> a,
                       due_date |-> now + days * DAY, repaid_amount |-> 0,
                       has_schedule |-> FALSE,
                       index_snapshot |-> s.interest_index]
               lent == [s EXCEPT !.total_borrowed = @ + a,
                                 !.active_loans = @ + 1,
                                 !.total_loans_issued = @ + 1,
                                 !.next_loan_id = @ + 1]
    <2>1. /\ loan' = [loan EXCEPT ![p] = [loan[p] EXCEPT ![id] = new]]
          /\ pool' = [pool EXCEPT ![p] = lent]
      BY <1>4 DEF ConditionalDisburse, s
    <2>2. lent.last_update_ts = now
      BY <1>1 DEF PoolStates
    <2>3. new.status = "Active"
      OBVIOUS
    <2> HIDE DEF new, lent
    <2>4. UpToDate(p, id)
      BY <1>2, <2>1, <2>2, <2>3 DEF UpToDate
    <2>5. \A i \in LoanIds : i # id => Untouched(p, i)
      BY <1>2, <2>1 DEF Untouched
    <2>6. QED
      BY <2>4, <2>5
  <1>5. ASSUME NEW id \in LoanIds, NEW n \in Counts, NEW i \in Intervals,
               CreateSchedule(p, id, n, i)
        PROVE  \A j \in LoanIds : Untouched(p, j)
    <2> DEFINE new == [loan[p][id] EXCEPT !.has_schedule = TRUE]
    <2>1. loan' = [loan EXCEPT ![p] = [loan[p] EXCEPT ![id] = new]]
      BY <1>2, <1>5 DEF CreateSchedule
    <2>2. /\ new.status = loan[p][id].status
          /\ new.repaid_amount = loan[p][id].repaid_amount
      BY <1>2 DEF Loans
    <2> HIDE DEF new
    <2>3. QED
      BY <1>2, <2>1, <2>2 DEF Untouched
  <1>6. ASSUME NEW id \in LoanIds, NEW a \in Payments, Repay(p, id, a)
        PROVE  \A i \in LoanIds : Untouched(p, i) \/ UpToDate(p, i)
    <2> DEFINE ln == loan[p][id]
               total == TotalOwed(ln, s.interest_index)
               remaining == Remaining(ln, s.interest_index)
               paid == IF a <= remaining THEN a ELSE remaining
               closes == ln.repaid_amount + paid >= total
    <2>1. /\ Owes(ln, s.interest_index)
          /\ ln.status = "Active"
          /\ Credit(p, s, p, id, paid, closes)
      BY <1>6 DEF Repay, s
    <2>2. /\ total \in Nat /\ remaining \in Nat /\ ln.repaid_amount \in Nat
          /\ remaining = total - ln.repaid_amount
          /\ a \in Nat
      BY <1>1, <1>2, <2>1, OwedNat, RemainingNat, InputsAssumption
         DEF Loans, Remaining
    <2> HIDE DEF total, remaining
    <2>3. /\ paid \in Nat /\ closes \in BOOLEAN
          /\ closes => ln.repaid_amount + paid = total
      BY <2>2
    <2> HIDE DEF paid, closes
    <2>4. QED
      BY <1>1, <2>1, <2>3, CreditUpToDate DEF total
  <1>7. ASSUME NEW q \in Pools, NEW id \in LoanIds, PullInstallment(p, q, id)
        PROVE  \A i \in LoanIds : Untouched(p, i) \/ UpToDate(p, i)
    <2> DEFINE ln == loan[p][id]
               sch == schedule[id]
               is_last == sch.paid + 1 = sch.total
               total == TotalOwed(ln, s.interest_index)
               amount == IF is_last THEN Remaining(ln, s.interest_index)
                         ELSE sch.amount_per
    <2>1. q = p
      BY DEF OnePool
    <2>2. /\ is_last => Owes(ln, s.interest_index)
          /\ ln.status = "Active"
          /\ Credit(p, s, p, id, amount, is_last)
      BY <1>7, <2>1 DEF PullInstallment, s
    <2>3. /\ total \in Nat /\ ln.repaid_amount \in Nat
          /\ is_last => Remaining(ln, s.interest_index) \in Nat
          /\ Remaining(ln, s.interest_index) = total - ln.repaid_amount
      BY <1>1, <1>2, <2>2, OwedNat, RemainingNat DEF Loans, Remaining
    <2>4. is_last => ln.repaid_amount + amount = total
      BY <2>3
    <2>5. amount \in Nat /\ is_last \in BOOLEAN
      BY <2>3 DEF TypeOK, Schedules
    <2> HIDE DEF amount, is_last
    <2>6. QED
      BY <1>1, <2>2, <2>4, <2>5, CreditUpToDate
  <1>8. ASSUME NEW id \in LoanIds, MarkDefault(p, id)
        PROVE  \A i \in LoanIds : Untouched(p, i) \/ UpToDate(p, i)
    <2> DEFINE ln == loan[p][id]
               new == [ln EXCEPT !.status = "Defaulted"]
               debt == Remaining(ln, s.interest_index)
               wrote == [s EXCEPT !.total_borrowed = @ - ln.principal,
                                  !.total_defaults = @ + debt,
                                  !.total_deposited = @ - debt,
                                  !.active_loans = @ - 1]
    <2>1. /\ loan' = [loan EXCEPT ![p] = [loan[p] EXCEPT ![id] = new]]
          /\ pool' = [pool EXCEPT ![p] = wrote]
      BY <1>2, <1>8 DEF MarkDefault, s
    <2>2. wrote.last_update_ts = now /\ new.status = "Defaulted"
      BY <1>1, <1>2 DEF PoolStates, Loans
    <2> HIDE DEF new, wrote
    <2>3. UpToDate(p, id)
      BY <1>2, <2>1, <2>2 DEF UpToDate
    <2>4. \A i \in LoanIds : i # id => Untouched(p, i)
      BY <1>2, <2>1 DEF Untouched
    <2>5. QED
      BY <2>3, <2>4
  <1>9. QED
    BY <1>3, <1>4, <1>5, <1>6, <1>7, <1>8
       DEF Step, Lend, Service, Deposit, Withdraw, AccrueInterest, SetNextLoanId,
           UpdateCollateralPrice, LockCollateral, ReleaseCollateral, LiquidateEscrow

-----------------------------------------------------------------------------
(* The clock of the interest index.                                        *)

ClockKept ==
    \A q \in Pools : pool'[q].last_update_ts \in {pool[q].last_update_ts, now}

\* A step writes the state of at most its own pool: as it was but for fields
\* other than the clock, or accrued.
LEMMA StepClock ==
    ASSUME TypeOK, ClockBehind, NEW p \in Pools, Step(p)
    PROVE  ClockKept
  <1> DEFINE s == Accrued(pool[p])
  <1>1. /\ pool \in [Pools -> PoolStates]
        /\ s \in PoolStates
        /\ s.last_update_ts = now
    BY AccruedFacts DEF TypeOK, PoolStates, ClockBehind
  <1> HIDE DEF s
  <1>2. ASSUME NEW v, \/ v.last_update_ts = now
                      \/ v.last_update_ts = pool[p].last_update_ts,
               pool' = [pool EXCEPT ![p] = v]
        PROVE  ClockKept
    BY <1>1, <1>2 DEF ClockKept
  <1>3. ASSUME NEW a, Deposit(p, a) \/ Withdraw(p, a) PROVE ClockKept
    <2>1. PICK v : pool' = [pool EXCEPT ![p] = [pool[p] EXCEPT !.total_deposited = v]]
      BY <1>3 DEF Deposit, Withdraw
    <2>2. [pool[p] EXCEPT !.total_deposited = v].last_update_ts
             = pool[p].last_update_ts
      BY <1>1 DEF PoolStates
    <2>3. QED
      BY <1>2, <2>1, <2>2
  <1>4. CASE AccrueInterest(p)
    BY <1>1, <1>2, <1>4 DEF AccrueInterest, s
  <1>5. ASSUME NEW id, SetNextLoanId(p, id) PROVE ClockKept
    <2>1. pool' = [pool EXCEPT ![p] = [pool[p] EXCEPT !.next_loan_id = id]]
      BY <1>5 DEF SetNextLoanId
    <2>2. [pool[p] EXCEPT !.next_loan_id = id].last_update_ts
             = pool[p].last_update_ts
      BY <1>1 DEF PoolStates
    <2>3. QED
      BY <1>2, <2>1, <2>2
  <1>6. ASSUME NEW price, UpdateCollateralPrice(p, price) PROVE ClockKept
    <2>1. pool' = [pool EXCEPT ![p] = [pool[p] EXCEPT !.collateral_price = price,
                                                     !.price_updated_at = now]]
      BY <1>1, <1>6 DEF UpdateCollateralPrice, PoolStates
    <2>2. [pool[p] EXCEPT !.collateral_price = price, !.price_updated_at = now]
             .last_update_ts = pool[p].last_update_ts
      BY <1>1 DEF PoolStates
    <2>3. QED
      BY <1>2, <2>1, <2>2
  <1>7. ASSUME NEW id, NEW b, NEW score, NEW a, NEW rate, NEW days,
               ConditionalDisburse(p, id, b, score, a, rate, days)
        PROVE  ClockKept
    <2> DEFINE lent == [s EXCEPT !.total_borrowed = @ + a,
                                 !.active_loans = @ + 1,
                                 !.total_loans_issued = @ + 1,
                                 !.next_loan_id = @ + 1]
    <2>1. pool' = [pool EXCEPT ![p] = lent]
      BY <1>7 DEF ConditionalDisburse, s
    <2>2. lent.last_update_ts = now
      BY <1>1 DEF PoolStates
    <2> HIDE DEF lent
    <2>3. QED
      BY <1>2, <2>1, <2>2
  <1>8. ASSUME NEW q, NEW id, NEW paid, NEW closes, Credit(p, s, q, id, paid, closes)
        PROVE  ClockKept
    <2> DEFINE repaid == loan[q][id].repaid_amount + paid
               after == IF closes THEN Settled(s, loan[q][id], repaid) ELSE s
    <2>1. pool' = [pool EXCEPT ![p] = after]
      BY <1>8 DEF Credit
    <2>2. after.last_update_ts = now
      BY <1>1 DEF Settled, PoolStates
    <2> HIDE DEF after
    <2>3. QED
      BY <1>2, <2>1, <2>2
  <1>9. ASSUME NEW id, NEW a, Repay(p, id, a) PROVE ClockKept
    BY <1>8, <1>9 DEF Repay, s
  <1>10. ASSUME NEW q, NEW id, PullInstallment(p, q, id) PROVE ClockKept
    BY <1>8, <1>10 DEF PullInstallment, s
  <1>11. ASSUME NEW id, MarkDefault(p, id) PROVE ClockKept
    <2> DEFINE ln == loan[p][id]
               debt == Remaining(ln, s.interest_index)
               wrote == [s EXCEPT !.total_borrowed = @ - ln.principal,
                                  !.total_defaults = @ + debt,
                                  !.total_deposited = @ - debt,
                                  !.active_loans = @ - 1]
    <2>1. pool' = [pool EXCEPT ![p] = wrote]
      BY <1>11 DEF MarkDefault, s
    <2>2. wrote.last_update_ts = now
      BY <1>1 DEF PoolStates
    <2> HIDE DEF wrote
    <2>3. QED
      BY <1>2, <2>1, <2>2
  <1>12. CASE pool' = pool
    BY <1>12 DEF ClockKept
  <1>a. ASSUME NEW id, NEW b, NEW m, NEW a, NEW n, NEW i,
               \/ LockCollateral(p, id, b, m, a)
               \/ CreateSchedule(p, id, n, i)
               \/ ReleaseCollateral(p, id) \/ LiquidateEscrow(p, id)
        PROVE  ClockKept
    BY <1>a, <1>12
       DEF LockCollateral, CreateSchedule, ReleaseCollateral, LiquidateEscrow
  <1>13. QED
    BY <1>3, <1>4, <1>5, <1>6, <1>7, <1>9, <1>10, <1>11, <1>a, Zenon DEF Step, Lend, Service

LEMMA NextClock == TypeOK /\ ClockBehind /\ [Next]_vars => ClockBehind'
  <1> SUFFICES ASSUME TypeOK, ClockBehind, [Next]_vars PROVE ClockBehind'
    OBVIOUS
  <1>1. now \in Nat /\ \A p \in Pools : pool[p].last_update_ts \in Nat
    BY DEF TypeOK, PoolStates
  <1>2. CASE Tick
    BY <1>1, <1>2 DEF Tick, ClockBehind
  <1>3. CASE UNCHANGED vars
    BY <1>3 DEF vars, ClockBehind
  <1>4. ASSUME NEW p \in Pools, Step(p) PROVE ClockBehind'
    <2>1. now' = now
      BY <1>4, ZenonT(30) DEF Step, Lend, Service, Deposit, Withdraw, AccrueInterest, SetNextLoanId,
           UpdateCollateralPrice, LockCollateral, ConditionalDisburse,
           CreateSchedule, Repay, PullInstallment, MarkDefault,
           ReleaseCollateral, LiquidateEscrow
    <2>2. QED
      BY <1>1, <1>4, <2>1, StepClock DEF ClockBehind, ClockKept
  <1>5. QED
    BY <1>2, <1>3, <1>4 DEF Next

LEMMA ClockNeverAhead == Spec => []ClockBehind
  <1>1. Init => ClockBehind
    BY DEF Init, ClockBehind
  <1>2. QED
    BY <1>1, NextClock, TypeCorrect, PTL DEF Spec

\* A step leaves every loan of the one pool untouched or up to date.
LEMMA NextUpToDate ==
    ASSUME OnePool, TypeOK, ClockBehind, [Next]_vars, NEW p \in Pools,
           NEW id \in LoanIds
    PROVE  Untouched(p, id) \/ UpToDate(p, id)
  <1>1. CASE Tick \/ UNCHANGED vars
    BY <1>1 DEF Tick, vars, Untouched
  <1>2. ASSUME NEW q \in Pools, Step(q) PROVE Untouched(p, id) \/ UpToDate(p, id)
    BY <1>2, StepUpToDate DEF OnePool
  <1>3. QED
    BY <1>1, <1>2 DEF Next

\* With one pool, whatever opens, pays or ends a loan sees an interest index
\* accrued to the present.
THEOREM InterestIsFresh == ASSUME OnePool PROVE Spec => FreshIndex
  <1>1. TypeOK /\ ClockBehind /\ [Next]_vars =>
           [\A p \in Pools, id \in LoanIds :
              \/ loan'[p][id].status # loan[p][id].status
              \/ loan'[p][id].repaid_amount # loan[p][id].repaid_amount
              => pool'[p].last_update_ts = now]_vars
    BY NextUpToDate DEF Untouched, UpToDate
  <1>2. QED
    BY <1>1, TypeCorrect, ClockNeverAhead, PTL DEF Spec, FreshIndex

\* With one pool, a loan is closed as repaid only by paying exactly its
\* principal and the interest streamed to the present.
THEOREM LoansCloseInFull == ASSUME OnePool PROVE Spec => ClosedInFull
  <1>1. TypeOK /\ ClockBehind /\ [Next]_vars =>
           [\A p \in Pools, id \in LoanIds :
              loan[p][id].status # "Repaid" /\ loan'[p][id].status = "Repaid" =>
                 /\ pool'[p].last_update_ts = now
                 /\ loan'[p][id].repaid_amount =
                       TotalOwed(loan[p][id], pool'[p].interest_index)]_vars
    BY NextUpToDate DEF Untouched, UpToDate
  <1>2. QED
    BY <1>1, TypeCorrect, ClockNeverAhead, PTL DEF Spec, ClosedInFull

-----------------------------------------------------------------------------
(* Schedules.                                                              *)

\* What ties a schedule to its loan at time t: the conjuncts of
\* ScheduleTracksLoan, and that the installments add up to no more than the
\* principal, so that the last pull covers those before it.
InStep(sch, ln, t) ==
    /\ ln.has_schedule
    /\ ln.status # "None"
    /\ sch.next_due - sch.interval <= t
    /\ sch.paid * sch.amount_per <= ln.repaid_amount
    /\ sch.is_active <=> sch.paid < sch.total
    /\ ~sch.is_active => ln.status = "Repaid"
    /\ sch.paid <= sch.total
    /\ sch.total * sch.amount_per <= ln.principal

Tracked ==
    \A p \in Pools, id \in LoanIds :
        schedule[id].exists => InStep(schedule[id], loan[p][id], now)

LEMMA QuotientTimes ==
    ASSUME NEW a \in Nat, NEW n \in Nat \ {0} PROVE n * (a \div n) <= a
  OBVIOUS

LEMMA OneMore ==
    ASSUME NEW k \in Nat, NEW a \in Nat PROVE (k + 1) * a = k * a + a
  OBVIOUS

\* A credited payment writes two fields of one loan.
LEMMA CreditedLoan ==
    ASSUME TypeOK, NEW p \in Pools, NEW id \in LoanIds, NEW s, NEW paid \in Nat,
           NEW closes \in BOOLEAN, Credit(p, s, p, id, paid, closes)
    PROVE  /\ loan'[p][id].repaid_amount = loan[p][id].repaid_amount + paid
           /\ loan'[p][id].status = IF closes THEN "Repaid" ELSE loan[p][id].status
           /\ loan'[p][id].has_schedule = loan[p][id].has_schedule
           /\ loan'[p][id].principal = loan[p][id].principal
           /\ \A i \in LoanIds : i # id => loan'[p][i] = loan[p][i]
  <1> DEFINE status == IF closes THEN "Repaid" ELSE loan[p][id].status
             repaid == loan[p][id].repaid_amount + paid
             paidLoan == [loan[p][id] EXCEPT !.repaid_amount = repaid,
                                             !.status = status]
  <1>1. loan \in [Pools -> [LoanIds -> Loans]]
    BY DEF TypeOK
  <1>2. loan' = [loan EXCEPT ![p] = [loan[p] EXCEPT ![id] = paidLoan]]
    <2>1. loan' = [loan EXCEPT ![p][id].repaid_amount = repaid,
                               ![p][id].status = IF closes THEN "Repaid" ELSE @]
      BY DEF Credit
    <2> HIDE DEF repaid
    <2>2. QED
      BY <1>1, <2>1 DEF Loans
  <1>3. /\ paidLoan.status = status /\ paidLoan.repaid_amount = repaid
        /\ paidLoan.has_schedule = loan[p][id].has_schedule
        /\ paidLoan.principal = loan[p][id].principal
    <2> HIDE DEF status, repaid
    <2>1. QED
      BY <1>1 DEF Loans
  <1> HIDE DEF paidLoan
  <1>4. loan'[p][id] = paidLoan /\ \A i \in LoanIds : i # id => loan'[p][i] = loan[p][i]
    BY <1>1, <1>2
  <1>5. QED
    BY <1>3, <1>4

LEMMA StepTracked ==
    ASSUME OnePool, TypeOK, Tracked, NEW p \in Pools, Step(p) PROVE Tracked'
  <1> DEFINE s == Accrued(pool[p])
  <1>1. s \in PoolStates /\ s.interest_index \in Nat
    BY AccruedFacts DEF TypeOK, PoolStates
  <1>2. /\ loan \in [Pools -> [LoanIds -> Loans]]
        /\ schedule \in [LoanIds -> Schedules]
        /\ now \in Nat
    BY DEF TypeOK
  <1> HIDE DEF s
  <1>3. ASSUME NEW id \in LoanIds, now' = now,
               schedule'[id].exists => InStep(schedule'[id], loan'[p][id], now),
               \A i \in LoanIds : i # id =>
                  schedule'[i] = schedule[i] /\ loan'[p][i] = loan[p][i]
        PROVE  Tracked'
    BY <1>3 DEF Tracked, OnePool
  <1>4. CASE UNCHANGED <<now, loan, schedule>>
    BY <1>4 DEF Tracked
  <1>5. ASSUME NEW id \in LoanIds, NEW b \in Borrowers, NEW score \in Scores,
               NEW a \in Principals, NEW rate \in Rates, NEW days \in Durations,
               ConditionalDisburse(p, id, b, score, a, rate, days)
        PROVE  Tracked'
    <2>1. ~schedule[id].exists
      BY <1>5 DEF ConditionalDisburse, Tracked, InStep
    <2>2. /\ now' = now /\ schedule' = schedule
          /\ \A i \in LoanIds : i # id => loan'[p][i] = loan[p][i]
      BY <1>2, <1>5 DEF ConditionalDisburse
    <2>3. QED
      BY <1>3, <2>1, <2>2
  <1>6. ASSUME NEW id \in LoanIds, NEW n \in Counts, NEW i \in Intervals,
               CreateSchedule(p, id, n, i)
        PROVE  Tracked'
    <2> DEFINE ln == loan[p][id]
               made == [exists |-> TRUE, is_active |-> TRUE, pool |-> p, total |-> n,
                        paid |-> 0, amount_per |-> ln.principal \div n,
                        interval |-> i, next_due |-> now + i]
               held == [ln EXCEPT !.has_schedule = TRUE]
    <2>1. /\ schedule' = [schedule EXCEPT ![id] = made]
          /\ loan' = [loan EXCEPT ![p] = [loan[p] EXCEPT ![id] = held]]
          /\ now' = now
      BY <1>2, <1>6 DEF CreateSchedule
    <2>2. /\ ln \in Loans /\ ln.principal \in Nat /\ ln.repaid_amount \in Nat
          /\ n \in Nat \ {0} /\ i \in Nat
          /\ ln.status = "Active"
      BY <1>2, <1>6, InputsAssumption, ProgramAssumption DEF CreateSchedule, Loans
    <2>3. held.has_schedule /\ held.status = "Active" /\ held.principal = ln.principal
             /\ held.repaid_amount = ln.repaid_amount
      BY <2>2 DEF Loans
    <2>4. n * (ln.principal \div n) <= ln.principal
      BY <2>2, QuotientTimes
    <2>5. 0 * (ln.principal \div n) = 0
      BY <2>2, QuotientNat
    <2>6. (now + i) - i <= now
      BY <1>2, <2>2
    <2>7. InStep(made, held, now)
      <3> HIDE DEF held
      <3>1. QED
        BY <2>2, <2>3, <2>4, <2>5, <2>6 DEF InStep
    <2> HIDE DEF made, held
    <2>8. QED
      BY <1>2, <1>3, <2>1, <2>7
  <1>7. ASSUME NEW id \in LoanIds, NEW a \in Payments, Repay(p, id, a)
        PROVE  Tracked'
    <2> DEFINE ln == loan[p][id]
               remaining == Remaining(ln, s.interest_index)
               paid == IF a <= remaining THEN a ELSE remaining
               closes == ln.repaid_amount + paid >= TotalOwed(ln, s.interest_index)
    <2>1. /\ Owes(ln, s.interest_index)
          /\ ln.status = "Active"
          /\ Credit(p, s, p, id, paid, closes)
          /\ now' = now /\ schedule' = schedule
      BY <1>7 DEF Repay, s
    <2>2. /\ paid \in Nat /\ closes \in BOOLEAN
          /\ ln.repaid_amount \in Nat
      BY <1>1, <1>2, <2>1, RemainingNat, InputsAssumption DEF Loans
    <2> HIDE DEF paid, closes
    <2>3. /\ loan'[p][id].repaid_amount = ln.repaid_amount + paid
          /\ loan'[p][id].status \in {"Repaid", "Active"}
          /\ loan'[p][id].has_schedule = ln.has_schedule
          /\ loan'[p][id].principal = ln.principal
          /\ \A j \in LoanIds : j # id => loan'[p][j] = loan[p][j]
      BY <2>1, <2>2, CreditedLoan
    <2>4. schedule[id].exists => InStep(schedule[id], loan'[p][id], now)
      <3> SUFFICES ASSUME schedule[id].exists
                   PROVE  InStep(schedule[id], loan'[p][id], now)
        OBVIOUS
      <3>1. InStep(schedule[id], ln, now)
        BY DEF Tracked
      <3>2. schedule[id].paid * schedule[id].amount_per \in Nat
        BY <1>2, ProductNat DEF Schedules
      <3>3. QED
        BY <2>1, <2>2, <2>3, <3>1, <3>2 DEF InStep
    <2>5. QED
      BY <1>3, <2>1, <2>3, <2>4
  <1>8. ASSUME NEW q \in Pools, NEW id \in LoanIds, PullInstallment(p, q, id)
        PROVE  Tracked'
    <2> DEFINE ln == loan[p][id]
               sch == schedule[id]
               is_last == sch.paid + 1 = sch.total
               total == TotalOwed(ln, s.interest_index)
               amount == IF is_last THEN Remaining(ln, s.interest_index)
                         ELSE sch.amount_per
               next == [sch EXCEPT !.paid = @ + 1, !.next_due = @ + sch.interval,
                                   !.is_active = ~is_last]
    <2>1. q = p
      BY DEF OnePool
    <2>2. /\ is_last => Owes(ln, s.interest_index)
          /\ ln.status = "Active"
          /\ InstallmentDue(sch)
          /\ Credit(p, s, p, id, amount, is_last)
          /\ schedule' = [schedule EXCEPT ![id] = next]
          /\ now' = now
      BY <1>8, <2>1 DEF PullInstallment, s
    <2>3. InStep(sch, ln, now)
      BY <2>2 DEF Tracked, InstallmentDue
    <2>4. /\ ln \in Loans /\ ln.principal \in Nat /\ ln.repaid_amount \in Nat
          /\ sch \in Schedules /\ sch.paid \in Nat /\ sch.amount_per \in Nat
          /\ sch.total \in Nat /\ sch.interval \in Nat /\ sch.next_due \in Nat
      BY <1>2 DEF Loans, Schedules
    <2>5. total \in Nat /\ ln.principal <= total
      BY <1>1, <2>4, OwedNat
    <2>6. is_last => Remaining(ln, s.interest_index) \in Nat
      BY <1>1, <2>2, <2>4, RemainingNat
    <2>7. Remaining(ln, s.interest_index) = total - ln.repaid_amount
      BY DEF Remaining
    <2>8. amount \in Nat /\ is_last \in BOOLEAN
      BY <2>4, <2>6
    <2>9. /\ next.paid = sch.paid + 1
          /\ next.next_due = sch.next_due + sch.interval
          /\ next.is_active = ~is_last
          /\ next.interval = sch.interval /\ next.total = sch.total
          /\ next.amount_per = sch.amount_per
      <3> HIDE DEF is_last
      <3>1. QED
        BY <2>4 DEF Schedules
    <2>10. /\ loan'[p][id].repaid_amount = ln.repaid_amount + amount
           /\ loan'[p][id].status = IF is_last THEN "Repaid" ELSE "Active"
           /\ loan'[p][id].has_schedule = ln.has_schedule
           /\ loan'[p][id].principal = ln.principal
           /\ \A j \in LoanIds : j # id => loan'[p][j] = loan[p][j]
      <3> HIDE DEF amount, is_last
      <3>1. QED
        BY <2>2, <2>8, CreditedLoan
    <2>11. (sch.paid + 1) * sch.amount_per <= ln.repaid_amount + amount
      <3>1. (sch.paid + 1) * sch.amount_per = sch.paid * sch.amount_per + sch.amount_per
        BY <2>4, OneMore
      <3>2. sch.paid * sch.amount_per \in Nat
        BY <2>4, ProductNat
      <3>3. CASE ~is_last
        BY <2>3, <2>4, <3>1, <3>2, <3>3 DEF InStep
      <3>4. CASE is_last
        <4>1. (sch.paid + 1) * sch.amount_per <= ln.principal
          BY <2>3, <3>4 DEF InStep
        <4>2. ln.repaid_amount + amount = total
          BY <2>4, <2>5, <2>7, <3>4
        <4>3. (sch.paid + 1) * sch.amount_per \in Nat
          BY <2>4, <3>1, <3>2
        <4>4. QED
          BY <2>4, <2>5, <4>1, <4>2, <4>3
      <3>5. QED
        BY <3>3, <3>4
    <2>12. /\ sch.paid + 1 <= sch.total
           /\ ~is_last <=> sch.paid + 1 < sch.total
           /\ (sch.next_due + sch.interval) - sch.interval <= now
      BY <1>2, <2>2, <2>4 DEF InstallmentDue
    <2>13. InStep(next, loan'[p][id], now)
      <3> HIDE DEF next, amount, total, is_last
      <3>1. loan'[p][id].status # "None" /\ (is_last => loan'[p][id].status = "Repaid")
        BY <2>10
      <3>2. QED
        BY <2>3, <2>9, <2>10, <2>11, <2>12, <3>1 DEF InStep
    <2> HIDE DEF next, amount, is_last
    <2>14. /\ schedule'[id] = next
           /\ \A j \in LoanIds : j # id => schedule'[j] = schedule[j]
      BY <1>2, <2>2
    <2>15. QED
      BY <1>3, <2>2, <2>10, <2>13, <2>14
  <1>9. ASSUME NEW id \in LoanIds, MarkDefault(p, id) PROVE Tracked'
    <2> DEFINE ln == loan[p][id]
               new == [ln EXCEPT !.status = "Defaulted"]
    <2>1. /\ loan' = [loan EXCEPT ![p] = [loan[p] EXCEPT ![id] = new]]
          /\ ln.status = "Active"
          /\ now' = now /\ schedule' = schedule
      BY <1>2, <1>9 DEF MarkDefault
    <2>2. /\ new.status = "Defaulted" /\ new.has_schedule = ln.has_schedule
          /\ new.repaid_amount = ln.repaid_amount /\ new.principal = ln.principal
      BY <1>2 DEF Loans
    <2> HIDE DEF new
    <2>3. schedule[id].exists => InStep(schedule[id], new, now)
      BY <2>1, <2>2 DEF Tracked, InStep
    <2>4. QED
      BY <1>2, <1>3, <2>1, <2>3
  <1>10. QED
    BY <1>4, <1>5, <1>6, <1>7, <1>8, <1>9
       DEF Step, Lend, Service, Deposit, Withdraw, AccrueInterest, SetNextLoanId,
           UpdateCollateralPrice, LockCollateral, ReleaseCollateral, LiquidateEscrow

\* With one pool, a schedule never runs ahead of its loan: what was pulled was
\* credited, and a finished schedule means a repaid loan.
THEOREM SchedulesTrackLoans == ASSUME OnePool PROVE Spec => []ScheduleTracksLoan
  <1>1. Init => Tracked
    BY DEF Init, Tracked
  <1>2. TypeOK /\ Tracked /\ [Next]_vars => Tracked'
    <2> SUFFICES ASSUME TypeOK, Tracked, [Next]_vars PROVE Tracked'
      OBVIOUS
    <2>1. CASE Tick
      <3>1. now \in Nat /\ schedule \in [LoanIds -> Schedules]
        BY DEF TypeOK
      <3>2. \A id \in LoanIds : schedule[id].next_due - schedule[id].interval \in Int
        BY <3>1 DEF Schedules
      <3>3. QED
        BY <2>1, <3>1, <3>2 DEF Tick, Tracked, InStep
    <2>2. CASE UNCHANGED vars
      BY <2>2 DEF vars, Tracked
    <2>3. ASSUME NEW p \in Pools, Step(p) PROVE Tracked'
      BY <2>3, StepTracked
    <2>4. QED
      BY <2>1, <2>2, <2>3 DEF Next
  <1>3. TypeOK /\ Tracked => ScheduleTracksLoan
    BY DEF TypeOK, Schedules, Tracked, InStep, ScheduleTracksLoan
  <1>4. QED
    BY <1>1, <1>2, <1>3, TypeCorrect, PTL DEF Spec

-----------------------------------------------------------------------------
(* The books.  Each sum of BooksBalance is taken over all the ids of a     *)
(* pool, of what each loan adds to it: the principal of an open loan, one  *)
(* for its count, what it paid back, and what was lost with a default.     *)

LentBy(ln) == IF ln.status = "Active" THEN ln.principal ELSE 0
OpenBy(ln) == IF ln.status = "Active" THEN 1 ELSE 0
BackBy(ln) == IF ln.status = "Active" THEN ln.repaid_amount ELSE 0
LostBy(ln) == IF ln.status = "Defaulted" THEN ln.principal - ln.repaid_amount ELSE 0

TotalLent(ls) == SumOf([id \in LoanIds |-> LentBy(ls[id])], LoanIds)
TotalOpen(ls) == SumOf([id \in LoanIds |-> OpenBy(ls[id])], LoanIds)
TotalBack(ls) == SumOf([id \in LoanIds |-> BackBy(ls[id])], LoanIds)
TotalLost(ls) == SumOf([id \in LoanIds |-> LostBy(ls[id])], LoanIds)

\* BooksBalance of one pool, with state s, v tokens in its vault and loans ls.
Balanced(s, v, ls) ==
    /\ s.total_borrowed = TotalLent(ls)
    /\ s.active_loans = TotalOpen(ls)
    /\ v = s.total_deposited - s.total_borrowed + TotalBack(ls)
           + s.total_interest_earned + s.total_defaults - TotalLost(ls)

Books == \A p \in Pools : Balanced(pool[p], vault[p], loan[p])

LEMMA LoanIdsFinite == IsFiniteSet(LoanIds)
  BY FS_Interval, InputsAssumption DEF LoanIds

LEMMA EntryTypes ==
    ASSUME NEW ln \in Loans
    PROVE  LentBy(ln) \in Int /\ OpenBy(ln) \in Int /\ BackBy(ln) \in Int /\ LostBy(ln) \in Int
  BY DEF LentBy, OpenBy, BackBy, LostBy, Loans

LEMMA TotalTypes ==
    ASSUME NEW ls \in [LoanIds -> Loans]
    PROVE  /\ TotalLent(ls) \in Int /\ TotalOpen(ls) \in Int
           /\ TotalBack(ls) \in Int /\ TotalLost(ls) \in Int
  <1>1. \A id \in LoanIds : ls[id] \in Loans
    OBVIOUS
  <1>2. QED
    BY <1>1, LoanIdsFinite, EntryTypes, SumInt
       DEF TotalLent, TotalOpen, TotalBack, TotalLost

\* A step that changes one loan changes the totals by the change of its entries.
LEMMA OneLoanChanges ==
    ASSUME NEW ls \in [LoanIds -> Loans], NEW ms \in [LoanIds -> Loans],
           NEW id \in LoanIds, \A i \in LoanIds : i # id => ms[i] = ls[i]
    PROVE  /\ TotalLent(ms) = TotalLent(ls) + LentBy(ms[id]) - LentBy(ls[id])
           /\ TotalOpen(ms) = TotalOpen(ls) + OpenBy(ms[id]) - OpenBy(ls[id])
           /\ TotalBack(ms) = TotalBack(ls) + BackBy(ms[id]) - BackBy(ls[id])
           /\ TotalLost(ms) = TotalLost(ls) + LostBy(ms[id]) - LostBy(ls[id])
  <1>1. \A i \in LoanIds : ls[i] \in Loans /\ ms[i] \in Loans
    OBVIOUS
  <1>2. \A i \in LoanIds \ {id} : ms[i] = ls[i]
    OBVIOUS
  <1>3. TotalLent(ms) = TotalLent(ls) + LentBy(ms[id]) - LentBy(ls[id])
    <2> DEFINE f == [i \in LoanIds |-> LentBy(ls[i])]
               g == [i \in LoanIds |-> LentBy(ms[i])]
    <2>1. /\ \A x \in LoanIds : f[x] \in Int /\ g[x] \in Int
          /\ \A x \in LoanIds \ {id} : g[x] = f[x]
          /\ f[id] = LentBy(ls[id]) /\ g[id] = LentBy(ms[id])
      BY <1>1, <1>2, EntryTypes
    <2>2. TotalLent(ls) = SumOf(f, LoanIds) /\ TotalLent(ms) = SumOf(g, LoanIds)
      BY DEF TotalLent
    <2> HIDE DEF f, g
    <2>3. QED
      BY <2>1, <2>2, LoanIdsFinite, SumChange
  <1>4. TotalOpen(ms) = TotalOpen(ls) + OpenBy(ms[id]) - OpenBy(ls[id])
    <2> DEFINE f == [i \in LoanIds |-> OpenBy(ls[i])]
               g == [i \in LoanIds |-> OpenBy(ms[i])]
    <2>1. /\ \A x \in LoanIds : f[x] \in Int /\ g[x] \in Int
          /\ \A x \in LoanIds \ {id} : g[x] = f[x]
          /\ f[id] = OpenBy(ls[id]) /\ g[id] = OpenBy(ms[id])
      BY <1>1, <1>2, EntryTypes
    <2>2. TotalOpen(ls) = SumOf(f, LoanIds) /\ TotalOpen(ms) = SumOf(g, LoanIds)
      BY DEF TotalOpen
    <2> HIDE DEF f, g
    <2>3. QED
      BY <2>1, <2>2, LoanIdsFinite, SumChange
  <1>5. TotalBack(ms) = TotalBack(ls) + BackBy(ms[id]) - BackBy(ls[id])
    <2> DEFINE f == [i \in LoanIds |-> BackBy(ls[i])]
               g == [i \in LoanIds |-> BackBy(ms[i])]
    <2>1. /\ \A x \in LoanIds : f[x] \in Int /\ g[x] \in Int
          /\ \A x \in LoanIds \ {id} : g[x] = f[x]
          /\ f[id] = BackBy(ls[id]) /\ g[id] = BackBy(ms[id])
      BY <1>1, <1>2, EntryTypes
    <2>2. TotalBack(ls) = SumOf(f, LoanIds) /\ TotalBack(ms) = SumOf(g, LoanIds)
      BY DEF TotalBack
    <2> HIDE DEF f, g
    <2>3. QED
      BY <2>1, <2>2, LoanIdsFinite, SumChange
  <1>6. TotalLost(ms) = TotalLost(ls) + LostBy(ms[id]) - LostBy(ls[id])
    <2> DEFINE f == [i \in LoanIds |-> LostBy(ls[i])]
               g == [i \in LoanIds |-> LostBy(ms[i])]
    <2>1. /\ \A x \in LoanIds : f[x] \in Int /\ g[x] \in Int
          /\ \A x \in LoanIds \ {id} : g[x] = f[x]
          /\ f[id] = LostBy(ls[id]) /\ g[id] = LostBy(ms[id])
      BY <1>1, <1>2, EntryTypes
    <2>2. TotalLost(ls) = SumOf(f, LoanIds) /\ TotalLost(ms) = SumOf(g, LoanIds)
      BY DEF TotalLost
    <2> HIDE DEF f, g
    <2>3. QED
      BY <2>1, <2>2, LoanIdsFinite, SumChange
  <1>7. QED
    BY <1>3, <1>4, <1>5, <1>6

\* The totals are the sums BooksBalance speaks of.
LEMMA BooksAreTotals == ASSUME TypeOK, Books PROVE BooksBalance
  <1> SUFFICES ASSUME NEW p \in Pools
               PROVE  /\ SumOver(p, "Active", Principal) = TotalLent(loan[p])
                      /\ Cardinality(LoansIn(p, "Active")) = TotalOpen(loan[p])
                      /\ SumOver(p, "Active", Repaid) = TotalBack(loan[p])
                      /\ SumOver(p, "Defaulted", WrittenOff) = TotalLost(loan[p])
    BY DEF Books, Balanced, BooksBalance
  <1> DEFINE A == LoansIn(p, "Active")
             D == LoansIn(p, "Defaulted")
  <1>1. A \in SUBSET LoanIds /\ D \in SUBSET LoanIds
    BY DEF LoansIn
  <1>2. /\ \A id \in A : loan[p][id].status = "Active"
        /\ \A id \in LoanIds \ A : loan[p][id].status # "Active"
        /\ \A id \in D : loan[p][id].status = "Defaulted"
        /\ \A id \in LoanIds \ D : loan[p][id].status # "Defaulted"
    BY DEF LoansIn
  <1>3. \A id \in LoanIds : /\ loan[p][id].principal \in Int
                            /\ loan[p][id].repaid_amount \in Int
                            /\ loan[p][id].principal - loan[p][id].repaid_amount \in Int
    BY DEF TypeOK, Loans
  <1> HIDE DEF A, D
  <1>4. SumOver(p, "Active", Principal) = TotalLent(loan[p])
    <2> DEFINE f == [id \in LoanIds |-> Principal(loan[p][id])]
               g == [id \in LoanIds |-> LentBy(loan[p][id])]
    <2>1. /\ \A x \in A : f[x] \in Int /\ g[x] = f[x]
          /\ \A x \in LoanIds \ A : g[x] = 0
      BY <1>1, <1>2, <1>3 DEF Principal, LentBy
    <2>2. SumOver(p, "Active", Principal) = SumOf(f, A) /\ TotalLent(loan[p]) = SumOf(g, LoanIds)
      BY DEF SumOver, SumOf, TotalLent, A
    <2> HIDE DEF f, g
    <2>3. QED
      BY <1>1, <2>1, <2>2, LoanIdsFinite, SumOfPart
  <1>5. SumOver(p, "Active", Repaid) = TotalBack(loan[p])
    <2> DEFINE f == [id \in LoanIds |-> Repaid(loan[p][id])]
               g == [id \in LoanIds |-> BackBy(loan[p][id])]
    <2>1. /\ \A x \in A : f[x] \in Int /\ g[x] = f[x]
          /\ \A x \in LoanIds \ A : g[x] = 0
      BY <1>1, <1>2, <1>3 DEF Repaid, BackBy
    <2>2. SumOver(p, "Active", Repaid) = SumOf(f, A) /\ TotalBack(loan[p]) = SumOf(g, LoanIds)
      BY DEF SumOver, SumOf, TotalBack, A
    <2> HIDE DEF f, g
    <2>3. QED
      BY <1>1, <2>1, <2>2, LoanIdsFinite, SumOfPart
  <1>6. SumOver(p, "Defaulted", WrittenOff) = TotalLost(loan[p])
    <2> DEFINE f == [id \in LoanIds |-> WrittenOff(loan[p][id])]
               g == [id \in LoanIds |-> LostBy(loan[p][id])]
    <2>1. /\ \A x \in D : f[x] \in Int /\ g[x] = f[x]
          /\ \A x \in LoanIds \ D : g[x] = 0
      BY <1>1, <1>2, <1>3 DEF WrittenOff, LostBy
    <2>2. /\ SumOver(p, "Defaulted", WrittenOff) = SumOf(f, D)
          /\ TotalLost(loan[p]) = SumOf(g, LoanIds)
      BY DEF SumOver, SumOf, TotalLost, D
    <2> HIDE DEF f, g
    <2>3. QED
      BY <1>1, <2>1, <2>2, LoanIdsFinite, SumOfPart
  <1>7. Cardinality(A) = TotalOpen(loan[p])
    <2> DEFINE g == [id \in LoanIds |-> OpenBy(loan[p][id])]
    <2>1. /\ \A x \in A : g[x] = 1
          /\ \A x \in LoanIds \ A : g[x] = 0
      BY <1>1, <1>2 DEF OpenBy
    <2>2. TotalOpen(loan[p]) = SumOf(g, LoanIds)
      BY DEF TotalOpen
    <2> HIDE DEF g
    <2>a. IsFiniteSet(A)
      BY <1>1, LoanIdsFinite, FS_Subset
    <2>3. SumOf(g, A) = Cardinality(A)
      BY <2>1, <2>a, SumOnes
    <2>4. \A x \in A : g[x] \in Int /\ g[x] = g[x]
      BY <2>1
    <2>5. SumOf(g, A) = SumOf(g, LoanIds)
      BY <1>1, <2>1, <2>4, LoanIdsFinite, SumOfPart
    <2>6. QED
      BY <2>2, <2>3, <2>5
  <1>8. QED
    BY <1>4, <1>5, <1>6, <1>7 DEF A

\* A loan that is opened, that is credited a payment, and that defaults, by its
\* entries.
LEMMA Entries ==
    ASSUME NEW ln \in Loans
    PROVE  /\ ln.status \notin {"Active", "Defaulted"} =>
                LentBy(ln) = 0 /\ OpenBy(ln) = 0 /\ BackBy(ln) = 0 /\ LostBy(ln) = 0
           /\ ln.status = "Active" =>
                /\ LentBy(ln) = ln.principal /\ OpenBy(ln) = 1
                /\ BackBy(ln) = ln.repaid_amount /\ LostBy(ln) = 0
           /\ ln.status = "Defaulted" =>
                /\ LentBy(ln) = 0 /\ OpenBy(ln) = 0 /\ BackBy(ln) = 0
                /\ LostBy(ln) = ln.principal - ln.repaid_amount
  BY DEF LentBy, OpenBy, BackBy, LostBy

\* Closing a loan writes three fields of the pool's state.
LEMMA SettledFields ==
    ASSUME NEW s \in PoolStates, NEW ln \in Loans, NEW repaid \in Nat
    PROVE  /\ Settled(s, ln, repaid).total_borrowed = s.total_borrowed - ln.principal
           /\ Settled(s, ln, repaid).total_interest_earned =
                 s.total_interest_earned + (repaid - ln.principal)
           /\ Settled(s, ln, repaid).active_loans = s.active_loans - 1
           /\ Settled(s, ln, repaid).total_deposited = s.total_deposited
           /\ Settled(s, ln, repaid).total_defaults = s.total_defaults
  BY DEF Settled, PoolStates

\* Crediting a payment to an open loan keeps the books balanced.
LEMMA CreditBalances ==
    ASSUME TypeOK, NEW p \in Pools, NEW id \in LoanIds, NEW s \in PoolStates,
           Balanced(s, vault[p], loan[p]), NEW paid \in Nat, NEW closes \in BOOLEAN,
           loan[p][id].status = "Active", Credit(p, s, p, id, paid, closes)
    PROVE  Balanced(pool'[p], vault'[p], loan'[p])
  <1> DEFINE ls == loan[p]
             ms == loan'[p]
  <1>1. /\ loan \in [Pools -> [LoanIds -> Loans]] /\ loan' \in [Pools -> [LoanIds -> Loans]]
        /\ pool \in [Pools -> PoolStates] /\ vault \in [Pools -> Nat]
    BY CreditType DEF TypeOK
  <1>2. /\ ms[id].repaid_amount = ls[id].repaid_amount + paid
        /\ ms[id].status = IF closes THEN "Repaid" ELSE "Active"
        /\ ms[id].principal = ls[id].principal
        /\ \A i \in LoanIds : i # id => ms[i] = ls[i]
    BY CreditedLoan
  <1>3. /\ ls \in [LoanIds -> Loans] /\ ms \in [LoanIds -> Loans]
        /\ ls[id] \in Loans /\ ms[id] \in Loans
        /\ ls[id].status = "Active"
    BY <1>1
  <1>4. vault'[p] = vault[p] + paid
    BY <1>1 DEF Credit
  <1>5. pool'[p] = IF closes THEN Settled(s, ls[id], ls[id].repaid_amount + paid) ELSE s
    BY <1>1 DEF Credit
  <1> HIDE DEF ls, ms
  <1>6. /\ TotalLent(ms) = TotalLent(ls) + LentBy(ms[id]) - LentBy(ls[id])
        /\ TotalOpen(ms) = TotalOpen(ls) + OpenBy(ms[id]) - OpenBy(ls[id])
        /\ TotalBack(ms) = TotalBack(ls) + BackBy(ms[id]) - BackBy(ls[id])
        /\ TotalLost(ms) = TotalLost(ls) + LostBy(ms[id]) - LostBy(ls[id])
    BY <1>2, <1>3, OneLoanChanges
  <1>7. /\ TotalLent(ls) \in Int /\ TotalOpen(ls) \in Int
        /\ TotalBack(ls) \in Int /\ TotalLost(ls) \in Int
    BY <1>3, TotalTypes
  <1>8. /\ LentBy(ls[id]) = ls[id].principal /\ OpenBy(ls[id]) = 1
        /\ BackBy(ls[id]) = ls[id].repaid_amount /\ LostBy(ls[id]) = 0
    BY <1>3, Entries
  <1>9. /\ s.total_borrowed \in Nat /\ s.total_deposited \in Nat
        /\ s.total_interest_earned \in Nat /\ s.total_defaults \in Nat
        /\ s.active_loans \in Nat /\ vault[p] \in Nat
        /\ ls[id].principal \in Nat /\ ls[id].repaid_amount \in Nat
    BY <1>1, <1>3 DEF PoolStates, Loans
  <1>10. /\ s.total_borrowed = TotalLent(ls)
         /\ s.active_loans = TotalOpen(ls)
         /\ vault[p] = s.total_deposited - s.total_borrowed + TotalBack(ls)
                       + s.total_interest_earned + s.total_defaults - TotalLost(ls)
    BY DEF Balanced, ls
  <1>11. CASE closes
    <2>1. LentBy(ms[id]) = 0 /\ OpenBy(ms[id]) = 0 /\ BackBy(ms[id]) = 0 /\ LostBy(ms[id]) = 0
      BY <1>2, <1>3, <1>11, Entries
    <2>2. /\ pool'[p].total_borrowed = s.total_borrowed - ls[id].principal
          /\ pool'[p].total_interest_earned =
                s.total_interest_earned + ((ls[id].repaid_amount + paid) - ls[id].principal)
          /\ pool'[p].active_loans = s.active_loans - 1
          /\ pool'[p].total_deposited = s.total_deposited
          /\ pool'[p].total_defaults = s.total_defaults
      <3>1. pool'[p] = Settled(s, ls[id], ls[id].repaid_amount + paid)
        BY <1>5, <1>11
      <3>2. ls[id].repaid_amount + paid \in Nat
        BY <1>9
      <3>3. QED
        BY <1>3, <3>1, <3>2, SettledFields
    <2>3. Balanced(pool'[p], vault'[p], ms)
      BY <1>4, <1>6, <1>7, <1>8, <1>9, <1>10, <2>1, <2>2 DEF Balanced
    <2>4. QED
      BY <2>3 DEF ms
  <1>12. CASE ~closes
    <2>1. /\ LentBy(ms[id]) = ls[id].principal /\ OpenBy(ms[id]) = 1
          /\ BackBy(ms[id]) = ls[id].repaid_amount + paid /\ LostBy(ms[id]) = 0
      BY <1>2, <1>3, <1>12, Entries
    <2>2. pool'[p] = s
      BY <1>5, <1>12
    <2>3. Balanced(pool'[p], vault'[p], ms)
      BY <1>4, <1>6, <1>7, <1>8, <1>9, <1>10, <2>1, <2>2 DEF Balanced
    <2>4. QED
      BY <2>3 DEF ms
  <1>13. QED
    BY <1>11, <1>12

\* What accrues and does not touch the books keeps them balanced.
LEMMA AccruedBalances ==
    ASSUME NEW s \in PoolStates, NEW v, NEW ls, now \in Nat, Balanced(s, v, ls)
    PROVE  Balanced(Accrued(s), v, ls)
  BY AccruedFacts DEF Balanced

\* Every instruction of the one pool keeps its books balanced.
LEMMA StepBalances ==
    ASSUME OnePool, TypeOK, Books, NEW p \in Pools, Step(p) PROVE Books'
  <1> DEFINE s == Accrued(pool[p])
  <1>1. /\ pool \in [Pools -> PoolStates] /\ vault \in [Pools -> Nat]
        /\ loan \in [Pools -> [LoanIds -> Loans]]
        /\ pool[p] \in PoolStates /\ vault[p] \in Nat /\ now \in Nat
    BY DEF TypeOK
  <1>2. s \in PoolStates /\ s.interest_index \in Nat
    BY <1>1, AccruedFacts DEF PoolStates
  <1>3. Balanced(pool[p], vault[p], loan[p]) /\ Balanced(s, vault[p], loan[p])
    BY <1>1, AccruedBalances DEF Books
  <1>4. /\ s.total_borrowed \in Nat /\ s.total_deposited \in Nat
        /\ s.total_interest_earned \in Nat /\ s.total_defaults \in Nat
        /\ s.active_loans \in Nat
    BY <1>2 DEF PoolStates
  <1>5. ASSUME Balanced(pool'[p], vault'[p], loan'[p]) PROVE Books'
    BY <1>5 DEF Books, OnePool
  <1> HIDE DEF s
  <1>6. ASSUME NEW a \in Deposits, Deposit(p, a) PROVE Books'
    <2>1. /\ pool'[p] = [pool[p] EXCEPT !.total_deposited = @ + a]
          /\ vault'[p] = vault[p] + a /\ loan' = loan /\ a \in Nat
      BY <1>1, <1>6, InputsAssumption DEF Deposit
    <2>2. QED
      BY <1>1, <1>3, <1>5, <2>1, TotalTypes DEF Balanced, PoolStates
  <1>7. ASSUME NEW a \in Withdrawals, Withdraw(p, a) PROVE Books'
    <2>1. /\ pool'[p] = [pool[p] EXCEPT !.total_deposited = @ - a]
          /\ vault'[p] = vault[p] - a /\ loan' = loan /\ a \in Nat
      BY <1>1, <1>7, InputsAssumption DEF Withdraw
    <2>2. QED
      BY <1>1, <1>3, <1>5, <2>1, TotalTypes DEF Balanced, PoolStates
  <1>8. CASE AccrueInterest(p)
    BY <1>1, <1>3, <1>5, <1>8 DEF AccrueInterest, s
  <1>9. ASSUME NEW id \in 1..(MaxLoanId + 1), SetNextLoanId(p, id) PROVE Books'
    <2>1. /\ pool'[p] = [pool[p] EXCEPT !.next_loan_id = id]
          /\ vault' = vault /\ loan' = loan
      BY <1>1, <1>9 DEF SetNextLoanId
    <2>2. QED
      BY <1>1, <1>3, <1>5, <2>1 DEF Balanced, PoolStates
  <1>10. ASSUME NEW price \in Prices, UpdateCollateralPrice(p, price) PROVE Books'
    <2>1. /\ pool'[p] = [pool[p] EXCEPT !.collateral_price = price, !.price_updated_at = now]
          /\ vault' = vault /\ loan' = loan
      BY <1>1, <1>10 DEF UpdateCollateralPrice, PoolStates
    <2>2. QED
      BY <1>1, <1>3, <1>5, <2>1 DEF Balanced, PoolStates
  <1>11. CASE UNCHANGED <<pool, vault, loan>>
    BY <1>11 DEF Books
  <1>12. ASSUME NEW id \in LoanIds, NEW b \in Borrowers, NEW score \in Scores,
                NEW a \in Principals, NEW rate \in Rates, NEW days \in Durations,
                ConditionalDisburse(p, id, b, score, a, rate, days)
         PROVE  Books'
    <2>1. loan' \in [Pools -> [LoanIds -> Loans]]
      BY <1>12, StepType DEF Step, Lend, TypeOK
    <2>2. /\ loan'[p][id].status = "Active" /\ loan'[p][id].principal = a
          /\ loan'[p][id].repaid_amount = 0
          /\ \A i \in LoanIds : i # id => loan'[p][i] = loan[p][i]
          /\ loan[p][id].status = "None"
      BY <1>1, <1>12 DEF ConditionalDisburse
    <2>3. /\ vault'[p] = vault[p] - a
          /\ pool'[p] = [s EXCEPT !.total_borrowed = @ + a,
                                  !.active_loans = @ + 1,
                                  !.total_loans_issued = @ + 1,
                                  !.next_loan_id = @ + 1]
          /\ a \in Nat
      BY <1>1, <1>12, InputsAssumption DEF ConditionalDisburse, s
    <2>4. /\ pool'[p].total_borrowed = s.total_borrowed + a
          /\ pool'[p].active_loans = s.active_loans + 1
          /\ pool'[p].total_deposited = s.total_deposited
          /\ pool'[p].total_interest_earned = s.total_interest_earned
          /\ pool'[p].total_defaults = s.total_defaults
      BY <1>2, <2>3 DEF PoolStates
    <2>5. /\ LentBy(loan'[p][id]) = a /\ OpenBy(loan'[p][id]) = 1
          /\ BackBy(loan'[p][id]) = 0 /\ LostBy(loan'[p][id]) = 0
          /\ LentBy(loan[p][id]) = 0 /\ OpenBy(loan[p][id]) = 0
          /\ BackBy(loan[p][id]) = 0 /\ LostBy(loan[p][id]) = 0
      BY <1>1, <2>1, <2>2, Entries
    <2>6. Balanced(pool'[p], vault'[p], loan'[p])
      <3>1. /\ TotalLent(loan'[p]) = TotalLent(loan[p]) + a - 0
            /\ TotalOpen(loan'[p]) = TotalOpen(loan[p]) + 1 - 0
            /\ TotalBack(loan'[p]) = TotalBack(loan[p]) + 0 - 0
            /\ TotalLost(loan'[p]) = TotalLost(loan[p]) + 0 - 0
        <4>1. loan[p] \in [LoanIds -> Loans] /\ loan'[p] \in [LoanIds -> Loans]
          BY <1>1, <2>1
        <4>2. QED
          BY <2>2, <2>5, <4>1, OneLoanChanges
      <3>2. /\ TotalLent(loan[p]) \in Int /\ TotalOpen(loan[p]) \in Int
            /\ TotalBack(loan[p]) \in Int /\ TotalLost(loan[p]) \in Int
        BY <1>1, TotalTypes
      <3>3. QED
        BY <1>3, <1>4, <2>3, <2>4, <3>1, <3>2 DEF Balanced
    <2>7. QED
      BY <1>5, <2>6
  <1>13. ASSUME NEW id \in LoanIds, NEW n \in Counts, NEW i \in Intervals,
                CreateSchedule(p, id, n, i)
         PROVE  Books'
    <2>1. loan' \in [Pools -> [LoanIds -> Loans]]
      BY <1>13, StepType DEF Step, Service, TypeOK
    <2>2. /\ loan'[p][id] = [loan[p][id] EXCEPT !.has_schedule = TRUE]
          /\ \A j \in LoanIds : j # id => loan'[p][j] = loan[p][j]
          /\ vault' = vault /\ pool' = pool
      BY <1>1, <1>13 DEF CreateSchedule
    <2>3. /\ LentBy(loan'[p][id]) = LentBy(loan[p][id])
          /\ OpenBy(loan'[p][id]) = OpenBy(loan[p][id])
          /\ BackBy(loan'[p][id]) = BackBy(loan[p][id])
          /\ LostBy(loan'[p][id]) = LostBy(loan[p][id])
      BY <1>1, <2>2 DEF Loans, LentBy, OpenBy, BackBy, LostBy
    <2>4. /\ LentBy(loan[p][id]) \in Int /\ OpenBy(loan[p][id]) \in Int
          /\ BackBy(loan[p][id]) \in Int /\ LostBy(loan[p][id]) \in Int
          /\ TotalLent(loan[p]) \in Int /\ TotalOpen(loan[p]) \in Int
          /\ TotalBack(loan[p]) \in Int /\ TotalLost(loan[p]) \in Int
      BY <1>1, TotalTypes, EntryTypes
    <2>5. /\ TotalLent(loan'[p]) = TotalLent(loan[p])
          /\ TotalOpen(loan'[p]) = TotalOpen(loan[p])
          /\ TotalBack(loan'[p]) = TotalBack(loan[p])
          /\ TotalLost(loan'[p]) = TotalLost(loan[p])
      <3>1. /\ TotalLent(loan'[p]) = TotalLent(loan[p]) + LentBy(loan[p][id]) - LentBy(loan[p][id])
            /\ TotalOpen(loan'[p]) = TotalOpen(loan[p]) + OpenBy(loan[p][id]) - OpenBy(loan[p][id])
            /\ TotalBack(loan'[p]) = TotalBack(loan[p]) + BackBy(loan[p][id]) - BackBy(loan[p][id])
            /\ TotalLost(loan'[p]) = TotalLost(loan[p]) + LostBy(loan[p][id]) - LostBy(loan[p][id])
        <4>1. loan[p] \in [LoanIds -> Loans] /\ loan'[p] \in [LoanIds -> Loans]
          BY <1>1, <2>1
        <4>2. QED
          BY <2>2, <2>3, <4>1, OneLoanChanges
      <3>2. QED
        BY <2>4, <3>1
    <2>6. QED
      BY <1>3, <1>5, <2>2, <2>5 DEF Balanced
  <1>14. ASSUME NEW id \in LoanIds, NEW a \in Payments, Repay(p, id, a) PROVE Books'
    <2> DEFINE ln == loan[p][id]
               remaining == Remaining(ln, s.interest_index)
               paid == IF a <= remaining THEN a ELSE remaining
               closes == ln.repaid_amount + paid >= TotalOwed(ln, s.interest_index)
    <2>1. /\ Owes(ln, s.interest_index)
          /\ ln.status = "Active"
          /\ Credit(p, s, p, id, paid, closes)
      BY <1>14 DEF Repay, s
    <2>2. paid \in Nat /\ closes \in BOOLEAN
      BY <1>1, <1>2, <2>1, RemainingNat, InputsAssumption
    <2> HIDE DEF paid, closes
    <2>3. QED
      BY <1>2, <1>3, <1>5, <2>1, <2>2, CreditBalances
  <1>15. ASSUME NEW q \in Pools, NEW id \in LoanIds, PullInstallment(p, q, id)
         PROVE  Books'
    <2> DEFINE ln == loan[p][id]
               sch == schedule[id]
               is_last == sch.paid + 1 = sch.total
               amount == IF is_last THEN Remaining(ln, s.interest_index)
                         ELSE sch.amount_per
    <2>1. q = p
      BY DEF OnePool
    <2>2. /\ is_last => Owes(ln, s.interest_index)
          /\ ln.status = "Active"
          /\ Credit(p, s, p, id, amount, is_last)
      BY <1>15, <2>1 DEF PullInstallment, s
    <2>3. amount \in Nat /\ is_last \in BOOLEAN
      BY <1>1, <1>2, <2>2, RemainingNat DEF TypeOK, Schedules
    <2> HIDE DEF amount, is_last
    <2>4. QED
      BY <1>2, <1>3, <1>5, <2>2, <2>3, CreditBalances
  <1>16. ASSUME NEW id \in LoanIds, MarkDefault(p, id) PROVE Books'
    <2> DEFINE debt == Remaining(loan[p][id], s.interest_index)
    <2>1. loan' \in [Pools -> [LoanIds -> Loans]]
      BY <1>16, StepType DEF Step, Service, TypeOK
    <2>2. /\ loan'[p][id] = [loan[p][id] EXCEPT !.status = "Defaulted"]
          /\ \A j \in LoanIds : j # id => loan'[p][j] = loan[p][j]
          /\ loan[p][id].status = "Active"
          /\ vault' = vault
          /\ Owes(loan[p][id], s.interest_index)
      BY <1>1, <1>16 DEF MarkDefault, s
    <2>3. debt \in Nat /\ loan[p][id].principal \in Nat /\ loan[p][id].repaid_amount \in Nat
      BY <1>1, <1>2, <2>2, RemainingNat DEF Loans
    <2>4. /\ loan'[p][id].status = "Defaulted"
          /\ loan'[p][id].principal = loan[p][id].principal
          /\ loan'[p][id].repaid_amount = loan[p][id].repaid_amount
      BY <1>1, <2>2 DEF Loans
    <2>5. pool'[p] = [s EXCEPT !.total_borrowed = @ - loan[p][id].principal,
                               !.total_defaults = @ + debt,
                               !.total_deposited = @ - debt,
                               !.active_loans = @ - 1]
      BY <1>1, <1>16 DEF MarkDefault, s
    <2> HIDE DEF debt
    <2>6. /\ pool'[p].total_borrowed = s.total_borrowed - loan[p][id].principal
          /\ pool'[p].total_defaults = s.total_defaults + debt
          /\ pool'[p].total_deposited = s.total_deposited - debt
          /\ pool'[p].active_loans = s.active_loans - 1
          /\ pool'[p].total_interest_earned = s.total_interest_earned
      BY <1>2, <2>5 DEF PoolStates
    <2>7. /\ LentBy(loan'[p][id]) = 0 /\ OpenBy(loan'[p][id]) = 0
          /\ BackBy(loan'[p][id]) = 0
          /\ LostBy(loan'[p][id]) = loan[p][id].principal - loan[p][id].repaid_amount
          /\ LentBy(loan[p][id]) = loan[p][id].principal /\ OpenBy(loan[p][id]) = 1
          /\ BackBy(loan[p][id]) = loan[p][id].repaid_amount /\ LostBy(loan[p][id]) = 0
      <3>1. loan[p][id] \in Loans /\ loan'[p][id] \in Loans
        BY <1>1, <2>1
      <3>2. QED
        BY <2>2, <2>4, <3>1, Entries
    <2>8. Balanced(pool'[p], vault'[p], loan'[p])
      <3>1. /\ TotalLent(loan'[p]) = TotalLent(loan[p]) + 0 - loan[p][id].principal
            /\ TotalOpen(loan'[p]) = TotalOpen(loan[p]) + 0 - 1
            /\ TotalBack(loan'[p]) = TotalBack(loan[p]) + 0 - loan[p][id].repaid_amount
            /\ TotalLost(loan'[p]) = TotalLost(loan[p])
                 + (loan[p][id].principal - loan[p][id].repaid_amount) - 0
        BY <1>1, <2>1, <2>2, <2>7, OneLoanChanges
      <3>2. /\ TotalLent(loan[p]) \in Int /\ TotalOpen(loan[p]) \in Int
            /\ TotalBack(loan[p]) \in Int /\ TotalLost(loan[p]) \in Int
        BY <1>1, TotalTypes
      <3>3. QED
        BY <1>1, <1>3, <1>4, <2>2, <2>3, <2>6, <3>1, <3>2 DEF Balanced
    <2>9. QED
      BY <1>5, <2>8
  <1>17. QED
    BY <1>6, <1>7, <1>8, <1>9, <1>10, <1>11, <1>12, <1>13, <1>14, <1>15, <1>16
       DEF Step, Lend, Service, LockCollateral, ReleaseCollateral, LiquidateEscrow

\* With one pool, the books balance in every reachable state: counters are those
\* of the open loans and every token of the vault is accounted for.
THEOREM BooksAlwaysBalance == ASSUME OnePool PROVE Spec => []BooksBalance
  <1>1. Init => Books
    <2> SUFFICES ASSUME Init, NEW p \in Pools PROVE Balanced(pool[p], vault[p], loan[p])
      BY DEF Books
    <2>1. \A id \in LoanIds : loan[p][id].status = "None"
      BY DEF Init
    <2>2. /\ TotalLent(loan[p]) = 0 /\ TotalOpen(loan[p]) = 0
          /\ TotalBack(loan[p]) = 0 /\ TotalLost(loan[p]) = 0
      BY <2>1, LoanIdsFinite, SumZeros
         DEF TotalLent, TotalOpen, TotalBack, TotalLost, LentBy, OpenBy, BackBy, LostBy
    <2>3. QED
      BY <2>2 DEF Init, Balanced
  <1>2. TypeOK /\ Books /\ [Next]_vars => Books'
    <2> SUFFICES ASSUME TypeOK, Books, [Next]_vars PROVE Books'
      OBVIOUS
    <2>1. CASE Tick \/ UNCHANGED vars
      BY <2>1 DEF Tick, vars, Books
    <2>2. ASSUME NEW p \in Pools, Step(p) PROVE Books'
      BY <2>2, StepBalances
    <2>3. QED
      BY <2>1, <2>2 DEF Next
  <1>3. TypeOK /\ Books => BooksBalance
    BY BooksAreTotals
  <1>4. QED
    BY <1>1, <1>2, <1>3, TypeCorrect, PTL DEF Spec

-----------------------------------------------------------------------------
(* The oracle's part of a step.                                            *)

LEMMA ServiceKeepsTime == ASSUME NEW p \in Pools, Service(p) PROVE now' = now
  BY DEF Service, Deposit, Withdraw, AccrueInterest, SetNextLoanId,
         UpdateCollateralPrice, LockCollateral, CreateSchedule, Repay,
         PullInstallment, MarkDefault, ReleaseCollateral, LiquidateEscrow

LEMMA PermStepKeepsTime == PermStep => now' = now
  BY DEF PermStep, Perm!AdminStep, Perm!AgentStep, Perm!RegisterAgent,
         Perm!CheckPermissionAndSpend, Perm!SetDailyLimit, Perm!SetAgentTier,
         Perm!DeactivateAgent, Perm!RecordLoss, Perm!ResetCircuitBreaker,
         Perm!EmergencyPause, Perm!Unpause, Perm!RequestAdminRotation,
         Perm!FinalizeAdminRotation, Perm!CancelAdminRotation

LEMMA OracleStepKeepsTime == OracleStep => now' = now
  BY DEF OracleStep, Oracle!OracleStep, Oracle!GrantOracleRole,
         Oracle!RevokeOracleRole, Oracle!UpdateScore, Oracle!RecordLoanIssued,
         Oracle!RecordLoanRepaid, Oracle!RecordLoanDefaulted, Oracle!RegisterDid,
         Oracle!Pause, Oracle!Unpause, Oracle!SetPaused,
         Oracle!SetValidityPeriod, Oracle!SetHistoryAuthority

LEMMA LendAsKeepsTime ==
    ASSUME NEW w \in Wallets, NEW p \in Pools, LendAs(w, p) PROVE now' = now
  BY DEF LendAs, DisburseAs, ConditionalDisburse

LEMMA StepOfOracle == [SystemNext]_systemVars => [Oracle!Next]_(Oracle!vars)
  <1> SUFFICES ASSUME [SystemNext]_systemVars PROVE [Oracle!Next]_(Oracle!vars)
    OBVIOUS
  <1>1. CASE SystemTick
    BY <1>1 DEF SystemTick, Tick, oracleVars, Oracle!Next, Oracle!Tick,
         Oracle!oracleVars
  <1>2. ASSUME NEW w \in Wallets, NEW p \in Pools, LendAs(w, p)
        PROVE  UNCHANGED Oracle!vars
    BY <1>2, LendAsKeepsTime
       DEF LendAs, DisburseAs, oracleVars, Oracle!vars, Oracle!oracleVars
  <1>3. ASSUME NEW p \in Pools, PoolStep(p) PROVE UNCHANGED Oracle!vars
    BY <1>3, ServiceKeepsTime
       DEF PoolStep, oracleVars, Oracle!vars, Oracle!oracleVars
  <1>4. CASE PermStep
    BY <1>4, PermStepKeepsTime
       DEF PermStep, oracleVars, Oracle!vars, Oracle!oracleVars
  <1>5. CASE OracleStep
    BY <1>5 DEF OracleStep, Oracle!Next
  <1>6. CASE UNCHANGED systemVars
    BY <1>6 DEF systemVars, oracleVars, Oracle!vars, Oracle!oracleVars
  <1>7. QED
    BY <1>1, <1>2, <1>3, <1>4, <1>5, <1>6 DEF SystemNext

\* The credit_score_oracle third of the system is the program of
\* CreditScoreOracle: the other two write none of its accounts.
THEOREM SystemIsOracle == SystemSpec => ImplementsOracle
  <1>1. SystemInit => Oracle!Init
    BY DEF SystemInit
  <1>2. QED
    BY <1>1, StepOfOracle, PTL DEF SystemSpec, ImplementsOracle, Oracle!Spec

-----------------------------------------------------------------------------
(* The scores gate 1 reads.                                                *)

\* What gate 1 may rely on: a published score has a tier, and it expires at most
\* the greatest validity period from its publication, which has happened.
ScoresSound ==
    /\ now \in 0..MaxTime
    /\ \A b \in Borrowers :
          /\ credit_score[b].score \in Nat
          /\ credit_score[b].exists =>
                /\ credit_score[b].timestamp \in 0..now
                /\ credit_score[b].expires_at \in
                       0..(credit_score[b].timestamp + MAX_VALIDITY_SECS)
                /\ credit_score[b].risk_tier \in 0..4
                /\ credit_score[b].score < BB_THRESHOLD =>
                       credit_score[b].risk_tier = 0

\* With it, what keeps it so: the period that is set is an allowed one.
SoundOracle ==
    /\ ScoresSound
    /\ oracle \in Oracle!OracleStates
    /\ credit_score = [b \in Borrowers |-> credit_score[b]]

\* A score that an oracle publishes is sound.
LEMMA PublishedSound ==
    ASSUME SoundOracle, NEW o \in Oracles, NEW b \in Borrowers, NEW score \in GivenScores,
           NEW c \in GivenConfidences, Oracle!UpdateScore(o, b, score, c)
    PROVE  SoundOracle'
  <1> DEFINE tier == Oracle!CalculateRiskTier(score)
             period == oracle.score_validity_secs
             cs == [exists |-> TRUE, score |-> score, risk_tier |-> tier,
                    timestamp |-> now, expires_at |-> now + period, oracle_agent |-> o]
  <1>1. /\ MIN_VALIDITY_SECS \in Nat /\ MAX_VALIDITY_SECS \in Nat
        /\ AAA_THRESHOLD \in Nat /\ AA_THRESHOLD \in Nat
        /\ A_THRESHOLD \in Nat /\ BB_THRESHOLD \in Nat
        /\ BB_THRESHOLD <= A_THRESHOLD /\ A_THRESHOLD <= AA_THRESHOLD
        /\ AA_THRESHOLD <= AAA_THRESHOLD /\ score \in Nat
    BY OracleConstantsAssumption DEF Oracle!OracleAssumption
  <1>2. /\ oracle \in Oracle!OracleStates /\ now \in 0..MaxTime /\ now \in Nat
        /\ period \in MIN_VALIDITY_SECS..MAX_VALIDITY_SECS
    BY InputsAssumption DEF SoundOracle, ScoresSound, Oracle!OracleStates, Oracle!Periods
  <1>3. tier \in 0..4 /\ (score < BB_THRESHOLD => tier = 0)
    BY <1>1 DEF Oracle!CalculateRiskTier
  <1>4. /\ credit_score' = [credit_score EXCEPT ![b] = cs]
        /\ oracle' = [oracle EXCEPT !.total_scores_issued = @ + 1] /\ now' = now
    BY DEF Oracle!UpdateScore
  <1> HIDE DEF tier, period
  <1>5. /\ cs.score \in Nat /\ cs.timestamp \in 0..now
        /\ cs.expires_at \in 0..(cs.timestamp + MAX_VALIDITY_SECS)
        /\ cs.risk_tier \in 0..4
        /\ cs.score < BB_THRESHOLD => cs.risk_tier = 0
    BY <1>1, <1>2, <1>3
  <1> HIDE DEF cs
  <1>6. oracle' \in Oracle!OracleStates
    BY <1>2, <1>4 DEF Oracle!OracleStates
  <1>7. /\ credit_score' = [a \in Borrowers |-> credit_score'[a]]
        /\ \A a \in Borrowers : credit_score'[a] = IF a = b THEN cs ELSE credit_score[a]
    BY <1>4 DEF SoundOracle
  <1>8. QED
    BY <1>2, <1>4, <1>5, <1>6, <1>7 DEF SoundOracle, ScoresSound

LEMMA OracleKeepsSound ==
    SoundOracle /\ [Oracle!Next]_(Oracle!vars) => SoundOracle'
  <1> SUFFICES ASSUME SoundOracle, [Oracle!Next]_(Oracle!vars) PROVE SoundOracle'
    OBVIOUS
  <1>1. oracle \in Oracle!OracleStates /\ now \in 0..MaxTime /\ MaxTime \in Nat
    BY InputsAssumption DEF SoundOracle, ScoresSound
  <1>2. CASE Oracle!Tick
    <2>1. now' = now + 1 /\ now' \in 0..MaxTime /\ UNCHANGED <<oracle, credit_score>>
      BY <1>1, <1>2 DEF Oracle!Tick, Oracle!oracleVars
    <2>2. QED
      BY <1>1, <2>1 DEF SoundOracle, ScoresSound
  <1>3. ASSUME UNCHANGED <<now, credit_score>>, oracle' \in Oracle!OracleStates
        PROVE  SoundOracle'
    BY <1>3 DEF SoundOracle, ScoresSound
  <1>4. CASE UNCHANGED Oracle!vars
    BY <1>1, <1>3, <1>4 DEF Oracle!vars, Oracle!oracleVars
  <1>5. ASSUME NEW o \in Oracles, Oracle!GrantOracleRole(o) \/ Oracle!RevokeOracleRole(o)
        PROVE  SoundOracle'
    BY <1>1, <1>3, <1>5 DEF Oracle!GrantOracleRole, Oracle!RevokeOracleRole
  <1>6. ASSUME NEW key \in Keys, NEW b \in Borrowers,
               \/ Oracle!RecordLoanDefaulted(key, b)
               \/ \E amount \in LoanAmounts :
                     \/ Oracle!RecordLoanIssued(key, b, amount)
                     \/ Oracle!RecordLoanRepaid(key, b, amount)
        PROVE  SoundOracle'
    BY <1>1, <1>3, <1>6 DEF Oracle!RecordLoanDefaulted, Oracle!RecordLoanIssued,
         Oracle!RecordLoanRepaid
  <1>7. ASSUME NEW b \in Borrowers, NEW d \in Dids, Oracle!RegisterDid(b, d)
        PROVE  SoundOracle'
    BY <1>1, <1>3, <1>7 DEF Oracle!RegisterDid
  <1>8. CASE \/ Oracle!Pause \/ Oracle!Unpause
             \/ \E period \in GivenPeriods : Oracle!SetValidityPeriod(period)
             \/ \E key \in Keys : Oracle!SetHistoryAuthority(key)
    <2>1. oracle' \in Oracle!OracleStates /\ UNCHANGED <<now, credit_score>>
      BY <1>1, <1>8 DEF Oracle!Pause, Oracle!Unpause, Oracle!SetPaused,
           Oracle!SetValidityPeriod, Oracle!SetHistoryAuthority, Oracle!OracleStates
    <2>2. QED
      BY <1>3, <2>1
  <1>9. QED
    BY <1>2, <1>4, <1>5, <1>6, <1>7, <1>8, PublishedSound DEF Oracle!Next, Oracle!OracleStep

LEMMA SystemStartsSound == SystemInit => SoundOracle
  <1> SUFFICES ASSUME SystemInit PROVE SoundOracle
    OBVIOUS
  <1>1. now = 0 /\ oracle \in Oracle!OracleStates
    BY DEF SystemInit, Oracle!Init, Oracle!OracleStates
  <1>2. credit_score = [b \in Borrowers |->
           [exists |-> FALSE, score |-> 0, risk_tier |-> 0, timestamp |-> 0,
            expires_at |-> 0, oracle_agent |-> NoKey]]
    BY DEF SystemInit, Oracle!Init
  <1>3. QED
    BY <1>1, <1>2, InputsAssumption DEF SoundOracle, ScoresSound

\* In every state of the system the scores are sound, whatever the lending
\* agent and the pools do meanwhile.
THEOREM SystemScoresSound == SystemSpec => []ScoresSound
  <1>1. SoundOracle => ScoresSound
    BY DEF SoundOracle
  <1>2. QED
    BY <1>1, SystemStartsSound, OracleKeepsSound, StepOfOracle, PTL DEF SystemSpec

LEMMA ScoreReadable ==
    ASSUME ScoresSound, NEW b \in Borrowers, credit_score[b].exists
    PROVE  ScoreOf(b) \in Scores
  <1>1. MAX_VALIDITY_SECS \in Nat /\ MaxTime \in Nat
    BY OracleConstantsAssumption, InputsAssumption DEF Oracle!OracleAssumption
  <1>2. credit_score[b].risk_tier \in 0..4
        /\ credit_score[b].expires_at \in 0..(MaxTime + MAX_VALIDITY_SECS)
    BY <1>1 DEF ScoresSound
  <1>3. QED
    BY <1>2, ScoresAssumption DEF ScoreOf

-----------------------------------------------------------------------------
(* The parts of the pools and of the permissions.                          *)

LEMMA StepOfPool == ScoresSound /\ [SystemNext]_systemVars => [Next]_vars
  <1> SUFFICES ASSUME ScoresSound, [SystemNext]_systemVars PROVE [Next]_vars
    OBVIOUS
  <1>1. CASE SystemTick
    BY <1>1 DEF SystemTick, Next
  <1>2. ASSUME NEW w \in Wallets, NEW p \in Pools, LendAs(w, p) PROVE Next
    <2>1. PICK id \in LoanIds, b \in Borrowers, a \in Principals,
               rate \in Rates, days \in Durations :
             /\ credit_score[b].exists
             /\ ConditionalDisburse(p, id, b, ScoreOf(b), a, rate, days)
      BY <1>2 DEF LendAs, DisburseAs
    <2>2. ScoreOf(b) \in Scores
      BY <2>1, ScoreReadable
    <2>3. Lend(p)
      BY <2>1, <2>2 DEF Lend
    <2>4. QED
      BY <2>3 DEF Next, Step
  <1>3. ASSUME NEW p \in Pools, PoolStep(p) PROVE Next
    BY <1>3 DEF PoolStep, Next, Step
  <1>4. CASE PermStep \/ OracleStep \/ UNCHANGED systemVars
    BY <1>4, PermStepKeepsTime, OracleStepKeepsTime
       DEF PermStep, OracleStep, systemVars, poolVars, vars
  <1>5. QED
    BY <1>1, <1>2, <1>3, <1>4 DEF SystemNext

LEMMA StepOfPermissions == [SystemNext]_systemVars => [Perm!Next]_(Perm!vars)
  <1> SUFFICES ASSUME [SystemNext]_systemVars PROVE [Perm!Next]_(Perm!vars)
    OBVIOUS
  <1>1. CASE SystemTick
    BY <1>1 DEF SystemTick, Tick, Perm!Next, Perm!Tick, permVars, Perm!permVars
  <1>2. ASSUME NEW w \in Wallets, NEW p \in Pools, LendAs(w, p) PROVE Perm!Next
    <2>1. PICK a \in Principals :
             Perm!CheckPermissionAndSpend(w, "Lending", Perm!Manage, a)
      BY <1>2 DEF LendAs, DisburseAs
    <2>2. "Lending" \in Perm!Roles /\ Perm!Manage \in Perm!Tiers
      BY DEF Perm!Roles, Perm!Tiers, Perm!Manage, Perm!Read, Perm!Admin
    <2>3. QED
      BY <2>1, <2>2 DEF Perm!Next, Perm!AgentStep
  <1>3. ASSUME NEW p \in Pools, PoolStep(p) PROVE UNCHANGED Perm!vars
    BY <1>3, ServiceKeepsTime DEF PoolStep, Perm!vars, Perm!permVars, permVars
  <1>4. CASE PermStep
    BY <1>4 DEF PermStep, Perm!Next
  <1>5. CASE OracleStep \/ UNCHANGED systemVars
    BY <1>5, OracleStepKeepsTime
       DEF OracleStep, systemVars, permVars, Perm!vars, Perm!permVars
  <1>6. QED
    BY <1>1, <1>2, <1>3, <1>4, <1>5 DEF SystemNext

\* The lending_pool third of the system is the lending_pool of LendingPool:
\* the scores it reads are scores the oracle may publish, and calling
\* agent_permissions only narrows what it may do.
THEOREM SystemIsPool == SystemSpec => ImplementsPool
  <1>1. SystemInit => Init
    BY DEF SystemInit
  <1>2. QED
    BY <1>1, StepOfPool, SystemScoresSound, PTL DEF SystemSpec, ImplementsPool, Spec

\* The agent_permissions third is the program of AgentPermissions: what
\* lending_pool asks of it any agent could ask.
THEOREM SystemIsPermissions == SystemSpec => ImplementsPermissions
  <1>1. SystemInit => Perm!Init
    BY DEF SystemInit
  <1>2. QED
    BY <1>1, StepOfPermissions, PTL DEF SystemSpec, ImplementsPermissions, Perm!Spec

-----------------------------------------------------------------------------
(* The pause.                                                              *)

\* Only a disbursement counts a loan as issued.
LEMMA ServiceIssuesNothing ==
    ASSUME TypeOK, NEW p \in Pools, Service(p), NEW q \in Pools
    PROVE  pool'[q].total_loans_issued = pool[q].total_loans_issued
  <1>a. now \in Nat /\ pool \in [Pools -> PoolStates] /\ pool[p] \in PoolStates
    BY DEF TypeOK
  <1>b. Accrued(pool[p]).total_loans_issued = pool[p].total_loans_issued
    BY <1>a DEF Accrued, PoolStates
  <1>1. /\ pool \in [Pools -> PoolStates]
        /\ Accrued(pool[p]).total_loans_issued = pool[p].total_loans_issued
        /\ Accrued(pool[p]) \in PoolStates
    BY <1>a, <1>b, AccruedFacts
  <1>2. ASSUME NEW r \in Pools, NEW id \in LoanIds, NEW paid, NEW closes,
               Credit(p, Accrued(pool[p]), r, id, paid, closes)
        PROVE  pool'[q].total_loans_issued = pool[q].total_loans_issued
    BY <1>1, <1>2 DEF Credit, Settled, PoolStates
  <1>3. ASSUME NEW id \in LoanIds, NEW a, Repay(p, id, a)
        PROVE  pool'[q].total_loans_issued = pool[q].total_loans_issued
    BY <1>2, <1>3 DEF Repay
  <1>4. ASSUME NEW r \in Pools, NEW id \in LoanIds, PullInstallment(p, r, id)
        PROVE  pool'[q].total_loans_issued = pool[q].total_loans_issued
    BY <1>2, <1>4 DEF PullInstallment
  <1>5. ASSUME NEW id \in LoanIds, MarkDefault(p, id)
        PROVE  pool'[q].total_loans_issued = pool[q].total_loans_issued
    BY <1>1, <1>5 DEF MarkDefault, PoolStates
  <1>6. CASE AccrueInterest(p)
    BY <1>1, <1>6 DEF AccrueInterest
  <1>7. ASSUME NEW a, Deposit(p, a) \/ Withdraw(p, a) \/ SetNextLoanId(p, a)
                         \/ UpdateCollateralPrice(p, a)
        PROVE  pool'[q].total_loans_issued = pool[q].total_loans_issued
    BY <1>1, <1>7
       DEF Deposit, Withdraw, SetNextLoanId, UpdateCollateralPrice, PoolStates
  <1>8. QED
    BY <1>3, <1>4, <1>5, <1>6, <1>7
       DEF Service, LockCollateral, CreateSchedule, ReleaseCollateral, LiquidateEscrow

\* Whatever the agents do, no pool issues a loan while perm_state is paused,
\* by the admin or by the circuit breaker: gate 4 is in the same transaction.
THEOREM PauseAlwaysStopsLending == SystemSpec => PauseStopsLending
  <1>1. TypeOK /\ [SystemNext]_systemVars =>
           [perm.is_paused =>
              \A p \in Pools : pool'[p].total_loans_issued = pool[p].total_loans_issued
           ]_systemVars
    <2> SUFFICES ASSUME TypeOK, SystemNext, perm.is_paused, NEW q \in Pools
                 PROVE  pool'[q].total_loans_issued = pool[q].total_loans_issued
      OBVIOUS
    <2>1. ASSUME NEW w \in Wallets, NEW p \in Pools, LendAs(w, p) PROVE FALSE
      BY <2>1 DEF LendAs, DisburseAs, Perm!CheckPermissionAndSpend
    <2>2. ASSUME NEW p \in Pools, PoolStep(p)
          PROVE  pool'[q].total_loans_issued = pool[q].total_loans_issued
      BY <2>2, ServiceIssuesNothing DEF PoolStep
    <2>3. CASE SystemTick \/ PermStep \/ OracleStep
      BY <2>3 DEF SystemTick, Tick, PermStep, OracleStep, poolVars
    <2>4. QED
      BY <2>1, <2>2, <2>3 DEF SystemNext
  <1>2. QED
    BY <1>1, SystemIsPool, TypeCorrect, PTL
       DEF SystemSpec, ImplementsPool, PauseStopsLending

\* In the whole system, with one pool, the collateral of an open loan is held.
THEOREM SystemHoldsCollateral == ASSUME OnePool PROVE SystemSpec => []CollateralHeld
  BY SystemIsPool, CollateralIsHeld, PTL DEF ImplementsPool

-----------------------------------------------------------------------------
(* The scores under the loans.                                             *)

\* Only a disbursement initialises a loan account.
LEMMA ServiceCreatesNoLoan ==
    ASSUME TypeOK, NEW p \in Pools, Service(p),
           NEW q \in Pools, NEW id \in LoanIds, loan[q][id].status = "None"
    PROVE  loan'[q][id].status = "None"
  <1>1. loan \in [Pools -> [LoanIds -> Loans]]
    BY DEF TypeOK
  <1>2. ASSUME NEW s, NEW r \in Pools, NEW i \in LoanIds, NEW paid, NEW closes,
               Credit(p, s, r, i, paid, closes), loan[r][i].status = "Active"
        PROVE  loan'[q][id].status = "None"
    BY <1>1, <1>2 DEF Credit, Loans
  <1>3. ASSUME NEW i \in LoanIds, NEW a, Repay(p, i, a)
        PROVE  loan'[q][id].status = "None"
    BY <1>2, <1>3 DEF Repay
  <1>4. ASSUME NEW r \in Pools, NEW i \in LoanIds, PullInstallment(p, r, i)
        PROVE  loan'[q][id].status = "None"
    BY <1>2, <1>4 DEF PullInstallment
  <1>5. ASSUME NEW i \in LoanIds, MarkDefault(p, i)
        PROVE  loan'[q][id].status = "None"
    BY <1>1, <1>5 DEF MarkDefault, Loans
  <1>6. ASSUME NEW i \in LoanIds, NEW n, NEW interval, CreateSchedule(p, i, n, interval)
        PROVE  loan'[q][id].status = "None"
    BY <1>1, <1>6 DEF CreateSchedule, Loans
  <1>7. QED
    BY <1>3, <1>4, <1>5, <1>6
       DEF Service, Deposit, Withdraw, AccrueInterest, SetNextLoanId,
           UpdateCollateralPrice, LockCollateral, ReleaseCollateral, LiquidateEscrow

\* Every loan is issued on a score less than the greatest validity period old,
\* and below BB only within the starter profile: what gate 1 and the oracle
\* promise together, however scores are overwritten and periods changed.
THEOREM LoansAlwaysRestOnScores == SystemSpec => LoansRestOnScores
  <1>1. TypeOK /\ ScoresSound /\ [SystemNext]_systemVars =>
           [\A p \in Pools, id \in LoanIds :
              loan[p][id].status = "None" /\ loan'[p][id].status # "None" =>
                  LET cs == credit_score[loan'[p][id].borrower]
                  IN /\ cs.exists
                     /\ now < cs.timestamp + MAX_VALIDITY_SECS
                     /\ cs.score < BB_THRESHOLD =>
                           loan'[p][id].principal <= STARTER_MAX_PRINCIPAL]_systemVars
    <2> SUFFICES ASSUME TypeOK, ScoresSound, SystemNext,
                        NEW q \in Pools, NEW id \in LoanIds,
                        loan[q][id].status = "None", loan'[q][id].status # "None"
                 PROVE  LET cs == credit_score[loan'[q][id].borrower]
                        IN /\ cs.exists
                           /\ now < cs.timestamp + MAX_VALIDITY_SECS
                           /\ cs.score < BB_THRESHOLD =>
                                 loan'[q][id].principal <= STARTER_MAX_PRINCIPAL
      OBVIOUS
    <2>1. PICK w \in Wallets, p \in Pools : LendAs(w, p)
      BY ServiceCreatesNoLoan
         DEF SystemNext, SystemTick, Tick, PoolStep, PermStep, OracleStep, poolVars
    <2>2. PICK i \in LoanIds, b \in Borrowers, a \in Principals,
               rate \in Rates, days \in Durations :
             /\ credit_score[b].exists
             /\ ConditionalDisburse(p, i, b, ScoreOf(b), a, rate, days)
      BY <2>1 DEF LendAs, DisburseAs
    <2>3. /\ ScoreOf(b).expires_at > now
          /\ ScoreOf(b).risk_tier >= 1 \/ a <= STARTER_MAX_PRINCIPAL
      BY <2>2 DEF ConditionalDisburse, ScoreGate, StarterProfile
    <2>4. loan'[q][id].borrower = b /\ loan'[q][id].principal = a
      <3>1. loan \in [Pools -> [LoanIds -> Loans]]
        BY DEF TypeOK
      <3>2. QED
        BY <2>2, <3>1 DEF ConditionalDisburse
    <2>5. /\ credit_score[b].exists
          /\ credit_score[b].timestamp \in Nat /\ now \in Nat
          /\ MAX_VALIDITY_SECS \in Nat
          /\ credit_score[b].expires_at \in
                0..(credit_score[b].timestamp + MAX_VALIDITY_SECS)
          /\ credit_score[b].score < BB_THRESHOLD => credit_score[b].risk_tier = 0
      BY <2>2, OracleConstantsAssumption DEF ScoresSound, Oracle!OracleAssumption
    <2>6. QED
      BY <2>3, <2>4, <2>5 DEF ScoreOf
  <1>2. QED
    BY <1>1, SystemIsPool, TypeCorrect, SystemScoresSound, PTL
       DEF SystemSpec, ImplementsPool, LoansRestOnScores

-----------------------------------------------------------------------------
(* The charge.  Both sides of LendingIsCharged as sums over all accounts:  *)
(* what a loan account adds is its principal once it is initialised.       *)

IssuedBy(ln) == IF ln.status # "None" THEN ln.principal ELSE 0

LentEver(ls) == SumOf([id \in LoanIds |-> IssuedBy(ls[id])], LoanIds)
AllLent(lss) == SumOf([p \in Pools |-> LentEver(lss[p])], Pools)

Times == 0..MaxTime

SpentEver(f) == SumOf(f, Times)
AllSpent(fs) == SumOf([w \in Wallets |-> SpentEver(fs[w])], Wallets)

LoanTables == [Pools -> [LoanIds -> Loans]]
SpendTables == [Wallets -> [Times -> Nat]]

\* The inductive invariant: the time matters as it indexes the history.
Charged ==
    /\ spent \in SpendTables
    /\ now \in Times
    /\ AllLent(loan) <= AllSpent(spent)

LEMMA TimesFinite == IsFiniteSet(Times)
  BY FS_Interval, InputsAssumption DEF Times

LEMMA IssuedType == ASSUME NEW ln \in Loans PROVE IssuedBy(ln) \in Int
  BY DEF IssuedBy, Loans

LEMMA LentEverType == ASSUME NEW ls \in [LoanIds -> Loans] PROVE LentEver(ls) \in Int
  <1>1. \A id \in LoanIds : ls[id] \in Loans
    OBVIOUS
  <1>2. QED
    BY <1>1, LoanIdsFinite, IssuedType, SumInt DEF LentEver

LEMMA AllLentType ==
    ASSUME IsFiniteSet(Pools), NEW lss \in LoanTables PROVE AllLent(lss) \in Int
  <1>1. \A p \in Pools : lss[p] \in [LoanIds -> Loans]
    BY DEF LoanTables
  <1>2. QED
    BY <1>1, LentEverType, SumInt DEF AllLent

\* Loan accounts that keep what they add keep the total.
LEMMA SameLent ==
    ASSUME IsFiniteSet(Pools), NEW lss, NEW mss,
           \A p \in Pools, id \in LoanIds : IssuedBy(mss[p][id]) = IssuedBy(lss[p][id])
    PROVE  AllLent(mss) = AllLent(lss)
  <1>1. ASSUME NEW p \in Pools PROVE LentEver(mss[p]) = LentEver(lss[p])
    <2>1. \A id \in LoanIds : [i \in LoanIds |-> IssuedBy(mss[p][i])][id]
                                = [i \in LoanIds |-> IssuedBy(lss[p][i])][id]
      OBVIOUS
    <2>2. QED
      BY <2>1, LoanIdsFinite, SumSame DEF LentEver
  <1>2. \A p \in Pools : [q \in Pools |-> LentEver(mss[q])][p]
                           = [q \in Pools |-> LentEver(lss[q])][p]
    BY <1>1
  <1>3. QED
    BY <1>2, SumSame DEF AllLent

\* A loan account that is initialised adds its principal.
LEMMA OneLent ==
    ASSUME IsFiniteSet(Pools), NEW lss \in LoanTables, NEW mss \in LoanTables,
           NEW p \in Pools, NEW id \in LoanIds, NEW a \in Nat,
           lss[p][id].status = "None", mss[p][id].status = "Active",
           mss[p][id].principal = a,
           \A q \in Pools : q # p => mss[q] = lss[q],
           \A i \in LoanIds : i # id => mss[p][i] = lss[p][i]
    PROVE  AllLent(mss) = AllLent(lss) + a
  <1>1. \A q \in Pools : lss[q] \in [LoanIds -> Loans] /\ mss[q] \in [LoanIds -> Loans]
    BY DEF LoanTables
  <1>2. LentEver(mss[p]) = LentEver(lss[p]) + a
    <2> DEFINE f == [i \in LoanIds |-> IssuedBy(lss[p][i])]
               g == [i \in LoanIds |-> IssuedBy(mss[p][i])]
    <2>1. f[id] = 0 /\ g[id] = a
      BY DEF IssuedBy
    <2>2. \A i \in LoanIds : f[i] \in Int /\ g[i] \in Int
      <3>1. \A i \in LoanIds : lss[p][i] \in Loans /\ mss[p][i] \in Loans
        BY <1>1
      <3>2. QED
        BY <3>1, IssuedType
    <2>3. \A i \in LoanIds \ {id} : g[i] = f[i]
      OBVIOUS
    <2>4. LentEver(lss[p]) = SumOf(f, LoanIds) /\ LentEver(mss[p]) = SumOf(g, LoanIds)
      BY DEF LentEver
    <2> HIDE DEF f, g
    <2>5. SumOf(g, LoanIds) = SumOf(f, LoanIds) + g[id] - f[id]
      BY <2>2, <2>3, LoanIdsFinite, SumChange
    <2>6. SumOf(f, LoanIds) \in Int
      BY <2>2, LoanIdsFinite, SumInt
    <2>7. QED
      BY <2>1, <2>4, <2>5, <2>6
  <1>3. QED
    <2> DEFINE f == [q \in Pools |-> LentEver(lss[q])]
               g == [q \in Pools |-> LentEver(mss[q])]
    <2>1. /\ \A q \in Pools : f[q] \in Int /\ g[q] \in Int
          /\ \A q \in Pools \ {p} : g[q] = f[q]
          /\ g[p] = f[p] + a
      BY <1>1, <1>2, LentEverType
    <2>2. AllLent(lss) = SumOf(f, Pools) /\ AllLent(mss) = SumOf(g, Pools)
      BY DEF AllLent
    <2> HIDE DEF f, g
    <2>3. SumOf(g, Pools) = SumOf(f, Pools) + g[p] - f[p]
      BY <2>1, SumChange
    <2>4. SumOf(f, Pools) \in Int
      BY <2>1, SumInt
    <2>5. QED
      BY <2>1, <2>2, <2>3, <2>4

\* A charge writes one entry of the table.
LEMMA OneEntry ==
    ASSUME NEW W, NEW T, NEW fs \in [W -> [T -> Nat]], NEW w \in W, NEW t \in T,
           NEW a \in Nat
    PROVE  /\ [fs EXCEPT ![w][t] = @ + a] \in [W -> [T -> Nat]]
           /\ [fs EXCEPT ![w][t] = @ + a][w][t] = fs[w][t] + a
           /\ \A v \in W \ {w} : [fs EXCEPT ![w][t] = @ + a][v] = fs[v]
           /\ \A x \in T \ {t} : [fs EXCEPT ![w][t] = @ + a][w][x] = fs[w][x]
  <1>1. fs[w] \in [T -> Nat] /\ fs[w][t] + a \in Nat
    OBVIOUS
  <1>2. [fs[w] EXCEPT ![t] = @ + a] \in [T -> Nat]
    BY <1>1
  <1>3. QED
    BY <1>2

\* A charge adds its amount.
LEMMA OneCharge ==
    ASSUME IsFiniteSet(Wallets), NEW fs \in SpendTables, NEW w \in Wallets,
           NEW t \in Times, NEW a \in Nat,
           NEW gs \in SpendTables, gs[w][t] = fs[w][t] + a,
           \A v \in Wallets \ {w} : gs[v] = fs[v],
           \A x \in Times \ {t} : gs[w][x] = fs[w][x]
    PROVE  AllSpent(fs) \in Int /\ AllSpent(gs) = AllSpent(fs) + a
  <1>1. \A v \in Wallets : /\ fs[v] \in [Times -> Nat]
                           /\ gs[v] \in [Times -> Nat]
    BY DEF SpendTables
  <1>2. IsFiniteSet(Times)
    BY TimesFinite
  <1>3. \A v \in Wallets : SpentEver(fs[v]) \in Int /\ SpentEver(gs[v]) \in Int
    <2> SUFFICES ASSUME NEW f \in [Times -> Nat] PROVE SpentEver(f) \in Int
      BY <1>1
    <2>1. \A x \in Times : f[x] \in Int
      OBVIOUS
    <2>2. QED
      BY <1>2, <2>1, SumInt DEF SpentEver
  <1>4. SpentEver(gs[w]) = SpentEver(fs[w]) + a
    <2> DEFINE f == fs[w]
               g == gs[w]
    <2>1. /\ \A x \in Times : f[x] \in Int /\ g[x] \in Int
          /\ \A x \in Times \ {t} : g[x] = f[x]
          /\ g[t] = f[t] + a
      BY <1>1
    <2> HIDE DEF f, g
    <2>2. SumOf(g, Times) = SumOf(f, Times) + g[t] - f[t]
      BY <1>2, <2>1, SumChange
    <2>3. SumOf(f, Times) \in Int
      BY <1>2, <2>1, SumInt
    <2>4. SumOf(g, Times) = SumOf(f, Times) + a
      BY <2>1, <2>2, <2>3
    <2>5. QED
      BY <2>4 DEF SpentEver, f, g
  <1>5. AllSpent(gs) = AllSpent(fs) + a /\ AllSpent(fs) \in Int
    <2> DEFINE f == [v \in Wallets |-> SpentEver(fs[v])]
               g == [v \in Wallets |-> SpentEver(gs[v])]
    <2>1. /\ \A v \in Wallets : f[v] \in Int /\ g[v] \in Int
          /\ \A v \in Wallets \ {w} : g[v] = f[v]
          /\ g[w] = f[w] + a
      BY <1>1, <1>3, <1>4
    <2>2. AllSpent(fs) = SumOf(f, Wallets) /\ AllSpent(gs) = SumOf(g, Wallets)
      BY DEF AllSpent
    <2> HIDE DEF f, g
    <2>3. SumOf(g, Wallets) = SumOf(f, Wallets) + g[w] - f[w]
      BY <2>1, SumChange
    <2>4. SumOf(f, Wallets) \in Int
      BY <2>1, SumInt
    <2>5. QED
      BY <2>1, <2>2, <2>3, <2>4
  <1>6. QED
    BY <1>5

\* So what a step adds to one entry of the history is added to the total.
LEMMA ChargeOnce ==
    ASSUME IsFiniteSet(Wallets), spent \in SpendTables, now \in Times,
           NEW w \in Wallets, NEW a \in Nat, spent' = [spent EXCEPT ![w][now] = @ + a]
    PROVE  /\ spent' \in SpendTables /\ AllSpent(spent) \in Int
           /\ AllSpent(spent') = AllSpent(spent) + a
  <1> DEFINE gs == [spent EXCEPT ![w][now] = @ + a]
  <1>1. /\ gs \in SpendTables
        /\ gs[w][now] = spent[w][now] + a
        /\ \A v \in Wallets \ {w} : gs[v] = spent[v]
        /\ \A x \in Times \ {now} : gs[w][x] = spent[w][x]
    BY OneEntry DEF SpendTables
  <1>2. ASSUME NEW fs \in SpendTables, NEW hs \in SpendTables, NEW t \in Times,
               hs[w][t] = fs[w][t] + a,
               \A v \in Wallets \ {w} : hs[v] = fs[v],
               \A x \in Times \ {t} : hs[w][x] = fs[w][x]
        PROVE  AllSpent(fs) \in Int /\ AllSpent(hs) = AllSpent(fs) + a
    BY <1>2, OneCharge
  <1> HIDE DEF gs
  <1>3. AllSpent(spent) \in Int /\ AllSpent(gs) = AllSpent(spent) + a
    BY <1>1, <1>2
  <1>4. QED
    BY <1>1, <1>3 DEF gs

\* Nothing but a disbursement initialises a loan account or writes a principal.
LEMMA ServiceLendsNothing ==
    ASSUME TypeOK, NEW p \in Pools, Service(p), NEW q \in Pools, NEW id \in LoanIds
    PROVE  IssuedBy(loan'[q][id]) = IssuedBy(loan[q][id])
  <1>1. loan \in [Pools -> [LoanIds -> Loans]]
    BY DEF TypeOK
  <1>2. ASSUME NEW s, NEW r \in Pools, NEW i \in LoanIds, NEW paid, NEW closes,
               Credit(p, s, r, i, paid, closes), loan[r][i].status = "Active"
        PROVE  IssuedBy(loan'[q][id]) = IssuedBy(loan[q][id])
    BY <1>1, <1>2 DEF Credit, Loans, IssuedBy
  <1>3. ASSUME NEW i \in LoanIds, NEW a, Repay(p, i, a)
        PROVE  IssuedBy(loan'[q][id]) = IssuedBy(loan[q][id])
    BY <1>2, <1>3 DEF Repay
  <1>4. ASSUME NEW r \in Pools, NEW i \in LoanIds, PullInstallment(p, r, i)
        PROVE  IssuedBy(loan'[q][id]) = IssuedBy(loan[q][id])
    BY <1>2, <1>4 DEF PullInstallment
  <1>5. ASSUME NEW i \in LoanIds, MarkDefault(p, i)
        PROVE  IssuedBy(loan'[q][id]) = IssuedBy(loan[q][id])
    BY <1>1, <1>5 DEF MarkDefault, Loans, IssuedBy
  <1>6. ASSUME NEW i \in LoanIds, NEW n, NEW interval, CreateSchedule(p, i, n, interval)
        PROVE  IssuedBy(loan'[q][id]) = IssuedBy(loan[q][id])
    BY <1>1, <1>6 DEF CreateSchedule, Loans, IssuedBy
  <1>7. QED
    BY <1>3, <1>4, <1>5, <1>6
       DEF Service, Deposit, Withdraw, AccrueInterest, SetNextLoanId,
           UpdateCollateralPrice, LockCollateral, ReleaseCollateral, LiquidateEscrow

\* The permission program's own steps leave the loans alone and take no
\* spending back.
LEMMA PermStepCharges ==
    ASSUME IsFiniteSet(Wallets), Charged, TypeOK, PermStep,
           AllLent(loan) \in Int
    PROVE  Charged'
  <1>1. loan' = loan /\ now' = now
    BY PermStepKeepsTime DEF PermStep, poolVars
  <1>2. CASE spent' = spent
    BY <1>1, <1>2 DEF Charged
  <1>3. ASSUME NEW w \in Wallets, NEW a \in Nat, spent' = [spent EXCEPT ![w][now] = @ + a]
        PROVE  Charged'
    <2>1. spent' \in SpendTables /\ AllSpent(spent) \in Int
             /\ AllSpent(spent') = AllSpent(spent) + a
      BY <1>3, ChargeOnce DEF Charged
    <2>2. QED
      BY <1>1, <2>1 DEF Charged
  <1>4. Principals \cup {0} \subseteq Nat
    BY InputsAssumption
  <1>5. QED
    BY <1>2, <1>3, <1>4
       DEF PermStep, Perm!AdminStep, Perm!AgentStep, Perm!RegisterAgent,
           Perm!CheckPermissionAndSpend, Perm!SetDailyLimit, Perm!SetAgentTier,
           Perm!DeactivateAgent, Perm!RecordLoss, Perm!ResetCircuitBreaker,
           Perm!EmergencyPause, Perm!Unpause, Perm!RequestAdminRotation,
           Perm!FinalizeAdminRotation, Perm!CancelAdminRotation

\* A disbursement is charged to its agent in the same step.
LEMMA LendAsCharges ==
    ASSUME IsFiniteSet(Pools), IsFiniteSet(Wallets), Charged, TypeOK, TypeOK',
           NEW w \in Wallets, NEW p \in Pools, LendAs(w, p)
    PROVE  Charged'
  <1>1. PICK id \in LoanIds, b \in Borrowers, a \in Principals,
             rate \in Rates, days \in Durations :
           DisburseAs(w, p, id, b, a, rate, days)
    BY DEF LendAs
  <1>2. a \in Nat /\ a # 0
    BY <1>1, InputsAssumption DEF DisburseAs, ConditionalDisburse
  <1>3. loan \in LoanTables /\ loan' \in LoanTables
    BY DEF TypeOK, LoanTables
  <1>4. AllLent(loan') = AllLent(loan) + a
    <2>1. /\ loan[p][id].status = "None"
          /\ loan'[p][id].status = "Active" /\ loan'[p][id].principal = a
          /\ \A q \in Pools : q # p => loan'[q] = loan[q]
          /\ \A i \in LoanIds : i # id => loan'[p][i] = loan[p][i]
      BY <1>1, <1>3 DEF DisburseAs, ConditionalDisburse, LoanTables
    <2>2. QED
      BY <1>2, <1>3, <2>1, OneLent
  <1>5. spent' = [spent EXCEPT ![w][now] = @ + a]
    BY <1>1, <1>2 DEF DisburseAs, Perm!CheckPermissionAndSpend
  <1>6. /\ spent' \in SpendTables /\ AllSpent(spent) \in Int
        /\ AllSpent(spent') = AllSpent(spent) + a
    BY <1>2, <1>5, ChargeOnce DEF Charged
  <1>7. AllLent(loan) \in Int
    BY <1>3, AllLentType
  <1>8. now' = now
    BY LendAsKeepsTime
  <1>9. QED
    BY <1>2, <1>4, <1>6, <1>7, <1>8 DEF Charged

\* Every principal ever lent, by any pool and through any interleaving of the
\* agents, is covered by what was charged to the agents' daily limits.
THEOREM LendingAlwaysCharged ==
    ASSUME IsFiniteSet(Pools), IsFiniteSet(Wallets)
    PROVE  SystemSpec => []LendingIsCharged
  <1>1. SystemInit => Charged
    <2> SUFFICES ASSUME SystemInit PROVE Charged
      OBVIOUS
    <2>1. spent \in SpendTables /\ now \in Times
      BY InputsAssumption DEF SystemInit, Init, Perm!Init, SpendTables, Times
    <2>2. AllLent(loan) = 0
      <3>1. \A p \in Pools : LentEver(loan[p]) = 0
        BY LoanIdsFinite, SumZeros DEF SystemInit, Init, LentEver, IssuedBy
      <3>2. QED
        BY <3>1, SumZeros DEF AllLent
    <2>3. AllSpent(spent) = 0
      <3>1. IsFiniteSet(Times)
        BY TimesFinite
      <3>2. \A w \in Wallets : SpentEver(spent[w]) = 0
        BY <3>1, SumZeros DEF SystemInit, Perm!Init, SpentEver, Times
      <3>3. QED
        BY <3>2, SumZeros DEF AllSpent
    <2>4. QED
      BY <2>1, <2>2, <2>3 DEF Charged
  <1>2. TypeOK /\ TypeOK' /\ Charged /\ [SystemNext]_systemVars => Charged'
    <2> SUFFICES ASSUME TypeOK, TypeOK', Charged, [SystemNext]_systemVars PROVE Charged'
      OBVIOUS
    <2>1. CASE SystemTick
      <3>1. /\ loan' = loan /\ spent' = spent /\ now < MaxTime /\ now' = now + 1
        BY <2>1 DEF SystemTick, Tick, permVars
      <3>2. now' \in Times
        BY <3>1, InputsAssumption DEF Charged, Times
      <3>3. QED
        BY <3>1, <3>2 DEF Charged
    <2>2. CASE OracleStep \/ UNCHANGED systemVars
      <3>1. loan' = loan /\ spent' = spent
        BY <2>2 DEF OracleStep, systemVars, poolVars, permVars
      <3>2. now' = now
        BY <2>2, OracleStepKeepsTime DEF systemVars
      <3>3. QED
        BY <3>1, <3>2 DEF Charged
    <2>3. ASSUME NEW p \in Pools, PoolStep(p) PROVE Charged'
      <3>1. AllLent(loan') = AllLent(loan)
        BY <2>3, ServiceLendsNothing, SameLent DEF PoolStep
      <3>2. spent' = spent /\ now' = now
        BY <2>3, ServiceKeepsTime DEF PoolStep, permVars
      <3>3. QED
        BY <3>1, <3>2 DEF Charged
    <2>4. CASE PermStep
      <3>1. AllLent(loan) \in Int
        BY AllLentType DEF TypeOK, LoanTables
      <3>2. QED
        BY <2>4, <3>1, PermStepCharges
    <2>5. ASSUME NEW w \in Wallets, NEW p \in Pools, LendAs(w, p) PROVE Charged'
      BY <2>5, LendAsCharges
    <2>6. QED
      BY <2>1, <2>2, <2>3, <2>4, <2>5 DEF SystemNext
  <1>3. TypeOK /\ Charged => LendingIsCharged
    <2> SUFFICES ASSUME TypeOK, Charged PROVE LendingIsCharged
      OBVIOUS
    <2>1. \A p \in Pools : PrincipalsIssued(p) = LentEver(loan[p])
      <3> SUFFICES ASSUME NEW p \in Pools PROVE PrincipalsIssued(p) = LentEver(loan[p])
        OBVIOUS
      <3> DEFINE S == LoanIds \ LoansIn(p, "None")
                 f == [id \in LoanIds |-> loan[p][id].principal]
                 g == [id \in LoanIds |-> IssuedBy(loan[p][id])]
      <3>1. /\ S \in SUBSET LoanIds
            /\ \A id \in S : f[id] \in Int /\ g[id] = f[id]
            /\ \A id \in LoanIds \ S : g[id] = 0
        BY DEF LoansIn, IssuedBy, TypeOK, Loans
      <3>2. PrincipalsIssued(p) = SumOf(f, S) /\ LentEver(loan[p]) = SumOf(g, LoanIds)
        BY DEF PrincipalsIssued, LentEver, SumOf
      <3> HIDE DEF S, f, g
      <3>3. QED
        BY <3>1, <3>2, LoanIdsFinite, SumOfPart
    <2>2. [p \in Pools |-> PrincipalsIssued(p)] = [p \in Pools |-> LentEver(loan[p])]
      BY <2>1
    <2>3. SumFunction([p \in Pools |-> PrincipalsIssued(p)]) = AllLent(loan)
      BY <2>2 DEF AllLent, SumOf, SumFunction
    <2>4. \A w \in Wallets : SumFunction(spent[w]) = SpentEver(spent[w])
      BY DEF Charged, SpendTables, SpentEver, SumOf, SumFunction
    <2>5. [w \in Wallets |-> SumFunction(spent[w])] = [w \in Wallets |-> SpentEver(spent[w])]
      BY <2>4
    <2>6. SumFunction([w \in Wallets |-> SumFunction(spent[w])]) = AllSpent(spent)
      BY <2>5 DEF AllSpent, SumOf, SumFunction
    <2>7. QED
      BY <2>3, <2>6 DEF Charged, LendingIsCharged
  <1>4. QED
    BY <1>1, <1>2, <1>3, SystemIsPool, TypeCorrect, PTL DEF SystemSpec, ImplementsPool

-----------------------------------------------------------------------------
(* What the oracle promises, beside the other two programs.                *)

\* What a step of the oracle does to roles and scores.
LEMMA OracleWrites ==
    ASSUME [Oracle!Next]_(Oracle!vars)
    PROVE  \/ authority' = authority /\ credit_score' = credit_score
           \/ \E q \in Oracles : Oracle!GrantOracleRole(q) \/ Oracle!RevokeOracleRole(q)
           \/ \E q \in Oracles, c \in Borrowers, score \in GivenScores,
                 conf \in GivenConfidences : Oracle!UpdateScore(q, c, score, conf)
  BY DEF Oracle!Next, Oracle!Tick, Oracle!OracleStep, Oracle!vars, Oracle!oracleVars,
         Oracle!RecordLoanIssued, Oracle!RecordLoanRepaid, Oracle!RecordLoanDefaulted,
         Oracle!RegisterDid, Oracle!Pause, Oracle!Unpause, Oracle!SetPaused,
         Oracle!SetValidityPeriod, Oracle!SetHistoryAuthority

RolesTyped == authority \in [Oracles -> Oracle!OracleAuthorities]

LEMMA OracleKeepsRoles ==
    RolesTyped /\ [Oracle!Next]_(Oracle!vars) => RolesTyped'
  <1> SUFFICES ASSUME RolesTyped, [Oracle!Next]_(Oracle!vars) PROVE RolesTyped'
    OBVIOUS
  <1>1. ASSUME NEW q \in Oracles, Oracle!GrantOracleRole(q) \/ Oracle!RevokeOracleRole(q)
        PROVE  RolesTyped'
    <2>1. authority[q] \in Oracle!OracleAuthorities
      BY DEF RolesTyped
    <2>2. CASE Oracle!GrantOracleRole(q)
      BY <2>2 DEF RolesTyped, Oracle!OracleAuthorities, Oracle!GrantOracleRole
    <2>3. CASE Oracle!RevokeOracleRole(q)
      <3>1. [authority[q] EXCEPT !.is_active = FALSE] \in Oracle!OracleAuthorities
        BY <2>1 DEF Oracle!OracleAuthorities
      <3>2. QED
        BY <2>3, <3>1 DEF RolesTyped, Oracle!RevokeOracleRole
    <2>4. QED
      BY <1>1, <2>2, <2>3
  <1>2. ASSUME NEW q \in Oracles, NEW c \in Borrowers, NEW score \in GivenScores,
               NEW conf \in GivenConfidences, Oracle!UpdateScore(q, c, score, conf)
        PROVE  RolesTyped'
    BY <1>2 DEF RolesTyped, Oracle!OracleAuthorities, Oracle!UpdateScore
  <1>3. QED
    BY <1>1, <1>2, OracleWrites DEF RolesTyped

LEMMA OracleAlwaysSound == SystemSpec => [](SoundOracle /\ RolesTyped)
  <1>1. SystemInit => SoundOracle /\ RolesTyped
    <2> SUFFICES ASSUME SystemInit PROVE SoundOracle /\ RolesTyped
      OBVIOUS
    <2>1. RolesTyped
      BY DEF SystemInit, Oracle!Init, RolesTyped, Oracle!OracleAuthorities
    <2>2. QED
      BY <2>1, SystemStartsSound
  <1>2. QED
    BY <1>1, OracleKeepsSound, OracleKeepsRoles, StepOfOracle, PTL DEF SystemSpec

\* Beside the other two programs each score still lives an allowed period from
\* its publication, and the tier that gate 1 reads is the one of that very score
\* (update_score.rs:73).
THEOREM SystemScoresLive == SystemSpec => []ScoreLifetime
  <1>1. SystemInit => ScoreLifetime
    BY DEF SystemInit, Oracle!Init, ScoreLifetime, Oracle!ScoreLifetime
  <1>2. SoundOracle /\ ScoreLifetime /\ [Oracle!Next]_(Oracle!vars) => ScoreLifetime'
    <2> SUFFICES ASSUME SoundOracle, ScoreLifetime, [Oracle!Next]_(Oracle!vars),
                        NEW b \in Borrowers, credit_score'[b].exists
                 PROVE  LET cs == credit_score'[b]
                        IN /\ cs.timestamp <= now'
                           /\ cs.expires_at \in
                                {cs.timestamp + period : period \in Oracle!Periods}
                           /\ cs.risk_tier = Oracle!CalculateRiskTier(cs.score)
      BY DEF ScoreLifetime, Oracle!ScoreLifetime
    <2>1. /\ now \in Nat
          /\ oracle.score_validity_secs \in Oracle!Periods
          /\ credit_score = [x \in Borrowers |-> credit_score[x]]
          /\ credit_score[b].exists => credit_score[b].timestamp \in Nat
      BY InputsAssumption DEF SoundOracle, ScoresSound, Oracle!OracleStates
    <2>2. now' \in Nat /\ now <= now'
      <3>1. Oracle!Tick \/ now' = now
        BY DEF Oracle!Next, Oracle!OracleStep, Oracle!vars, Oracle!GrantOracleRole,
               Oracle!RevokeOracleRole, Oracle!UpdateScore, Oracle!RecordLoanIssued,
               Oracle!RecordLoanRepaid, Oracle!RecordLoanDefaulted, Oracle!RegisterDid,
               Oracle!Pause, Oracle!Unpause, Oracle!SetPaused,
               Oracle!SetValidityPeriod, Oracle!SetHistoryAuthority
      <3>2. QED
        BY <2>1, <3>1 DEF Oracle!Tick
    <2>3. CASE credit_score'[b] = credit_score[b]
      BY <2>1, <2>2, <2>3 DEF ScoreLifetime, Oracle!ScoreLifetime
    <2>4. ASSUME NEW q \in Oracles, NEW c \in Borrowers, NEW score \in GivenScores,
                 NEW conf \in GivenConfidences, Oracle!UpdateScore(q, c, score, conf)
          PROVE  \/ credit_score'[b] = credit_score[b]
                 \/ /\ credit_score'[b].timestamp = now
                    /\ credit_score'[b].expires_at = now + oracle.score_validity_secs
                    /\ credit_score'[b].risk_tier =
                          Oracle!CalculateRiskTier(credit_score'[b].score)
      BY <2>1, <2>4 DEF Oracle!UpdateScore
    <2>5. QED
      BY <2>1, <2>2, <2>3, <2>4, OracleWrites
         DEF Oracle!GrantOracleRole, Oracle!RevokeOracleRole
  <1>3. QED
    BY <1>1, <1>2, OracleAlwaysSound, StepOfOracle, PTL DEF SystemSpec

\* Nothing in the other programs gives a revoked oracle its role back, and no
\* later loan rests on a new score of his (admin.rs:48, update_score.rs:50).
THEOREM SystemRevokesForGood == SystemSpec => RevocationIsFinal
  <1> DEFINE Final ==
        \A o \in Oracles :
           authority[o].exists /\ ~authority[o].is_active =>
              /\ authority'[o] = authority[o]
              /\ \A b \in Borrowers :
                    credit_score'[b].oracle_agent = o =>
                        credit_score'[b] = credit_score[b]
  <1>1. SoundOracle /\ RolesTyped /\ [Oracle!Next]_(Oracle!vars) => Final
    <2> SUFFICES ASSUME SoundOracle, RolesTyped, [Oracle!Next]_(Oracle!vars),
                        NEW o \in Oracles, authority[o].exists, ~authority[o].is_active
                 PROVE  /\ authority'[o] = authority[o]
                        /\ \A b \in Borrowers :
                              credit_score'[b].oracle_agent = o =>
                                  credit_score'[b] = credit_score[b]
      OBVIOUS
    <2>1. /\ authority \in [Oracles -> Oracle!OracleAuthorities]
          /\ credit_score = [b \in Borrowers |-> credit_score[b]]
      BY DEF SoundOracle, RolesTyped
    <2>2. ASSUME NEW q \in Oracles, Oracle!GrantOracleRole(q)
          PROVE  authority'[o] = authority[o] /\ credit_score' = credit_score
      BY <2>1, <2>2 DEF Oracle!GrantOracleRole
    <2>3. ASSUME NEW q \in Oracles, Oracle!RevokeOracleRole(q)
          PROVE  authority'[o] = authority[o] /\ credit_score' = credit_score
      <3>1. authority[o] \in Oracle!OracleAuthorities
        BY <2>1
      <3>2. [authority[o] EXCEPT !.is_active = FALSE] = authority[o]
        BY <3>1 DEF Oracle!OracleAuthorities
      <3>3. QED
        BY <2>1, <2>3, <3>2 DEF Oracle!RevokeOracleRole
    <2>4. ASSUME NEW q \in Oracles, NEW c \in Borrowers, NEW score \in GivenScores,
                 NEW conf \in GivenConfidences, Oracle!UpdateScore(q, c, score, conf)
          PROVE  /\ authority'[o] = authority[o]
                 /\ \A b \in Borrowers :
                       credit_score'[b].oracle_agent = o =>
                           credit_score'[b] = credit_score[b]
      <3>1. q # o
        BY <2>4 DEF Oracle!UpdateScore
      <3>2. credit_score'[c].oracle_agent = q
        BY <2>1, <2>4 DEF Oracle!UpdateScore
      <3>3. \A b \in Borrowers : b # c => credit_score'[b] = credit_score[b]
        BY <2>1, <2>4 DEF Oracle!UpdateScore
      <3>4. authority'[o] = authority[o]
        BY <2>1, <2>4, <3>1 DEF Oracle!UpdateScore
      <3>5. QED
        BY <3>1, <3>2, <3>3, <3>4
    <2>5. QED
      BY <2>2, <2>3, <2>4, OracleWrites
  <1>2. QED
    BY <1>1, OracleAlwaysSound, StepOfOracle, PTL DEF SystemSpec, RevocationIsFinal

\* A paused oracle stays as it is beside the other two programs: what is lent,
\* repaid or defaulted under its pause is not written to any score or history
\* (record_loan_event.rs:32).
THEOREM SystemPauseFreezes == SystemSpec => PausedIsFrozen
  <1>1. [Oracle!Next]_(Oracle!vars) =>
           (oracle.is_paused => UNCHANGED <<credit_score, history>>)
    BY DEF Oracle!Next, Oracle!Tick, Oracle!OracleStep, Oracle!vars, Oracle!oracleVars,
           Oracle!GrantOracleRole, Oracle!RevokeOracleRole, Oracle!UpdateScore,
           Oracle!MayRecord, Oracle!RecordLoanIssued, Oracle!RecordLoanRepaid,
           Oracle!RecordLoanDefaulted, Oracle!RegisterDid, Oracle!Pause, Oracle!Unpause,
           Oracle!SetPaused, Oracle!SetValidityPeriod, Oracle!SetHistoryAuthority
  <1>2. QED
    BY <1>1, StepOfOracle, PTL DEF SystemSpec, PausedIsFrozen

-----------------------------------------------------------------------------
(* What no step of the pools takes back.                                   *)

\* What a loan may become: it is granted open and for something; from then on it
\* keeps its terms, repays more and never less, keeps its schedule, and stays as it
\* ended.
GoesOn(ln, new) ==
    /\ ln.status = "None" /\ new.status # "None" =>
          new.status = "Active" /\ new.principal > 0
    /\ ln.status # "None" =>
        /\ new.status # "None"
        /\ new.borrower = ln.borrower
        /\ new.principal = ln.principal
        /\ new.index_snapshot = ln.index_snapshot
        /\ ln.repaid_amount <= new.repaid_amount
        /\ ln.has_schedule => new.has_schedule
        /\ ln.status # "Active" => new.status = ln.status

LoansGoOn == \A p \in Pools, id \in LoanIds : GoesOn(loan[p][id], loan'[p][id])

\* The index and the interest earned of a pool after a step.
Grows(s, new) ==
    /\ s.interest_index <= new.interest_index
    /\ s.total_interest_earned <= new.total_interest_earned

PoolsGrow == \A p \in Pools : Grows(pool[p], pool'[p])

LEMMA SameGoesOn == ASSUME TypeOK, loan' = loan PROVE LoansGoOn
  BY DEF TypeOK, Loans, LoansGoOn, GoesOn

LEMMA SameGrows == ASSUME TypeOK, pool' = pool PROVE PoolsGrow
  BY DEF TypeOK, PoolStates, PoolsGrow, Grows

\* One loan, or one pool, is written and the others are left alone.
LEMMA OneGoesOn ==
    ASSUME TypeOK, NEW p \in Pools, NEW id \in LoanIds, NEW new,
           loan' = [loan EXCEPT ![p] = [loan[p] EXCEPT ![id] = new]],
           GoesOn(loan[p][id], new)
    PROVE  LoansGoOn
  <1>1. loan \in [Pools -> [LoanIds -> Loans]]
    BY DEF TypeOK
  <1>2. \A q \in Pools, i \in LoanIds : GoesOn(loan[q][i], loan[q][i])
    BY <1>1 DEF Loans, GoesOn
  <1>3. \A q \in Pools, i \in LoanIds :
           loan'[q][i] = IF q = p /\ i = id THEN new ELSE loan[q][i]
    BY <1>1
  <1>4. QED
    BY <1>2, <1>3 DEF LoansGoOn

LEMMA OneGrows ==
    ASSUME TypeOK, NEW p \in Pools, NEW new, pool' = [pool EXCEPT ![p] = new],
           Grows(pool[p], new)
    PROVE  PoolsGrow
  BY DEF TypeOK, PoolStates, PoolsGrow, Grows

\* A payment that is credited.
LEMMA CreditGoesOn ==
    ASSUME TypeOK, NEW p \in Pools, NEW q \in Pools, NEW id \in LoanIds,
           NEW s \in PoolStates, Grows(pool[p], s),
           NEW paid \in Nat, NEW closes \in BOOLEAN,
           loan[q][id].status = "Active", Credit(p, s, q, id, paid, closes)
    PROVE  LoansGoOn /\ PoolsGrow
  <1> DEFINE ln == loan[q][id]
             repaid == ln.repaid_amount + paid
             status == IF closes THEN "Repaid" ELSE ln.status
             paidLoan == [ln EXCEPT !.repaid_amount = repaid, !.status = status]
             after == IF closes THEN Settled(s, ln, repaid) ELSE s
  <1>1. ln \in Loans /\ loan \in [Pools -> [LoanIds -> Loans]]
    BY DEF TypeOK
  <1>2. loan' = [loan EXCEPT ![q] = [loan[q] EXCEPT ![id] = paidLoan]]
    <2>1. loan' = [loan EXCEPT ![q][id].repaid_amount = repaid,
                               ![q][id].status = IF closes THEN "Repaid" ELSE @]
      BY DEF Credit
    <2> HIDE DEF repaid
    <2>2. QED
      BY <1>1, <2>1 DEF Loans
  <1>3. repaid \in Nat /\ ln.repaid_amount <= repaid
    BY <1>1 DEF Loans
  <1>4. status \in {"Active", "Repaid"}
    OBVIOUS
  <1>5. GoesOn(ln, paidLoan)
    <2> HIDE DEF repaid, status
    <2>1. QED
      BY <1>1, <1>3, <1>4 DEF Loans, GoesOn
  <1>6. LoansGoOn
    <2> HIDE DEF paidLoan
    <2>1. QED
      BY <1>2, <1>5, OneGoesOn
  <1>7. Grows(s, after)
    <2>1. CASE closes
      <3>1. ln.principal <= repaid
        BY <2>1 DEF Credit, CanSettle
      <3> HIDE DEF repaid
      <3>2. QED
        BY <1>1, <1>3, <2>1, <3>1 DEF Settled, Loans, PoolStates, Grows
    <2>2. CASE ~closes
      BY <2>2 DEF PoolStates, Grows
    <2>3. QED
      BY <2>1, <2>2
  <1>8. Grows(pool[p], after)
    <2>1. /\ pool[p] \in PoolStates
          /\ after.interest_index \in Int /\ after.total_interest_earned \in Int
      BY <1>1, <1>3 DEF TypeOK, Settled, PoolStates, Loans
    <2> HIDE DEF after
    <2>2. QED
      BY <1>7, <2>1 DEF PoolStates, Grows
  <1>9. pool' = [pool EXCEPT ![p] = after]
    BY DEF Credit
  <1>10. QED
    <2> HIDE DEF after
    <2>1. QED
      BY <1>6, <1>8, <1>9, OneGrows

\* No step of a pool takes a loan's terms, its payments or its end back, nor the
\* index or the interest earned.
LEMMA StepGoesOn ==
    ASSUME TypeOK, NEW p \in Pools, Step(p) PROVE LoansGoOn /\ PoolsGrow
  <1> DEFINE s == Accrued(pool[p])
  <1>1. /\ s \in PoolStates /\ pool[p] \in PoolStates
        /\ s.interest_index \in Nat
        /\ Grows(pool[p], s)
    BY AccruedFacts DEF TypeOK, PoolStates, Grows
  <1>2. /\ loan \in [Pools -> [LoanIds -> Loans]]
        /\ pool \in [Pools -> PoolStates]
    BY DEF TypeOK
  <1> HIDE DEF s
  <1>3. ASSUME NEW a, Deposit(p, a) \/ Withdraw(p, a) PROVE LoansGoOn /\ PoolsGrow
    <2>1. PICK v : pool' = [pool EXCEPT ![p].total_deposited = v]
      BY <1>3 DEF Deposit, Withdraw
    <2>2. PoolsGrow
      BY <1>2, <2>1 DEF PoolsGrow, Grows, PoolStates
    <2>3. QED
      BY <1>3, <2>2, SameGoesOn DEF Deposit, Withdraw
  <1>4. CASE AccrueInterest(p)
    <2>1. pool' = [pool EXCEPT ![p] = s] /\ loan' = loan
      BY <1>2, <1>4 DEF AccrueInterest, s
    <2>2. QED
      BY <1>1, <2>1, OneGrows, SameGoesOn
  <1>5. ASSUME NEW id \in 1..(MaxLoanId + 1), SetNextLoanId(p, id)
        PROVE  LoansGoOn /\ PoolsGrow
    <2>1. PoolsGrow
      BY <1>2, <1>5 DEF SetNextLoanId, PoolsGrow, Grows, PoolStates
    <2>2. QED
      BY <1>5, <2>1, SameGoesOn DEF SetNextLoanId
  <1>6. ASSUME NEW price \in Prices, UpdateCollateralPrice(p, price)
        PROVE  LoansGoOn /\ PoolsGrow
    <2>1. PoolsGrow
      BY <1>2, <1>6 DEF UpdateCollateralPrice, PoolsGrow, Grows, PoolStates
    <2>2. QED
      BY <1>6, <2>1, SameGoesOn DEF UpdateCollateralPrice
  <1>7. ASSUME UNCHANGED <<pool, loan>> PROVE LoansGoOn /\ PoolsGrow
    BY <1>7, SameGoesOn, SameGrows
  <1>8. ASSUME NEW id \in LoanIds, NEW b \in Borrowers, NEW score \in Scores,
               NEW a \in Principals, NEW rate \in Rates, NEW days \in Durations,
               ConditionalDisburse(p, id, b, score, a, rate, days)
        PROVE  LoansGoOn /\ PoolsGrow
    <2> DEFINE new == [status |-> "Active", borrower |-> b, principal |-> a,
                       due_date |-> now + days * DAY, repaid_amount |-> 0,
                       has_schedule |-> FALSE,
                       index_snapshot |-> s.interest_index]
               lent == [s EXCEPT !.total_borrowed = @ + a,
                                 !.active_loans = @ + 1,
                                 !.total_loans_issued = @ + 1,
                                 !.next_loan_id = @ + 1]
    <2>1. /\ loan' = [loan EXCEPT ![p] = [loan[p] EXCEPT ![id] = new]]
          /\ pool' = [pool EXCEPT ![p] = lent]
          /\ loan[p][id].status = "None" /\ a > 0
      BY <1>8 DEF ConditionalDisburse, s
    <2>2. Grows(pool[p], lent)
      BY <1>1 DEF PoolStates, Grows
    <2>3. GoesOn(loan[p][id], new)
      BY <2>1 DEF GoesOn
    <2> HIDE DEF new, lent
    <2>4. QED
      BY <2>1, <2>2, <2>3, OneGoesOn, OneGrows
  <1>9. ASSUME NEW id \in LoanIds, NEW n \in Counts, NEW i \in Intervals,
               CreateSchedule(p, id, n, i)
        PROVE  LoansGoOn /\ PoolsGrow
    <2> DEFINE new == [loan[p][id] EXCEPT !.has_schedule = TRUE]
    <2>1. /\ loan' = [loan EXCEPT ![p] = [loan[p] EXCEPT ![id] = new]]
          /\ UNCHANGED pool
          /\ loan[p][id].status = "Active"
      BY <1>2, <1>9 DEF CreateSchedule
    <2>2. GoesOn(loan[p][id], new)
      BY <1>2, <2>1 DEF Loans, GoesOn
    <2> HIDE DEF new
    <2>3. QED
      BY <2>1, <2>2, OneGoesOn, SameGrows
  <1>10. ASSUME NEW id \in LoanIds, NEW a \in Payments, Repay(p, id, a)
         PROVE  LoansGoOn /\ PoolsGrow
    <2> DEFINE ln == loan[p][id]
               remaining == Remaining(ln, s.interest_index)
               paid == IF a <= remaining THEN a ELSE remaining
               closes == ln.repaid_amount + paid >= TotalOwed(ln, s.interest_index)
    <2>1. /\ Owes(ln, s.interest_index)
          /\ ln.status = "Active"
          /\ Credit(p, s, p, id, paid, closes)
      BY <1>10 DEF Repay, s
    <2>2. paid \in Nat /\ closes \in BOOLEAN
      BY <1>1, <1>2, <2>1, RemainingNat, InputsAssumption
    <2> HIDE DEF paid, closes
    <2>3. QED
      BY <1>1, <2>1, <2>2, CreditGoesOn
  <1>11. ASSUME NEW q \in Pools, NEW id \in LoanIds, PullInstallment(p, q, id)
         PROVE  LoansGoOn /\ PoolsGrow
    <2> DEFINE ln == loan[q][id]
               sch == schedule[id]
               is_last == sch.paid + 1 = sch.total
               amount == IF is_last THEN Remaining(ln, s.interest_index)
                         ELSE sch.amount_per
    <2>1. /\ is_last => Owes(ln, s.interest_index)
          /\ ln.status = "Active"
          /\ Credit(p, s, q, id, amount, is_last)
      BY <1>11 DEF PullInstallment, s
    <2>2. is_last => Remaining(ln, s.interest_index) \in Nat
      BY <1>1, <1>2, <2>1, RemainingNat
    <2>3. amount \in Nat /\ is_last \in BOOLEAN
      BY <2>2 DEF TypeOK, Schedules
    <2> HIDE DEF amount, is_last
    <2>4. QED
      BY <1>1, <2>1, <2>3, CreditGoesOn
  <1>12. ASSUME NEW id \in LoanIds, MarkDefault(p, id) PROVE LoansGoOn /\ PoolsGrow
    <2> DEFINE ln == loan[p][id]
               new == [ln EXCEPT !.status = "Defaulted"]
               debt == Remaining(ln, s.interest_index)
               wrote == [s EXCEPT !.total_borrowed = @ - ln.principal,
                                  !.total_defaults = @ + debt,
                                  !.total_deposited = @ - debt,
                                  !.active_loans = @ - 1]
    <2>1. /\ ln.status = "Active"
          /\ loan' = [loan EXCEPT ![p] = [loan[p] EXCEPT ![id] = new]]
          /\ pool' = [pool EXCEPT ![p] = wrote]
      BY <1>2, <1>12 DEF MarkDefault, s
    <2>2. Grows(pool[p], wrote)
      BY <1>1 DEF PoolStates, Grows
    <2>3. GoesOn(ln, new)
      BY <1>2, <2>1 DEF Loans, GoesOn
    <2> HIDE DEF new, wrote
    <2>4. QED
      BY <2>1, <2>2, <2>3, OneGoesOn, OneGrows
  <1>13. QED
    BY <1>3, <1>4, <1>5, <1>6, <1>7, <1>8, <1>9, <1>10, <1>11, <1>12
       DEF Step, Lend, Service, LockCollateral, ReleaseCollateral, LiquidateEscrow

LEMMA NextGoesOn ==
    ASSUME TypeOK, [Next]_vars PROVE LoansGoOn /\ PoolsGrow
  <1>1. CASE Tick \/ UNCHANGED vars
    BY <1>1, SameGoesOn, SameGrows DEF Tick, vars
  <1>2. ASSUME NEW p \in Pools, Step(p) PROVE LoansGoOn /\ PoolsGrow
    BY <1>2, StepGoesOn
  <1>3. QED
    BY <1>1, <1>2 DEF Next

\* What pages, agents and books rely on when they keep what they once read:
\* whatever happens a loan keeps its borrower and its terms, repays more and never
\* less and stays as it ended, and a pool's index and earnings never fall.
THEOREM LedgerNeverTakesBack == Spec => [][LoansGoOn /\ PoolsGrow]_vars
  BY NextGoesOn, TypeCorrect, PTL DEF Spec

-----------------------------------------------------------------------------
(* The dashboard: the types of the pages, and its steps as the pools'.     *)

\* What the handlers carry over their awaits: a repayment its loan and amount, an
\* acceptance its id, what was prepared and what is being carried out.
Carried(r) == r.at # "idle" => r.id \in LoanIds /\ r.amount \in Payments

Prepared(a) ==
    /\ a.at \notin {"idle", "evaluated"} => a.id \in LoanIds /\ a.offer \in Offers
    /\ a.at \in {"disburse", "schedule", "approve"} => a.made \in Offers

HandlersCarry ==
    /\ \A c \in Clicks : Carried(repaying[c])
    /\ \A b \in Pages : Prepared(accept[b])

PageTypeOK == ShownTypeOK /\ RepaysTypeOK /\ OffersTypeOK /\ HandlersCarry

LEMMA DashboardInitType == DashboardInit => TypeOK /\ PageTypeOK
  <1> SUFFICES ASSUME DashboardInit PROVE TypeOK /\ PageTypeOK
    OBVIOUS
  <1>1. TypeOK
    BY InitType DEF DashboardInit
  <1>2. AnyBorrower \in Borrowers /\ AnyPage \in Pages
    BY InputsAssumption, DashboardAssumption DEF AnyBorrower, AnyPage
  <1>3. NoRow \in Rows /\ NoRows \in [LoanIds -> Rows]
    BY <1>2 DEF NoRow, NoRows, Rows
  <1>4. NoPoll \in Polls
    BY <1>2, <1>3, ZenonT(60) DEF NoPoll, Polls
  <1>5. ShownTypeOK
    BY <1>3, <1>4 DEF DashboardInit, ShownTypeOK
  <1>6. RepaysTypeOK /\ \A c \in Clicks : Carried(repaying[c])
    BY <1>2 DEF DashboardInit, RepaysTypeOK, NoRepayment, Repayments, Carried
  <1>7. OffersTypeOK /\ \A b \in Pages : Prepared(accept[b])
    BY DEF DashboardInit, OffersTypeOK, NoAcceptance, Acceptances, Prepared
  <1>8. QED
    BY <1>1, <1>5, <1>6, <1>7 DEF PageTypeOK, HandlersCarry

\* An offer is within what the lending agent asks for.
LEMMA OfferFields ==
    ASSUME NEW o \in Offers
    PROVE  /\ o.principal \in Principals /\ o.rate \in Rates /\ o.days \in Durations
           /\ o.pledge \in Pledges /\ o.count \in Counts /\ o.interval \in Intervals
           /\ o.autopay \in Nat \ {0} /\ o # NoOffer
  BY DashboardAssumption DEF OfferTerms

\* Every step of the dashboard is a step of the pools, or leaves them alone.
LEMMA DashboardStepOfPool ==
    ASSUME PageTypeOK, [DashboardNext]_dashboardVars PROVE [Next]_vars
  <1>1. ThePool \in Pools
    BY PoolExists
  <1>2. ASSUME UNCHANGED vars PROVE [Next]_vars
    BY <1>2
  <1>3. ASSUME Step(ThePool) PROVE [Next]_vars
    BY <1>1, <1>3 DEF Next
  <1>4. ASSUME NEW l \in Loads, PollStep(l) PROVE [Next]_vars
    BY <1>2, <1>4
       DEF PollStep, PollPool, PollBook, ShowPool, ReadLoan, ShowBook, ShowNoBook
  <1>5. ASSUME NEW c \in Clicks, ClickStep(c) PROVE [Next]_vars
    <2>1. CASE RepayLands(c)
      <3>1. repaying[c].id \in LoanIds /\ repaying[c].amount \in Payments
        BY <2>1 DEF RepayLands, RepayStep, PageTypeOK, HandlersCarry, Carried
      <3>2. QED
        BY <1>3, <2>1, <3>1 DEF RepayLands, Step, Service
    <2>2. CASE TryRelease(c)
      <3>1. repaying[c].id \in LoanIds
        BY <2>2 DEF TryRelease, PageTypeOK, HandlersCarry, Carried
      <3>2. QED
        BY <1>2, <1>3, <2>2, <3>1 DEF TryRelease, Step, Service
    <2>3. QED
      BY <1>2, <1>5, <2>1, <2>2
         DEF ClickStep, ClickRepay, RepayReverts, RepayFails, RecordRepaid
  <1>6. ASSUME NEW b \in Pages, OfferStep(b) PROVE [Next]_vars
    <2> b \in Borrowers
      BY DashboardAssumption
    <2>1. ASSUME NEW m \in Mints, LockLands(b, m) PROVE [Next]_vars
      <3>1. accept[b].id \in LoanIds /\ accept[b].offer \in Offers
        BY <2>1 DEF LockLands, PageTypeOK, HandlersCarry, Prepared
      <3>2. QED
        BY <1>3, <2>1, <3>1, OfferFields DEF LockLands, Step, Service
    <2>2. ASSUME NEW score \in Scores, DisburseLands(b, score) PROVE [Next]_vars
      <3>1. accept[b].id \in LoanIds /\ accept[b].made \in Offers
        BY <2>2 DEF DisburseLands, PageTypeOK, HandlersCarry, Prepared
      <3>2. ConditionalDisburse(ThePool, accept[b].id, b, score,
               accept[b].made.principal, accept[b].made.rate, accept[b].made.days)
        BY <2>2 DEF DisburseLands
      <3>3. QED
        BY <1>3, <3>1, <3>2, OfferFields DEF Step, Lend
    <2>3. CASE ScheduleLands(b)
      <3>1. accept[b].id \in LoanIds /\ accept[b].made \in Offers
        BY <2>3 DEF ScheduleLands, PageTypeOK, HandlersCarry, Prepared
      <3>2. CreateSchedule(ThePool, accept[b].id, accept[b].made.count,
               accept[b].made.interval)
        BY <2>3 DEF ScheduleLands
      <3>3. QED
        BY <1>3, <3>1, <3>2, OfferFields DEF Step, Service
    <2>4. QED
      BY <1>2, <1>6, <2>1, <2>2, <2>3
         DEF OfferStep, ChatOffer, EvaluateAgain, Rescored, OtherRequest, Prepare,
             LockReverts, Execute, ServerFails, AcceptFails, Approve
  <1>7. ASSUME NEW amount \in Deposits, DepositLiquidity(amount) PROVE [Next]_vars
    BY <1>3, <1>7 DEF DepositLiquidity, Step, Service
  <1>8. CASE Elsewhere \/ UNCHANGED dashboardVars
    BY <1>8 DEF Elsewhere, Next, dashboardVars
  <1>9. QED
    BY <1>4, <1>5, <1>6, <1>7, <1>8 DEF DashboardNext

\* What a poll writes is what the chain holds, in its types.
LEMMA RowsOfTyped ==
    ASSUME NEW ln \in Loans, NEW i \in Nat, NEW row \in RowsOf(ln, i)
    PROVE  row \in Rows
  <1>1. AnyBorrower \in Borrowers
    BY InputsAssumption DEF AnyBorrower
  <1>2. CASE ln.status = "None"
    BY <1>1, <1>2 DEF RowsOf, NoRow, Rows
  <1>3. CASE ln.status # "None"
    <2>1. PICK n \in Estimates(ln, i) :
             row = [status |-> RowStatus(ln), borrower |-> ln.borrower,
                    repaid |-> ln.repaid_amount, outstanding |-> n]
      BY <1>3 DEF RowsOf
    <2>2. Remaining(ln, i) \in Int /\ ROUNDING \in Nat
      BY OwedNat, DashboardAssumption DEF Remaining, Loans
    <2>3. n \in Nat
      BY <2>1, <2>2 DEF Estimates, AtLeastZero
    <2>4. QED
      BY <2>1, <2>3 DEF RowStatus, Rows, Loans
  <1>4. QED
    BY <1>2, <1>3

LEMMA PollTyped ==
    ASSUME TypeOK, ShownTypeOK, NEW l \in Loads, PollStep(l)
    PROVE  ShownTypeOK'
  <1>1. /\ pool[ThePool] \in PoolStates
        /\ loan[ThePool] \in [LoanIds -> Loans]
    BY PoolExists DEF TypeOK
  <1>2. /\ rows \in [Pages -> [LoanIds -> Rows]]
        /\ interestEarned \in [Pages -> Nat]
        /\ load \in [Loads -> Polls]
        /\ load[l] \in Polls
    BY DEF ShownTypeOK
  <1>3. AnyBorrower \in Borrowers /\ AnyPage \in Pages
    BY InputsAssumption, DashboardAssumption DEF AnyBorrower, AnyPage
  <1>4. NoRows \in [LoanIds -> Rows] /\ NoPoll \in Polls
    <2>1. NoRow \in Rows /\ NoRows \in [LoanIds -> Rows]
      BY <1>3 DEF NoRow, NoRows, Rows
    <2>2. QED
      BY <1>3, <2>1, ZenonT(60) DEF NoPoll, Polls
  <1>5. ASSUME NEW new \in Polls, load' = [load EXCEPT ![l] = new]
        PROVE  load' \in [Loads -> Polls]
    BY <1>2, <1>5
  <1>6. ASSUME NEW b \in Pages, PollPool(l, b) PROVE ShownTypeOK'
    <2> DEFINE new == [NoPoll EXCEPT !.at = "pool", !.page = b,
                          !.earned = pool[ThePool].total_interest_earned]
    <2>1. pool[ThePool].total_interest_earned \in Nat
      BY <1>1 DEF PoolStates
    <2>2. new \in Polls
      BY <1>4, <2>1, ZenonT(60) DEF Polls
    <2>3. QED
      BY <1>2, <1>5, <1>6, <2>2 DEF PollPool, ShownTypeOK
  <1>7. ASSUME NEW b \in Pages, PollBook(l, b) PROVE ShownTypeOK'
    <2> DEFINE last == pool[ThePool].next_loan_id - 1
               index == pool[ThePool].interest_index
               new == [NoPoll EXCEPT !.at = "book", !.page = b, !.next = 1,
                                     !.last = last, !.index = index]
    <2>1. last \in Nat /\ index \in Nat /\ 1 \in Nat
      BY <1>1 DEF PoolStates
    <2> HIDE DEF last, index
    <2>2. new \in Polls
      BY <1>4, <2>1, ZenonT(60) DEF Polls
    <2>3. load' = [load EXCEPT ![l] = new]
      BY <1>7 DEF PollBook, last, index
    <2>4. QED
      BY <1>2, <1>5, <1>7, <2>2, <2>3 DEF PollBook, ShownTypeOK
  <1>8. CASE ShowPool(l)
    <2>1. PICK n \in {load[l].earned, 0} :
             interestEarned' = [interestEarned EXCEPT ![load[l].page] = n]
      BY <1>8 DEF ShowPool
    <2>2. n \in Nat
      BY <1>2 DEF Polls
    <2>3. QED
      BY <1>2, <1>4, <1>5, <1>8, <2>1, <2>2 DEF ShowPool, ShownTypeOK
  <1>9. CASE ReadLoan(l)
    <2> DEFINE next == load[l].next
    <2>1. next \in LoanIds /\ next \in Nat /\ load[l].index \in Nat
      BY <1>2, <1>9 DEF ReadLoan, Unread, Polls
    <2>2. PICK row \in RowsOf(loan[ThePool][next], load[l].index) :
             load' = [load EXCEPT ![l].rows[next] = row, ![l].next = @ + 1]
      BY <1>9 DEF ReadLoan
    <2> DEFINE read == [load[l].rows EXCEPT ![next] = row]
               new == [load[l] EXCEPT !.rows = read, !.next = next + 1]
    <2>3. row \in Rows
      BY <1>1, <2>1, <2>2, RowsOfTyped
    <2>4. read \in [LoanIds -> Rows] /\ next + 1 \in Nat
      BY <1>2, <2>1, <2>3 DEF Polls
    <2>5. load' = [load EXCEPT ![l] = new]
      BY <1>2, <2>2 DEF Polls
    <2> HIDE DEF read, next
    <2>6. new \in Polls
      BY <1>2, <2>4, ZenonT(60) DEF Polls
    <2>7. QED
      BY <1>2, <1>5, <1>9, <2>5, <2>6 DEF ReadLoan, ShownTypeOK
  <1>10. CASE ShowBook(l) \/ ShowNoBook(l)
    <2>1. \A b \in Pages :
             [rows EXCEPT ![load[l].page] = load[l].rows] \in [Pages -> [LoanIds -> Rows]]
      BY <1>2 DEF Polls
    <2>2. [rows EXCEPT ![load[l].page] = NoRows] \in [Pages -> [LoanIds -> Rows]]
      BY <1>2, <1>4
    <2>3. QED
      BY <1>2, <1>4, <1>5, <1>10, <2>1, <2>2, <1>3 DEF ShowBook, ShowNoBook, ShownTypeOK
  <1>11. QED
    BY <1>6, <1>7, <1>8, <1>9, <1>10 DEF PollStep

LEMMA ClickTyped ==
    ASSUME ShownTypeOK, RepaysTypeOK, \A k \in Clicks : Carried(repaying[k]),
           NEW c \in Clicks, ClickStep(c)
    PROVE  RepaysTypeOK' /\ \A k \in Clicks : Carried(repaying'[k])
  <1>1. /\ repaying \in [Clicks -> Repayments]
        /\ repayingLoanId \in [Pages -> LoanIds \cup {0}]
        /\ repaying[c] \in Repayments
    BY DEF RepaysTypeOK
  <1>2. ASSUME NEW new \in Repayments, Carried(new),
               repaying' = [repaying EXCEPT ![c] = new],
               repayingLoanId' \in [Pages -> LoanIds \cup {0}]
        PROVE  RepaysTypeOK' /\ \A k \in Clicks : Carried(repaying'[k])
    BY <1>1, <1>2 DEF RepaysTypeOK
  <1>3. ASSUME NEW b \in Pages, NEW id \in LoanIds, ClickRepay(c, b, id)
        PROVE  RepaysTypeOK' /\ \A k \in Clicks : Carried(repaying'[k])
    <2>1. PICK amount \in AmountsFor(rows[b][id]) :
             repaying' = [repaying EXCEPT ![c] =
                [at |-> "sent", page |-> b, id |-> id, amount |-> amount]]
      BY <1>3 DEF ClickRepay
    <2>2. amount \in Payments /\ amount \in Nat
      BY InputsAssumption DEF AmountsFor
    <2> DEFINE new == [at |-> "sent", page |-> b, id |-> id, amount |-> amount]
    <2>3. new \in Repayments /\ Carried(new)
      BY <2>2 DEF Repayments, Carried
    <2>4. repayingLoanId' \in [Pages -> LoanIds \cup {0}]
      BY <1>1, <1>3 DEF ClickRepay
    <2> HIDE DEF new
    <2>5. QED
      BY <1>2, <2>1, <2>3, <2>4 DEF new
  <1>4. ASSUME NEW from \in {"sent", "record"}, NEW to \in {"record", "release"},
               RepayStep(c, from, to)
        PROVE  RepaysTypeOK' /\ \A k \in Clicks : Carried(repaying'[k])
    <2> DEFINE new == [repaying[c] EXCEPT !.at = to]
    <2>1. new \in Repayments /\ Carried(new)
      BY <1>1, <1>4 DEF RepayStep, Repayments, Carried
    <2>2. repaying' = [repaying EXCEPT ![c] = new]
      BY <1>1, <1>4 DEF RepayStep
    <2> HIDE DEF new
    <2>3. QED
      BY <1>1, <1>2, <1>4, <2>1, <2>2 DEF RepayStep
  <1>5. CASE EndRepay(c)
    <2>1. NoRepayment \in Repayments /\ Carried(NoRepayment)
      BY DashboardAssumption DEF NoRepayment, Repayments, Carried, AnyPage
    <2>2. QED
      BY <1>1, <1>2, <1>5, <2>1 DEF EndRepay
  <1>6. QED
    BY <1>3, <1>4, <1>5
       DEF ClickStep, RepayLands, RepayReverts, RepayFails, RecordRepaid, TryRelease

LEMMA OfferTyped ==
    ASSUME OffersTypeOK, \A x \in Pages : Prepared(accept[x]),
           NEW b \in Pages, OfferStep(b)
    PROVE  OffersTypeOK' /\ \A x \in Pages : Prepared(accept'[x])
  <1> DEFINE Typed == OffersTypeOK' /\ \A x \in Pages : Prepared(accept'[x])
  <1>1. /\ session \in [Pages -> Offers \cup {NoOffer}]
        /\ negotiationStarted \in [Pages -> BOOLEAN]
        /\ accept \in [Pages -> Acceptances]
        /\ approved \in [Pages -> Nat]
        /\ accept[b] \in Acceptances
    BY DEF OffersTypeOK
  <1>2. ASSUME NEW new \in Acceptances, Prepared(new),
               accept' = [accept EXCEPT ![b] = new],
               session' \in [Pages -> Offers \cup {NoOffer}],
               negotiationStarted' \in [Pages -> BOOLEAN],
               approved' \in [Pages -> Nat]
        PROVE  Typed
    BY <1>1, <1>2 DEF OffersTypeOK
  <1>3. NoAcceptance \in Acceptances /\ Prepared(NoAcceptance)
    BY DEF NoAcceptance, Acceptances, Prepared
  <1>4. ASSUME NEW o \in Offers, ChatOffer(b, o) PROVE Typed
    BY <1>1, <1>4 DEF ChatOffer, OffersTypeOK
  <1>5. CASE Rescored(b) \/ OtherRequest(b)
    BY <1>1, <1>5 DEF Rescored, OtherRequest, OffersTypeOK
  <1>6. ASSUME NEW o \in Offers, EvaluateAgain(b, o) PROVE Typed
    <2> DEFINE new == [accept[b] EXCEPT !.at = "evaluated"]
    <2>1. new \in Acceptances /\ Prepared(new)
      BY <1>1 DEF Acceptances, Prepared
    <2>2. accept' = [accept EXCEPT ![b] = new]
      BY <1>1, <1>6 DEF EvaluateAgain
    <2> HIDE DEF new
    <2>3. QED
      BY <1>1, <1>2, <1>6, <2>1, <2>2 DEF EvaluateAgain, AcceptKeeps
  <1>7. ASSUME NEW id \in LoanIds, Prepare(b, id) PROVE Typed
    <2> DEFINE new == [at |-> "lock", id |-> id, offer |-> session[b], made |-> NoOffer]
    <2>1. new \in Acceptances /\ Prepared(new)
      BY <1>1, <1>7 DEF Prepare, Acceptances, Prepared
    <2>2. accept' = [accept EXCEPT ![b] = new]
      BY <1>7 DEF Prepare
    <2> HIDE DEF new
    <2>3. QED
      BY <1>1, <1>2, <1>7, <2>1, <2>2 DEF Prepare, AcceptKeeps
  <1>8. ASSUME accept[b].at = "lock",
               accept' = [accept EXCEPT ![b].at = "execute"],
               AcceptKeeps, UNCHANGED <<session, approved>>
        PROVE  Typed
    <2> DEFINE new == [accept[b] EXCEPT !.at = "execute"]
    <2>1. new \in Acceptances /\ Prepared(new)
      BY <1>1, <1>8 DEF Acceptances, Prepared
    <2>2. accept' = [accept EXCEPT ![b] = new]
      BY <1>1, <1>8
    <2> HIDE DEF new
    <2>3. QED
      BY <1>1, <1>2, <1>8, <2>1, <2>2 DEF AcceptKeeps
  <1>9. CASE Execute(b)
    <2> DEFINE new == [accept[b] EXCEPT !.at = "disburse", !.made = session[b]]
    <2>1. new \in Acceptances /\ Prepared(new)
      BY <1>1, <1>9 DEF Execute, Acceptances, Prepared
    <2>2. accept' = [accept EXCEPT ![b] = new]
      BY <1>1, <1>9 DEF Execute
    <2> HIDE DEF new
    <2>3. QED
      BY <1>1, <1>2, <1>9, <2>1, <2>2 DEF Execute, AcceptKeeps
  <1>10. CASE ExecutionEnds(b)
    BY <1>1, <1>2, <1>3, <1>10 DEF ExecutionEnds, AcceptKeeps
  <1>11. ASSUME NEW to \in {"schedule", "approve"},
                accept[b].at \in {"disburse", "schedule"},
                accept' = [accept EXCEPT ![b].at = to],
                session' \in [Pages -> Offers \cup {NoOffer}],
                AcceptKeeps, UNCHANGED approved
         PROVE  Typed
    <2> DEFINE new == [accept[b] EXCEPT !.at = to]
    <2>1. new \in Acceptances /\ Prepared(new)
      BY <1>1, <1>11 DEF Acceptances, Prepared
    <2>2. accept' = [accept EXCEPT ![b] = new]
      BY <1>1, <1>11
    <2> HIDE DEF new
    <2>3. QED
      BY <1>1, <1>2, <1>11, <2>1, <2>2 DEF AcceptKeeps
  <1>12. ASSUME NEW score \in Scores, DisburseLands(b, score) PROVE Typed
    BY <1>1, <1>10, <1>11, <1>12 DEF DisburseLands
  <1>13. CASE ScheduleLands(b)
    <2>1. [session EXCEPT ![b] = NoOffer] \in [Pages -> Offers \cup {NoOffer}]
      BY <1>1
    <2>2. QED
      BY <1>10, <1>11, <1>13, <2>1 DEF ScheduleLands
  <1>14. CASE AcceptFails(b)
    BY <1>1, <1>2, <1>3, <1>14 DEF AcceptFails, AcceptKeeps
  <1>15. CASE Approve(b)
    <2>1. accept[b].offer.autopay \in Nat
      BY <1>15, OfferFields DEF Approve, Prepared
    <2>2. QED
      BY <1>1, <1>2, <1>3, <1>15, <2>1 DEF Approve, AcceptKeeps
  <1>16. QED
    BY <1>4, <1>5, <1>6, <1>7, <1>8, <1>9, <1>10, <1>12, <1>13, <1>14, <1>15
       DEF OfferStep, LockLands, LockReverts, ServerFails

LEMMA DashboardNextType ==
    ASSUME TypeOK, PageTypeOK, [DashboardNext]_dashboardVars
    PROVE  TypeOK' /\ PageTypeOK'
  <1> USE DEF PageTypeOK, HandlersCarry
  <1>1. TypeOK'
    <2>1. CASE Tick \/ UNCHANGED vars
      BY <2>1 DEF Tick, vars, TypeOK
    <2>2. ASSUME NEW p \in Pools, Step(p) PROVE TypeOK'
      BY <2>2, StepType
    <2>3. QED
      BY <2>1, <2>2, DashboardStepOfPool DEF Next
  <1>2. ASSUME UNCHANGED shownVars PROVE ShownTypeOK'
    BY <1>2 DEF shownVars, ShownTypeOK
  <1>3. ASSUME UNCHANGED repayVars
        PROVE  RepaysTypeOK' /\ \A c \in Clicks : Carried(repaying'[c])
    BY <1>3 DEF repayVars, RepaysTypeOK
  <1>4. ASSUME UNCHANGED offerVars
        PROVE  OffersTypeOK' /\ \A b \in Pages : Prepared(accept'[b])
    BY <1>4 DEF offerVars, OffersTypeOK
  <1>5. ASSUME NEW l \in Loads, PollStep(l) PROVE PageTypeOK'
    <2>1. UNCHANGED <<repayVars, offerVars>>
      BY <1>5
         DEF PollStep, PollPool, PollBook, ShowPool, ReadLoan, ShowBook, ShowNoBook
    <2>2. QED
      BY <1>3, <1>4, <1>5, <2>1, PollTyped
  <1>6. ASSUME NEW c \in Clicks, ClickStep(c) PROVE PageTypeOK'
    <2>1. UNCHANGED <<shownVars, offerVars>>
      BY <1>6
         DEF ClickStep, ClickRepay, RepayLands, RepayReverts, RepayFails, RecordRepaid,
             TryRelease, RepayStep, EndRepay
    <2>2. QED
      BY <1>2, <1>4, <1>6, <2>1, ClickTyped
  <1>7. ASSUME NEW b \in Pages, OfferStep(b) PROVE PageTypeOK'
    <2>1. UNCHANGED <<shownVars, repayVars>>
      BY <1>7
         DEF OfferStep, ChatOffer, EvaluateAgain, Rescored, OtherRequest, Prepare,
             LockLands, LockReverts, Execute, DisburseLands, ScheduleLands,
             ServerFails, AcceptFails, Approve, AcceptKeeps, ExecutionEnds
    <2>2. QED
      BY <1>2, <1>3, <1>7, <2>1, OfferTyped
  <1>8. ASSUME UNCHANGED pageVars PROVE PageTypeOK'
    BY <1>2, <1>3, <1>4, <1>8 DEF pageVars
  <1>9. PageTypeOK'
    BY <1>5, <1>6, <1>7, <1>8
       DEF DashboardNext, DepositLiquidity, Elsewhere, dashboardVars
  <1>10. QED
    BY <1>1, <1>9

LEMMA DashboardTyped == DashboardSpec => [](TypeOK /\ PageTypeOK)
  BY DashboardInitType, DashboardNextType, PTL DEF DashboardSpec

\* Whatever polls, clicks and acceptances overlap, the pool, the pages and what
\* is under way stay well typed (useCredAgent.ts, mcpServer.js).
THEOREM DashboardTypeCorrect == DashboardSpec => []DashboardTypeOK
  <1>1. TypeOK /\ PageTypeOK => DashboardTypeOK
    BY DEF PageTypeOK, DashboardTypeOK
  <1>2. QED
    BY <1>1, DashboardTyped, PTL

\* The pages do to the pools what the pools allow and no more: their theorems
\* hold of what the dashboard drives.
THEOREM DashboardIsPool == DashboardSpec => Spec
  <1>1. DashboardInit => Init
    BY DEF DashboardInit
  <1>2. TypeOK /\ PageTypeOK /\ [DashboardNext]_dashboardVars => [Next]_vars
    BY DashboardStepOfPool
  <1>3. QED
    BY <1>1, <1>2, DashboardTyped, PTL DEF DashboardSpec, Spec

\* With one pool, no click on the dashboard frees the collateral of an open
\* loan: not a release that is asked for after a repayment that failed, nor a
\* lock for an offer that was replaced (useCredAgent.ts:720).
THEOREM DashboardHoldsCollateral ==
    ASSUME OnePool PROVE DashboardSpec => []CollateralHeld
  BY DashboardIsPool, CollateralIsHeld, PTL

-----------------------------------------------------------------------------
(* What the pages show.                                                    *)

LEMMA ProductGrows ==
    ASSUME NEW a \in Nat, NEW x \in Nat, NEW y \in Nat, x <= y
    PROVE  a * x <= a * y
  <1>1. PICK d \in Nat : y = x + d
    <2>1. y - x \in Nat /\ y = x + (y - x)
      OBVIOUS
    <2>2. QED
      BY <2>1
  <1>2. a * y = a * x + a * d
    BY <1>1
  <1>3. a * d \in Nat /\ a * x \in Nat
    BY ProductNat
  <1>4. QED
    BY <1>2, <1>3

LEMMA QuotientGrows ==
    ASSUME NEW x \in Nat, NEW y \in Nat, NEW d \in Nat \ {0}, x <= y
    PROVE  x \div d <= y \div d
  OBVIOUS

\* A loan never owes less at a later index, before its payments.
LEMMA OwedGrows ==
    ASSUME NEW ln \in Loans, NEW new \in Loans, NEW i \in Nat, NEW j \in Nat, i <= j,
           new.principal = ln.principal, new.index_snapshot = ln.index_snapshot
    PROVE  TotalOwed(ln, i) <= TotalOwed(new, j)
  <1> DEFINE a == ln.principal
             k == ln.index_snapshot
  <1>1. a \in Nat /\ k \in Nat
    BY DEF Loans
  <1>2. CASE i <= k
    <2>1. TotalOwed(ln, i) = new.principal
      BY <1>1, <1>2 DEF TotalOwed, ComputeInterestOwed
    <2>2. QED
      BY <2>1, OwedNat
  <1>3. CASE ~(i <= k)
    <2>1. i - k \in Nat /\ j - k \in Nat /\ i - k <= j - k /\ ~(j <= k)
      BY <1>1, <1>3
    <2>2. /\ a * (i - k) \in Nat /\ a * (j - k) \in Nat
          /\ a * (i - k) <= a * (j - k)
      BY <1>1, <2>1, ProductNat, ProductGrows
    <2>3. (a * (i - k)) \div PRECISION <= (a * (j - k)) \div PRECISION
      BY <2>2, QuotientGrows, ProgramAssumption
    <2>4. /\ (a * (i - k)) \div PRECISION \in Nat
          /\ (a * (j - k)) \div PRECISION \in Nat
      BY <2>2, QuotientNat, ProgramAssumption
    <2>5. /\ TotalOwed(ln, i) = a + (a * (i - k)) \div PRECISION
          /\ TotalOwed(new, j) = a + (a * (j - k)) \div PRECISION
      BY <1>3, <2>1 DEF TotalOwed, ComputeInterestOwed
    <2>6. QED
      BY <1>1, <2>3, <2>4, <2>5
  <1>4. QED
    BY <1>2, <1>3

\* The books that are shown or being read.
PageBooks == {rows[b] : b \in Pages} \cup {load[l].rows : l \in Loads}

\* The index that a poll reads with, and the interest that is shown or about to
\* be, are not newer than the pool's.
FiguresPast ==
    /\ \A b \in Pages : interestEarned[b] <= pool[ThePool].total_interest_earned
    /\ \A l \in Loads :
          /\ load[l].index <= pool[ThePool].interest_index
          /\ load[l].earned <= pool[ThePool].total_interest_earned

\* A book with one row read anew, at an index that is not newer than the pool's.
ReadAnew(book) ==
    \E old \in PageBooks, id \in LoanIds, i \in Nat :
       /\ i <= pool[ThePool].interest_index
       /\ \E row \in RowsOf(loan[ThePool][id], i) : book = [old EXCEPT ![id] = row]

BooksGoOn ==
    \A book \in PageBooks' : book = NoRows \/ book \in PageBooks \/ ReadAnew(book)

LEMMA BooksTyped ==
    ASSUME ShownTypeOK, NEW book \in PageBooks PROVE book \in [LoanIds -> Rows]
  BY DEF ShownTypeOK, PageBooks, Polls

\* One step of a poll.
LEMMA PollReads ==
    ASSUME TypeOK, ShownTypeOK, FiguresPast, NEW l \in Loads, PollStep(l)
    PROVE  FiguresPast' /\ BooksGoOn
  <1>1. /\ pool' = pool
        /\ pool[ThePool].interest_index \in Nat
        /\ pool[ThePool].total_interest_earned \in Nat
    <2>1. UNCHANGED vars
      BY DEF PollStep, PollPool, PollBook, ShowPool, ReadLoan, ShowBook, ShowNoBook
    <2>2. QED
      BY <2>1, PoolExists DEF vars, TypeOK, PoolStates
  <1>2. /\ rows \in [Pages -> [LoanIds -> Rows]]
        /\ interestEarned \in [Pages -> Nat]
        /\ load \in [Loads -> Polls]
        /\ load[l] \in Polls
        /\ load[l].page \in Pages
        /\ load[l].index \in Nat
        /\ load[l].rows \in [LoanIds -> Rows]
    BY DEF ShownTypeOK, Polls
  <1>3. /\ NoPoll.rows = NoRows /\ NoPoll.index = 0 /\ NoPoll.earned = 0
        /\ NoPoll.index <= pool[ThePool].interest_index
        /\ NoPoll.earned <= pool[ThePool].total_interest_earned
    BY <1>1 DEF NoPoll
  <1>4. ASSUME NEW e \in [Pages -> Nat], interestEarned' = e,
               \A b \in Pages : e[b] <= pool[ThePool].total_interest_earned,
               NEW new, load' = [load EXCEPT ![l] = new],
               new.index <= pool[ThePool].interest_index,
               new.earned <= pool[ThePool].total_interest_earned,
               new.rows = NoRows \/ new.rows \in PageBooks \/ ReadAnew(new.rows),
               \A b \in Pages : rows'[b] = NoRows \/ rows'[b] \in PageBooks
        PROVE  FiguresPast' /\ BooksGoOn
    <2>1. \A k \in Loads : load'[k] = IF k = l THEN new ELSE load[k]
      BY <1>2, <1>4
    <2>2. FiguresPast'
      BY <1>1, <1>4, <2>1 DEF FiguresPast
    <2>3. \A k \in Loads : load'[k].rows = new.rows \/ load'[k].rows \in PageBooks
      BY <2>1 DEF PageBooks
    <2>4. \A book \in PageBooks' : \/ \E b \in Pages : book = rows'[b]
                               \/ \E k \in Loads : book = load'[k].rows
      BY DEF PageBooks
    <2>5. BooksGoOn
      BY <1>4, <2>3, <2>4 DEF BooksGoOn
    <2>6. QED
      BY <2>2, <2>5
  <1>5. /\ \A b \in Pages : rows[b] \in PageBooks
        /\ load[l].rows \in PageBooks
        /\ \A b \in Pages : interestEarned[b] <= pool[ThePool].total_interest_earned
        /\ load[l].index <= pool[ThePool].interest_index
        /\ load[l].earned <= pool[ThePool].total_interest_earned
    BY DEF PageBooks, FiguresPast
  <1>6. ASSUME NEW b \in Pages, PollPool(l, b) PROVE FiguresPast' /\ BooksGoOn
    <2> DEFINE new == [NoPoll EXCEPT !.at = "pool", !.page = b,
                          !.earned = pool[ThePool].total_interest_earned]
    <2>1. /\ new.rows = NoRows /\ new.index = 0
          /\ new.earned = pool[ThePool].total_interest_earned
      BY <1>3 DEF NoPoll
    <2>2. load' = [load EXCEPT ![l] = new] /\ rows' = rows
          /\ interestEarned' = interestEarned
      BY <1>6 DEF PollPool
    <2> HIDE DEF new
    <2>3. new.index <= pool[ThePool].interest_index
          /\ new.earned <= pool[ThePool].total_interest_earned
      BY <1>1, <2>1
    <2>4. QED
      BY <1>2, <1>4, <1>5, <2>1, <2>2, <2>3
  <1>7. ASSUME NEW b \in Pages, PollBook(l, b) PROVE FiguresPast' /\ BooksGoOn
    <2> DEFINE new == [NoPoll EXCEPT !.at = "book", !.page = b, !.next = 1,
                         !.last = pool[ThePool].next_loan_id - 1,
                         !.index = pool[ThePool].interest_index]
    <2>1. /\ new.rows = NoRows /\ new.earned = 0
          /\ new.index = pool[ThePool].interest_index
      BY <1>3 DEF NoPoll
    <2>2. load' = [load EXCEPT ![l] = new] /\ rows' = rows
          /\ interestEarned' = interestEarned
      BY <1>7 DEF PollBook
    <2> HIDE DEF new
    <2>3. new.index <= pool[ThePool].interest_index
          /\ new.earned <= pool[ThePool].total_interest_earned
      BY <1>1, <2>1
    <2>4. QED
      BY <1>2, <1>4, <1>5, <2>1, <2>2, <2>3
  <1>8. CASE ShowPool(l)
    <2>1. PICK n \in {load[l].earned, 0} :
             interestEarned' = [interestEarned EXCEPT ![load[l].page] = n]
      BY <1>8 DEF ShowPool
    <2>2. n \in Nat /\ n <= pool[ThePool].total_interest_earned
      BY <1>1, <1>2, <1>5 DEF Polls
    <2> DEFINE e == [interestEarned EXCEPT ![load[l].page] = n]
    <2>3. /\ e \in [Pages -> Nat]
          /\ \A b \in Pages : e[b] <= pool[ThePool].total_interest_earned
      BY <1>2, <1>5, <2>2
    <2> HIDE DEF e
    <2>4. rows' = rows /\ load' = [load EXCEPT ![l] = NoPoll] /\ interestEarned' = e
      BY <1>8, <2>1 DEF ShowPool, e
    <2>5. \A b \in Pages : rows'[b] \in PageBooks
      BY <1>5, <2>4
    <2>6. QED
      BY <1>3, <1>4, <2>3, <2>4, <2>5
  <1>9. CASE ReadLoan(l)
    <2> DEFINE next == load[l].next
    <2>1. next \in LoanIds
      BY <1>9 DEF ReadLoan, Unread
    <2>2. PICK row \in RowsOf(loan[ThePool][next], load[l].index) :
             load' = [load EXCEPT ![l].rows[next] = row, ![l].next = @ + 1]
      BY <1>9 DEF ReadLoan
    <2> DEFINE read == [load[l].rows EXCEPT ![next] = row]
               new == [load[l] EXCEPT !.rows = read, !.next = next + 1]
    <2>3. ReadAnew(read)
      BY <1>2, <1>5, <2>1, <2>2 DEF ReadAnew
    <2>4. load' = [load EXCEPT ![l] = new]
      BY <1>2, <2>2 DEF Polls
    <2>5. new.rows = read /\ new.index = load[l].index /\ new.earned = load[l].earned
      BY <1>2 DEF Polls
    <2> HIDE DEF new, read
    <2>6. rows' = rows /\ interestEarned' = interestEarned
      BY <1>9 DEF ReadLoan
    <2>7. QED
      BY <1>2, <1>4, <1>5, <2>3, <2>4, <2>5, <2>6
  <1>10. ASSUME NEW book \in {load[l].rows, NoRows},
                rows' = [rows EXCEPT ![load[l].page] = book],
                load' = [load EXCEPT ![l] = NoPoll],
                interestEarned' = interestEarned
         PROVE  FiguresPast' /\ BooksGoOn
    <2>1. \A b \in Pages : rows'[b] = NoRows \/ rows'[b] \in PageBooks
      BY <1>2, <1>5, <1>10
    <2>2. QED
      BY <1>2, <1>3, <1>4, <1>5, <1>10, <2>1
  <1>11. QED
    BY <1>6, <1>7, <1>8, <1>9, <1>10 DEF PollStep, ShowBook, ShowNoBook

\* The chain moves under the pages, or a poll does with the chain standing still.
LEMMA StepReads ==
    ASSUME TypeOK, TypeOK', PageTypeOK, FiguresPast, PoolsGrow,
           [DashboardNext]_dashboardVars
    PROVE  FiguresPast' /\ (PageBooks' = PageBooks \/ (UNCHANGED vars /\ BooksGoOn))
  <1>1. ASSUME NEW l \in Loads, PollStep(l)
        PROVE  FiguresPast' /\ UNCHANGED vars /\ BooksGoOn
    BY <1>1, PollReads
       DEF PageTypeOK, PollStep, PollPool, PollBook, ShowPool, ReadLoan, ShowBook,
           ShowNoBook
  <1>2. ASSUME UNCHANGED shownVars PROVE FiguresPast' /\ PageBooks' = PageBooks
    <2>1. /\ pool[ThePool] \in PoolStates /\ pool'[ThePool] \in PoolStates
          /\ Grows(pool[ThePool], pool'[ThePool])
      BY PoolExists DEF TypeOK, PoolsGrow
    <2>2. /\ interestEarned \in [Pages -> Nat]
          /\ \A l \in Loads : load[l].index \in Nat /\ load[l].earned \in Nat
      BY DEF PageTypeOK, ShownTypeOK, Polls
    <2>3. FiguresPast'
      BY <1>2, <2>1, <2>2 DEF FiguresPast, Grows, PoolStates, shownVars
    <2>4. PageBooks' = PageBooks
      BY <1>2 DEF PageBooks, shownVars
    <2>5. QED
      BY <2>3, <2>4
  <1>3. ASSUME NEW c \in Clicks, ClickStep(c) PROVE UNCHANGED shownVars
    BY <1>3
       DEF ClickStep, ClickRepay, RepayLands, RepayReverts, RepayFails, RecordRepaid,
           TryRelease, RepayStep, EndRepay
  <1>4. ASSUME NEW b \in Pages, OfferStep(b) PROVE UNCHANGED shownVars
    BY <1>4
       DEF OfferStep, ChatOffer, EvaluateAgain, Rescored, OtherRequest, Prepare,
           LockLands, LockReverts, Execute, DisburseLands, ScheduleLands,
           ServerFails, AcceptFails, Approve, AcceptKeeps, ExecutionEnds
  <1>5. QED
    BY <1>1, <1>2, <1>3, <1>4
       DEF DashboardNext, DepositLiquidity, Elsewhere, dashboardVars, pageVars

\* The rows of the books are their loans' past: with the figures, the inductive
\* invariant.
RowsPast == \A book \in PageBooks, id \in LoanIds : IsPastOf(book[id], loan[ThePool][id])

LEMMA PastStays ==
    ASSUME NEW row \in Rows, NEW ln \in Loans, NEW new \in Loans,
           GoesOn(ln, new), IsPastOf(row, ln)
    PROVE  IsPastOf(row, new)
  BY DEF IsPastOf, GoesOn, Rows, Loans

LEMMA ReadIsPast ==
    ASSUME NEW ln \in Loans, NEW i \in Nat, NEW row \in RowsOf(ln, i)
    PROVE  IsPastOf(row, ln)
  BY DEF RowsOf, RowStatus, NoRow, IsPastOf, Loans

LEMMA StepKeepsPast ==
    ASSUME TypeOK, PageTypeOK, FiguresPast, RowsPast, [DashboardNext]_dashboardVars
    PROVE  FiguresPast' /\ RowsPast'
  <1>1. /\ TypeOK' /\ LoansGoOn /\ PoolsGrow
        /\ FiguresPast'
        /\ PageBooks' = PageBooks \/ (UNCHANGED vars /\ BooksGoOn)
    BY DashboardNextType, DashboardStepOfPool, NextGoesOn, StepReads
  <1>2. /\ loan[ThePool] \in [LoanIds -> Loans] /\ loan'[ThePool] \in [LoanIds -> Loans]
        /\ \A id \in LoanIds : GoesOn(loan[ThePool][id], loan'[ThePool][id])
    BY <1>1, PoolExists DEF TypeOK, LoansGoOn
  <1>3. ASSUME NEW book \in PageBooks, NEW id \in LoanIds
        PROVE  book[id] \in Rows /\ IsPastOf(book[id], loan'[ThePool][id])
    BY <1>2, BooksTyped, PastStays DEF PageTypeOK, RowsPast
  <1>4. ASSUME UNCHANGED vars, BooksGoOn, NEW book \in PageBooks', NEW id \in LoanIds
        PROVE  IsPastOf(book[id], loan[ThePool][id])
    <2>1. CASE book = NoRows
      BY <2>1 DEF NoRows, NoRow, IsPastOf
    <2>2. CASE book \in PageBooks
      BY <2>2 DEF RowsPast
    <2>3. CASE ReadAnew(book)
      <3>1. PICK old \in PageBooks, x \in LoanIds, i \in Nat :
               \E row \in RowsOf(loan[ThePool][x], i) : book = [old EXCEPT ![x] = row]
        BY <2>3 DEF ReadAnew
      <3>2. old \in [LoanIds -> Rows]
        BY BooksTyped DEF PageTypeOK
      <3>3. QED
        BY <1>2, <3>1, <3>2, ReadIsPast DEF RowsPast
    <2>4. QED
      BY <1>4, <2>1, <2>2, <2>3 DEF BooksGoOn
  <1>5. RowsPast'
    <2>1. CASE PageBooks' = PageBooks
      BY <1>3, <2>1 DEF RowsPast
    <2>2. CASE UNCHANGED vars /\ BooksGoOn
      BY <1>4, <2>2 DEF RowsPast, vars
    <2>3. QED
      BY <1>1, <2>1, <2>2
  <1>6. QED
    BY <1>1, <1>5

LEMMA BooksAtInit ==
    ASSUME DashboardInit PROVE FiguresPast /\ \A book \in PageBooks : book = NoRows
  <1>1. pool[ThePool] \in PoolStates
    BY DashboardInitType, PoolExists DEF TypeOK
  <1>2. NoPoll.rows = NoRows /\ NoPoll.index = 0 /\ NoPoll.earned = 0
    BY DEF NoPoll
  <1>3. FiguresPast
    BY <1>1, <1>2 DEF DashboardInit, FiguresPast, PoolStates
  <1>4. \A book \in PageBooks : book = NoRows
    BY <1>2 DEF DashboardInit, PageBooks
  <1>5. QED
    BY <1>3, <1>4

LEMMA BooksAlwaysPast == DashboardSpec => [](FiguresPast /\ RowsPast)
  <1>1. DashboardInit => FiguresPast /\ RowsPast
    BY BooksAtInit DEF RowsPast, NoRows, NoRow, IsPastOf
  <1>2. TypeOK /\ PageTypeOK /\ FiguresPast /\ RowsPast /\ [DashboardNext]_dashboardVars
          => FiguresPast' /\ RowsPast'
    BY StepKeepsPast
  <1>3. QED
    BY <1>1, <1>2, DashboardTyped, PTL DEF DashboardSpec

\* Whichever poll answers last, a page shows an old book or an old figure of the
\* pool, never one that was not: a loan it shows as ended has ended so, one it
\* shows at all exists and has repaid what is shown, although an older answer or
\* a failed one may take the row away again (useCredAgent.ts:419).
THEOREM ShownAlwaysPast == DashboardSpec => []ShownIsPast
  <1>1. FiguresPast /\ RowsPast => ShownIsPast
    BY DEF FiguresPast, RowsPast, PageBooks, ShownIsPast
  <1>2. QED
    BY <1>1, BooksAlwaysPast, PTL

-----------------------------------------------------------------------------
(* What the pages ask for.                                                 *)

\* With one pool a loan's debt never falls, and closing the loan pays it.
LEMMA DebtNeverFalls ==
    ASSUME OnePool, TypeOK, TypeOK', ClockBehind, [Next]_vars, NEW id \in LoanIds,
           loan[ThePool][id].status # "None"
    PROVE  /\ Debt(loan[ThePool][id]) \in Nat /\ Debt(loan[ThePool][id])' \in Nat
           /\ Debt(loan[ThePool][id]) <= Debt(loan[ThePool][id])'
  <1> DEFINE ln == loan[ThePool][id]
             new == loan'[ThePool][id]
             i == pool[ThePool].interest_index
             j == pool'[ThePool].interest_index
  <1>1. /\ ln \in Loans /\ new \in Loans
        /\ i \in Nat /\ j \in Nat /\ i <= j
        /\ GoesOn(ln, new)
    BY PoolExists, NextGoesOn DEF TypeOK, PoolStates, LoansGoOn, PoolsGrow, Grows
  <1>2. /\ new.principal = ln.principal /\ new.index_snapshot = ln.index_snapshot
        /\ ln.repaid_amount \in Nat /\ new.repaid_amount \in Nat
        /\ ln.repaid_amount <= new.repaid_amount
        /\ ln.status = "Repaid" => new.status = "Repaid"
    BY <1>1 DEF GoesOn, Loans
  <1>3. /\ TotalOwed(ln, i) \in Nat /\ TotalOwed(new, j) \in Nat
        /\ TotalOwed(ln, j) \in Nat
        /\ TotalOwed(ln, i) <= TotalOwed(ln, j)
        /\ TotalOwed(ln, i) <= TotalOwed(new, j)
    BY <1>1, <1>2, OwedNat, OwedGrows
  <1>4. new.status = "Repaid" /\ ln.status # "Repaid"
           => new.repaid_amount = TotalOwed(ln, j)
    BY PoolExists, NextUpToDate DEF Untouched, UpToDate
  <1>5. /\ Debt(ln) = IF ln.status = "Repaid" THEN ln.repaid_amount ELSE TotalOwed(ln, i)
        /\ Debt(loan[ThePool][id])' =
              IF new.status = "Repaid" THEN new.repaid_amount ELSE TotalOwed(new, j)
    BY DEF Debt, TotalOwed, ComputeInterestOwed
  <1> HIDE DEF ln, new, i, j
  <1>6. QED
    BY <1>2, <1>3, <1>4, <1>5 DEF ln, new
\* A loan was granted for something, so that its debt is never nothing; and no open
\* row of the books passes the debt of its loan.
LoansOwe ==
    \A id \in LoanIds : loan[ThePool][id].status # "None" => Debt(loan[ThePool][id]) > 0

RowsCovered ==
    \A book \in PageBooks, id \in LoanIds : Covered(book[id], loan[ThePool][id])

\* What is being paid was within the debt of a loan when it was clicked.
Payable(r) ==
    r.at = "sent" =>
        /\ loan[ThePool][r.id].status # "None"
        /\ r.amount <= Debt(loan[ThePool][r.id]) + 2 * ROUNDING

ClicksPayable == \A c \in Clicks : Payable(repaying[c])

\* The inductive invariant, over the types and the past of what is shown.
DebtsBound == LoansOwe /\ RowsCovered /\ ClicksPayable

LEMMA StepKeepsLoansOwe ==
    ASSUME OnePool, TypeOK, TypeOK', ClockBehind, [Next]_vars, LoansOwe
    PROVE  LoansOwe'
  <1> SUFFICES ASSUME NEW id \in LoanIds, loan'[ThePool][id].status # "None"
               PROVE  Debt(loan[ThePool][id])' > 0
    BY DEF LoansOwe
  <1>1. CASE loan[ThePool][id].status # "None"
    BY <1>1, DebtNeverFalls DEF LoansOwe
  <1>2. CASE loan[ThePool][id].status = "None"
    <2> DEFINE new == loan'[ThePool][id]
               j == pool'[ThePool].interest_index
    <2>1. /\ GoesOn(loan[ThePool][id], new)
          /\ new \in Loans /\ j \in Nat
      BY PoolExists, NextGoesOn DEF LoansGoOn, TypeOK, PoolStates
    <2>2. new.status = "Active" /\ new.principal > 0
      BY <1>2, <2>1 DEF GoesOn
    <2>3. TotalOwed(new, j) \in Nat /\ new.principal <= TotalOwed(new, j)
      BY <2>1, OwedNat
    <2>4. Debt(loan[ThePool][id])' = TotalOwed(new, j)
      BY <2>2 DEF Debt, TotalOwed, ComputeInterestOwed
    <2>5. new.principal \in Nat
      BY <2>1 DEF Loans
    <2> HIDE DEF new, j
    <2>6. QED
      BY <2>2, <2>3, <2>4, <2>5
  <1>3. QED
    BY <1>1, <1>2

\* A row as a poll reads it, at an index that is not newer than the pool's.
LEMMA ReadIsCovered ==
    ASSUME NEW ln \in Loans, NEW i \in Nat, i <= pool[ThePool].interest_index,
           pool[ThePool].interest_index \in Nat, NEW row \in RowsOf(ln, i)
    PROVE  Covered(row, ln)
  <1> SUFFICES ASSUME row.status = "Active", row.outstanding > 0
               PROVE  row.outstanding + row.repaid <= Debt(ln) + ROUNDING
    BY DEF Covered
  <1>1. PICK n \in Estimates(ln, i) :
           row = [status |-> RowStatus(ln), borrower |-> ln.borrower,
                  repaid |-> ln.repaid_amount, outstanding |-> n]
    BY DEF RowsOf, NoRow
  <1>2. Debt(ln) = TotalOwed(ln, pool[ThePool].interest_index)
    BY <1>1 DEF RowStatus, Debt
  <1>3. /\ TotalOwed(ln, i) \in Nat
        /\ TotalOwed(ln, pool[ThePool].interest_index) \in Nat
        /\ TotalOwed(ln, i) <= TotalOwed(ln, pool[ThePool].interest_index)
        /\ ROUNDING \in Nat /\ ln.repaid_amount \in Nat
    BY OwedNat, OwedGrows, DashboardAssumption DEF Loans
  <1>4. n > 0 => n <= TotalOwed(ln, i) - ln.repaid_amount + ROUNDING
    BY <1>3 DEF Estimates, AtLeastZero, Remaining
  <1>5. n \in Int
    BY <1>3 DEF Estimates, AtLeastZero, Remaining
  <1>6. QED
    BY <1>1, <1>2, <1>3, <1>4, <1>5

LEMMA StepKeepsRowsCovered ==
    ASSUME OnePool, TypeOK, PageTypeOK, ClockBehind, FiguresPast, RowsPast, RowsCovered,
           [DashboardNext]_dashboardVars
    PROVE  RowsCovered'
  <1>1. /\ TypeOK' /\ [Next]_vars
        /\ PageBooks' = PageBooks \/ (UNCHANGED vars /\ BooksGoOn)
    BY DashboardNextType, DashboardStepOfPool, NextGoesOn, StepReads
  <1>2. ASSUME NEW book \in PageBooks, NEW id \in LoanIds
        PROVE  Covered(book[id], loan[ThePool][id])'
    <2> DEFINE row == book[id]
               debt == Debt(loan[ThePool][id])
               later == Debt(loan[ThePool][id])'
    <2>1. row \in Rows
      BY BooksTyped DEF PageTypeOK
    <2>2. row.status = "Active" /\ row.outstanding > 0 =>
             row.outstanding + row.repaid <= debt + ROUNDING
      BY DEF RowsCovered, Covered
    <2>3. row.status = "Active" => debt \in Nat /\ later \in Nat /\ debt <= later
      BY <1>1, DebtNeverFalls DEF RowsPast, IsPastOf
    <2>4. ROUNDING \in Nat /\ row.outstanding \in Nat /\ row.repaid \in Nat
      BY <2>1, DashboardAssumption DEF Rows
    <2> HIDE DEF debt, later, row
    <2>5. row.status = "Active" /\ row.outstanding > 0 =>
             row.outstanding + row.repaid <= later + ROUNDING
      BY <2>2, <2>3, <2>4
    <2>6. QED
      BY <2>5 DEF Covered, later, row
  <1>3. ASSUME UNCHANGED vars, BooksGoOn, NEW book \in PageBooks', NEW id \in LoanIds
        PROVE  Covered(book[id], loan[ThePool][id])
    <2>1. CASE book = NoRows
      BY <2>1 DEF NoRows, NoRow, Covered
    <2>2. CASE book \in PageBooks
      BY <2>2 DEF RowsCovered
    <2>3. CASE ReadAnew(book)
      <3>1. PICK old \in PageBooks, x \in LoanIds, i \in Nat :
               /\ i <= pool[ThePool].interest_index
               /\ \E row \in RowsOf(loan[ThePool][x], i) : book = [old EXCEPT ![x] = row]
        BY <2>3 DEF ReadAnew
      <3>2. /\ old \in [LoanIds -> Rows]
            /\ loan[ThePool][x] \in Loans
            /\ pool[ThePool].interest_index \in Nat
        BY BooksTyped, PoolExists DEF PageTypeOK, TypeOK, PoolStates
      <3>3. QED
        BY <3>1, <3>2, ReadIsCovered DEF RowsCovered
    <2>4. QED
      BY <1>3, <2>1, <2>2, <2>3 DEF BooksGoOn
  <1>4. CASE PageBooks' = PageBooks
    BY <1>2, <1>4 DEF RowsCovered
  <1>5. CASE UNCHANGED vars /\ BooksGoOn
    BY <1>3, <1>5 DEF RowsCovered, Covered, Debt, TotalOwed, ComputeInterestOwed, vars
  <1>6. QED
    BY <1>1, <1>4, <1>5

\* What a click takes from a row is within the debt: the estimate is, and the one
\* raw unit of a row that shows nothing to pay is.
LEMMA ClickIsPayable ==
    ASSUME ShownTypeOK, RowsPast, RowsCovered, LoansOwe,
           NEW b \in Pages, NEW id \in LoanIds, rows[b][id].status = "Active",
           Debt(loan[ThePool][id]) \in Nat, NEW amount \in AmountsFor(rows[b][id])
    PROVE  /\ loan[ThePool][id].status # "None"
           /\ amount <= Debt(loan[ThePool][id]) + 2 * ROUNDING
  <1> DEFINE row == rows[b][id]
             debt == Debt(loan[ThePool][id])
  <1>1. /\ rows[b] \in PageBooks
        /\ row \in Rows
    BY DEF ShownTypeOK, PageBooks
  <1>2. loan[ThePool][id].status # "None" /\ debt > 0
    BY <1>1 DEF RowsPast, IsPastOf, LoansOwe
  <1>3. row.outstanding > 0 => row.outstanding + row.repaid <= debt + ROUNDING
    BY <1>1 DEF RowsCovered, Covered
  <1>4. /\ ROUNDING \in Nat /\ row.outstanding \in Nat /\ row.repaid \in Nat
        /\ debt \in Nat
    BY <1>1, DashboardAssumption DEF Rows
  <1>5. /\ amount \in Int
        /\ amount <= (IF row.outstanding = 0 THEN 1 ELSE row.outstanding) + ROUNDING
    BY <1>4 DEF AmountsFor
  <1> HIDE DEF row, debt
  <1>6. QED
    BY <1>2, <1>3, <1>4, <1>5 DEF debt

LEMMA StepKeepsClicksPayable ==
    ASSUME OnePool, TypeOK, PageTypeOK, ClockBehind, RowsPast, DebtsBound,
           [DashboardNext]_dashboardVars
    PROVE  ClicksPayable'
  <1>1. TypeOK' /\ PageTypeOK' /\ [Next]_vars /\ LoansGoOn
    BY DashboardNextType, DashboardStepOfPool, NextGoesOn
  <1>2. ASSUME NEW c \in Clicks, repaying[c].at = "sent", repaying'[c] = repaying[c]
        PROVE  Payable(repaying[c])'
    <2>1. PICK id \in LoanIds : id = repaying[c].id
      BY <1>2 DEF PageTypeOK, HandlersCarry, Carried
    <2>2. repaying[c].amount \in Nat
      BY <1>2, InputsAssumption DEF PageTypeOK, HandlersCarry, Carried
    <2>3. /\ loan[ThePool][id].status # "None"
          /\ repaying[c].amount <= Debt(loan[ThePool][id]) + 2 * ROUNDING
      BY <1>2, <2>1 DEF DebtsBound, ClicksPayable, Payable
    <2>4. loan'[ThePool][id].status # "None"
      BY <1>1, <2>3, PoolExists DEF LoansGoOn, GoesOn
    <2>5. repaying[c].amount <= Debt(loan[ThePool][id])' + 2 * ROUNDING
      <3>1. /\ Debt(loan[ThePool][id]) \in Nat /\ Debt(loan[ThePool][id])' \in Nat
            /\ Debt(loan[ThePool][id]) <= Debt(loan[ThePool][id])'
        BY <1>1, <2>3, DebtNeverFalls
      <3>2. ROUNDING \in Nat
        BY DashboardAssumption
      <3> DEFINE debt == Debt(loan[ThePool][id])
                 later == Debt(loan[ThePool][id])'
      <3>3. repaying[c].amount <= debt + 2 * ROUNDING /\ debt <= later
        BY <2>3, <3>1
      <3> HIDE DEF debt, later
      <3>4. QED
        BY <2>2, <3>1, <3>2, <3>3 DEF debt, later
    <2>6. QED
      BY <1>2, <2>1, <2>4, <2>5 DEF Payable, Debt, TotalOwed, ComputeInterestOwed
  <1>3. ASSUME NEW c \in Clicks, repaying'[c].at # "sent" PROVE Payable(repaying[c])'
    BY <1>3 DEF Payable
  <1>4. ASSUME NEW b \in Pages, NEW id \in LoanIds, NEW c \in Clicks,
               ClickRepay(c, b, id)
        PROVE  Payable(repaying[c])'
    <2>1. PICK amount \in AmountsFor(rows[b][id]) :
             repaying' = [repaying EXCEPT ![c] =
                [at |-> "sent", page |-> b, id |-> id, amount |-> amount]]
      BY <1>4 DEF ClickRepay
    <2>2. /\ repaying'[c].id = id /\ repaying'[c].amount = amount
          /\ UNCHANGED vars /\ rows[b][id].status = "Active"
      BY <1>4, <2>1 DEF ClickRepay, PageTypeOK, RepaysTypeOK
    <2>3. rows[b] \in PageBooks
      BY DEF PageBooks
    <2>4. Debt(loan[ThePool][id]) \in Nat
      BY <1>1, <2>2, <2>3, DebtNeverFalls DEF RowsPast, IsPastOf
    <2>5. /\ loan[ThePool][id].status # "None"
          /\ amount <= Debt(loan[ThePool][id]) + 2 * ROUNDING
      BY <2>2, <2>4, ClickIsPayable DEF PageTypeOK, DebtsBound
    <2>6. QED
      BY <2>2, <2>5 DEF Payable, Debt, TotalOwed, ComputeInterestOwed, vars
  <1>5. ASSUME NEW c \in Clicks, ClickStep(c) PROVE ClicksPayable'
    <2>1. repaying \in [Clicks -> Repayments]
      BY DEF PageTypeOK, RepaysTypeOK
    <2>2. ASSUME NEW k \in Clicks, k # c PROVE repaying'[k] = repaying[k]
      BY <1>5, <2>1, <2>2
         DEF ClickStep, ClickRepay, RepayLands, RepayReverts, RepayFails, RecordRepaid,
             TryRelease, RepayStep, EndRepay
    <2>3. CASE \E b \in Pages, id \in LoanIds : ClickRepay(c, b, id)
      BY <1>2, <1>3, <1>4, <2>2, <2>3 DEF ClicksPayable
    <2>4. CASE ~\E b \in Pages, id \in LoanIds : ClickRepay(c, b, id)
      <3>1. repaying'[c].at # "sent"
        BY <1>5, <2>1, <2>4
           DEF ClickStep, RepayLands, RepayReverts, RepayFails, RecordRepaid,
               TryRelease, RepayStep, EndRepay, NoRepayment, Repayments
      <3>2. QED
        BY <1>2, <1>3, <2>2, <3>1 DEF ClicksPayable
    <2>5. QED
      BY <2>3, <2>4
  <1>6. ASSUME UNCHANGED repaying PROVE ClicksPayable'
    BY <1>2, <1>3, <1>6 DEF ClicksPayable
  <1>7. ASSUME NEW l \in Loads, PollStep(l) PROVE UNCHANGED repaying
    BY <1>7
       DEF PollStep, PollPool, PollBook, ShowPool, ReadLoan, ShowBook, ShowNoBook,
           repayVars
  <1>8. ASSUME NEW b \in Pages, OfferStep(b) PROVE UNCHANGED repaying
    BY <1>8
       DEF OfferStep, ChatOffer, EvaluateAgain, Rescored, OtherRequest, Prepare,
           LockLands, LockReverts, Execute, DisburseLands, ScheduleLands,
           ServerFails, AcceptFails, Approve, AcceptKeeps, ExecutionEnds, repayVars
  <1>9. QED
    BY <1>5, <1>6, <1>7, <1>8
       DEF DashboardNext, DepositLiquidity, Elsewhere, dashboardVars, pageVars, repayVars

LEMMA DebtsAlwaysBound ==
    ASSUME OnePool PROVE DashboardSpec => [](RowsPast /\ DebtsBound)
  <1>1. DashboardInit => DebtsBound
    <2> SUFFICES ASSUME DashboardInit PROVE DebtsBound
      OBVIOUS
    <2>1. LoansOwe
      BY PoolExists DEF DashboardInit, Init, LoansOwe
    <2>2. RowsCovered
      BY BooksAtInit DEF RowsCovered, NoRows, NoRow, Covered
    <2>3. ClicksPayable
      BY DEF DashboardInit, ClicksPayable, Payable, NoRepayment
    <2>4. QED
      BY <2>1, <2>2, <2>3 DEF DebtsBound
  <1>2. /\ TypeOK /\ PageTypeOK /\ ClockBehind /\ FiguresPast /\ RowsPast /\ DebtsBound
        /\ [DashboardNext]_dashboardVars
        => DebtsBound'
    <2> SUFFICES ASSUME TypeOK, PageTypeOK, ClockBehind, FiguresPast, RowsPast,
                        DebtsBound, [DashboardNext]_dashboardVars
                 PROVE  DebtsBound'
      OBVIOUS
    <2>1. LoansOwe'
      BY DashboardNextType, DashboardStepOfPool, StepKeepsLoansOwe DEF DebtsBound
    <2>2. QED
      BY <2>1, StepKeepsRowsCovered, StepKeepsClicksPayable DEF DebtsBound
  <1>3. DashboardSpec => []ClockBehind
    BY DashboardIsPool, ClockNeverAhead, PTL
  <1>4. QED
    BY <1>1, <1>2, <1>3, DashboardTyped, BooksAlwaysPast, PTL DEF DashboardSpec

\* With one pool, however the index, the loans and the answers of several polls are
\* mixed, an open row of a page never passes the debt of its loan: a page asks for
\* nothing but payments it has not seen (mcpServer.js:451, useCredAgent.ts:660).
THEOREM EstimatesAlwaysCovered ==
    ASSUME OnePool PROVE DashboardSpec => []EstimateCovered
  <1>1. DebtsBound => EstimateCovered
    BY DEF DebtsBound, RowsCovered, PageBooks, EstimateCovered
  <1>2. QED
    BY <1>1, DebtsAlwaysBound, PTL

\* With one pool, what a page sends for a loan stays within the whole debt of the
\* loan and two roundings, whoever else pays or closes it before the payment lands
\* (useCredAgent.ts:660-661).
THEOREM PaymentsWithinDebt ==
    ASSUME OnePool PROVE DashboardSpec => []PaymentWithinDebt
  <1>1. DebtsBound => PaymentWithinDebt
    BY DEF DebtsBound, ClicksPayable, Payable, PaymentWithinDebt
  <1>2. QED
    BY <1>1, DebtsAlwaysBound, PTL

-----------------------------------------------------------------------------
(* The loan that is said to have started.                                  *)

\* The chain holds the loan of the borrower that the server carried out.
Backs(ln, b, offer) ==
    ln.status # "None" /\ ln.borrower = b /\ ln.principal = offer.principal

Backed(b) ==
    LET a == accept[b]
        ln == loan[ThePool][a.id]
    IN /\ a.at \in {"schedule", "approve"} => Backs(ln, b, a.made)
       /\ a.at = "approve" => ln.has_schedule

HasScheduledLoan(b) ==
    \E id \in LoanIds :
        LET ln == loan[ThePool][id]
        IN ln.status # "None" /\ ln.borrower = b /\ ln.has_schedule

\* The inductive invariant: a loan counts as disbursed from the moment the
\* server goes on to its schedule.
StartsAreBacked ==
    \A b \in Pages : Backed(b) /\ (approved[b] > 0 => HasScheduledLoan(b))

LEMMA ScheduledStays ==
    ASSUME LoansGoOn, NEW b \in Pages, HasScheduledLoan(b)
    PROVE  HasScheduledLoan(b)'
  <1>1. PICK id \in LoanIds :
           /\ loan[ThePool][id].status # "None"
           /\ loan[ThePool][id].borrower = b
           /\ loan[ThePool][id].has_schedule
    BY DEF HasScheduledLoan
  <1>2. GoesOn(loan[ThePool][id], loan'[ThePool][id])
    BY PoolExists DEF LoansGoOn
  <1>3. QED
    BY <1>1, <1>2 DEF GoesOn, HasScheduledLoan

LEMMA BackedStays ==
    ASSUME LoansGoOn, PageTypeOK, NEW b \in Pages, Backed(b),
           accept'[b] = accept[b]
    PROVE  Backed(b)'
  <1>1. CASE accept[b].at \in {"schedule", "approve"}
    <2>1. accept[b].id \in LoanIds
      BY <1>1 DEF PageTypeOK, HandlersCarry, Prepared
    <2>2. GoesOn(loan[ThePool][accept[b].id], loan'[ThePool][accept[b].id])
      BY <2>1, PoolExists DEF LoansGoOn
    <2>3. QED
      BY <1>1, <2>2 DEF GoesOn, Backed, Backs
  <1>2. CASE accept[b].at \notin {"schedule", "approve"}
    BY <1>2 DEF Backed
  <1>3. QED
    BY <1>1, <1>2

\* What the two transactions of an execution leave on the chain.
LEMMA DisbursedLoan ==
    ASSUME TypeOK, NEW id \in LoanIds, NEW b \in Pages, NEW score,
           NEW a, NEW rate, NEW days,
           ConditionalDisburse(ThePool, id, b, score, a, rate, days)
    PROVE  /\ loan'[ThePool][id].status = "Active"
           /\ loan'[ThePool][id].borrower = b
           /\ loan'[ThePool][id].principal = a
  <1>1. loan \in [Pools -> [LoanIds -> Loans]] /\ ThePool \in Pools
    BY PoolExists DEF TypeOK
  <1>2. QED
    BY <1>1 DEF ConditionalDisburse

LEMMA ScheduledLoan ==
    ASSUME TypeOK, NEW id \in LoanIds, NEW n, NEW i, CreateSchedule(ThePool, id, n, i)
    PROVE  loan'[ThePool][id].has_schedule
  <1>1. /\ loan \in [Pools -> [LoanIds -> Loans]]
        /\ ThePool \in Pools
        /\ loan' = [loan EXCEPT ![ThePool][id].has_schedule = TRUE]
    BY PoolExists DEF TypeOK, CreateSchedule
  <1>2. QED
    BY <1>1 DEF Loans

\* One step of an acceptance.
LEMMA OfferKeepsBacked ==
    ASSUME TypeOK, PageTypeOK, StartsAreBacked, LoansGoOn,
           NEW b \in Pages, OfferStep(b)
    PROVE  Backed(b)' /\ (approved'[b] > 0 => HasScheduledLoan(b)')
  <1>1. /\ accept \in [Pages -> Acceptances]
        /\ approved \in [Pages -> Nat]
        /\ accept[b] \in Acceptances
        /\ Prepared(accept[b])
        /\ Backed(b)
    BY DEF PageTypeOK, OffersTypeOK, HandlersCarry, StartsAreBacked
  <1>2. ASSUME approved' = approved PROVE approved'[b] > 0 => HasScheduledLoan(b)'
    BY <1>2, ScheduledStays DEF StartsAreBacked
  <1>3. ASSUME accept'[b].at \notin {"schedule", "approve"} PROVE Backed(b)'
    BY <1>3 DEF Backed
  <1>4. ASSUME UNCHANGED <<accept, approved>>
        PROVE  Backed(b)' /\ (approved'[b] > 0 => HasScheduledLoan(b)')
    BY <1>1, <1>2, <1>4, BackedStays
  <1>5. ASSUME accept' = [accept EXCEPT ![b] = NoAcceptance], approved' = approved
        PROVE  Backed(b)' /\ (approved'[b] > 0 => HasScheduledLoan(b)')
    <2>1. accept'[b].at = "idle"
      BY <1>1, <1>5 DEF NoAcceptance
    <2>2. QED
      BY <1>2, <1>3, <1>5, <2>1
  <1>6. ASSUME NEW new, accept' = [accept EXCEPT ![b] = new], approved' = approved,
               new.at \in {"evaluated", "lock", "execute", "disburse"}
        PROVE  Backed(b)' /\ (approved'[b] > 0 => HasScheduledLoan(b)')
    <2>1. accept'[b].at \notin {"schedule", "approve"}
      BY <1>1, <1>6
    <2>2. QED
      BY <1>2, <1>3, <1>6, <2>1
  <1>7. ASSUME NEW at \in {"evaluated", "execute"}, approved' = approved,
               accept' = [accept EXCEPT ![b].at = at]
        PROVE  Backed(b)' /\ (approved'[b] > 0 => HasScheduledLoan(b)')
    <2>1. accept'[b].at = at
      BY <1>1, <1>7 DEF Acceptances
    <2>2. QED
      BY <1>2, <1>3, <1>7, <2>1
  <1>8. ASSUME NEW o \in Offers, ChatOffer(b, o) \/ EvaluateAgain(b, o)
        PROVE  Backed(b)' /\ (approved'[b] > 0 => HasScheduledLoan(b)')
    BY <1>4, <1>7, <1>8 DEF ChatOffer, EvaluateAgain
  <1>9. CASE Rescored(b) \/ OtherRequest(b)
    BY <1>4, <1>9 DEF Rescored, OtherRequest
  <1>10. ASSUME NEW id \in LoanIds, Prepare(b, id)
         PROVE  Backed(b)' /\ (approved'[b] > 0 => HasScheduledLoan(b)')
    BY <1>6, <1>10 DEF Prepare
  <1>11. ASSUME NEW m \in Mints, LockLands(b, m)
         PROVE  Backed(b)' /\ (approved'[b] > 0 => HasScheduledLoan(b)')
    BY <1>7, <1>11 DEF LockLands
  <1>12. CASE LockReverts(b)
    BY <1>7, <1>12 DEF LockReverts
  <1>13. CASE Execute(b)
    <2> DEFINE new == [accept[b] EXCEPT !.at = "disburse", !.made = session[b]]
    <2>1. accept' = [accept EXCEPT ![b] = new] /\ new.at = "disburse"
      BY <1>1, <1>13 DEF Execute, Acceptances
    <2> HIDE DEF new
    <2>2. QED
      BY <1>6, <1>13, <2>1 DEF Execute
  <1>14. ASSUME NEW score \in Scores, DisburseLands(b, score)
         PROVE  Backed(b)' /\ (approved'[b] > 0 => HasScheduledLoan(b)')
    <2>1. CASE ExecutionEnds(b)
      BY <1>5, <2>1 DEF ExecutionEnds
    <2>2. CASE accept' = [accept EXCEPT ![b].at = "schedule"] /\ UNCHANGED approved
      <3>1. accept[b].id \in LoanIds
        BY <1>1, <1>14 DEF DisburseLands, Prepared
      <3>2. /\ accept'[b].at = "schedule" /\ accept'[b].id = accept[b].id
            /\ accept'[b].made = accept[b].made
        BY <1>1, <2>2 DEF Acceptances
      <3>3. /\ loan'[ThePool][accept[b].id].status = "Active"
            /\ loan'[ThePool][accept[b].id].borrower = b
            /\ loan'[ThePool][accept[b].id].principal = accept[b].made.principal
        BY <1>14, <3>1, DisbursedLoan DEF DisburseLands
      <3>4. QED
        BY <1>2, <2>2, <3>2, <3>3 DEF Backed, Backs
    <2>3. QED
      BY <1>14, <2>1, <2>2 DEF DisburseLands
  <1>15. CASE ScheduleLands(b)
    <2>1. CASE ExecutionEnds(b)
      BY <1>5, <2>1 DEF ExecutionEnds
    <2>2. CASE accept' = [accept EXCEPT ![b].at = "approve"] /\ UNCHANGED approved
      <3>1. accept[b].id \in LoanIds /\ accept[b].at = "schedule"
        BY <1>1, <1>15 DEF ScheduleLands, Prepared
      <3>2. /\ accept'[b].at = "approve" /\ accept'[b].id = accept[b].id
            /\ accept'[b].made = accept[b].made
        BY <1>1, <2>2 DEF Acceptances
      <3>3. loan'[ThePool][accept[b].id].has_schedule
        BY <1>15, <3>1, ScheduledLoan DEF ScheduleLands
      <3>4. GoesOn(loan[ThePool][accept[b].id], loan'[ThePool][accept[b].id])
        BY <3>1, PoolExists DEF LoansGoOn
      <3>5. Backs(loan'[ThePool][accept[b].id], b, accept[b].made)
        BY <1>1, <3>1, <3>4 DEF Backed, Backs, GoesOn
      <3>6. QED
        BY <1>2, <2>2, <3>2, <3>3, <3>5 DEF Backed
    <2>3. QED
      BY <1>15, <2>1, <2>2 DEF ScheduleLands
  <1>16. CASE ServerFails(b) \/ AcceptFails(b)
    BY <1>5, <1>16 DEF ServerFails, ExecutionEnds, AcceptFails
  <1>17. CASE Approve(b)
    <2>1. accept[b].id \in LoanIds /\ accept[b].at = "approve"
      BY <1>1, <1>17 DEF Approve, Prepared
    <2>2. HasScheduledLoan(b)
      BY <1>1, <2>1 DEF Backed, Backs, HasScheduledLoan
    <2>3. accept'[b].at = "idle"
      BY <1>1, <1>17 DEF Approve, NoAcceptance
    <2>4. QED
      BY <1>3, <2>2, <2>3, ScheduledStays
  <1>18. QED
    BY <1>8, <1>9, <1>10, <1>11, <1>12, <1>13, <1>14, <1>15, <1>16, <1>17 DEF OfferStep

\* The acceptances of the other borrowers are not touched.
LEMMA OfferStepIsOwn ==
    ASSUME PageTypeOK, NEW b \in Pages, OfferStep(b), NEW x \in Pages, x # b
    PROVE  accept'[x] = accept[x] /\ approved'[x] = approved[x]
  <1>1. accept \in [Pages -> Acceptances] /\ approved \in [Pages -> Nat]
    BY DEF PageTypeOK, OffersTypeOK
  <1>2. QED
    BY <1>1
       DEF OfferStep, ChatOffer, EvaluateAgain, Rescored, OtherRequest, Prepare,
           LockLands, LockReverts, Execute, DisburseLands, ScheduleLands,
           ServerFails, AcceptFails, Approve, ExecutionEnds

LEMMA StartsAlwaysBacked == DashboardSpec => []StartsAreBacked
  <1>1. DashboardInit => StartsAreBacked
    BY DEF DashboardInit, StartsAreBacked, Backed, NoAcceptance
  <1>2. TypeOK /\ PageTypeOK /\ StartsAreBacked /\ [DashboardNext]_dashboardVars
          => StartsAreBacked'
    <2> SUFFICES ASSUME TypeOK, PageTypeOK, StartsAreBacked,
                        [DashboardNext]_dashboardVars
                 PROVE  StartsAreBacked'
      OBVIOUS
    <2>1. LoansGoOn
      BY DashboardStepOfPool, NextGoesOn
    <2>2. ASSUME NEW x \in Pages, accept'[x] = accept[x], approved'[x] = approved[x]
          PROVE  Backed(x)' /\ (approved'[x] > 0 => HasScheduledLoan(x)')
      BY <2>1, <2>2, BackedStays, ScheduledStays DEF StartsAreBacked
    <2>3. ASSUME NEW b \in Pages, OfferStep(b) PROVE StartsAreBacked'
      BY <2>1, <2>2, <2>3, OfferKeepsBacked, OfferStepIsOwn DEF StartsAreBacked
    <2>4. ASSUME UNCHANGED offerVars PROVE StartsAreBacked'
      BY <2>2, <2>4 DEF offerVars, StartsAreBacked
    <2>5. ASSUME NEW l \in Loads, PollStep(l) PROVE UNCHANGED offerVars
      BY <2>5
         DEF PollStep, PollPool, PollBook, ShowPool, ReadLoan, ShowBook, ShowNoBook
    <2>6. ASSUME NEW c \in Clicks, ClickStep(c) PROVE UNCHANGED offerVars
      BY <2>6
         DEF ClickStep, ClickRepay, RepayLands, RepayReverts, RepayFails, RecordRepaid,
             TryRelease, RepayStep, EndRepay
    <2>7. QED
      BY <2>3, <2>4, <2>5, <2>6
         DEF DashboardNext, DepositLiquidity, Elsewhere, dashboardVars, pageVars
  <1>3. QED
    BY <1>1, <1>2, DashboardTyped, PTL DEF DashboardSpec

\* The page asks for the autopay, and says that the loan started, only of a loan
\* with its schedule on the chain, although the offer, the session and the id may
\* all have become another's since it was prepared (useCredAgent.ts:849).
THEOREM StartedLoansAreReal == DashboardSpec => []StartedIsReal
  <1>1. PageTypeOK /\ StartsAreBacked => StartedIsReal
    BY DEF PageTypeOK, HandlersCarry, Prepared, StartsAreBacked, Backed, Backs,
           HasScheduledLoan, StartedIsReal
  <1>2. QED
    BY <1>1, StartsAlwaysBacked, DashboardTyped, PTL

=============================================================================
