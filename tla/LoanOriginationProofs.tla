------------------------ MODULE LoanOriginationProofs ------------------------
(***************************************************************************)
(* Theorems about LoanOrigination, for every set of borrowers, requests,   *)
(* scores, amounts and counter-offers, every rate band and every ratio of  *)
(* prices: an offer keeps to its policy, and what the agent believes about *)
(* a loan is what the chain holds, whichever calls fail, land late or      *)
(* overlap.                                                                *)
(***************************************************************************)
EXTENDS LoanOrigination, FiniteSetTheorems, TLAPS

USE DEF Ids

-----------------------------------------------------------------------------
(* What the operators return.                                              *)

\* The tier of a score is a policy.
LEMMA TiersArePolicies ==
    ASSUME NEW score \in [tier : 0..4, starter : BOOLEAN]
    PROVE  BuildConstraintsFromScore(score) \in Policies
  BY OriginationAssumption DEF BuildConstraintsFromScore, TIER_CONSTRAINTS, Policies, NoPolicy

\* The agent's answer to a counter-offer is an offer.
LEMMA CounterIsTerms ==
    ASSUME NEW s \in Sessions, NEW ask \in Terms
    PROVE  Counter(s, ask) \in Terms
  BY OriginationAssumption DEF Counter, Sessions, Terms, Policies, Lesser, Greater

\* The collateral asked for an offer is an amount.
LEMMA CollateralIsNat ==
    ASSUME NEW offer \in Terms
    PROVE  CollateralUsd(offer) \in Nat
  <1>1. offer.principal \in Nat /\ offer.ltv \in Nat
    BY DEF Terms
  <1>2. \A n, m \in Nat : n * m \in Nat
    OBVIOUS
  <1>3. \A n \in Nat : n \div BPS \in Nat
    BY OriginationAssumption, SMTT(30)
  <1>4. QED
    BY <1>1, <1>2, <1>3 DEF CollateralUsd

\* The empty records have their types.
LEMMA Constants ==
    /\ NoTerms \in Terms /\ NoPolicy \in Policies
    /\ NoSession \in Sessions /\ NoExecution \in Executions
    /\ 0 \in 0..MAX_NEGOTIATION_ROUNDS
  BY OriginationAssumption DEF NoTerms, Terms, NoPolicy, Policies, NoSession, Sessions, NoExecution, Executions

-----------------------------------------------------------------------------
(* Type correctness.                                                       *)

\* Initially, and after each action, the variables have their types.
LEMMA InitTypeOK == Init => TypeOK
  <1> SUFFICES ASSUME Init PROVE TypeOK
    OBVIOUS
  <1>1. session \in [Borrowers -> Sessions] /\ exec \in [Requests -> Executions]
    BY Constants DEF Init
  <1>2. counter \in 1..MaxCounter + 1 /\ next_loan_id \in 1..MaxLoanId + 1
    BY OriginationAssumption DEF Init
  <1>3. escrow \in [Ids -> Escrows] /\ loan \in [Ids -> Loans]
    BY DEF Init, Escrows, Loans
  <1>4. QED
    BY <1>1, <1>2, <1>3 DEF Init, TypeOK

LEMMA EvaluateTypeOK ==
    ASSUME TypeOK, NEW b \in Borrowers, NEW score \in GivenScores,
           NEW a \in Amounts, NEW d \in Durations, EvaluateLoan(b, score, a, d)
    PROVE  TypeOK'
  <1> DEFINE policy == BuildConstraintsFromScore(score)
             offer == [principal |-> Lesser(a, policy.maxLoan),
                  rate |-> policy.baseRate,
                  duration |-> Lesser(d, policy.maxDuration),
                  ltv |-> policy.maxLtv]
             s == [status |-> "OFFERED", round |-> 0, offer |-> offer, policy |-> policy]
  <1>1. policy \in Policies
    BY OriginationAssumption, TiersArePolicies
  <1> HIDE DEF policy
  <1>2. offer \in Terms
    BY OriginationAssumption, <1>1 DEF Terms, Policies, Lesser
  <1> HIDE DEF offer
  <1>3. s \in Sessions
    BY OriginationAssumption, <1>1, <1>2 DEF Sessions
  <1>4. session' = [session EXCEPT ![b] = s]
    BY DEF EvaluateLoan, policy, offer
  <1> HIDE DEF s
  <1>5. session' \in [Borrowers -> Sessions]
    BY <1>3, <1>4 DEF TypeOK
  <1>6. QED
    BY <1>5 DEF TypeOK, EvaluateLoan, counterVars, chainVars

LEMMA NegotiateTypeOK ==
    ASSUME TypeOK, NEW b \in Borrowers, NEW ask \in CounterOffers, Negotiate(b, ask)
    PROVE  TypeOK'
  <1> DEFINE s == session[b]
             t == [status |-> session'[b].status, round |-> s.round + 1,
                   offer |-> Counter(s, ask), policy |-> s.policy]
  <1>1. s \in Sessions /\ ask \in Terms
    BY OriginationAssumption DEF TypeOK, Terms
  <1>2. Counter(s, ask) \in Terms
    BY <1>1, CounterIsTerms
  <1>3. session'[b].status \in {"COUNTER", "FINAL"}
    BY <1>1 DEF TypeOK, Sessions, Negotiate
  <1>4. s.round + 1 \in 0..MAX_NEGOTIATION_ROUNDS
    BY OriginationAssumption, <1>1 DEF Sessions, Negotiate
  <1>5. t \in Sessions
    BY <1>1, <1>2, <1>3, <1>4 DEF Sessions
  <1>6. session' = [session EXCEPT ![b] = t]
    BY <1>1 DEF TypeOK, Negotiate
  <1> HIDE DEF t
  <1>7. session' \in [Borrowers -> Sessions]
    BY <1>5, <1>6 DEF TypeOK
  <1>8. QED
    BY <1>7 DEF TypeOK, Negotiate, counterVars, chainVars

LEMMA ExecuteTypeOK ==
    ASSUME TypeOK, NEW r \in Requests, NEW b \in Borrowers, NEW skip \in BOOLEAN,
           NEW i \in 0..MaxLoanId, ExecuteLoan(r, b, skip, i)
    PROVE  TypeOK'
  <1> DEFINE e == [NoExecution EXCEPT !.at = IF i = 0 THEN "id" ELSE "lock",
                              !.borrower = b, !.offer = session[b].offer,
                              !.policy = session[b].policy,
                              !.skip = skip, !.loanId = i]
  <1>1. session[b].offer \in Terms /\ session[b].policy \in Policies
    BY DEF TypeOK, Sessions
  <1>2. e \in Executions
    BY <1>1 DEF Executions, NoExecution
  <1>3. exec' = [exec EXCEPT ![r] = e]
    BY DEF ExecuteLoan
  <1> HIDE DEF e
  <1>4. QED
    BY <1>2, <1>3 DEF TypeOK, ExecuteLoan, counterVars, chainVars

\* An execution that fails leaves the agent's state well typed, and so does one
\* that goes on.
LEMMA FailTypeOK ==
    ASSUME TypeOK, NEW r \in Requests, Fail(r)
    PROVE  exec' \in [Requests -> Executions] /\ session' \in [Borrowers -> Sessions]
  BY Constants DEF Fail, TypeOK

\* The changes that a step makes to an execution leave it one.
LEMMA MovesTypeOK ==
    ASSUME NEW e \in Executions,
           NEW at \in {"idle", "id", "lock", "disburse", "schedule", "history"},
           NEW i \in 0..MaxLoanId
    PROVE  /\ [e EXCEPT !.at = at] \in Executions
           /\ [e EXCEPT !.loanId = i] \in Executions
           /\ [e EXCEPT !.secured = TRUE] \in Executions
           /\ [e EXCEPT !.skip = FALSE] \in Executions
           /\ [e EXCEPT !.at = at, !.loanId = i] \in Executions
           /\ [e EXCEPT !.at = at, !.secured = TRUE] \in Executions
           /\ [e EXCEPT !.at = at, !.secured = TRUE, !.skip = FALSE] \in Executions
  BY DEF Executions

\* So does the answer to a call, be it the right one or an error.
LEMMA AnsweredTypeOK ==
    ASSUME TypeOK, NEW r \in Requests,
           NEW at \in {"idle", "id", "lock", "disburse", "schedule", "history"},
           Answered(r, at)
    PROVE  exec' \in [Requests -> Executions] /\ session' \in [Borrowers -> Sessions]
  <1>1. CASE Confirmed(r, at)
    <2>1. exec[r] \in Executions
      BY DEF TypeOK
    <2>2. 0 \in 0..MaxLoanId
      BY OriginationAssumption
    <2>3. [exec[r] EXCEPT !.at = at] \in Executions
      BY <2>1, <2>2, MovesTypeOK
    <2>4. QED
      BY <1>1, <2>3 DEF Confirmed, TypeOK
  <1>2. QED
    BY <1>1, FailTypeOK DEF Answered

\* The same for the chain.
LEMMA ChainTypeOK ==
    ASSUME TypeOK
    PROVE  /\ \A b \in Borrowers, i, amount \in Nat : LockOnChain(b, i, amount) =>
                 escrow' \in [Ids -> Escrows] /\ UNCHANGED <<next_loan_id, loan>>
           /\ \A e \in Executions : DisburseOnChain(e) =>
                 /\ loan' \in [Ids -> Loans] /\ next_loan_id' \in 1..MaxLoanId + 1
                 /\ UNCHANGED escrow
           /\ \A i \in Ids : ScheduleOnChain(i) =>
                 loan' \in [Ids -> Loans] /\ UNCHANGED <<next_loan_id, escrow>>
  <1>1. ASSUME NEW b \in Borrowers, NEW i \in Nat, NEW amount \in Nat,
               LockOnChain(b, i, amount)
        PROVE  escrow' \in [Ids -> Escrows]
    <2> DEFINE x == [borrower |-> b, amount |-> amount]
    <2>1. x \in Escrows
      BY DEF Escrows
    <2>2. escrow' = [escrow EXCEPT ![i] = x]
      BY <1>1 DEF LockOnChain
    <2> HIDE DEF x
    <2>3. QED
      BY <2>1, <2>2 DEF TypeOK
  <1>2. ASSUME NEW e \in Executions, DisburseOnChain(e)
        PROVE  loan' \in [Ids -> Loans] /\ next_loan_id' \in 1..MaxLoanId + 1
    <2>1. LoanFor(e) \in Loans
      BY DEF LoanFor, Loans, Executions, Terms
    <2>2. QED
      BY OriginationAssumption, <1>2, <2>1 DEF TypeOK, DisburseOnChain
  <1>3. ASSUME NEW i \in Ids, ScheduleOnChain(i)
        PROVE  loan' \in [Ids -> Loans]
    <2>1. \A ln \in Loans : [ln EXCEPT !.scheduled = TRUE] \in Loans
      BY DEF Loans
    <2>2. QED
      BY <1>3, <2>1 DEF TypeOK, ScheduleOnChain
  <1>4. QED
    BY <1>1, <1>2, <1>3 DEF LockOnChain, DisburseOnChain, ScheduleOnChain

\* A step of an execution keeps the types, and so does any step.
LEMMA ExecutionTypeOK ==
    ASSUME TypeOK, NEW r \in Requests, ExecutionStep(r)
    PROVE  TypeOK'
  <1> DEFINE e == exec[r]
  <1>e. e \in Executions /\ e.loanId \in 0..MaxLoanId
    BY DEF TypeOK, Executions
  <1>a. ASSUME NEW i \in 0..MaxLoanId,
               exec' = [exec EXCEPT ![r].at = "lock", ![r].loanId = i]
        PROVE  exec' \in [Requests -> Executions]
    <2>1. [e EXCEPT !.at = "lock", !.loanId = i] \in Executions
      BY <1>e, MovesTypeOK
    <2>2. exec' = [exec EXCEPT ![r] = [e EXCEPT !.at = "lock", !.loanId = i]]
      BY <1>a DEF TypeOK
    <2>3. QED
      BY <2>1, <2>2 DEF TypeOK
  <1>1. CASE ReadNextLoanId(r)
    <2>a. next_loan_id \in 0..MaxLoanId
      BY <1>1 DEF ReadNextLoanId
    <2>1. exec' \in [Requests -> Executions]
      BY <1>1, <1>a, <2>a DEF ReadNextLoanId
    <2>2. QED
      BY <1>1, <2>1 DEF ReadNextLoanId, TypeOK, counterVars, chainVars
  <1>2. CASE CountNextLoanId(r)
    <2>1. counter \in 0..MaxLoanId /\ counter' \in 1..MaxCounter + 1
      BY OriginationAssumption, <1>2 DEF CountNextLoanId, TypeOK
    <2>2. exec' \in [Requests -> Executions]
      BY <1>2, <1>a, <2>1 DEF CountNextLoanId
    <2>3. QED
      BY <1>2, <2>1, <2>2 DEF CountNextLoanId, TypeOK, chainVars
  <1>f. ASSUME Fail(r)
        PROVE  exec' \in [Requests -> Executions] /\ session' \in [Borrowers -> Sessions]
    BY <1>f, FailTypeOK
  <1>9. CASE CounterFails(r)
    BY <1>9, <1>f DEF CounterFails, TypeOK, chainVars
  <1>10. CASE CallFails(r)
    BY <1>10, <1>f DEF CallFails, TypeOK, counterVars, chainVars
  <1>3. CASE ReuseEscrow(r)
    <2>1. [e EXCEPT !.at = "disburse", !.secured = TRUE, !.skip = FALSE] \in Executions
      BY <1>e, MovesTypeOK
    <2>2. exec' \in [Requests -> Executions]
      BY <1>3, <2>1 DEF TypeOK, ReuseEscrow
    <2>3. QED
      BY <1>3, <2>2 DEF ReuseEscrow, TypeOK, counterVars, chainVars
  <1>4. CASE BuildLock(r)
    <2>1. exec' \in [Requests -> Executions] /\ session' \in [Borrowers -> Sessions]
      BY <1>4, AnsweredTypeOK DEF BuildLock, Answered
    <2>2. QED
      BY <1>4, <2>1 DEF BuildLock, TypeOK, counterVars, chainVars
  <1>5. CASE SubmitLock(r)
    <2>1. [e EXCEPT !.at = "disburse", !.secured = TRUE] \in Executions
      BY <1>e, MovesTypeOK
    <2>2. exec' \in [Requests -> Executions] /\ session' \in [Borrowers -> Sessions]
      <3>1. CASE Fail(r)
        BY <3>1, <1>f
      <3>2. CASE /\ exec' = [exec EXCEPT ![r].at = "disburse", ![r].secured = TRUE]
                 /\ UNCHANGED session
        BY <2>1, <3>2 DEF TypeOK
      <3>3. QED
        BY <1>5, <3>1, <3>2 DEF SubmitLock
    <2>3. CollateralUsd(e.offer) \in Nat /\ e.borrower \in Borrowers
      BY OriginationAssumption, <1>5, <1>e, CollateralIsNat DEF Executions, SubmitLock
    <2>4. escrow' \in [Ids -> Escrows] /\ UNCHANGED <<next_loan_id, loan>>
      BY <1>5, <1>e, <2>3, ChainTypeOK DEF SubmitLock
    <2>5. QED
      BY <1>5, <2>2, <2>4 DEF SubmitLock, TypeOK, counterVars
  <1>6. CASE Disburse(r)
    <2>1. exec' \in [Requests -> Executions] /\ session' \in [Borrowers -> Sessions]
      BY <1>6, AnsweredTypeOK DEF Disburse
    <2>2. /\ loan' \in [Ids -> Loans] /\ next_loan_id' \in 1..MaxLoanId + 1
          /\ UNCHANGED escrow
      BY <1>6, <1>e, ChainTypeOK DEF Disburse
    <2>3. QED
      BY <1>6, <2>1, <2>2 DEF Disburse, TypeOK, counterVars
  <1>7. CASE CreateSchedule(r)
    <2>1. loan' \in [Ids -> Loans] /\ UNCHANGED <<next_loan_id, escrow>>
      BY <1>7, ChainTypeOK DEF CreateSchedule, ScheduleOnChain
    <2>2. [e EXCEPT !.at = "history"] \in Executions
      BY <1>e, MovesTypeOK
    <2>3. exec' \in [Requests -> Executions] /\ session' \in [Borrowers -> Sessions]
      <3>1. CASE Fail(r)
        BY <3>1, <1>f
      <3>2. CASE ~Fail(r)
        <4>1. /\ session' = [session EXCEPT ![e.borrower] = NoSession]
              /\ exec' = [exec EXCEPT ![r] = IF e.secured THEN [e EXCEPT !.at = "history"]
                                             ELSE NoExecution]
          BY <1>7, <3>2 DEF CreateSchedule
        <4>2. QED
          BY <2>2, <4>1, Constants DEF TypeOK
      <3>3. QED
        BY <3>1, <3>2
    <2>4. QED
      BY <1>7, <2>1, <2>3 DEF CreateSchedule, TypeOK, counterVars
  <1>8. CASE RecordIssued(r)
    <2>1. exec' \in [Requests -> Executions]
      BY <1>8, Constants DEF RecordIssued, TypeOK
    <2>2. issued' \in [Borrowers -> Nat]
      BY <1>8 DEF RecordIssued, TypeOK
    <2>3. QED
      BY <1>8, <2>1, <2>2 DEF RecordIssued, TypeOK, counterVars, chainVars
  <1>11. QED
    BY <1>1, <1>2, <1>3, <1>4, <1>5, <1>6, <1>7, <1>8, <1>9, <1>10 DEF ExecutionStep

LEMMA NextTypeOK ==
    ASSUME TypeOK, [Next]_vars
    PROVE  TypeOK'
  <1>1. CASE \E b \in Borrowers, score \in GivenScores, a \in Amounts, d \in Durations :
                EvaluateLoan(b, score, a, d)
    BY <1>1, EvaluateTypeOK
  <1>2. CASE \E b \in Borrowers, ask \in CounterOffers : Negotiate(b, ask)
    BY <1>2, NegotiateTypeOK
  <1>3. CASE \E r \in Requests, b \in Borrowers : ExecuteLoan(r, b, FALSE, 0)
    <2>1. 0 \in 0..MaxLoanId
      BY OriginationAssumption
    <2>2. QED
      BY <1>3, <2>1, ExecuteTypeOK
  <1>4. CASE \E r \in Requests, b \in Borrowers, i \in Ids :
                i <= next_loan_id /\ ExecuteLoan(r, b, TRUE, i)
    <2>1. \A i \in Ids : i \in 0..MaxLoanId
      OBVIOUS
    <2>2. QED
      BY <1>4, <2>1, ExecuteTypeOK
  <1>5. CASE \E r \in Requests : ExecutionStep(r)
    BY <1>5, ExecutionTypeOK
  <1>6. CASE \E b \in Borrowers, amount \in Pledges : BorrowerLocks(b, amount)
    <2>1. PICK b \in Borrowers, amount \in Pledges : BorrowerLocks(b, amount)
      BY <1>6
    <2>2. next_loan_id \in Nat /\ amount \in Nat
      BY OriginationAssumption DEF TypeOK
    <2>3. escrow' \in [Ids -> Escrows] /\ UNCHANGED <<next_loan_id, loan>>
      BY <2>1, <2>2, ChainTypeOK DEF BorrowerLocks
    <2>4. QED
      BY <2>1, <2>3 DEF BorrowerLocks, TypeOK, agentVars, counterVars
  <1>7. CASE Restart
    <2>1. exec' \in [Requests -> Executions] /\ session' \in [Borrowers -> Sessions]
      BY <1>7, Constants DEF Restart
    <2>2. counter' \in 1..MaxCounter + 1
      <3>1. counter' = counter \/ counter' = 1
        BY <1>7 DEF Restart
      <3>2. 1 \in 1..MaxCounter + 1 /\ counter \in 1..MaxCounter + 1
        BY OriginationAssumption DEF TypeOK
      <3>3. QED
        BY <3>1, <3>2
    <2>3. counterStuck' \in BOOLEAN
      BY <1>7 DEF Restart
    <2>4. QED
      BY <1>7, <2>1, <2>2, <2>3 DEF Restart, TypeOK, chainVars
  <1>8. CASE UNCHANGED vars
    BY <1>8 DEF vars, agentVars, counterVars, chainVars, TypeOK
  <1>9. QED
    BY <1>1, <1>2, <1>3, <1>4, <1>5, <1>6, <1>7, <1>8 DEF Next

\* Sessions, executions, the counter, the escrows and the loans keep their types
\* through every call, failure and restart; rounds stay within the limit of
\* negotiate (lendingAgent.js).
THEOREM OriginationTypeCorrect == Spec => []TypeOK
  BY InitTypeOK, NextTypeOK, PTL DEF Spec

-----------------------------------------------------------------------------
(* The steps, as the loans see them.                                       *)

\* The steps of executeLoan that follow the disbursement.
AfterDisbursal == {"schedule", "history"}

\* Two states of an execution are about one borrower and one set of terms.
SameDeal(e, f) == f.borrower = e.borrower /\ f.offer = e.offer /\ f.policy = e.policy

\* An execution goes on with the deal it began with, or ends.
Continues(q) == exec'[q] = NoExecution \/ SameDeal(exec[q], exec'[q])

\* No execution gets past a disbursement that was not.
Quiet == \A q \in Requests : exec'[q] = exec[q] \/ exec'[q].at \notin AfterDisbursal

\* Request r ends or moves on to at with its deal and its loan; no other moves.
OnlyMoves(r, at) ==
    /\ \A q \in Requests \ {r} : exec'[q] = exec[q]
    /\ \/ exec'[r] = NoExecution
       \/ /\ exec'[r].at = at /\ exec'[r].loanId = exec[r].loanId
          /\ SameDeal(exec[r], exec'[r])
    /\ UNCHANGED issued

\* The steps: nothing on the chain changes, an escrow is locked, a loan is
\* disbursed, its schedule is created, or the history is written.
Calm == Quiet /\ UNCHANGED <<chainVars, issued>>
Locks ==
    /\ Quiet /\ UNCHANGED issued
    /\ \E b \in Borrowers, amount \in Nat : LockOnChain(b, next_loan_id, amount)
Disburses(r) ==
    /\ exec[r].at = "disburse" /\ DisburseOnChain(exec[r]) /\ OnlyMoves(r, "schedule")
Schedules(r) ==
    /\ exec[r].at = "schedule" /\ ScheduleOnChain(exec[r].loanId) /\ OnlyMoves(r, "history")
Records(r) ==
    /\ exec[r].at = "history" /\ UNCHANGED chainVars
    /\ \A q \in Requests \ {r} : exec'[q] = exec[q]
    /\ exec'[r] = NoExecution
    /\ \/ UNCHANGED issued
       \/ issued' = [issued EXCEPT ![exec[r].borrower] = @ + 1]

\* An execution that fails changes no other, and forgets its session at most.
LEMMA FailsQuietly ==
    ASSUME TypeOK, NEW r \in Requests, Fail(r)
    PROVE  /\ Quiet /\ \A q \in Requests : Continues(q)
           /\ \A q \in Requests \ {r} : exec'[q] = exec[q]
           /\ exec'[r] = NoExecution
           /\ \A b \in Borrowers : session'[b] \in {session[b], NoSession}
  BY DEF TypeOK, Fail, Quiet, Continues, SameDeal, AfterDisbursal, NoExecution

\* A step of an execution has one of these shapes, and so has every step.
LEMMA ExecutionShape ==
    ASSUME TypeOK, NEW r \in Requests, ExecutionStep(r)
    PROVE  /\ Calm \/ Locks \/ Disburses(r) \/ Schedules(r) \/ Records(r)
           /\ \A q \in Requests : Continues(q)
           /\ \A b \in Borrowers : session'[b] \in {session[b], NoSession}
  <1> DEFINE e == exec[r]
             Kept == /\ \A q \in Requests : Continues(q)
                     /\ \A b \in Borrowers : session'[b] \in {session[b], NoSession}
  <1>e. e \in Executions
    BY DEF TypeOK
  <1>1. CASE ReadNextLoanId(r)
    BY <1>1, <1>e DEF ReadNextLoanId, TypeOK, Executions, Calm, Quiet, Continues, SameDeal,
                AfterDisbursal
  <1>2. CASE CountNextLoanId(r)
    BY <1>2, <1>e DEF CountNextLoanId, TypeOK, Executions, Calm, Quiet, Continues, SameDeal,
                AfterDisbursal
  <1>3. CASE CounterFails(r) \/ CallFails(r)
    <2>1. Fail(r) /\ UNCHANGED <<chainVars, issued>>
      BY <1>3 DEF CounterFails, CallFails
    <2>2. QED
      BY <2>1, FailsQuietly DEF Calm
  <1>4. CASE ReuseEscrow(r)
    BY <1>4, <1>e DEF ReuseEscrow, TypeOK, Executions, Calm, Quiet, Continues, SameDeal,
                AfterDisbursal
  <1>5. CASE BuildLock(r)
    BY <1>5, <1>e DEF BuildLock, Confirmed, TypeOK, Executions, Calm, Quiet, Continues, SameDeal,
                AfterDisbursal
  <1>6. CASE SubmitLock(r)
    <2>1. LockOnChain(e.borrower, next_loan_id, CollateralUsd(e.offer)) /\ UNCHANGED issued
      BY <1>6 DEF SubmitLock, LockOnChain
    <2>2. CollateralUsd(e.offer) \in Nat /\ e.borrower \in Borrowers
      BY OriginationAssumption, <1>6, <1>e, CollateralIsNat DEF Executions, SubmitLock
    <2>3. Quiet /\ Kept
      <3>1. CASE Fail(r)
        BY <3>1, FailsQuietly
      <3>2. CASE /\ exec' = [exec EXCEPT ![r].at = "disburse", ![r].secured = TRUE]
                 /\ UNCHANGED session
        BY <3>2, <1>e DEF TypeOK, Executions, Quiet, Continues, SameDeal, AfterDisbursal
      <3>3. QED
        BY <1>6, <3>1, <3>2 DEF SubmitLock
    <2>4. QED
      BY <2>1, <2>2, <2>3 DEF Locks
  <1>7. CASE Disburse(r)
    <2>1. OnlyMoves(r, "schedule") /\ Kept
      <3>1. CASE Fail(r)
        BY <1>7, <3>1, FailsQuietly DEF OnlyMoves, Disburse
      <3>2. CASE Confirmed(r, "schedule")
        BY <1>7, <3>2, <1>e DEF Confirmed, Disburse, TypeOK, Executions, OnlyMoves, Continues,
                                SameDeal
      <3>3. QED
        BY <1>7, <3>1, <3>2 DEF Disburse, Answered
    <2>2. QED
      BY <1>7, <2>1 DEF Disburse, Disburses
  <1>8. CASE CreateSchedule(r)
    <2>1. OnlyMoves(r, "history") /\ Kept
      <3>1. CASE Fail(r)
        BY <1>8, <3>1, FailsQuietly DEF OnlyMoves, CreateSchedule
      <3>2. CASE /\ session' = [session EXCEPT ![e.borrower] = NoSession]
                 /\ exec' = [exec EXCEPT ![r] = IF e.secured THEN [e EXCEPT !.at = "history"]
                                                ELSE NoExecution]
        <4>1. CASE e.secured
          BY <1>8, <3>2, <4>1, <1>e DEF CreateSchedule, TypeOK, Executions, OnlyMoves,
                                        Continues, SameDeal
        <4>2. CASE ~e.secured
          BY <1>8, <3>2, <4>2, <1>e DEF CreateSchedule, TypeOK, OnlyMoves,
                                        Continues, SameDeal
        <4>3. QED
          BY <4>1, <4>2
      <3>3. QED
        BY <1>8, <3>1, <3>2 DEF CreateSchedule
    <2>2. QED
      BY <1>8, <2>1 DEF CreateSchedule, Schedules
  <1>9. CASE RecordIssued(r)
    BY <1>9 DEF RecordIssued, Records, TypeOK, Continues, SameDeal, chainVars
  <1>10. QED
    BY <1>1, <1>2, <1>3, <1>4, <1>5, <1>6, <1>7, <1>8, <1>9 DEF ExecutionStep

LEMMA StepShape ==
    ASSUME TypeOK, [Next]_vars
    PROVE  Calm \/ Locks \/ \E r \in Requests : Disburses(r) \/ Schedules(r) \/ Records(r)
  <1>1. CASE \/ \E b \in Borrowers, score \in GivenScores, a \in Amounts, d \in Durations :
                   EvaluateLoan(b, score, a, d)
             \/ \E b \in Borrowers, ask \in CounterOffers : Negotiate(b, ask)
    BY <1>1 DEF EvaluateLoan, Negotiate, Calm, Quiet
  <1>2. ASSUME NEW r \in Requests, NEW b \in Borrowers, NEW skip, NEW i,
               ExecuteLoan(r, b, skip, i)
        PROVE  Calm
    <2>1. exec'[r].at \in {"id", "lock"}
      BY <1>2 DEF ExecuteLoan, TypeOK, NoExecution
    <2>2. \A q \in Requests \ {r} : exec'[q] = exec[q]
      BY <1>2 DEF ExecuteLoan, TypeOK
    <2>3. QED
      BY <1>2, <2>1, <2>2 DEF ExecuteLoan, Calm, Quiet, AfterDisbursal
  <1>3. CASE \E r \in Requests : ExecutionStep(r)
    BY <1>3, ExecutionShape
  <1>4. CASE \E b \in Borrowers, amount \in Pledges : BorrowerLocks(b, amount)
    BY OriginationAssumption, <1>4 DEF BorrowerLocks, Locks, Quiet, agentVars
  <1>5. CASE Restart
    BY <1>5 DEF Restart, Calm, Quiet, AfterDisbursal, NoExecution
  <1>6. CASE UNCHANGED vars
    BY <1>6 DEF vars, agentVars, Calm, Quiet
  <1>7. QED
    BY <1>1, <1>2, <1>3, <1>4, <1>5, <1>6 DEF Next

-----------------------------------------------------------------------------
(* Offers.                                                                 *)

\* The least rate after n rounds is an integer.
LEMMA ProductIsNat == ASSUME NEW a \in Nat, NEW b \in Nat PROVE a * b \in Nat
  OBVIOUS

LEMMA FloorIsInt ==
    ASSUME NEW base \in Nat, NEW n \in Nat
    PROVE  Greater(RATE_FLOOR_BPS, base - n * MAX_RATE_REDUCTION_BPS) \in Int
  <1> DEFINE p == n * MAX_RATE_REDUCTION_BPS
  <1>1. p \in Nat
    BY OriginationAssumption, ProductIsNat
  <1> HIDE DEF p
  <1>2. Greater(RATE_FLOOR_BPS, base - p) \in Int
    BY OriginationAssumption, <1>1 DEF Greater
  <1>3. QED
    BY <1>2 DEF p

\* What more rounds allow includes what fewer do.
LEMMA MoreRounds ==
    ASSUME NEW m \in Nat, NEW n \in Nat, m <= n, NEW base \in Nat
    PROVE  Greater(RATE_FLOOR_BPS, base - n * MAX_RATE_REDUCTION_BPS)
              <= Greater(RATE_FLOOR_BPS, base - m * MAX_RATE_REDUCTION_BPS)
  <1>1. \A k, R \in Nat : (m + k) * R = m * R + k * R /\ k * R \in Nat /\ m * R \in Nat
    BY SMTT(30)
  <1>2. n - m \in Nat /\ m + (n - m) = n
    OBVIOUS
  <1> DEFINE M == m * MAX_RATE_REDUCTION_BPS
             N == n * MAX_RATE_REDUCTION_BPS
  <1>3. M \in Nat /\ N \in Nat /\ M <= N
    <2>1. N = M + (n - m) * MAX_RATE_REDUCTION_BPS
      BY OriginationAssumption, <1>1, <1>2
    <2>2. (n - m) * MAX_RATE_REDUCTION_BPS \in Nat /\ M \in Nat
      BY OriginationAssumption, <1>1, <1>2
    <2>3. QED
      BY <2>1, <2>2
  <1> HIDE DEF M, N
  <1>4. Greater(RATE_FLOOR_BPS, base - N) <= Greater(RATE_FLOOR_BPS, base - M)
    BY OriginationAssumption, <1>3 DEF Greater
  <1>5. QED
    BY <1>4 DEF M, N

\* One round lowers the least rate by at most one reduction.
LEMMA OneMoreRound ==
    ASSUME NEW n \in Nat, NEW base \in Nat, NEW rate \in Nat,
           rate >= Greater(RATE_FLOOR_BPS, base - n * MAX_RATE_REDUCTION_BPS)
    PROVE  Greater(RATE_FLOOR_BPS, rate - MAX_RATE_REDUCTION_BPS)
              >= Greater(RATE_FLOOR_BPS, base - (n + 1) * MAX_RATE_REDUCTION_BPS)
  <1>1. \A R \in Nat : (n + 1) * R = n * R + R /\ n * R \in Nat
    BY SMTT(30)
  <1> DEFINE N == n * MAX_RATE_REDUCTION_BPS
             N1 == (n + 1) * MAX_RATE_REDUCTION_BPS
  <1>2. N \in Nat /\ N1 = N + MAX_RATE_REDUCTION_BPS
    BY OriginationAssumption, <1>1
  <1>3. rate >= Greater(RATE_FLOOR_BPS, base - N)
    OBVIOUS
  <1> HIDE DEF N, N1
  <1>4. Greater(RATE_FLOOR_BPS, rate - MAX_RATE_REDUCTION_BPS)
           >= Greater(RATE_FLOOR_BPS, base - N1)
    BY OriginationAssumption, <1>2, <1>3 DEF Greater
  <1>5. QED
    BY <1>4 DEF N1

\* The first offer of a session is within its policy.
LEMMA FirstOfferWithinPolicy ==
    ASSUME NEW b \in Borrowers, NEW score \in GivenScores, NEW a \in Amounts,
           NEW d \in Durations, TypeOK, EvaluateLoan(b, score, a, d)
    PROVE  WithinPolicy(session'[b].offer, session'[b].policy, session'[b].round)
  <1> DEFINE policy == BuildConstraintsFromScore(score)
  <1>1. policy \in Policies
    BY OriginationAssumption, TiersArePolicies
  <1>2. policy.baseRate \in RATE_FLOOR_BPS..RATE_CEILING_BPS
    BY OriginationAssumption DEF EvaluateLoan, BuildConstraintsFromScore, TIER_CONSTRAINTS
  <1>3. /\ session'[b].policy = policy /\ session'[b].round = 0
        /\ session'[b].offer.principal = Lesser(a, policy.maxLoan)
        /\ session'[b].offer.rate = policy.baseRate
        /\ session'[b].offer.duration = Lesser(d, policy.maxDuration)
    BY DEF EvaluateLoan, TypeOK
  <1> HIDE DEF policy
  <1>4. 0 * MAX_RATE_REDUCTION_BPS = 0
    BY OriginationAssumption
  <1>5. policy.maxLoan \in Nat /\ policy.maxDuration \in Nat /\ policy.baseRate \in Nat
    BY <1>1 DEF Policies
  <1>6. QED
    BY <1>2, <1>3, <1>4, <1>5 DEF WithinPolicy, Lesser, Greater

\* The answer to a counter-offer is within it, one round later.
LEMMA CounterWithinPolicy ==
    ASSUME NEW s \in Sessions, NEW ask \in Terms, WithinPolicy(s.offer, s.policy, s.round)
    PROVE  WithinPolicy(Counter(s, ask), s.policy, s.round + 1)
  <1> DEFINE f == Counter(s, ask)
             least == Greater(RATE_FLOOR_BPS, s.offer.rate - MAX_RATE_REDUCTION_BPS)
             floor(n) == Greater(RATE_FLOOR_BPS, s.policy.baseRate - n * MAX_RATE_REDUCTION_BPS)
  <1>1. /\ s.offer \in Terms /\ s.policy \in Policies /\ s.round \in Nat
        /\ s.offer.rate \in Nat /\ s.policy.baseRate \in Nat /\ ask.rate \in Nat
    BY DEF Sessions, Terms, Policies
  <1>2. f.principal <= s.policy.maxLoan /\ f.duration <= s.policy.maxDuration
    BY OriginationAssumption, <1>1 DEF WithinPolicy, Counter, Lesser, Terms, Policies
  <1>3. s.offer.rate >= floor(s.round) /\ s.offer.rate <= RATE_CEILING_BPS
    BY DEF WithinPolicy
  <1>4. least >= floor(s.round + 1)
    BY <1>1, <1>3, OneMoreRound
  <1>a. s.round + 1 \in Nat /\ s.round <= s.round + 1
    BY <1>1
  <1>5. floor(s.round + 1) <= floor(s.round)
    BY <1>1, <1>a, MoreRounds
  <1>6. \A n \in Nat : floor(n) \in Int
    BY <1>1, FloorIsInt
  <1>7. f.rate = IF ask.rate = 0 THEN s.offer.rate
                 ELSE IF ask.rate < least THEN least
                 ELSE Lesser(ask.rate, RATE_CEILING_BPS)
    BY DEF Counter
  <1>8. least \in Nat /\ least <= RATE_CEILING_BPS
    BY OriginationAssumption, <1>1, <1>3 DEF Greater
  <1>9. floor(s.round) \in Int /\ floor(s.round + 1) \in Int
    <2> HIDE DEF floor
    <2>1. QED
      BY <1>1, <1>a, <1>6
  <1> HIDE DEF f, least, floor
  <1>10. f.rate >= floor(s.round + 1) /\ f.rate <= RATE_CEILING_BPS
    BY OriginationAssumption, <1>1, <1>3, <1>4, <1>5, <1>7, <1>8, <1>9 DEF Lesser
  <1>11. QED
    BY <1>2, <1>10 DEF WithinPolicy, f, floor

\* No step takes an offer out of its policy.
LEMMA OffersStay ==
    ASSUME TypeOK, OfferWithinPolicy, [Next]_vars
    PROVE  OfferWithinPolicy'
  <1> DEFINE Good(s) == s.status # "none" => WithinPolicy(s.offer, s.policy, s.round)
             Held(e) == e.borrower # NoOne =>
                            WithinPolicy(e.offer, e.policy, MAX_NEGOTIATION_ROUNDS)
  <1> SUFFICES /\ \A b \in Borrowers : Good(session'[b])
               /\ \A r \in Requests : Held(exec'[r])
    BY DEF OfferWithinPolicy
  <1>1. /\ \A b \in Borrowers : Good(session[b]) /\ Good(NoSession)
        /\ \A r \in Requests : Held(exec[r]) /\ Held(NoExecution)
    BY DEF OfferWithinPolicy, NoSession, NoExecution
  <1> DEFINE Kept == /\ \A b \in Borrowers : session'[b] \in {session[b], NoSession}
                     /\ \A r \in Requests : Continues(r)
  <1>2. ASSUME Kept
        PROVE  /\ \A b \in Borrowers : Good(session'[b])
               /\ \A r \in Requests : Held(exec'[r])
    <2> HIDE DEF Good
    <2>1. QED
      BY <1>1, <1>2 DEF Continues, SameDeal
  <1>3. ASSUME NEW b \in Borrowers, NEW score \in GivenScores, NEW a \in Amounts,
               NEW d \in Durations, EvaluateLoan(b, score, a, d)
        PROVE  /\ \A c \in Borrowers : Good(session'[c])
               /\ \A r \in Requests : Held(exec'[r])
    <2>1. Good(session'[b])
      BY <1>3, FirstOfferWithinPolicy
    <2>2. \A c \in Borrowers \ {b} : session'[c] = session[c]
      BY <1>3 DEF EvaluateLoan, TypeOK
    <2>3. exec' = exec
      BY <1>3 DEF EvaluateLoan
    <2> HIDE DEF Good, Held
    <2>4. QED
      BY <1>1, <2>1, <2>2, <2>3
  <1>4. ASSUME NEW b \in Borrowers, NEW ask \in CounterOffers, Negotiate(b, ask)
        PROVE  /\ \A c \in Borrowers : Good(session'[c])
               /\ \A r \in Requests : Held(exec'[r])
    <2> DEFINE s == session[b]
    <2>1. s \in Sessions /\ ask \in Terms
      BY OriginationAssumption DEF TypeOK, Terms
    <2>2. WithinPolicy(s.offer, s.policy, s.round)
      BY <1>1, <1>4 DEF Negotiate
    <2>3. WithinPolicy(Counter(s, ask), s.policy, s.round + 1)
      BY <2>1, <2>2, CounterWithinPolicy
    <2>4. /\ session'[b].offer = Counter(s, ask) /\ session'[b].policy = s.policy
          /\ session'[b].round = s.round + 1
      BY <1>4 DEF Negotiate, TypeOK
    <2>5. Good(session'[b])
      BY <2>3, <2>4
    <2>6. \A c \in Borrowers \ {b} : session'[c] = session[c]
      BY <1>4 DEF Negotiate, TypeOK
    <2>7. exec' = exec
      BY <1>4 DEF Negotiate
    <2> HIDE DEF Good, Held, s
    <2>8. QED
      BY <1>1, <2>5, <2>6, <2>7
  <1>5. ASSUME NEW r \in Requests, NEW b \in Borrowers, NEW skip, NEW i,
               ExecuteLoan(r, b, skip, i)
        PROVE  /\ \A c \in Borrowers : Good(session'[c])
               /\ \A q \in Requests : Held(exec'[q])
    <2> DEFINE s == session[b]
    <2>1. WithinPolicy(s.offer, s.policy, s.round)
      BY <1>1, <1>5 DEF ExecuteLoan
    <2>2. /\ s.round \in Nat /\ s.round <= MAX_NEGOTIATION_ROUNDS
          /\ s.policy.baseRate \in Nat /\ s.offer.rate \in Nat
      BY DEF TypeOK, Sessions, Policies, Terms
    <2> DEFINE floor(n) == Greater(RATE_FLOOR_BPS,
                                   s.policy.baseRate - n * MAX_RATE_REDUCTION_BPS)
    <2>3. floor(MAX_NEGOTIATION_ROUNDS) <= floor(s.round)
      <3>1. MAX_NEGOTIATION_ROUNDS \in Nat
        BY OriginationAssumption
      <3>2. QED
        BY <2>2, <3>1, MoreRounds
    <2>4. floor(MAX_NEGOTIATION_ROUNDS) \in Int /\ floor(s.round) \in Int
      <3>1. MAX_NEGOTIATION_ROUNDS \in Nat
        BY OriginationAssumption
      <3>2. QED
        BY <2>2, <3>1, FloorIsInt
    <2>a. s.offer.rate >= floor(s.round)
      BY <2>1 DEF WithinPolicy
    <2>b. s.offer.rate >= floor(MAX_NEGOTIATION_ROUNDS)
      <3> HIDE DEF floor
      <3>1. QED
        BY <2>2, <2>3, <2>4, <2>a
    <2>5. WithinPolicy(s.offer, s.policy, MAX_NEGOTIATION_ROUNDS)
      BY <2>1, <2>b DEF WithinPolicy
    <2>6. exec'[r].offer = s.offer /\ exec'[r].policy = s.policy
      BY <1>5 DEF ExecuteLoan, TypeOK, NoExecution
    <2>7. \A q \in Requests \ {r} : exec'[q] = exec[q]
      BY <1>5 DEF ExecuteLoan, TypeOK
    <2>8. Held(exec'[r])
      BY <2>5, <2>6
    <2>9. session' = session
      BY <1>5 DEF ExecuteLoan
    <2> HIDE DEF Good, Held, s
    <2>10. QED
      BY <1>1, <2>7, <2>8, <2>9
  <1>6. CASE \E r \in Requests : ExecutionStep(r)
    BY <1>2, <1>6, ExecutionShape
  <1>7. CASE \E b \in Borrowers, amount \in Pledges : BorrowerLocks(b, amount)
    BY <1>2, <1>7 DEF BorrowerLocks, agentVars, Continues, SameDeal
  <1>8. CASE Restart
    BY <1>2, <1>8 DEF Restart, Continues
  <1>9. CASE UNCHANGED vars
    BY <1>2, <1>9 DEF vars, agentVars, Continues, SameDeal
  <1>10. QED
    BY <1>3, <1>4, <1>5, <1>6, <1>7, <1>8, <1>9 DEF Next

\* However a negotiation goes, the terms on offer, and those of an execution under
\* way, lend no more than the tier allows, for no longer and against no less, at a
\* rate that the rounds so far can have reached (negotiate and evaluateLoan).
THEOREM OffersStayWithinPolicy == Spec => []OfferWithinPolicy
  <1>1. Init => OfferWithinPolicy
    BY DEF Init, OfferWithinPolicy, NoSession, NoExecution
  <1>2. TypeOK /\ OfferWithinPolicy /\ [Next]_vars => OfferWithinPolicy'
    BY OffersStay
  <1>3. QED
    BY <1>1, <1>2, OriginationTypeCorrect, PTL DEF Spec

-----------------------------------------------------------------------------
(* Loans.                                                                  *)

\* The loan ln on the chain is the one that execution e was approved for.
SameTerms(ln, e) ==
    /\ ln.borrower = e.borrower /\ ln.principal = e.offer.principal
    /\ ln.rate = e.offer.rate /\ ln.duration = e.offer.duration

\* Escrow x holds enough of b's collateral for a loan of that principal.
Secures(x, b, principal) ==
    /\ x.borrower = b
    /\ (x.amount * PRICE_RATIO_BPS) \div BPS
          >= (principal * MIN_COLLATERAL_RATIO_BPS) \div BPS

\* Past its disbursement, the loan of an execution is on the chain with its terms
\* and its collateral: loans, escrows and the next id are ls, es and n.
Landed(e, ls, es, n) ==
    e.at \in AfterDisbursal =>
       /\ e.loanId \in Ids /\ e.loanId < n
       /\ SameTerms(ls[e.loanId], e)
       /\ e.at = "history" => ls[e.loanId].scheduled
       /\ Secures(es[e.loanId], e.borrower, e.offer.principal)

\* Every execution past its disbursement has its loan on the chain.
AllLanded == \A r \in Requests : Landed(exec[r], loan, escrow, next_loan_id)

\* No loan has an id that the chain has not handed out.
IdsAhead == \A i \in Ids : i >= next_loan_id => loan[i].borrower = NoOne

\* The scheduled loans of b that no execution is about to record.
Unclaimed(b) ==
    {i \in Ids : /\ loan[i].borrower = b /\ loan[i].scheduled
                 /\ \A r \in Requests : exec[r].at = "history" => exec[r].loanId # i}

\* The history of a borrower counts no more loans than those.
RecordsClaimed == \A b \in Borrowers : issued[b] <= Cardinality(Unclaimed(b))

\* The inductive invariant.
LoansInv == AllLanded /\ IdsAhead /\ OneExecutionPerLoan /\ RecordsClaimed

-----------------------------------------------------------------------------
(* What a step on the chain leaves landed.                                 *)

\* A new escrow is for an id that no loan has yet.
LEMMA LockLeavesLanded ==
    ASSUME TypeOK, NEW b \in Borrowers, NEW amount \in Nat,
           LockOnChain(b, next_loan_id, amount),
           NEW e \in Executions, Landed(e, loan, escrow, next_loan_id)
    PROVE  Landed(e, loan', escrow', next_loan_id')
  <1>1. SUFFICES ASSUME e.at \in AfterDisbursal
                 PROVE  Landed(e, loan', escrow', next_loan_id')
    BY DEF Landed
  <1>2. e.loanId \in Ids /\ e.loanId < next_loan_id /\ next_loan_id \in Nat
    BY <1>1 DEF Landed, TypeOK
  <1>3. escrow'[e.loanId] = escrow[e.loanId]
    BY <1>2 DEF LockOnChain, TypeOK
  <1>4. loan' = loan /\ next_loan_id' = next_loan_id
    BY DEF LockOnChain
  <1>5. QED
    BY <1>3, <1>4 DEF Landed

\* So is a new loan.
LEMMA DisburseLeavesLanded ==
    ASSUME TypeOK, NEW f \in Executions, DisburseOnChain(f),
           NEW e \in Executions, Landed(e, loan, escrow, next_loan_id)
    PROVE  Landed(e, loan', escrow', next_loan_id')
  <1>1. SUFFICES ASSUME e.at \in AfterDisbursal
                 PROVE  Landed(e, loan', escrow', next_loan_id')
    BY DEF Landed
  <1>2. e.loanId \in Ids /\ e.loanId < next_loan_id /\ next_loan_id \in Nat
    BY <1>1 DEF Landed, TypeOK
  <1>3. loan'[e.loanId] = loan[e.loanId]
    BY <1>2 DEF DisburseOnChain, TypeOK
  <1>4. escrow' = escrow /\ next_loan_id' = next_loan_id + 1
    BY DEF DisburseOnChain
  <1>5. e.loanId < next_loan_id'
    BY <1>2, <1>4
  <1>6. QED
    BY <1>3, <1>4, <1>5 DEF Landed

\* A schedule changes no loan but its own, and of that only that it has one.
LEMMA ScheduleLeavesLanded ==
    ASSUME TypeOK, NEW i \in Ids, ScheduleOnChain(i),
           NEW e \in Executions, Landed(e, loan, escrow, next_loan_id)
    PROVE  Landed(e, loan', escrow', next_loan_id')
  <1>1. SUFFICES ASSUME e.at \in AfterDisbursal
                 PROVE  Landed(e, loan', escrow', next_loan_id')
    BY DEF Landed
  <1>2. e.loanId \in Ids
    BY <1>1 DEF Landed
  <1>3. /\ SameTerms(loan[e.loanId], e) => SameTerms(loan'[e.loanId], e)
        /\ loan[e.loanId].scheduled => loan'[e.loanId].scheduled
    <2>1. CASE e.loanId = i
      <3>1. loan'[i] = [loan[i] EXCEPT !.scheduled = TRUE] /\ loan[i] \in Loans
        BY DEF ScheduleOnChain, TypeOK
      <3>2. \A ln \in Loans : LET m == [ln EXCEPT !.scheduled = TRUE]
                               IN m.scheduled /\ (SameTerms(ln, e) => SameTerms(m, e))
        BY DEF Loans, SameTerms
      <3>3. QED
        BY <2>1, <3>1, <3>2
    <2>2. CASE e.loanId # i
      BY <1>2, <2>2 DEF ScheduleOnChain, TypeOK
    <2>3. QED
      BY <2>1, <2>2
  <1>4. escrow' = escrow /\ next_loan_id' = next_loan_id
    BY DEF ScheduleOnChain
  <1>5. QED
    BY <1>3, <1>4 DEF Landed

\* An execution whose disbursement is answered has its loan on the chain.
LEMMA DisbursedLands ==
    ASSUME TypeOK, NEW r \in Requests, Disburses(r)
    PROVE  Landed(exec'[r], loan', escrow', next_loan_id')
  <1> DEFINE e == exec[r]
             f == exec'[r]
  <1>1. CASE f = NoExecution
    BY <1>1 DEF Landed, AfterDisbursal, NoExecution
  <1>2. CASE f # NoExecution
    <2>1. f.at = "schedule" /\ f.loanId = e.loanId /\ SameDeal(e, f)
      BY <1>2 DEF Disburses, OnlyMoves
    <2>2. /\ e.loanId \in Ids /\ e.loanId = next_loan_id /\ next_loan_id' = next_loan_id + 1
          /\ loan'[e.loanId] = LoanFor(e) /\ escrow' = escrow
          /\ Collateralised(e.borrower, e.loanId, e.offer.principal)
      BY DEF Disburses, DisburseOnChain, TypeOK
    <2>3. SameTerms(loan'[f.loanId], f)
      BY <2>1, <2>2 DEF SameTerms, LoanFor, SameDeal
    <2>4. Secures(escrow'[f.loanId], f.borrower, f.offer.principal)
      BY <2>1, <2>2 DEF Secures, Collateralised, SameDeal
    <2>5. f.loanId \in Ids /\ f.loanId < next_loan_id'
      BY <2>1, <2>2
    <2>6. QED
      BY <2>1, <2>3, <2>4, <2>5 DEF Landed
  <1>3. QED
    BY <1>1, <1>2

\* An execution whose schedule is answered still has it, with its schedule.
LEMMA ScheduledLands ==
    ASSUME TypeOK, NEW r \in Requests, Schedules(r), AllLanded
    PROVE  Landed(exec'[r], loan', escrow', next_loan_id')
  <1> DEFINE e == exec[r]
             f == exec'[r]
  <1>1. CASE f = NoExecution
    BY <1>1 DEF Landed, AfterDisbursal, NoExecution
  <1>2. CASE f # NoExecution
    <2>1. f.at = "history" /\ f.loanId = e.loanId /\ SameDeal(e, f)
      BY <1>2 DEF Schedules, OnlyMoves
    <2>2. e \in Executions /\ e.loanId \in Ids /\ ScheduleOnChain(e.loanId)
      BY DEF Schedules, ScheduleOnChain, TypeOK
    <2>3. Landed(e, loan', escrow', next_loan_id') /\ e.at \in AfterDisbursal
      BY <2>2, ScheduleLeavesLanded DEF AllLanded, Schedules, AfterDisbursal
    <2>4. loan'[e.loanId].scheduled
      <3>1. loan'[e.loanId] = [loan[e.loanId] EXCEPT !.scheduled = TRUE]
            /\ loan[e.loanId] \in Loans
        BY <2>2 DEF ScheduleOnChain, TypeOK
      <3>2. \A ln \in Loans : [ln EXCEPT !.scheduled = TRUE].scheduled
        BY DEF Loans
      <3>3. QED
        BY <3>1, <3>2
    <2>5. QED
      BY <2>1, <2>3, <2>4 DEF Landed, SameTerms, SameDeal
  <1>3. QED
    BY <1>1, <1>2

-----------------------------------------------------------------------------
(* The invariant, part by part.                                            *)

\* What an execution past its disbursement relies on stays on the chain.
LEMMA AllLandedStep ==
    ASSUME TypeOK, AllLanded, [Next]_vars
    PROVE  AllLanded'
  <1> SUFFICES ASSUME NEW q \in Requests
               PROVE  Landed(exec'[q], loan', escrow', next_loan_id')
    BY DEF AllLanded
  <1>e. exec[q] \in Executions /\ Landed(exec[q], loan, escrow, next_loan_id)
    BY DEF AllLanded, TypeOK
  <1>n. ASSUME exec'[q].at \notin AfterDisbursal
        PROVE  Landed(exec'[q], loan', escrow', next_loan_id')
    BY <1>n DEF Landed
  <1>1. CASE Calm
    BY <1>1, <1>e, <1>n DEF Calm, Quiet, chainVars
  <1>2. CASE Locks
    <2>1. Landed(exec[q], loan', escrow', next_loan_id')
      BY <1>2, <1>e, LockLeavesLanded DEF Locks
    <2>2. QED
      BY <1>2, <1>n, <2>1 DEF Locks, Quiet
  <1>3. CASE \E r \in Requests : Disburses(r)
    <2>1. PICK r \in Requests : Disburses(r)
      BY <1>3
    <2>2. CASE q = r
      BY <2>1, <2>2, DisbursedLands
    <2>3. CASE q # r
      <3>1. exec[r] \in Executions /\ DisburseOnChain(exec[r])
        BY <2>1 DEF Disburses, TypeOK
      <3>2. Landed(exec[q], loan', escrow', next_loan_id')
        BY <1>e, <3>1, DisburseLeavesLanded
      <3>3. QED
        BY <2>1, <2>3, <3>2 DEF Disburses, OnlyMoves
    <2>4. QED
      BY <2>2, <2>3
  <1>4. CASE \E r \in Requests : Schedules(r)
    <2>1. PICK r \in Requests : Schedules(r)
      BY <1>4
    <2>2. CASE q = r
      BY <2>1, <2>2, ScheduledLands
    <2>3. CASE q # r
      <3>1. exec[r].loanId \in Ids /\ ScheduleOnChain(exec[r].loanId)
        BY <2>1 DEF Schedules, ScheduleOnChain
      <3>2. Landed(exec[q], loan', escrow', next_loan_id')
        BY <1>e, <3>1, ScheduleLeavesLanded
      <3>3. QED
        BY <2>1, <2>3, <3>2 DEF Schedules, OnlyMoves
    <2>4. QED
      BY <2>2, <2>3
  <1>5. CASE \E r \in Requests : Records(r)
    <2>1. PICK r \in Requests : Records(r)
      BY <1>5
    <2>2. exec'[q] = exec[q] \/ exec'[q] = NoExecution
      BY <2>1 DEF Records
    <2>3. CASE exec'[q] = NoExecution
      BY <1>n, <2>3 DEF NoExecution, AfterDisbursal
    <2>4. QED
      BY <1>e, <2>1, <2>2, <2>3 DEF Records, chainVars
  <1>6. QED
    BY <1>1, <1>2, <1>3, <1>4, <1>5, StepShape

\* Loans are created at the next id alone.
LEMMA IdsAheadStep ==
    ASSUME TypeOK, IdsAhead, [Next]_vars
    PROVE  IdsAhead'
  <1> SUFFICES ASSUME NEW i \in Ids, i >= next_loan_id'
               PROVE  loan'[i].borrower = NoOne
    BY DEF IdsAhead
  <1>1. CASE Calm \/ Locks \/ \E r \in Requests : Records(r)
    BY <1>1 DEF Calm, Locks, Records, LockOnChain, chainVars, IdsAhead
  <1>2. CASE \E r \in Requests : Disburses(r)
    <2>1. PICK e : DisburseOnChain(e)
      BY <1>2 DEF Disburses
    <2>2. i >= next_loan_id /\ i # next_loan_id
      BY <2>1 DEF DisburseOnChain, TypeOK
    <2>3. loan'[i] = loan[i]
      BY <2>1, <2>2 DEF DisburseOnChain, TypeOK
    <2>4. QED
      BY <2>2, <2>3 DEF IdsAhead
  <1>3. CASE \E r \in Requests : Schedules(r)
    <2>1. PICK j : ScheduleOnChain(j)
      BY <1>3 DEF Schedules
    <2>2. loan[i].borrower = NoOne
      BY <2>1 DEF ScheduleOnChain, IdsAhead
    <2>3. i # j
      BY <2>1, <2>2 DEF ScheduleOnChain
    <2>4. QED
      BY <2>1, <2>2, <2>3 DEF ScheduleOnChain, TypeOK
  <1>4. QED
    BY <1>1, <1>2, <1>3, StepShape

\* The chain's next id keeps two executions from getting one loan.
LEMMA OneExecutionStep ==
    ASSUME TypeOK, AllLanded, OneExecutionPerLoan, [Next]_vars
    PROVE  OneExecutionPerLoan'
  <1> SUFFICES ASSUME NEW q1 \in Requests, NEW q2 \in Requests,
                      exec'[q1].at \in AfterDisbursal, exec'[q2].at \in AfterDisbursal,
                      exec'[q1].loanId = exec'[q2].loanId, q1 # q2
               PROVE  FALSE
    BY DEF OneExecutionPerLoan, AfterDisbursal
  <1>o. ~ /\ exec[q1].at \in AfterDisbursal /\ exec[q2].at \in AfterDisbursal
          /\ exec[q1].loanId = exec[q2].loanId
    BY DEF OneExecutionPerLoan, AfterDisbursal
  <1>n. NoExecution.at \notin AfterDisbursal
    BY DEF NoExecution, AfterDisbursal
  <1>1. CASE Calm \/ Locks
    BY <1>1, <1>o DEF Calm, Locks, Quiet
  <1>2. ASSUME NEW r \in Requests, Disburses(r), NEW p \in {q1, q2}, p # r,
               exec'[r].loanId = exec'[p].loanId, exec'[p].at \in AfterDisbursal,
               exec'[r].at \in AfterDisbursal
        PROVE  FALSE
    <2>1. exec'[p] = exec[p]
      BY <1>2 DEF Disburses, OnlyMoves
    <2>2. exec[p].loanId < next_loan_id
      BY <1>2, <2>1 DEF AllLanded, Landed
    <2>3. exec'[r].loanId = next_loan_id
      BY <1>2, <1>n DEF Disburses, DisburseOnChain, OnlyMoves
    <2>4. next_loan_id \in Nat
      BY DEF TypeOK
    <2>5. QED
      BY <1>2, <2>1, <2>2, <2>3, <2>4
  <1>3. CASE \E r \in Requests : Disburses(r)
    <2>1. PICK r \in Requests : Disburses(r)
      BY <1>3
    <2>2. CASE r \in {q1, q2}
      BY <1>2, <2>1, <2>2
    <2>3. CASE r \notin {q1, q2}
      BY <1>o, <2>1, <2>3 DEF Disburses, OnlyMoves
    <2>4. QED
      BY <2>2, <2>3
  <1>4. CASE \E r \in Requests : Schedules(r)
    <2>1. PICK r \in Requests : Schedules(r)
      BY <1>4
    <2>2. \A p \in {q1, q2} : /\ exec[p].at \in AfterDisbursal
                              /\ exec[p].loanId = exec'[p].loanId
      BY <1>n, <2>1 DEF Schedules, OnlyMoves, AfterDisbursal
    <2>3. QED
      BY <1>o, <2>2
  <1>5. CASE \E r \in Requests : Records(r)
    BY <1>5, <1>n, <1>o DEF Records
  <1>6. QED
    BY <1>1, <1>3, <1>4, <1>5, StepShape

\* No step lets an execution claim a scheduled loan that was unclaimed, and none
\* takes a schedule back.
LEMMA UnclaimedStay ==
    ASSUME TypeOK, AllLanded, IdsAhead, OneExecutionPerLoan, [Next]_vars,
           NEW b \in Borrowers
    PROVE  Unclaimed(b) \subseteq Unclaimed(b)'
  <1> SUFFICES ASSUME NEW i \in Unclaimed(b)
               PROVE  i \in Unclaimed(b)'
    OBVIOUS
  <1>i. /\ i \in Ids /\ loan[i].borrower = b /\ loan[i].scheduled
        /\ \A q \in Requests : exec[q].at = "history" => exec[q].loanId # i
    BY DEF Unclaimed
  <1>s. SUFFICES /\ loan'[i] = loan[i]
                 /\ \A q \in Requests : exec'[q].at = "history" => exec'[q].loanId # i
    BY <1>i DEF Unclaimed
  <1>n. NoExecution.at # "history"
    BY DEF NoExecution
  <1>1. CASE Calm \/ Locks
    <2>1. loan' = loan
      BY <1>1 DEF Calm, Locks, LockOnChain, chainVars
    <2>2. Quiet
      BY <1>1 DEF Calm, Locks
    <2>3. QED
      BY <1>i, <2>1, <2>2 DEF Quiet, AfterDisbursal
  <1>2. CASE \E r \in Requests : Disburses(r)
    <2>1. PICK r \in Requests : Disburses(r)
      BY <1>2
    <2>2. i # next_loan_id
      <3>1. b # NoOne /\ next_loan_id \in Nat
        BY OriginationAssumption DEF TypeOK
      <3>2. QED
        BY <1>i, <3>1 DEF IdsAhead
    <2>3. loan'[i] = loan[i]
      BY <1>i, <2>1, <2>2 DEF Disburses, DisburseOnChain, TypeOK
    <2>4. exec'[r].at # "history"
      BY <1>n, <2>1 DEF Disburses, OnlyMoves
    <2>5. QED
      BY <1>i, <2>1, <2>3, <2>4 DEF Disburses, OnlyMoves
  <1>3. CASE \E r \in Requests : Schedules(r)
    <2>1. PICK r \in Requests : Schedules(r)
      BY <1>3
    <2>2. exec[r].loanId # i
      BY <1>i, <2>1 DEF Schedules, ScheduleOnChain
    <2>3. loan'[i] = loan[i]
      BY <1>i, <2>1, <2>2 DEF Schedules, ScheduleOnChain, TypeOK
    <2>4. exec'[r].at = "history" => exec'[r].loanId # i
      BY <1>n, <2>1, <2>2 DEF Schedules, OnlyMoves
    <2>5. QED
      BY <1>i, <2>1, <2>3, <2>4 DEF Schedules, OnlyMoves
  <1>4. CASE \E r \in Requests : Records(r)
    BY <1>4, <1>i, <1>n DEF Records, chainVars
  <1>5. QED
    BY <1>1, <1>2, <1>3, <1>4, StepShape

\* The loan of the execution that records becomes unclaimed.
LEMMA RecordedUnclaimed ==
    ASSUME TypeOK, AllLanded, OneExecutionPerLoan, NEW r \in Requests, Records(r),
           NEW b \in Borrowers, exec[r].borrower = b
    PROVE  exec[r].loanId \in Unclaimed(b)' /\ exec[r].loanId \notin Unclaimed(b)
  <1> DEFINE i == exec[r].loanId
  <1>1. exec[r].at = "history"
    BY DEF Records
  <1>2. i \in Ids /\ loan[i].borrower = b /\ loan[i].scheduled
    BY <1>1 DEF AllLanded, Landed, AfterDisbursal, SameTerms
  <1>3. i \notin Unclaimed(b)
    BY <1>1 DEF Unclaimed
  <1>4. \A q \in Requests : exec'[q].at = "history" => exec'[q].loanId # i
    <2>1. \A q \in Requests \ {r} : exec[q].at = "history" => exec[q].loanId # i
      BY <1>1 DEF OneExecutionPerLoan
    <2>2. QED
      BY <2>1 DEF Records, NoExecution
  <1>5. loan' = loan
    BY DEF Records, chainVars
  <1>6. QED
    BY <1>2, <1>3, <1>4, <1>5 DEF Unclaimed

\* There are finitely many ids, so that unclaimed loans can be counted.
LEMMA UnclaimedFinite ==
    ASSUME NEW b
    PROVE  /\ IsFiniteSet(Unclaimed(b)) /\ Cardinality(Unclaimed(b)) \in Nat
           /\ IsFiniteSet(Unclaimed(b)') /\ Cardinality(Unclaimed(b)') \in Nat
  <1>1. IsFiniteSet(Ids)
    BY OriginationAssumption, FS_Interval
  <1>2. Unclaimed(b) \subseteq Ids /\ Unclaimed(b)' \subseteq Ids
    BY DEF Unclaimed
  <1>3. IsFiniteSet(Unclaimed(b)) /\ IsFiniteSet(Unclaimed(b)')
    BY <1>1, <1>2, FS_Subset
  <1>4. QED
    BY <1>3, FS_CardinalityType

\* The history is written for one loan, which is no longer claimed after it.
LEMMA RecordsStep ==
    ASSUME TypeOK, AllLanded, IdsAhead, OneExecutionPerLoan, RecordsClaimed, [Next]_vars
    PROVE  RecordsClaimed'
  <1> SUFFICES ASSUME NEW b \in Borrowers
               PROVE  issued'[b] <= Cardinality(Unclaimed(b)')
    BY DEF RecordsClaimed
  <1> DEFINE U == Unclaimed(b)
             V == Unclaimed(b)'
  <1>1. U \subseteq V /\ IsFiniteSet(V) /\ Cardinality(U) \in Nat /\ Cardinality(V) \in Nat
    BY UnclaimedStay, UnclaimedFinite
  <1>2. issued[b] <= Cardinality(U) /\ issued[b] \in Nat
    BY DEF RecordsClaimed, TypeOK
  <1>3. Cardinality(U) <= Cardinality(V)
    <2> HIDE DEF U, V
    <2>1. QED
      BY <1>1, FS_Subset
  <1>4. CASE issued'[b] = issued[b]
    <2> HIDE DEF U, V
    <2>1. issued'[b] <= Cardinality(V)
      BY <1>1, <1>2, <1>3, <1>4
    <2>2. QED
      BY <2>1 DEF V
  <1>5. CASE issued'[b] # issued[b]
    <2>1. PICK r \in Requests : Records(r) /\ exec[r].borrower = b
                                /\ issued'[b] = issued[b] + 1
      BY <1>5, StepShape DEF Calm, Locks, Disburses, Schedules, Records, OnlyMoves, TypeOK
    <2> DEFINE i == exec[r].loanId
    <2>2. i \in V /\ i \notin U
      BY <2>1, RecordedUnclaimed
    <2>3. Cardinality(U) < Cardinality(V)
      <3> HIDE DEF U, V, i
      <3>1. IsFiniteSet(U)
        BY <1>1, FS_Subset
      <3>2. U \cup {i} \subseteq V
        BY <1>1, <2>2
      <3>3. Cardinality(U \cup {i}) = Cardinality(U) + 1
        BY <2>2, <3>1, FS_AddElement
      <3>4. Cardinality(U \cup {i}) <= Cardinality(V)
        BY <1>1, <3>2, FS_Subset
      <3>5. QED
        BY <1>1, <3>3, <3>4
    <2> HIDE DEF U, V, i
    <2>4. issued'[b] <= Cardinality(V)
      BY <1>1, <1>2, <2>1, <2>3
    <2>5. QED
      BY <2>4 DEF V
  <1>6. QED
    BY <1>4, <1>5

\* The loans of the chain and the executions of the agent agree in every state: a
\* loan past its disbursement is on the chain with its terms, no loan is ahead of
\* the chain's next id, no two executions have one loan, and the history is no
\* further than the loans (executeLoan, with the guards of lending_pool).
THEOREM LoansAlwaysAccounted == Spec => []LoansInv
  <1>1. Init => LoansInv
    <2> SUFFICES ASSUME Init PROVE LoansInv
      OBVIOUS
    <2>1. AllLanded
      BY DEF Init, AllLanded, Landed, AfterDisbursal, NoExecution
    <2>2. IdsAhead /\ OneExecutionPerLoan
      BY DEF Init, IdsAhead, OneExecutionPerLoan, NoExecution
    <2>3. RecordsClaimed
      <3>1. \A b \in Borrowers : Cardinality(Unclaimed(b)) \in Nat /\ issued[b] = 0
        BY UnclaimedFinite DEF Init
      <3>2. QED
        BY <3>1 DEF RecordsClaimed
    <2>4. QED
      BY <2>1, <2>2, <2>3 DEF LoansInv
  <1>2. TypeOK /\ LoansInv /\ [Next]_vars => LoansInv'
    BY AllLandedStep, IdsAheadStep, OneExecutionStep, RecordsStep DEF LoansInv
  <1>3. QED
    BY <1>1, <1>2, OriginationTypeCorrect, PTL DEF Spec

\* When executeLoan reports an approved loan, the chain has that loan with the
\* terms approved and its schedule, and its escrow holds the collateral the
\* program asks for, also when the escrow is one that somebody locked before.
THEOREM ApprovedLoansAreOnChain == Spec => []ApprovedOnChain
  <1>1. TypeOK /\ AllLanded => ApprovedOnChain
    <2> SUFFICES ASSUME TypeOK, AllLanded, NEW r \in Requests, Approved(r)
                 PROVE  LET e == exec[r]
                        IN /\ e.loanId \in Ids
                           /\ loan[e.loanId] = [LoanFor(e) EXCEPT !.scheduled = TRUE]
                           /\ Collateralised(e.borrower, e.loanId, e.offer.principal)
      BY DEF ApprovedOnChain
    <2> DEFINE e == exec[r]
    <2>1. /\ e.loanId \in Ids /\ SameTerms(loan[e.loanId], e) /\ loan[e.loanId].scheduled
          /\ Secures(escrow[e.loanId], e.borrower, e.offer.principal)
      BY DEF AllLanded, Landed, Approved, AfterDisbursal
    <2>2. loan[e.loanId] \in Loans
      BY <2>1 DEF TypeOK
    <2>3. loan[e.loanId] = [LoanFor(e) EXCEPT !.scheduled = TRUE]
      <3>1. \A ln \in Loans : ln.scheduled /\ SameTerms(ln, e)
                                => ln = [LoanFor(e) EXCEPT !.scheduled = TRUE]
        BY DEF Loans, SameTerms, LoanFor
      <3>2. QED
        BY <2>1, <2>2, <3>1
    <2>4. QED
      BY <2>1, <2>3 DEF Secures, Collateralised
  <1>2. QED
    BY <1>1, OriginationTypeCorrect, LoansAlwaysAccounted, PTL DEF LoansInv

\* No two requests ever hold the same loan, though ids come from a counter file
\* and from a chain that both may be behind.
THEOREM OneExecutionForEachLoan == Spec => []OneExecutionPerLoan
  BY LoansAlwaysAccounted, PTL DEF LoansInv

\* The history that scores are computed from records no more loans of a borrower
\* than the chain has issued, through restarts and calls that land unseen.
THEOREM HistoryNeverAhead == Spec => []HistoryBehindLoans
  <1>1. TypeOK /\ RecordsClaimed => HistoryBehindLoans
    <2> SUFFICES ASSUME TypeOK, RecordsClaimed, NEW b \in Borrowers
                 PROVE  issued[b] <= Cardinality({i \in Ids : loan[i].borrower = b
                                                              /\ loan[i].scheduled})
      BY DEF HistoryBehindLoans
    <2> DEFINE L == {i \in Ids : loan[i].borrower = b /\ loan[i].scheduled}
               U == Unclaimed(b)
    <2>1. IsFiniteSet(L) /\ U \subseteq L
      <3>1. L \subseteq Ids /\ U \subseteq L
        BY DEF Unclaimed
      <3>2. IsFiniteSet(Ids)
        BY OriginationAssumption, FS_Interval
      <3> HIDE DEF L, U
      <3>3. QED
        BY <3>1, <3>2, FS_Subset
    <2>2. issued[b] <= Cardinality(U) /\ issued[b] \in Nat /\ Cardinality(U) \in Nat
      BY UnclaimedFinite DEF RecordsClaimed, TypeOK
    <2> HIDE DEF L, U
    <2>3. Cardinality(U) <= Cardinality(L) /\ Cardinality(L) \in Nat
      BY <2>1, FS_Subset, FS_CardinalityType
    <2>4. issued[b] <= Cardinality(L)
      BY <2>2, <2>3
    <2>5. QED
      BY <2>4 DEF L
  <1>2. QED
    BY <1>1, OriginationTypeCorrect, LoansAlwaysAccounted, PTL DEF LoansInv

=============================================================================
