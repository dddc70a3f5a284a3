--------------------------- MODULE LoanOrigination ---------------------------
(***************************************************************************)
(* How a loan is made: the lending agent (agent/src/lendingAgent.js) scores *)
(* a borrower, negotiates and executes; the bridge (mcpBridge.js) turns the *)
(* tools it calls into transactions; the server (mcpServer.js) then writes *)
(* the loan into the borrower's history.  Node runs one step at a time but *)
(* every await lets another request in: an execution is a process with a   *)
(* step per awaited call.                                                  *)
(*                                                                         *)
(* The chain keeps three of lending_pool's guards: the next id, the escrow *)
(* of that id and the ratio of the collateral.  Its other gates, an RPC    *)
(* error or the bridge's rate limit all look alike to the agent: a call    *)
(* that fails.  A call may also fail after its transaction has landed.     *)
(* Amounts are in dollars; instalment counts and the default probability,  *)
(* which nothing here depends on, are left out.                            *)
(***************************************************************************)
EXTENDS Integers, FiniteSets

CONSTANTS
    Borrowers,      \* addresses that ask for loans
    Custodial,      \* those whose wallet the service holds: it signs for them
    Requests,       \* HTTP requests that may be executing at once
    NoOne,          \* stands for no borrower
    MaxLoanId,      \* bound: the ids the chain hands out
    MaxCounter,     \* bound: the ids the counter file hands out
    GivenScores,    \* what the ML API answers: [tier, starter]
    Amounts, Durations,   \* what borrowers ask for
    CounterOffers,  \* counter-offers: [principal, rate, duration, ltv], 0 for none
    Pledges,        \* what borrowers lock from their own wallets
    StarterTerms,   \* the terms recommended to a starter: [maxLoan, maxLtv, ...]
    PRICE_RATIO_BPS \* the chain's collateral price over MOCK_XAUT_PRICE_USD

CONSTANTS
    RATE_FLOOR_BPS, RATE_CEILING_BPS, MAX_NEGOTIATION_ROUNDS,
    MAX_RATE_REDUCTION_BPS, MAX_DURATION_EXTENSION_DAYS,
    MIN_LTV_BPS, MIN_COLLATERAL_RATIO_BPS, BPS

Policies == [maxLoan : Nat, maxLtv : Nat, baseRate : Nat, maxDuration : Nat]

ASSUME OriginationAssumption ==
    /\ Custodial \subseteq Borrowers /\ NoOne \notin Borrowers
    /\ MaxLoanId \in Nat /\ MaxCounter \in 0..MaxLoanId /\ PRICE_RATIO_BPS \in Nat
    /\ GivenScores \subseteq [tier : 0..4, starter : BOOLEAN]
    /\ Amounts \subseteq Nat \ {0} /\ Durations \subseteq Nat \ {0}
    /\ CounterOffers \subseteq [principal : Nat, rate : Nat, duration : Nat, ltv : Nat]
    /\ Pledges \subseteq Nat /\ StarterTerms \in Policies
    /\ StarterTerms.maxLoan > 0
    /\ StarterTerms.baseRate \in RATE_FLOOR_BPS..RATE_CEILING_BPS
    /\ RATE_FLOOR_BPS \in 0..400 /\ RATE_CEILING_BPS \in Nat
    /\ RATE_CEILING_BPS >= 1500    \* the base rates of the tiers are between them
    /\ MAX_NEGOTIATION_ROUNDS \in Nat \ {0}
    /\ MAX_RATE_REDUCTION_BPS \in Nat /\ MAX_DURATION_EXTENSION_DAYS \in Nat
    /\ MIN_LTV_BPS \in Nat /\ MIN_COLLATERAL_RATIO_BPS \in Nat
    /\ BPS \in Nat \ {0}

VARIABLES
    session,        \* #activeSessions, by borrower
    exec,           \* executions under way, by request
    counter,        \* nextLoanId of .mcp-state/loan-counter.json
    counterStuck,   \* #loanCounterMutex is a rejected promise
    next_loan_id,   \* pool.next_loan_id on the chain
    escrow,         \* escrow accounts on the chain, by loan id
    loan,           \* loan accounts on the chain, by loan id
    issued          \* record_loan_issued transactions, by borrower

agentVars == <<session, exec>>
counterVars == <<counter, counterStuck>>
chainVars == <<next_loan_id, escrow, loan>>
vars == <<agentVars, counterVars, chainVars, issued>>

Lesser(a, b) == IF a <= b THEN a ELSE b
Greater(a, b) == IF a >= b THEN a ELSE b

Ids == 1..MaxLoanId
Terms == [principal : Nat, rate : Nat, duration : Nat, ltv : Nat]
NoTerms == [principal |-> 0, rate |-> 0, duration |-> 0, ltv |-> 0]
NoPolicy == [maxLoan |-> 0, maxLtv |-> 0, baseRate |-> 0, maxDuration |-> 0]

Sessions == [status : {"none", "OFFERED", "COUNTER", "FINAL"},
             round : 0..MAX_NEGOTIATION_ROUNDS, offer : Terms, policy : Policies]
NoSession == [status |-> "none", round |-> 0, offer |-> NoTerms, policy |-> NoPolicy]

Executions ==
    [at : {"idle", "id", "lock", "disburse", "schedule", "history"},
     borrower : Borrowers \cup {NoOne}, offer : Terms, policy : Policies,
     skip : BOOLEAN, loanId : 0..MaxLoanId, secured : BOOLEAN]
NoExecution ==
    [at |-> "idle", borrower |-> NoOne, offer |-> NoTerms, policy |-> NoPolicy,
     skip |-> FALSE, loanId |-> 0, secured |-> FALSE]

Escrows == [borrower : Borrowers \cup {NoOne}, amount : Nat]
Loans == [borrower : Borrowers \cup {NoOne}, principal : Nat, rate : Nat,
          duration : Nat, scheduled : BOOLEAN]

Init ==
    /\ session = [b \in Borrowers |-> NoSession]
    /\ exec = [r \in Requests |-> NoExecution]
    /\ counter = 1 /\ counterStuck = FALSE
    /\ next_loan_id = 1
    /\ escrow = [i \in Ids |-> [borrower |-> NoOne, amount |-> 0]]
    /\ loan = [i \in Ids |-> [borrower |-> NoOne, principal |-> 0, rate |-> 0,
                              duration |-> 0, scheduled |-> FALSE]]
    /\ issued = [b \in Borrowers |-> 0]

-----------------------------------------------------------------------------
(* Offers.                                                                 *)

TIER_CONSTRAINTS ==
    [t \in 0..4 |->
        CASE t = 4 -> [maxLoan |-> 10000, maxLtv |-> 8000, baseRate |-> 400, maxDuration |-> 365]
          [] t = 3 -> [maxLoan |-> 5000, maxLtv |-> 6000, baseRate |-> 650, maxDuration |-> 180]
          [] t = 2 -> [maxLoan |-> 2000, maxLtv |-> 4000, baseRate |-> 1000, maxDuration |-> 90]
          [] t = 1 -> [maxLoan |-> 500, maxLtv |-> 2500, baseRate |-> 1500, maxDuration |-> 60]
          [] t = 0 -> NoPolicy]

BuildConstraintsFromScore(score) ==
    IF score.starter THEN StarterTerms ELSE TIER_CONSTRAINTS[score.tier]

\* A denial, or an ML API that fails, leaves an earlier session in place; an
\* offer replaces it, whatever state it was in.
EvaluateLoan(b, score, amount, duration) ==
    LET policy == BuildConstraintsFromScore(score)
        offer == [principal |-> Lesser(amount, policy.maxLoan),
                  rate |-> policy.baseRate,
                  duration |-> Lesser(duration, policy.maxDuration),
                  ltv |-> policy.maxLtv]
    IN /\ score.tier # 0 \/ score.starter
       /\ session' = [session EXCEPT ![b] =
             [status |-> "OFFERED", round |-> 0, offer |-> offer, policy |-> policy]]
       /\ UNCHANGED <<exec, counterVars, chainVars, issued>>

\* Variant of Counter: the amount is taken as it is asked for.
CounterUncapped(s, ask) ==
    [s.offer EXCEPT !.principal = IF ask.principal = 0 THEN @ ELSE ask.principal]

\* The answer to a counter-offer: each term asked for, brought within bounds.
\* Terms are numbers: a NaN of the route (mcpServer.js:1147) is not modelled.
Counter(s, ask) ==
    LET minAllowed == Greater(RATE_FLOOR_BPS, s.offer.rate - MAX_RATE_REDUCTION_BPS)
        maxDur == Lesser(s.policy.maxDuration,
                         s.offer.duration + MAX_DURATION_EXTENSION_DAYS)
    IN [principal |-> IF ask.principal = 0 THEN s.offer.principal
                      ELSE Lesser(ask.principal, s.policy.maxLoan),
        rate |-> IF ask.rate = 0 THEN s.offer.rate
                 ELSE IF ask.rate < minAllowed THEN minAllowed
                 ELSE Lesser(ask.rate, RATE_CEILING_BPS),
        duration |-> IF ask.duration = 0 THEN s.offer.duration
                     ELSE Lesser(ask.duration, maxDur),
        ltv |-> IF ask.ltv = 0 THEN s.offer.ltv
                ELSE IF ask.ltv < s.policy.maxLtv THEN Greater(MIN_LTV_BPS, ask.ltv)
                ELSE s.policy.maxLtv]

\* At the last round the status is FINAL, which is not negotiable: the EXPIRED
\* branch of the code is never reached.
Negotiate(b, ask) ==
    LET s == session[b]
        last == s.round + 1 >= MAX_NEGOTIATION_ROUNDS
    IN /\ s.status \in {"OFFERED", "COUNTER"}
       /\ s.round < MAX_NEGOTIATION_ROUNDS
       /\ session' = [session EXCEPT ![b] =
             [status |-> IF last THEN "FINAL" ELSE "COUNTER", round |-> s.round + 1,
              offer |-> Counter(s, ask), policy |-> s.policy]]
       /\ UNCHANGED <<exec, counterVars, chainVars, issued>>

-----------------------------------------------------------------------------
(* Execution.                                                              *)

\* The session is read here and not marked: until the decision it can be
\* negotiated, replaced or executed again.  An id of the caller's is one that
\* prepare-execution told him.
ExecuteLoan(r, b, skip, loanId) ==
    /\ exec[r].at = "idle"
    /\ session[b].status # "none"
    /\ exec' = [exec EXCEPT ![r] =
          [NoExecution EXCEPT !.at = IF loanId = 0 THEN "id" ELSE "lock",
                              !.borrower = b, !.offer = session[b].offer,
                              !.policy = session[b].policy,
                              !.skip = skip, !.loanId = loanId]]
    /\ UNCHANGED <<session, counterVars, chainVars, issued>>

\* get_next_loan_id reads the chain and reserves nothing there.
ReadNextLoanId(r) ==
    /\ exec[r].at = "id"
    /\ next_loan_id \in Ids
    /\ exec' = [exec EXCEPT ![r].at = "lock", ![r].loanId = next_loan_id]
    /\ UNCHANGED <<session, counterVars, chainVars, issued>>

\* When the chain cannot be read the ids come from a file, one at a time.
CountNextLoanId(r) ==
    /\ exec[r].at = "id"
    /\ ~counterStuck
    /\ counter <= MaxCounter
    /\ exec' = [exec EXCEPT ![r].at = "lock", ![r].loanId = counter]
    /\ counter' = counter + 1
    /\ UNCHANGED <<session, counterStuck, chainVars, issued>>

\* EXECUTION_FAILED: the execution ends with its session, or with the one that has replaced it.
Fail(r) ==
    /\ exec' = [exec EXCEPT ![r] = NoExecution]
    /\ session' = [session EXCEPT ![exec[r].borrower] = NoSession]

\* The file cannot be written: the promise the reservations are chained to is
\* rejected, and with it every later reservation of this process.
CounterFails(r) ==
    /\ exec[r].at = "id"
    /\ counter <= MaxCounter        \* bound: there is an id left to reserve
    /\ counterStuck' = TRUE
    /\ Fail(r)
    /\ UNCHANGED <<counter, chainVars, issued>>

\* A tool call answers success: false: refused by the bridge or by the chain.
CallFails(r) ==
    /\ exec[r].at \in {"id", "lock", "disburse", "schedule"}
    /\ Fail(r)
    /\ UNCHANGED <<counterVars, chainVars, issued>>

CollateralUsd(offer) == (offer.principal * offer.ltv) \div BPS

\* lock_collateral on the chain; confirmed says whether the caller learns of it.
LockOnChain(b, i, amount) ==
    /\ i = next_loan_id /\ i \in Ids
    /\ escrow[i].borrower = NoOne
    /\ escrow' = [escrow EXCEPT ![i] = [borrower |-> b, amount |-> amount]]
    /\ UNCHANGED <<next_loan_id, loan>>

Confirmed(r, at) ==
    /\ exec' = [exec EXCEPT ![r].at = at]
    /\ UNCHANGED session

\* What the agent is told of a transaction that landed: that it did, or, when
\* the confirmation is lost, that it failed.
Answered(r, at) ==
    \/ Confirmed(r, at)
    \/ Fail(r)

\* The borrower locked the collateral himself, or an earlier attempt did: the
\* escrow of the id is taken as it is when it is his and holds enough.
ReuseEscrow(r) ==
    LET e == exec[r]
    IN /\ e.at = "lock"
       /\ \/ e.skip
          \/ /\ e.borrower \in Custodial
             /\ e.loanId \in Ids
             /\ escrow[e.loanId].borrower = e.borrower
             /\ escrow[e.loanId].amount >= CollateralUsd(e.offer)
       /\ exec' = [exec EXCEPT ![r].at = "disburse", ![r].secured = TRUE,
                               ![r].skip = FALSE]   \* not looked at again
       /\ UNCHANGED <<session, counterVars, chainVars, issued>>

\* The service has no key of this borrower: the instruction is only built, and
\* the execution goes on.
BuildLock(r) ==
    /\ exec[r].at = "lock"
    /\ ~exec[r].skip /\ exec[r].borrower \notin Custodial
    /\ Confirmed(r, "disburse")
    /\ UNCHANGED <<counterVars, chainVars, issued>>

SubmitLock(r) ==
    LET e == exec[r]
    IN /\ e.at = "lock"
       /\ ~e.skip /\ e.borrower \in Custodial
       /\ LockOnChain(e.borrower, e.loanId, CollateralUsd(e.offer))
       /\ \/ /\ exec' = [exec EXCEPT ![r].at = "disburse", ![r].secured = TRUE]
             /\ UNCHANGED session
          \/ Fail(r)
       /\ UNCHANGED <<counterVars, issued>>

\* Gate 2 of conditional_disburse: the escrow of the id is the borrower's and
\* is worth enough at the chain's own price.
Collateralised(b, i, principal) ==
    /\ escrow[i].borrower = b
    /\ (escrow[i].amount * PRICE_RATIO_BPS) \div BPS
          >= (principal * MIN_COLLATERAL_RATIO_BPS) \div BPS

LoanFor(e) == [borrower |-> e.borrower, principal |-> e.offer.principal,
               rate |-> e.offer.rate, duration |-> e.offer.duration,
               scheduled |-> FALSE]

DisburseOnChain(e) ==
    /\ e.loanId = next_loan_id /\ e.loanId \in Ids
    /\ Collateralised(e.borrower, e.loanId, e.offer.principal)
    /\ loan' = [loan EXCEPT ![e.loanId] = LoanFor(e)]
    /\ next_loan_id' = next_loan_id + 1
    /\ UNCHANGED escrow

\* Variant of Disburse: a loan the borrower already has under the id is taken
\* for the one this execution asks for, as an escrow is.
DisburseOrReuse(r) ==
    LET e == exec[r]
    IN /\ e.at = "disburse"
       /\ \/ DisburseOnChain(e)
          \/ e.loanId \in Ids /\ loan[e.loanId].borrower = e.borrower /\ UNCHANGED chainVars
       /\ Answered(r, "schedule")
       /\ UNCHANGED <<counterVars, issued>>

Disburse(r) ==
    /\ exec[r].at = "disburse"
    /\ DisburseOnChain(exec[r])
    /\ Answered(r, "schedule")
    /\ UNCHANGED <<counterVars, issued>>

ScheduleOnChain(i) ==
    /\ i \in Ids
    /\ loan[i].borrower # NoOne /\ ~loan[i].scheduled
    /\ loan' = [loan EXCEPT ![i].scheduled = TRUE]
    /\ UNCHANGED <<next_loan_id, escrow>>

\* Variant of CreateSchedule: the answer of the last call is not looked at.
ScheduleUnchecked(r) ==
    /\ exec[r].at = "schedule" /\ exec[r].secured
    /\ exec' = [exec EXCEPT ![r].at = "history"]
    /\ session' = [session EXCEPT ![exec[r].borrower] = NoSession]
    /\ UNCHANGED <<counterVars, chainVars, issued>>

\* The last transaction, and the decision: APPROVED if the collateral was locked,
\* or found locked, by this execution as well; otherwise INSTRUCTIONS_BUILT.
CreateSchedule(r) ==
    LET e == exec[r]
    IN /\ e.at = "schedule"
       /\ ScheduleOnChain(e.loanId)
       /\ \/ /\ session' = [session EXCEPT ![e.borrower] = NoSession]
             /\ exec' = [exec EXCEPT ![r] =
                   IF e.secured THEN [e EXCEPT !.at = "history"]
                   ELSE NoExecution]
          \/ Fail(r)
       /\ UNCHANGED <<counterVars, issued>>

\* Variant of RecordIssued: an event whose confirmation is lost is sent again.
RecordUntilConfirmed(r) ==
    /\ exec[r].at = "history"
    /\ issued' = [issued EXCEPT ![exec[r].borrower] = @ + 1]
    /\ exec' = exec \/ exec' = [exec EXCEPT ![r] = NoExecution]
    /\ UNCHANGED <<session, counterVars, chainVars>>

\* The server writes an approved loan into the borrower's history, once: an
\* error is put into the answer and the event is never sent again.
RecordIssued(r) ==
    /\ exec[r].at = "history"
    /\ \/ issued' = [issued EXCEPT ![exec[r].borrower] = @ + 1]
       \/ UNCHANGED issued
    /\ exec' = [exec EXCEPT ![r] = NoExecution]
    /\ UNCHANGED <<session, counterVars, chainVars>>

\* The borrower locks collateral from his own wallet, for the id that
\* prepare-execution told him or that he read himself.
BorrowerLocks(b, amount) ==
    /\ LockOnChain(b, next_loan_id, amount)
    /\ UNCHANGED <<agentVars, counterVars, issued>>

\* The service stops and comes back: sessions and executions were in memory.  A
\* counter file cut short while it was written is read as the first id.
Restart ==
    /\ exec' = [r \in Requests |-> NoExecution]
    /\ session' = [b \in Borrowers |-> NoSession]
    /\ counterStuck' = FALSE
    /\ \/ UNCHANGED counter
       \/ /\ \E r \in Requests : exec[r].at = "id"
          /\ counter' = 1
    /\ UNCHANGED <<chainVars, issued>>

-----------------------------------------------------------------------------

ExecutionStep(r) ==
    \/ ReadNextLoanId(r)
    \/ CountNextLoanId(r)
    \/ CounterFails(r)
    \/ CallFails(r)
    \/ ReuseEscrow(r)
    \/ BuildLock(r)
    \/ SubmitLock(r)
    \/ Disburse(r)
    \/ CreateSchedule(r)
    \/ RecordIssued(r)

Next ==
    \/ \E b \in Borrowers, score \in GivenScores, a \in Amounts, d \in Durations :
          EvaluateLoan(b, score, a, d)
    \/ \E b \in Borrowers, ask \in CounterOffers : Negotiate(b, ask)
    \/ \E r \in Requests, b \in Borrowers : ExecuteLoan(r, b, FALSE, 0)
    \/ \E r \in Requests, b \in Borrowers, i \in Ids :
          i <= next_loan_id /\ ExecuteLoan(r, b, TRUE, i)
    \/ \E r \in Requests : ExecutionStep(r)
    \/ \E b \in Borrowers, amount \in Pledges : BorrowerLocks(b, amount)
    \/ Restart

Spec == Init /\ [][Next]_vars

-----------------------------------------------------------------------------
(* Properties.                                                             *)

\* The agent's and the chain's state is well typed; no negotiation goes past
\* its rounds.
TypeOK ==
    /\ session \in [Borrowers -> Sessions]
    /\ exec \in [Requests -> Executions]
    /\ counter \in 1..MaxCounter + 1 /\ counterStuck \in BOOLEAN
    /\ next_loan_id \in 1..MaxLoanId + 1
    /\ escrow \in [Ids -> Escrows]
    /\ loan \in [Ids -> Loans]
    /\ issued \in [Borrowers -> Nat]

WithinPolicy(offer, policy, rounds) ==
    /\ offer.principal <= policy.maxLoan
    /\ offer.duration <= policy.maxDuration
    /\ offer.rate >= Greater(RATE_FLOOR_BPS,
                             policy.baseRate - rounds * MAX_RATE_REDUCTION_BPS)
    /\ offer.rate <= RATE_CEILING_BPS

\* Whatever is asked for, in whatever order and while other requests execute the
\* session, an offer stays within the tier it was made for, and so does the
\* copy an execution took of it.
OfferWithinPolicy ==
    /\ \A b \in Borrowers :
          LET s == session[b]
          IN s.status # "none" => WithinPolicy(s.offer, s.policy, s.round)
    /\ \A r \in Requests :
          LET e == exec[r]
          IN e.borrower # NoOne =>
                WithinPolicy(e.offer, e.policy, MAX_NEGOTIATION_ROUNDS)

\* The decision of r is APPROVED, and the server is about to record it.
Approved(r) == exec[r].at = "history"

\* APPROVED is never said of a loan that is not there: whatever other executions,
\* wallets and lost confirmations did, the loan of the decision's id is on the
\* chain, scheduled, the borrower's, with the offered terms and an escrow of his.
ApprovedOnChain ==
    \A r \in Requests :
        LET e == exec[r]
        IN Approved(r) =>
             /\ e.loanId \in Ids
             /\ loan[e.loanId] = [LoanFor(e) EXCEPT !.scheduled = TRUE]
             /\ Collateralised(e.borrower, e.loanId, e.offer.principal)

\* No loan is disbursed twice: two executions of one session, which nothing
\* prevents from holding the same id, never both get past its disbursement.
OneExecutionPerLoan ==
    \A r1, r2 \in Requests :
        /\ exec[r1].at \in {"schedule", "history"}
        /\ exec[r2].at \in {"schedule", "history"}
        /\ exec[r1].loanId = exec[r2].loanId
        => r1 = r2

\* The history never runs ahead of the chain: a borrower's loans on record are at
\* most the scheduled loans he has.
HistoryBehindLoans ==
    \A b \in Borrowers :
        issued[b] <= Cardinality({i \in Ids : loan[i].borrower = b /\ loan[i].scheduled})

=============================================================================
