------------------------------ MODULE Dashboard ------------------------------
(***************************************************************************)
(* The dashboard (frontend/src) and the routes of the server it asks       *)
(* (wdk-service/src/mcpServer.js), over the lending_pool program.  A       *)
(* borrower has one page open.  The page polls the pool and the loan book, *)
(* repays, deposits, and takes a loan in one long handler: prepare, lock,  *)
(* execute on the server, approve the autopay.  Every await lets the       *)
(* chain, the server and the other handlers move.                          *)
(*                                                                         *)
(* A transaction handed to the wallet may land, may be executed and fail,  *)
(* or end in an error (refused, not simulated, not confirmed in time); one *)
(* that lands after its error is a step of somebody else.  confirm-        *)
(* Transaction returns the error of an executed transaction and the page   *)
(* does not read it: a failed one looks like one that landed.              *)
(***************************************************************************)
EXTENDS LendingPool

CONSTANTS
    Pages,      \* the borrowers whose page is followed, one page each
    Loads,      \* polls that may be under way at once
    Clicks,     \* repayLoan calls that may be under way at once
    Offers,     \* what the lending agent offers
    NoOffer,    \* stands for no offer
    ROUNDING    \* raw units an amount may be off once it has been a double

OfferTerms ==
    [principal : Principals, rate : Rates, days : Durations, pledge : Pledges,
     count : Counts, interval : Intervals, autopay : Nat \ {0}]

ASSUME DashboardAssumption ==
    /\ Pages # {} /\ Pages \subseteq Borrowers
    /\ Offers \subseteq OfferTerms /\ NoOffer \notin Offers
    /\ ROUNDING \in Nat

VARIABLES
    rows,               \* useLoanBook's loans, by borrower and id
    interestEarned,     \* usePoolState's pool.interestEarned, by borrower
    load,               \* polls under way
    repaying,           \* repayLoan calls under way
    repayingLoanId,     \* useLoanActions' repayingLoanId, by borrower; 0 is null
    session,            \* the lending agent's current offer, by borrower
    negotiationStarted, \* App's negotiationStarted, set with its terms
    accept,             \* acceptOfferAndEnableAutopay under way, by borrower
    approved            \* amount of the last approve instruction, by borrower

shownVars == <<rows, interestEarned, load>>
repayVars == <<repaying, repayingLoanId>>
offerVars == <<session, negotiationStarted, accept, approved>>
pageVars == <<shownVars, repayVars, offerVars>>
dashboardVars == <<vars, pageVars>>

AnyBorrower == CHOOSE b \in Borrowers : TRUE
AnyPage == CHOOSE b \in Pages : TRUE

Rows == [status : {"None", "Active", "Repaid", "Defaulted"},
         borrower : Borrowers, repaid : Nat, outstanding : Nat]
NoRow == [status |-> "None", borrower |-> AnyBorrower, repaid |-> 0, outstanding |-> 0]
NoRows == [id \in LoanIds |-> NoRow]

\* A poll of the pool has its answer, one of the book reads loan after loan.
Polls == [at : {"idle", "pool", "book"}, page : Pages, earned : Nat,
          next : Nat, last : Nat, index : Nat, rows : [LoanIds -> Rows]]
NoPoll == [at |-> "idle", page |-> AnyPage, earned |-> 0,
           next |-> 0, last |-> 0, index |-> 0, rows |-> NoRows]

Repayments == [at : {"idle", "sent", "record", "release"}, page : Pages,
               id : LoanIds \cup {0}, amount : Nat]
NoRepayment == [at |-> "idle", page |-> AnyPage, id |-> 0, amount |-> 0]

\* offer is what the page prepared, made what the server is carrying out.
Acceptances ==
    [at : {"idle", "evaluated", "lock", "execute", "disburse", "schedule", "approve"},
     id : LoanIds \cup {0}, offer : Offers \cup {NoOffer}, made : Offers \cup {NoOffer}]
NoAcceptance == [at |-> "idle", id |-> 0, offer |-> NoOffer, made |-> NoOffer]

DashboardInit ==
    /\ Init
    /\ rows = [b \in Pages |-> NoRows]
    /\ interestEarned = [b \in Pages |-> 0]
    /\ load = [l \in Loads |-> NoPoll]
    /\ repaying = [c \in Clicks |-> NoRepayment]
    /\ repayingLoanId = [b \in Pages |-> 0]
    /\ session = [b \in Pages |-> NoOffer]
    /\ negotiationStarted = [b \in Pages |-> FALSE]
    /\ accept = [b \in Pages |-> NoAcceptance]
    /\ approved = [b \in Pages |-> 0]

-----------------------------------------------------------------------------
(* Polls: every five seconds, and after a repayment; nothing keeps an old  *)
(* answer from replacing a newer one.                                      *)

PollPool(l, b) ==
    /\ load[l].at = "idle"
    /\ load' = [load EXCEPT ![l] =
          [NoPoll EXCEPT !.at = "pool", !.page = b,
                         !.earned = pool[ThePool].total_interest_earned]]
    /\ UNCHANGED <<vars, rows, interestEarned, repayVars, offerVars>>

\* The answer, or zero when the server cannot read or keep the snapshot.
ShowPool(l) ==
    /\ load[l].at = "pool"
    /\ \E n \in {load[l].earned, 0} :
          interestEarned' = [interestEarned EXCEPT ![load[l].page] = n]
    /\ load' = [load EXCEPT ![l] = NoPoll]
    /\ UNCHANGED <<vars, rows, repayVars, offerVars>>

\* The index and the last id are read once, before the loans.
PollBook(l, b) ==
    /\ load[l].at = "idle"
    /\ load' = [load EXCEPT ![l] =
          [NoPoll EXCEPT !.at = "book", !.page = b, !.next = 1,
                         !.last = pool[ThePool].next_loan_id - 1,
                         !.index = pool[ThePool].interest_index]]
    /\ UNCHANGED <<vars, rows, interestEarned, repayVars, offerVars>>

AtLeastZero(n) == IF n < 0 THEN 0 ELSE n

\* Variant of Estimates: what has been repaid is not taken off.
EstimatesGross(ln, index) ==
    TotalOwed(ln, index)..(TotalOwed(ln, index) + ROUNDING)

\* outstandingEstimate, at an index older than the loan it is applied to.
Estimates(ln, index) ==
    AtLeastZero(Remaining(ln, index) - ROUNDING)
       ..AtLeastZero(Remaining(ln, index) + ROUNDING)

\* Variant of RowStatus: a loan whose principal is back counts as repaid.
RowStatusByAmount(ln) ==
    IF ln.status = "Active" /\ ln.repaid_amount >= ln.principal THEN "Repaid" ELSE ln.status

RowStatus(ln) == ln.status

RowsOf(ln, index) ==
    IF ln.status = "None" THEN {NoRow}
    ELSE {[status |-> RowStatus(ln), borrower |-> ln.borrower,
           repaid |-> ln.repaid_amount, outstanding |-> n] : n \in Estimates(ln, index)}

\* MaxLoanId bounds the ids that are read.
Unread(l) == load[l].next <= load[l].last /\ load[l].next \in LoanIds

ReadLoan(l) ==
    /\ load[l].at = "book"
    /\ Unread(l)
    /\ \E row \in RowsOf(loan[ThePool][load[l].next], load[l].index) :
          load' = [load EXCEPT ![l].rows[load[l].next] = row, ![l].next = @ + 1]
    /\ UNCHANGED <<vars, rows, interestEarned, repayVars, offerVars>>

ShowBook(l) ==
    /\ load[l].at = "book"
    /\ ~Unread(l)
    /\ rows' = [rows EXCEPT ![load[l].page] = load[l].rows]
    /\ load' = [load EXCEPT ![l] = NoPoll]
    /\ UNCHANGED <<vars, interestEarned, repayVars, offerVars>>

\* One read that fails empties the book.
ShowNoBook(l) ==
    /\ load[l].at = "book"
    /\ rows' = [rows EXCEPT ![load[l].page] = NoRows]
    /\ load' = [load EXCEPT ![l] = NoPoll]
    /\ UNCHANGED <<vars, interestEarned, repayVars, offerVars>>

-----------------------------------------------------------------------------
(* Repaying and depositing from the page.                                  *)

\* Variant of AmountsFor: a raw unit is added whether or not there is a fraction.
AmountsAlwaysUp(row) ==
    LET n == (IF row.outstanding = 0 THEN 1 ELSE row.outstanding) + 1
    IN (n..(n + ROUNDING)) \cap Payments

\* The least amount is one raw unit, and ceil may add one; Payments bounds what
\* is sent.
AmountsFor(row) ==
    LET n == IF row.outstanding = 0 THEN 1 ELSE row.outstanding
    IN (n..(n + ROUNDING)) \cap Payments

\* The button is disabled for the loan in repayingLoanId alone: a click on
\* another loan, and the end of any click, makes the next one possible.
ClickRepay(c, b, id) ==
    /\ repaying[c].at = "idle"
    /\ rows[b][id].status = "Active" /\ rows[b][id].borrower = b
    /\ repayingLoanId[b] # id
    /\ \E amount \in AmountsFor(rows[b][id]) :
          repaying' = [repaying EXCEPT ![c] =
             [at |-> "sent", page |-> b, id |-> id, amount |-> amount]]
    /\ repayingLoanId' = [repayingLoanId EXCEPT ![b] = id]
    /\ UNCHANGED <<vars, shownVars, offerVars>>

RepayStep(c, from, to) ==
    /\ repaying[c].at = from
    /\ repaying' = [repaying EXCEPT ![c].at = to]
    /\ UNCHANGED <<shownVars, repayingLoanId, offerVars>>

EndRepay(c) ==
    /\ repaying' = [repaying EXCEPT ![c] = NoRepayment]
    /\ repayingLoanId' = [repayingLoanId EXCEPT ![repaying[c].page] = 0]
    /\ UNCHANGED <<shownVars, offerVars>>

RepayLands(c) ==
    /\ RepayStep(c, "sent", "record")
    /\ Repay(ThePool, repaying[c].id, repaying[c].amount)

RepayReverts(c) == RepayStep(c, "sent", "record") /\ UNCHANGED vars

RepayFails(c) == repaying[c].at = "sent" /\ EndRepay(c) /\ UNCHANGED vars

\* record-repaid writes the borrower's history, or fails and is not heard of;
\* the history is credit_score_oracle's, and nothing here reads it.
RecordRepaid(c) == RepayStep(c, "record", "release") /\ UNCHANGED vars

\* The release is asked for whether or not the loan is closed by now.
TryRelease(c) ==
    /\ repaying[c].at = "release"
    /\ EndRepay(c)
    /\ ReleaseCollateral(ThePool, repaying[c].id) \/ UNCHANGED vars

\* depositLiquidity sends one transaction and waits for it; its flag disables
\* its own button and nothing else.
DepositLiquidity(amount) == Deposit(ThePool, amount) /\ UNCHANGED pageVars

-----------------------------------------------------------------------------
(* Negotiating, and taking the offer.                                      *)

\* evaluate, or negotiate once an offer has been seen; the answer may be lost.
ChatOffer(b, o) ==
    /\ negotiationStarted[b] => session[b] # NoOffer
    /\ session' = [session EXCEPT ![b] = o]
    /\ \/ negotiationStarted' = [negotiationStarted EXCEPT ![b] = TRUE]
       \/ UNCHANGED negotiationStarted
    /\ UNCHANGED <<vars, shownVars, repayVars, accept, approved>>

\* Another score of the wallet: the terms go, the server's session stays.
Rescored(b) ==
    /\ negotiationStarted[b]
    /\ negotiationStarted' = [negotiationStarted EXCEPT ![b] = FALSE]
    /\ UNCHANGED <<vars, shownVars, repayVars, session, accept, approved>>

\* A request from elsewhere, /demo/run or another page, makes the borrower an
\* offer or ends his session with an execution.
OtherRequest(b) ==
    /\ \E o \in (Offers \cup {NoOffer}) \ {session[b]} :
          session' = [session EXCEPT ![b] = o]
    /\ UNCHANGED <<vars, shownVars, repayVars, negotiationStarted,
                   accept, approved>>

AcceptKeeps == UNCHANGED <<shownVars, repayVars, negotiationStarted>>

\* The button shows with the terms and is disabled while a loan is starting.
\* Without a session the page asks for an evaluation first.
EvaluateAgain(b, o) ==
    /\ accept[b].at = "idle" /\ negotiationStarted[b]
    /\ session[b] = NoOffer
    /\ session' = [session EXCEPT ![b] = o]
    /\ accept' = [accept EXCEPT ![b].at = "evaluated"]
    /\ AcceptKeeps /\ UNCHANGED <<vars, approved>>

\* The id is the chain's next one, or the counter file's when the chain cannot
\* be read.
Prepare(b, id) ==
    /\ \/ accept[b].at = "idle" /\ negotiationStarted[b]
       \/ accept[b].at = "evaluated"
    /\ session[b] # NoOffer
    /\ accept' = [accept EXCEPT ![b] =
          [at |-> "lock", id |-> id, offer |-> session[b], made |-> NoOffer]]
    /\ AcceptKeeps /\ UNCHANGED <<vars, session, approved>>

LockLands(b, m) ==
    /\ accept[b].at = "lock"
    /\ LockCollateral(ThePool, accept[b].id, b, m, accept[b].offer.pledge)
    /\ accept' = [accept EXCEPT ![b].at = "execute"]
    /\ AcceptKeeps /\ UNCHANGED <<session, approved>>

LockReverts(b) ==
    /\ accept[b].at = "lock"
    /\ accept' = [accept EXCEPT ![b].at = "execute"]
    /\ AcceptKeeps /\ UNCHANGED <<vars, session, approved>>

\* The server carries out the offer the session holds now, which need not be
\* the one the collateral was locked for.
Execute(b) ==
    /\ accept[b].at = "execute"
    /\ session[b] # NoOffer
    /\ accept' = [accept EXCEPT ![b].at = "disburse", ![b].made = session[b]]
    /\ AcceptKeeps /\ UNCHANGED <<vars, session, approved>>

\* The execution ends: the session goes, and the page shows an error.
ExecutionEnds(b) ==
    /\ session' = [session EXCEPT ![b] = NoOffer]
    /\ accept' = [accept EXCEPT ![b] = NoAcceptance]
    /\ AcceptKeeps /\ UNCHANGED approved

\* It landed; the server learns of it or not.
DisburseLands(b, score) ==
    LET a == accept[b]
    IN /\ a.at = "disburse"
       /\ ConditionalDisburse(ThePool, a.id, b, score,
                              a.made.principal, a.made.rate, a.made.days)
       /\ \/ /\ accept' = [accept EXCEPT ![b].at = "schedule"]
             /\ AcceptKeeps /\ UNCHANGED <<session, approved>>
          \/ ExecutionEnds(b)

\* The server then writes the loan to the history and the pool's log: when the
\* log cannot be written the page is told that the loan failed.
ScheduleLands(b) ==
    LET a == accept[b]
    IN /\ a.at = "schedule"
       /\ CreateSchedule(ThePool, a.id, a.made.count, a.made.interval)
       /\ \/ /\ accept' = [accept EXCEPT ![b].at = "approve"]
             /\ session' = [session EXCEPT ![b] = NoOffer]
             /\ AcceptKeeps /\ UNCHANGED approved
          \/ ExecutionEnds(b)

\* Variant of ServerFails: the answer is not looked at.
ServerFailsUnnoticed(b) ==
    /\ accept[b].at \in {"disburse", "schedule"}
    /\ session' = [session EXCEPT ![b] = NoOffer]
    /\ accept' = [accept EXCEPT ![b].at = "approve"]
    /\ AcceptKeeps /\ UNCHANGED <<vars, approved>>

ServerFails(b) ==
    /\ accept[b].at \in {"disburse", "schedule"}
    /\ ExecutionEnds(b)
    /\ UNCHANGED vars

\* Any other error ends the handler; what the server has begun goes on as
\* another request's.
AcceptFails(b) ==
    /\ accept[b].at # "idle"
    /\ accept' = [accept EXCEPT ![b] = NoAcceptance]
    /\ AcceptKeeps /\ UNCHANGED <<vars, session, approved>>

\* An approve instruction replaces the amount approved before.
Approve(b) ==
    /\ accept[b].at = "approve"
    /\ approved' = [approved EXCEPT ![b] = accept[b].offer.autopay]
    /\ accept' = [accept EXCEPT ![b] = NoAcceptance]
    /\ AcceptKeeps /\ UNCHANGED <<vars, session>>

-----------------------------------------------------------------------------

PollStep(l) ==
    \/ \E b \in Pages : PollPool(l, b) \/ PollBook(l, b)
    \/ ShowPool(l) \/ ReadLoan(l) \/ ShowBook(l) \/ ShowNoBook(l)

ClickStep(c) ==
    \/ \E b \in Pages, id \in LoanIds : ClickRepay(c, b, id)
    \/ RepayLands(c) \/ RepayReverts(c) \/ RepayFails(c)
    \/ RecordRepaid(c) \/ TryRelease(c)

OfferStep(b) ==
    \/ \E o \in Offers : ChatOffer(b, o) \/ EvaluateAgain(b, o)
    \/ Rescored(b) \/ OtherRequest(b)
    \/ \E id \in LoanIds : Prepare(b, id)
    \/ \E m \in Mints : LockLands(b, m)
    \/ LockReverts(b) \/ Execute(b)
    \/ \E score \in Scores : DisburseLands(b, score)
    \/ ScheduleLands(b) \/ ServerFails(b) \/ AcceptFails(b) \/ Approve(b)

\* Agents, other wallets and other requests; and time.
Elsewhere == (Tick \/ \E p \in Pools : Step(p)) /\ UNCHANGED pageVars

DashboardNext ==
    \/ \E l \in Loads : PollStep(l)
    \/ \E c \in Clicks : ClickStep(c)
    \/ \E b \in Pages : OfferStep(b)
    \/ \E amount \in Deposits : DepositLiquidity(amount)
    \/ Elsewhere

DashboardSpec == DashboardInit /\ [][DashboardNext]_dashboardVars

-----------------------------------------------------------------------------
(* Properties.                                                             *)

ShownTypeOK ==
    /\ rows \in [Pages -> [LoanIds -> Rows]]
    /\ interestEarned \in [Pages -> Nat]
    /\ load \in [Loads -> Polls]

RepaysTypeOK ==
    /\ repaying \in [Clicks -> Repayments]
    /\ repayingLoanId \in [Pages -> LoanIds \cup {0}]

OffersTypeOK ==
    /\ session \in [Pages -> Offers \cup {NoOffer}]
    /\ negotiationStarted \in [Pages -> BOOLEAN]
    /\ accept \in [Pages -> Acceptances]
    /\ approved \in [Pages -> Nat]

\* The pool, the pages and whatever is under way hold values of their types.
DashboardTypeOK == TypeOK /\ ShownTypeOK /\ RepaysTypeOK /\ OffersTypeOK

\* What a loan takes from its borrower in all: a closed one what it took, another
\* what it owes at the index the pool stores.
Debt(ln) ==
    IF ln.status = "Repaid" THEN ln.repaid_amount
    ELSE TotalOwed(ln, pool[ThePool].interest_index)

Covered(row, ln) ==
    row.status = "Active" /\ row.outstanding > 0 =>
        row.outstanding + row.repaid <= Debt(ln) + ROUNDING

\* However the index, the loans and the answers of several polls are mixed, what
\* a page shows as outstanding and as repaid of a loan it shows open together
\* never passes the loan's debt, whether the loan is still open or closed by
\* now: a page asks for nothing but payments it has not seen (mcpServer.js:451,
\* useCredAgent.ts:660).
EstimateCovered ==
    \A b \in Pages, id \in LoanIds : Covered(rows[b][id], loan[ThePool][id])

\* What a page is paying for a loan, computed from a row that may be old, rounded
\* on the server and rounded up again by the page, is never more than the whole
\* debt of the loan and the two roundings, although the loan may be repaid by
\* another click or by others, and closed, meanwhile (useCredAgent.ts:660-661).
PaymentWithinDebt ==
    \A c \in Clicks :
        repaying[c].at = "sent" =>
            repaying[c].amount <= Debt(loan[ThePool][repaying[c].id]) + 2 * ROUNDING

IsPastOf(row, ln) ==
    row.status # "None" =>
        /\ ln.status # "None"
        /\ row.borrower = ln.borrower
        /\ row.repaid <= ln.repaid_amount
        /\ row.status # "Active" => row.status = ln.status

\* A page shows the past and never what did not happen: its loans exist and have
\* repaid at least as much, those it shows repaid or defaulted are so, and the
\* pool has earned the interest it shows.  An older answer may take back what a
\* newer one has shown (useCredAgent.ts:438, mcpServer.js:442).
ShownIsPast ==
    \A b \in Pages :
        /\ \A id \in LoanIds : IsPastOf(rows[b][id], loan[ThePool][id])
        /\ interestEarned[b] <= pool[ThePool].total_interest_earned

\* When the page asks the borrower for the autopay, and says the loan started,
\* the chain holds a loan of his under that id, of the principal the server
\* carried out, with its schedule; and he has approved nothing without a
\* scheduled loan (useCredAgent.ts:849, App.tsx:210).
StartedIsReal ==
    \A b \in Pages :
        /\ accept[b].at = "approve" =>
              LET ln == loan[ThePool][accept[b].id]
              IN /\ ln.status # "None" /\ ln.borrower = b
                 /\ ln.principal = accept[b].made.principal
                 /\ ln.has_schedule
        /\ approved[b] > 0 =>
              \E id \in LoanIds :
                 loan[ThePool][id].borrower = b /\ loan[ThePool][id].has_schedule

=============================================================================
