-------------------------- MODULE MCLoanOrigination --------------------------
(***************************************************************************)
(* An instance of LoanOrigination for TLC: one borrower the service signs  *)
(* for and one with a wallet of his own.  The chain prices the collateral  *)
(* at four times MOCK_XAUT_PRICE_USD: at the same price the agent's lock,  *)
(* at most 80% of the principal, never meets the 150% the chain asks for.  *)
(***************************************************************************)
EXTENDS LoanOrigination, TLC

CONSTANTS b1, b2, r1, r2, noone

MCScores == {[tier |-> 3, starter |-> FALSE]}

MCStarter == [maxLoan |-> 100, maxLtv |-> 2000, baseRate |-> 1800, maxDuration |-> 14]

\* A borrower who asks for more of everything at once.
MCCounters ==
    {[principal |-> 9000, rate |-> 1, duration |-> 999, ltv |-> 9000]}

\* Requests are alike: none is named in the specification.
Alike == Permutations({r1, r2})

=============================================================================
