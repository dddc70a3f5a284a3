--------------------------- MODULE MCLendingPool ---------------------------
(***************************************************************************)
(* Instances of LendingPool for TLC.  One unit of time is a day and the    *)
(* scaled constants keep the ratios of the program's: utilisation capped   *)
(* at 8/10, collateral at 15/10 of the principal, base rate at 5/10.       *)
(***************************************************************************)
EXTENDS LendingPool

CONSTANTS p1, p2, b1, b2, m1

OneMint == [p \in Pools |-> m1]

\* A rated borrower whose score outlives the run, a tier C one and a score
\* that expires on the first day.
MCScores ==
    {[risk_tier |-> 1, expires_at |-> MaxTime + 1],
     [risk_tier |-> 0, expires_at |-> MaxTime + 1],
     [risk_tier |-> 1, expires_at |-> 1]}

=============================================================================
