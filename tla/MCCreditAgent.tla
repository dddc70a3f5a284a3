---------------------------- MODULE MCCreditAgent ----------------------------
(***************************************************************************)
(* An instance of CreditAgent for TLC: one borrower, whose wallet is new   *)
(* and unused or busy, and two overlapping calls; a unit of time is half   *)
(* the shortest cache.                                                     *)
(***************************************************************************)
EXTENDS CreditAgent, TLC

CONSTANTS o1, b1, k1, nokey, nodid, c1, c2

MCNew ==
    [transactions |-> 1, volume |-> 0, age |-> 3, programs |-> 0, governance |-> 0,
     bridges |-> 0, lendingNames |-> 0, tokens |-> 0, nfts |-> 0, balance |-> 20,
     stability |-> 0, history |-> [found |-> FALSE]]

MCBusy ==
    [transactions |-> 120, volume |-> 2220, age |-> 800, programs |-> 6, governance |-> 1,
     bridges |-> 1, lendingNames |-> 1, tokens |-> 15, nfts |-> 0, balance |-> 4000,
     stability |-> 10000,
     history |-> [found |-> TRUE, total_loans |-> 4, repaid_loans |-> 0,
                  defaulted_loans |-> 4, total_borrowed |-> 900, total_repaid |-> 0,
                  age |-> 90]]

CallSymmetry == Permutations(Calls)

MCEvidence == {MCNew, MCBusy}

MCDemoFeatures == [b \in Scored |-> Heuristics(MCBusy)]

=============================================================================
