----------------------------- MODULE MCDashboard -----------------------------
(***************************************************************************)
(* An instance of Dashboard for TLC over one pool with two borrowers, one  *)
(* of whom has a page open: the books it shows, the repayments it sends    *)
(* and the offers it takes.                                                *)
(***************************************************************************)
EXTENDS Dashboard, FiniteSets, TLC

CONSTANTS p1, b1, b2, m1, l1, l2, c1, c2, nooffer

OneMint == [p \in Pools |-> m1]

MCScores == {[risk_tier |-> 1, expires_at |-> MaxTime + 1]}

\* Two offers, of a loan of 2 and of a loan of 4, with one installment each.
MCOffers ==
    {[principal |-> a, rate |-> 3, days |-> 1, pledge |-> 6, count |-> 1,
      interval |-> 1, autopay |-> a + 1] : a \in {2, 4}}

\* Polls are alike, and so are clicks: nothing chooses among them.
Alike == Permutations(Loads) \cup Permutations(Clicks)

\* The three parts of a page read nothing of each other: its figures, its book
\* with the repayments, and the offers.  They meet on the chain, where Elsewhere
\* does on its own all that the other parts do.
FiguresAtRest ==
    \A b \in Pages, l \in Loads : interestEarned[b] = 0 /\ load[l].at # "pool"

BookAtRest ==
    /\ rows = [b \in Pages |-> NoRows]
    /\ \A l \in Loads : load[l].at # "book"
    /\ \A c \in Clicks : repaying[c].at = "idle"

OffersAtRest ==
    \A b \in Pages : session[b] = NoOffer /\ ~negotiationStarted[b] /\ accept[b].at = "idle"

\* Bound of the book and the figures: two polls or clicks under way, and loans of
\* 4, without a schedule, of the borrower whose page it is.
TwoAtOnce ==
    Cardinality({l \in Loads : load[l].at # "idle"}
                \cup {c \in Clicks : repaying[c].at # "idle"}) <= 2

LoansOfThePage ==
    \A id \in LoanIds :
        /\ loan[ThePool][id].status # "None" =>
              loan[ThePool][id].borrower \in Pages /\ loan[ThePool][id].principal = 4
        /\ escrow[id].status # "None" => escrow[id].borrower \in Pages
        /\ ~schedule[id].exists

\* Bound of the offers: two clock readings, and at the second no loan that
\* somebody has paid on or that has ended.
NoPaymentsLate ==
    now = 0 \/ \A id \in LoanIds :
                  loan[ThePool][id].status \in {"None", "Active"}
                  /\ loan[ThePool][id].repaid_amount = 0


OnePartAtATime ==
    \/ OffersAtRest /\ (FiguresAtRest \/ BookAtRest) /\ TwoAtOnce /\ LoansOfThePage
    \/ FiguresAtRest /\ BookAtRest /\ now <= 1 /\ NoPaymentsLate

=============================================================================
