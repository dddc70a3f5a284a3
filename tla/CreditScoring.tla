--------------------------- MODULE CreditScoring ---------------------------
(***************************************************************************)
(* The pure part of the ML API: how the features of a wallet follow from   *)
(* what the RPC shows of it (ml-api/features.py), and the score, the tier  *)
(* and the terms from the features (ml-api/scoring.py).                    *)
(*                                                                         *)
(* Ratios count in UNIT, money in dollars, and a division is cut down where*)
(* the code rounds floats: a score may differ from the code's by a point.  *)
(* Features that only the classifier reads are left out, with the          *)
(* classifier: its probability of default is a parameter, in UNIT.         *)
(***************************************************************************)
EXTENDS Integers, FiniteSets

UNIT == 10000

Least(x, y) == IF x < y THEN x ELSE y
Greatest(x, y) == IF x > y THEN x ELSE y
Clamp(low, high, x) == Greatest(low, Least(high, x))
Share(x, y) == Least(UNIT, (x * UNIT) \div y)    \* min(x / y, 1.0)

\* FEATURE_SCHEMA: the greatest value of each feature; the least is 0.
FEATURE_MAX ==
    [tx_count_90d |-> 100000, wallet_age_days |-> 10000, defi_protocols_used |-> 100,
     total_borrowed_usd |-> 1000000000, total_repaid_usd |-> 1000000000,
     liquidation_count |-> 1000, token_diversity |-> 500,
     avg_balance_30d_usd |-> 1000000000, payment_regularity |-> UNIT,
     governance_votes |-> 10000, nft_attestations |-> 100, cross_chain_activity |-> 50]

ValidateFeatures(f) == [name \in DOMAIN FEATURE_MAX |-> Clamp(0, FEATURE_MAX[name], f[name])]

-----------------------------------------------------------------------------
(* Features from evidence.  Evidence is what the RPC shows of a wallet: its *)
(* recent transactions and their volume in dollars, its age, the programs  *)
(* it used and how many have a governance, a bridge or a lending name, its  *)
(* tokens, its balance, and how steady the gaps between the transactions    *)
(* are (stability), if there are three of them.                             *)

LendingSignal(e) == Share(e.programs, 6)

LiquidationCount(e) == Least(5, e.lendingNames \div 2)

BorrowedEstimate(e) ==
    IF e.programs = 0 THEN 0
    ELSE (e.volume * (1000 + (LendingSignal(e) * 35) \div 100)) \div UNIT

RepaidEstimate(e) ==
    (BorrowedEstimate(e)
       * Clamp(0, UNIT, 2000 + (LendingSignal(e) * 45) \div 100 - LiquidationCount(e) * 1000))
    \div UNIT

RegularityScore(e) ==
    LET borrowed == BorrowedEstimate(e)
        repaid == RepaidEstimate(e)
    IN  IF borrowed <= 0 THEN 0
        ELSE IF e.transactions < 3 THEN (IF repaid > 0 THEN 2000 ELSE 500)
        ELSE (e.stability + Share(repaid, Greatest(borrowed, 1))) \div 2

AverageBalance(e) ==
    (e.balance * 7) \div 10 + Least(e.volume \div 30, e.balance \div 2 + 250)

Heuristics(e) ==
    [tx_count_90d |-> e.transactions, wallet_age_days |-> e.age,
     defi_protocols_used |-> e.programs,
     total_borrowed_usd |-> BorrowedEstimate(e), total_repaid_usd |-> RepaidEstimate(e),
     liquidation_count |-> LiquidationCount(e), token_diversity |-> e.tokens,
     avg_balance_30d_usd |-> AverageBalance(e), payment_regularity |-> RegularityScore(e),
     governance_votes |-> e.governance, nft_attestations |-> e.nfts,
     cross_chain_activity |-> Least(5, e.bridges)]

\* _fetch_credit_history asks for the borrower's credit_history account and
\* returns None whatever it is told: what decodes the answer stands after the
\* return of the next function.
NoHistory == [found |-> FALSE]
FetchCreditHistory(account) == NoHistory

\* A history that is found outweighs the heuristics.
WithHistory(f, h) ==
    IF ~h.found THEN f
    ELSE LET g == [f EXCEPT !.total_borrowed_usd = Greatest(@, h.total_borrowed),
                            !.total_repaid_usd = Greatest(@, h.total_repaid),
                            !.liquidation_count = Greatest(@, h.defaulted_loans),
                            !.wallet_age_days = Greatest(@, h.age)]
         IN  IF h.total_loans = 0 THEN g
             ELSE [g EXCEPT !.payment_regularity =
                                Greatest(@, Share(h.repaid_loans, h.total_loans)),
                            !.defi_protocols_used = Greatest(@, 1)]

ExtractFeatures(e) ==
    ValidateFeatures(WithHistory(Heuristics(e), FetchCreditHistory(e.history)))

-----------------------------------------------------------------------------
(* The five components, each in 0..UNIT.                                    *)

PaymentHistory(f) ==
    IF f.total_borrowed_usd <= 0
    THEN Least(3500, (Share(f.tx_count_90d, 150) * 15 + Share(f.wallet_age_days, 365) * 10
                        + Share(f.defi_protocols_used, 4) * 10) \div 100)
    ELSE (Share(f.total_repaid_usd, f.total_borrowed_usd) * 5 + f.payment_regularity * 3
            + Greatest(0, UNIT - f.liquidation_count * 2000) * 2) \div 10

CreditUtilization(f) ==
    LET outstanding == Greatest(0, f.total_borrowed_usd - f.total_repaid_usd)
    IN  IF f.avg_balance_30d_usd <= 0 THEN 1000
        ELSE Greatest(0, UNIT - (outstanding * UNIT) \div (2 * f.avg_balance_30d_usd))

HistoryLength(f) ==
    LET age == f.wallet_age_days
    IN  CASE age < 30 -> 1000
          [] age >= 30 /\ age < 90 -> 3000
          [] age >= 90 /\ age < 365 -> 6000
          [] age >= 365 /\ age < 730 -> 8000
          [] OTHER -> UNIT

ProtocolDiversity(f) ==
    (Share(f.defi_protocols_used, 10) * 2 + Share(f.governance_votes, 5)
       + Share(f.token_diversity, 15)) \div 4

\* log10(1 + x), to the next lower whole power.
Log10(x) == Cardinality({p \in 1..9 : 10^p <= 1 + x}) * UNIT

NewCredit(f) ==
    LET borrowed == f.total_borrowed_usd
        signal == IF borrowed > 0 THEN Least(UNIT, Log10(borrowed) \div 3) ELSE 0
        repayment == IF borrowed > 0 THEN Share(f.total_repaid_usd, borrowed) ELSE 0
    IN  (Share(f.tx_count_90d, 100) * 25 + signal * 35 + repayment * 20
           + Share(f.defi_protocols_used, 4) * 10 + Share(f.cross_chain_activity, 5) * 5
           + Share(f.nft_attestations, 3) * 5) \div 100

ScoreOf(f, pd) ==
    LET raw == (PaymentHistory(f) * 35 + CreditUtilization(f) * 30 + HistoryLength(f) * 15
                  + ProtocolDiversity(f) * 10 + NewCredit(f) * 10) \div 100
    IN  Clamp(300, 850, 300 + (raw * 550) \div UNIT + ((1500 - pd) * 333) \div UNIT)

\* The features that say something, as a share of the fourteen there are.
Confidence(f) ==
    LET told == {name \in DOMAIN f : f[name] > 0}
    IN  Clamp(10, 100, (Cardinality(told) * 100) \div 14)

-----------------------------------------------------------------------------
(* Tiers and terms.                                                         *)

TIER_THRESHOLDS == <<450, 550, 650, 750>>

ClassifyRiskTier(score) ==
    Cardinality({i \in DOMAIN TIER_THRESHOLDS : score >= TIER_THRESHOLDS[i]})

NoTerms == [max_loan_usd |-> 0, max_duration_days |-> 0, rate_bps |-> 0]
TierTerms ==
    <<[max_loan_usd |-> 500, max_duration_days |-> 60, rate_bps |-> 1500],
      [max_loan_usd |-> 2000, max_duration_days |-> 90, rate_bps |-> 1000],
      [max_loan_usd |-> 5000, max_duration_days |-> 180, rate_bps |-> 650],
      [max_loan_usd |-> 10000, max_duration_days |-> 365, rate_bps |-> 400]>>
STARTER_TERMS == [max_loan_usd |-> 100, max_duration_days |-> 14, rate_bps |-> 1800]

IsStarterEligible(f, score, pd) ==
    /\ score < TIER_THRESHOLDS[1]
    /\ f.liquidation_count = 0
    /\ f.total_borrowed_usd = 0 /\ f.total_repaid_usd = 0
    /\ f.wallet_age_days <= 45 /\ f.tx_count_90d <= 5
    /\ pd < 9995
    /\ \/ f.wallet_age_days <= 7
       \/ f.tx_count_90d > 0 \/ f.defi_protocols_used > 0 \/ f.avg_balance_30d_usd > 0

ComputeCreditScore(f, pd) ==
    LET score == ScoreOf(f, pd)
        tier == ClassifyRiskTier(score)
    IN  [score |-> score, tier |-> tier, confidence |-> Confidence(f),
         terms |-> IF tier > 0 THEN TierTerms[tier]
                   ELSE IF IsStarterEligible(f, score, pd) THEN STARTER_TERMS ELSE NoTerms]

=============================================================================
