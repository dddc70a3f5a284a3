----------------------------- MODULE CredAgent -----------------------------
(***************************************************************************)
(* The three programs together.  lending_pool reads the borrower's         *)
(* credit_score account (gate 1) and calls agent_permissions in the        *)
(* transaction that disburses a loan (gate 4), so that the disbursement    *)
(* and the spending it is charged to are one step.  Every other            *)
(* instruction touches the accounts of one program only: lending_pool      *)
(* reads perm_state nowhere else.                                          *)
(***************************************************************************)
EXTENDS LendingPool

CONSTANTS
    Wallets, Admins, NoKey, Candidates, GivenRoles, GivenTiers, Limits,
    Losses, DepositLevels, U16_RANGE, ROTATION_DELAY_SECS, CIRCUIT_BREAKER_LOSS_BPS

CONSTANTS
    Oracles, Keys, NoDid, Dids, MAX_U16, MAX_COUNT, GivenScores, GivenConfidences,
    GivenPeriods, LoanAmounts, MIN_VALIDITY_SECS, MAX_VALIDITY_SECS, MIN_SCORE,
    MAX_SCORE, AAA_THRESHOLD, AA_THRESHOLD, A_THRESHOLD, BB_THRESHOLD

VARIABLES perm, agent, spent, granted, announced

VARIABLES oracle, authority, credit_score, history, did

Perm == INSTANCE AgentPermissions WITH
    Amounts <- Principals,
    SECONDS_PER_DAY <- DAY,
    BPS <- BPS_DENOMINATOR

Oracle == INSTANCE CreditScoreOracle WITH Scored <- Borrowers

\* Any score of the oracle may reach gate 1.
ASSUME ScoresAssumption ==
    Scores = [risk_tier : 0..4, expires_at : 0..(MaxTime + MAX_VALIDITY_SECS)]

ASSUME OracleConstantsAssumption == Oracle!OracleAssumption

poolVars == <<pool, vault, loan, escrow, schedule>>
permVars == <<perm, agent, spent, granted, announced>>
oracleVars == <<oracle, authority, credit_score, history, did>>
systemVars == <<now, poolVars, permVars, oracleVars>>

SystemInit == Init /\ Perm!Init /\ Oracle!Init

SystemTick == Tick /\ UNCHANGED <<permVars, oracleVars>>

\* Gate 1 reads the account at the borrower's address, which has to exist.
ScoreOf(b) ==
    [risk_tier |-> credit_score[b].risk_tier,
     expires_at |-> credit_score[b].expires_at]

\* Variant of DisburseAs: the agent is authorised but not charged.
DisburseUncharged(w, p, id, b, principal, rate, days) ==
    /\ credit_score[b].exists
    /\ ConditionalDisburse(p, id, b, ScoreOf(b), principal, rate, days)
    /\ Perm!CheckPermissionAndSpend(w, "Lending", Perm!Manage, 0)
    /\ UNCHANGED oracleVars

\* Gate 4: the signing agent must be a lending agent of tier Manage and the
\* principal must fit its daily limit.
DisburseAs(w, p, id, b, principal, rate, days) ==
    /\ credit_score[b].exists
    /\ ConditionalDisburse(p, id, b, ScoreOf(b), principal, rate, days)
    /\ Perm!CheckPermissionAndSpend(w, "Lending", Perm!Manage, principal)
    /\ UNCHANGED oracleVars

LendAs(w, p) ==
    \E id \in LoanIds, b \in Borrowers,
       a \in Principals, rate \in Rates, days \in Durations :
       DisburseAs(w, p, id, b, a, rate, days)

PoolStep(p) == Service(p) /\ UNCHANGED <<permVars, oracleVars>>

PermStep == (Perm!AdminStep \/ Perm!AgentStep) /\ UNCHANGED <<poolVars, oracleVars>>

OracleStep == Oracle!OracleStep /\ UNCHANGED <<poolVars, permVars>>

SystemNext ==
    \/ SystemTick
    \/ \E w \in Wallets, p \in Pools : LendAs(w, p)
    \/ \E p \in Pools : PoolStep(p)
    \/ PermStep
    \/ OracleStep

SystemSpec == SystemInit /\ [][SystemNext]_systemVars

-----------------------------------------------------------------------------
(* Properties.                                                             *)

\* Put together the programs are still a pool and still a permission system:
\* what is true of each alone is true of both.
ImplementsPool == Spec
ImplementsPermissions == Perm!Spec
ImplementsOracle == Oracle!Spec

PrincipalsIssued(p) ==
    SumFunctionOnSet([id \in LoanIds |-> loan[p][id].principal],
                     LoanIds \ LoansIn(p, "None"))

\* Every principal a pool ever lent was charged to some agent's daily limit in
\* the step that lent it (README.md:119, "agent authorization atomically").
LendingIsCharged ==
    SumFunction([p \in Pools |-> PrincipalsIssued(p)])
       <= SumFunction([w \in Wallets |-> SumFunction(spent[w])])

\* While the system is paused, by the admin or by the breaker, no pool issues
\* a loan.
PauseStopsLending ==
    [][perm.is_paused =>
          \A p \in Pools : pool'[p].total_loans_issued = pool[p].total_loans_issued
      ]_systemVars

\* Every loan rests on a score of its borrower published less than the greatest
\* validity period ago, however scores are overwritten, roles revoked and the
\* period changed meanwhile; and who scored below BB gets a starter loan at most
\* (conditional_disburse.rs, gate 1).
LoansRestOnScores ==
    [][\A p \in Pools, id \in LoanIds :
          loan[p][id].status = "None" /\ loan'[p][id].status # "None" =>
              LET cs == credit_score[loan'[p][id].borrower]
              IN /\ cs.exists
                 /\ now < cs.timestamp + MAX_VALIDITY_SECS
                 /\ cs.score < BB_THRESHOLD =>
                       loan'[p][id].principal <= STARTER_MAX_PRINCIPAL]_systemVars

\* The accounts of the oracle keep their promises beside the two programs: each
\* score lives an allowed period from the time it was published and carries the
\* tier of that very score, which is the tier gate 1 reads (update_score.rs).
ScoreLifetime == Oracle!ScoreLifetime

\* An oracle whose role was revoked neither gets it back nor publishes again: no
\* later loan rests on a new score of his (admin.rs:48, handler_revoke).
RevocationIsFinal ==
    [][\A o \in Oracles :
          authority[o].exists /\ ~authority[o].is_active =>
              /\ authority'[o] = authority[o]
              /\ \A b \in Borrowers :
                    credit_score'[b].oracle_agent = o =>
                        credit_score'[b] = credit_score[b]]_systemVars

\* While the oracle is paused no score and no history changes, whoever signs
\* and whatever the other programs do (record_loan_event.rs:32).
PausedIsFrozen ==
    [][oracle.is_paused => UNCHANGED <<credit_score, history>>]_systemVars

=============================================================================
