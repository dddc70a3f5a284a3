-------------------------- MODULE CreditScoreOracle --------------------------
(***************************************************************************)
(* The credit_score_oracle program (programs/credit_score_oracle/src): who *)
(* may publish scores, the scores and how long they live, and the loan     *)
(* histories of the borrowers.  An instruction is one atomic step; a       *)
(* failed require!, constraint or checked_* reverts it.  An instruction    *)
(* only the admin may sign is a step of whoever holds that key.            *)
(*                                                                         *)
(* Left out, because no instruction of any program reads them: the hashes  *)
(* and the confidence stored with a score, who granted a role and when,    *)
(* the dates of a history and the time of a DID registration.  Every path  *)
(* of batch_update_scores ends in an error: it is no step.                 *)
(***************************************************************************)
EXTENDS Integers

CONSTANTS
    Oracles,        \* wallets the admin grants the oracle role to
    Scored,         \* wallets that are scored
    Keys,           \* keys that may hold the history authority
    NoKey,          \* Pubkey::default()
    NoDid,          \* stands for a wallet without a DID mapping
    Dids,           \* DID hashes
    MaxTime,        \* bound: the last clock reading explored
    MAX_U16, MAX_U64,
    MAX_COUNT,      \* bound: the scores explored (the program counts in a u64)
    GivenScores,    \* scores oracle agents push
    GivenConfidences, \* confidences they push them with
    GivenPeriods,   \* validity periods the admin sets
    LoanAmounts     \* amounts the history authority records

\* The program's constants (state.rs); the periods are scaled by the model.
CONSTANTS
    MIN_VALIDITY_SECS, MAX_VALIDITY_SECS, MIN_SCORE, MAX_SCORE,
    AAA_THRESHOLD, AA_THRESHOLD, A_THRESHOLD, BB_THRESHOLD

ASSUME OracleAssumption ==
    /\ NoKey \notin Keys /\ Keys # {} /\ NoKey \notin Oracles
    /\ NoKey \notin Scored    \* update_score refuses to score it
    /\ NoDid \notin Dids
    /\ MaxTime \in Nat /\ MAX_U16 \in Nat /\ MAX_U64 \in Nat
    /\ MAX_COUNT \in Nat
    /\ GivenScores \subseteq Nat /\ GivenConfidences \subseteq Nat
    /\ GivenPeriods \subseteq Nat /\ LoanAmounts \subseteq Nat
    /\ MIN_VALIDITY_SECS \in Nat \ {0} /\ MAX_VALIDITY_SECS \in Nat
    /\ MIN_VALIDITY_SECS <= MAX_VALIDITY_SECS
    /\ MIN_SCORE \in Nat /\ MAX_SCORE \in Nat
    /\ AAA_THRESHOLD \in Nat /\ AA_THRESHOLD \in Nat
    /\ A_THRESHOLD \in Nat /\ BB_THRESHOLD \in Nat
    /\ BB_THRESHOLD <= A_THRESHOLD /\ A_THRESHOLD <= AA_THRESHOLD
    /\ AA_THRESHOLD <= AAA_THRESHOLD

VARIABLES
    now,            \* Clock::get().unix_timestamp
    oracle,         \* the oracle_state account
    authority,      \* oracle_authority accounts, by wallet
    credit_score,   \* credit_score accounts, by borrower
    history,        \* credit_history accounts, by borrower
    did             \* DID mappings, by wallet

oracleVars == <<oracle, authority, credit_score, history, did>>
vars == <<now, oracleVars>>

Periods == MIN_VALIDITY_SECS..MAX_VALIDITY_SECS

OracleStates ==
    [history_authority : Keys, score_validity_secs : Periods,
     is_paused : BOOLEAN, total_scores_issued : Nat]

OracleAuthorities ==
    [exists : BOOLEAN, is_active : BOOLEAN, scores_pushed : Nat]

CreditScores ==
    [exists : BOOLEAN, score : Nat, risk_tier : 0..4, timestamp : Nat,
     expires_at : Nat, oracle_agent : Oracles \cup {NoKey}]

CreditHistories ==
    [borrower : Scored \cup {NoKey}, total_loans : Nat, repaid_loans : Nat,
     defaulted_loans : Nat, total_borrowed : Nat, total_repaid : Nat]

Init ==
    /\ now = 0
    /\ \E key \in Keys, period \in Periods : oracle =
          [history_authority |-> key, score_validity_secs |-> period,
           is_paused |-> FALSE, total_scores_issued |-> 0]
    /\ authority = [o \in Oracles |->
          [exists |-> FALSE, is_active |-> FALSE, scores_pushed |-> 0]]
    /\ credit_score = [b \in Scored |->
          [exists |-> FALSE, score |-> 0, risk_tier |-> 0, timestamp |-> 0,
           expires_at |-> 0, oracle_agent |-> NoKey]]
    /\ history = [b \in Scored |->
          [borrower |-> NoKey, total_loans |-> 0, repaid_loans |-> 0,
           defaulted_loans |-> 0, total_borrowed |-> 0, total_repaid |-> 0]]
    /\ did = [b \in Scored |-> NoDid]

Tick ==
    /\ now < MaxTime
    /\ now' = now + 1
    /\ UNCHANGED oracleVars

-----------------------------------------------------------------------------
(* Roles and scores.                                                       *)

\* Variant of GrantOracleRole: an existing account is initialised again.
GrantAgain(o) ==
    /\ authority' = [authority EXCEPT ![o] =
          [exists |-> TRUE, is_active |-> TRUE, scores_pushed |-> 0]]
    /\ UNCHANGED <<now, oracle, credit_score, history, did>>

\* The account is created once: a revoked role cannot be granted again.
GrantOracleRole(o) ==
    /\ ~authority[o].exists
    /\ authority' = [authority EXCEPT ![o] =
          [exists |-> TRUE, is_active |-> TRUE, scores_pushed |-> 0]]
    /\ UNCHANGED <<now, oracle, credit_score, history, did>>

RevokeOracleRole(o) ==
    /\ authority[o].exists
    /\ authority' = [authority EXCEPT ![o].is_active = FALSE]
    /\ UNCHANGED <<now, oracle, credit_score, history, did>>

CalculateRiskTier(score) ==
    CASE score >= AAA_THRESHOLD -> 4
      [] score < AAA_THRESHOLD /\ score >= AA_THRESHOLD -> 3
      [] score < AA_THRESHOLD /\ score >= A_THRESHOLD -> 2
      [] score < A_THRESHOLD /\ score >= BB_THRESHOLD -> 1
      [] OTHER -> 0

\* Variant of UpdateScore: a borrower scored again keeps his first tier.
UpdateKeepingTier(o, b, score, confidence) ==
    /\ ~oracle.is_paused
    /\ authority[o].exists /\ authority[o].is_active
    /\ score \in MIN_SCORE..MAX_SCORE
    /\ credit_score' = [credit_score EXCEPT ![b] =
          [exists |-> TRUE, score |-> score,
           risk_tier |-> IF @.exists THEN @.risk_tier ELSE CalculateRiskTier(score),
           timestamp |-> now, expires_at |-> now + oracle.score_validity_secs,
           oracle_agent |-> o]]
    /\ UNCHANGED <<now, oracle, authority, history, did>>

UpdateScore(o, b, score, confidence) ==
    /\ ~oracle.is_paused
    /\ authority[o].exists /\ authority[o].is_active
    /\ score \in MIN_SCORE..MAX_SCORE
    /\ confidence <= 100
    /\ authority[o].scores_pushed < MAX_COUNT
    /\ oracle.total_scores_issued < MAX_COUNT
    /\ credit_score' = [credit_score EXCEPT ![b] =
          [exists |-> TRUE, score |-> score,
           risk_tier |-> CalculateRiskTier(score), timestamp |-> now,
           expires_at |-> now + oracle.score_validity_secs, oracle_agent |-> o]]
    /\ authority' = [authority EXCEPT ![o].scores_pushed = @ + 1]
    /\ oracle' = [oracle EXCEPT !.total_scores_issued = @ + 1]
    /\ UNCHANGED <<now, history, did>>

-----------------------------------------------------------------------------
(* Histories: signed by the history authority, which is not an oracle.     *)

MayRecord(key) ==
    /\ ~oracle.is_paused
    /\ key = oracle.history_authority

RecordLoanIssued(key, b, amount) ==
    /\ MayRecord(key)
    /\ history[b].total_loans < MAX_U16
    /\ history[b].total_borrowed + amount <= MAX_U64
    /\ history' = [history EXCEPT ![b].borrower = b,
                                  ![b].total_loans = @ + 1,
                                  ![b].total_borrowed = @ + amount]
    /\ UNCHANGED <<now, oracle, authority, credit_score, did>>

\* Variant of RecordLoanRepaid: the pause is not looked at.
RecordRepaidWhilePaused(key, b, amount) ==
    /\ key = oracle.history_authority
    /\ history' = [history EXCEPT ![b].repaid_loans = @ + 1,
                                  ![b].total_repaid = @ + amount]
    /\ UNCHANGED <<now, oracle, authority, credit_score, did>>

RecordLoanRepaid(key, b, amount) ==
    /\ MayRecord(key)
    /\ history[b].repaid_loans < MAX_U16
    /\ history[b].total_repaid + amount <= MAX_U64
    /\ history' = [history EXCEPT ![b].repaid_loans = @ + 1,
                                  ![b].total_repaid = @ + amount]
    /\ UNCHANGED <<now, oracle, authority, credit_score, did>>

RecordLoanDefaulted(key, b) ==
    /\ MayRecord(key)
    /\ history[b].defaulted_loans < MAX_U16
    /\ history' = [history EXCEPT ![b].defaulted_loans = @ + 1]
    /\ UNCHANGED <<now, oracle, authority, credit_score, did>>

-----------------------------------------------------------------------------
(* Administration.                                                         *)

RegisterDid(b, d) ==
    /\ did[b] = NoDid
    /\ did' = [did EXCEPT ![b] = d]
    /\ UNCHANGED <<now, oracle, authority, credit_score, history>>

SetPaused(paused) ==
    /\ oracle' = [oracle EXCEPT !.is_paused = paused]
    /\ UNCHANGED <<now, authority, credit_score, history, did>>

Pause == SetPaused(TRUE)

Unpause == SetPaused(FALSE)

SetValidityPeriod(period) ==
    /\ period \in Periods
    /\ oracle' = [oracle EXCEPT !.score_validity_secs = period]
    /\ UNCHANGED <<now, authority, credit_score, history, did>>

SetHistoryAuthority(key) ==
    /\ key # NoKey
    /\ oracle' = [oracle EXCEPT !.history_authority = key]
    /\ UNCHANGED <<now, authority, credit_score, history, did>>

-----------------------------------------------------------------------------

OracleStep ==
    \/ \E o \in Oracles : GrantOracleRole(o) \/ RevokeOracleRole(o)
    \/ \E o \in Oracles, b \in Scored, score \in GivenScores, c \in GivenConfidences :
          UpdateScore(o, b, score, c)
    \/ \E key \in Keys, b \in Scored, amount \in LoanAmounts :
          RecordLoanIssued(key, b, amount) \/ RecordLoanRepaid(key, b, amount)
    \/ \E key \in Keys, b \in Scored : RecordLoanDefaulted(key, b)
    \/ \E b \in Scored, d \in Dids : RegisterDid(b, d)
    \/ Pause
    \/ Unpause
    \/ \E period \in GivenPeriods : SetValidityPeriod(period)
    \/ \E key \in Keys : SetHistoryAuthority(key)

Next == Tick \/ OracleStep

Spec == Init /\ [][Next]_vars

-----------------------------------------------------------------------------
(* Properties.                                                             *)

\* The accounts are well typed: every validity period is one the program
\* allows, through initialize and every later change.
TypeOK ==
    /\ now \in Nat
    /\ oracle \in OracleStates
    /\ authority \in [Oracles -> OracleAuthorities]
    /\ credit_score \in [Scored -> CreditScores]
    /\ history \in [Scored -> CreditHistories]
    /\ did \in [Scored -> Dids \cup {NoDid}]

\* However the validity period is changed and a borrower scored again, each
\* score lives between the least and the greatest period from the time it was
\* published, and carries the tier of that very score.
ScoreLifetime ==
    \A b \in Scored :
        LET cs == credit_score[b]
        IN cs.exists =>
             /\ cs.timestamp <= now
             /\ cs.expires_at \in {cs.timestamp + period : period \in Periods}
             /\ cs.risk_tier = CalculateRiskTier(cs.score)

\* Revocation is final: an oracle whose role was revoked never gets it back and
\* never publishes again, since the role's account is created only once and
\* update_score asks for an active one.
RevocationIsFinal ==
    [][\A o \in Oracles :
          authority[o].exists /\ ~authority[o].is_active =>
              /\ authority'[o] = authority[o]
              /\ \A b \in Scored :
                    credit_score'[b].oracle_agent = o =>
                        credit_score'[b] = credit_score[b]]_vars

\* While the oracle is paused no score and no history changes, whoever signs.
PausedIsFrozen ==
    [][oracle.is_paused => UNCHANGED <<credit_score, history>>]_vars

=============================================================================
