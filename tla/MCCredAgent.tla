---------------------------- MODULE MCCredAgent ----------------------------
(***************************************************************************)
(* Instances of CredAgent for TLC: one lending agent, one borrower, one    *)
(* pool; a day is one unit of time.                                        *)
(***************************************************************************)
EXTENDS CredAgent

CONSTANTS p1, b1, m1, w1, a1, nokey, o1, k1, nodid, d1

OneMint == [p \in Pools |-> m1]

EveryScore ==
    [risk_tier : 0..4, expires_at : 0..(MaxTime + MAX_VALIDITY_SECS)]

=============================================================================
