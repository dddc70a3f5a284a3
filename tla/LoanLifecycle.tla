--------------------------- MODULE LoanLifecycle ---------------------------
(***************************************************************************)
(* What one pool promises about a loan id and the collateral pledged under *)
(* it, without money or time: an id is used once, in increasing order, it  *)
(* is funded only while the collateral pledged under it is held, and the   *)
(* collateral ends with whoever the loan's outcome names, exactly once.    *)
(* An id may also be skipped, with or without collateral pledged under it: *)
(* such collateral is never returned.                                      *)
(***************************************************************************)
EXTENDS Integers

CONSTANT MaxLoanId    \* loan ids are 1..MaxLoanId

Ids == 1..MaxLoanId

VARIABLES
    stage,    \* where each id stands
    cursor    \* the next id a loan can take

vars == <<stage, cursor>>

Stages ==
    {"vacant", "pledged", "funded", "repaid", "defaulted", "returned", "seized"}

Init ==
    /\ stage = [id \in Ids |-> "vacant"]
    /\ cursor = 1

Advance(id, from, to) ==
    /\ stage[id] = from
    /\ stage' = [stage EXCEPT ![id] = to]

Pledge(id) ==
    /\ id = cursor
    /\ Advance(id, "vacant", "pledged")
    /\ UNCHANGED cursor

Fund(id) ==
    /\ id = cursor
    /\ Advance(id, "pledged", "funded")
    /\ cursor' = cursor + 1

Skip ==
    /\ cursor' \in cursor..(MaxLoanId + 1)
    /\ UNCHANGED stage

Repay(id) == Advance(id, "funded", "repaid") /\ UNCHANGED cursor

Default(id) == Advance(id, "funded", "defaulted") /\ UNCHANGED cursor

Return(id) == Advance(id, "repaid", "returned") /\ UNCHANGED cursor

Seize(id) == Advance(id, "defaulted", "seized") /\ UNCHANGED cursor

Next ==
    \/ Skip
    \/ \E id \in Ids :
          \/ Pledge(id) \/ Fund(id) \/ Repay(id)
          \/ Default(id) \/ Return(id) \/ Seize(id)

Spec == Init /\ [][Next]_vars

=============================================================================
