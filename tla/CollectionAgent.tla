--------------------------- MODULE CollectionAgent ---------------------------
(***************************************************************************)
(* The collection agent (agent/src/collectionAgent.js): a table of the     *)
(* loans it collects, and polls that pull what is due, remind, and in the  *)
(* end have the loan defaulted and its escrow liquidated.  A poll awaits   *)
(* every tool it calls and nothing keeps a second poll, or a call of       *)
(* simulateDefaultLifecycle, from starting meanwhile: a poll is a process  *)
(* with a step per awaited call, and works with the time it began at.      *)
(* Registering a loan id again replaces its schedule, while a poll under   *)
(* way keeps the object it took: schedules are numbered, and the table     *)
(* maps a loan to one of them.                                             *)
(*                                                                         *)
(* Of the chain there is what the calls meet: whether a loan is active,    *)
(* whether its escrow is liquidated, and the instalments really pulled.    *)
(* pull_installment only builds an instruction (mcpBridge.js); mark_default*)
(* and liquidate_escrow send transactions, whose answer may be lost.       *)
(* A schedule of no instalments, which the branch at line 68 would         *)
(* complete, is never registered: TOTAL is positive.                       *)
(***************************************************************************)
EXTENDS Integers, Sequences, FiniteSets

CONSTANTS
    Loans,          \* loan ids that are handed to the agent
    Polls,          \* polls that may be under way at once
    MaxTime,        \* bound: the last clock reading explored
    MaxSchedules,   \* bound: registrations explored
    FIRST_DUE, INTERVAL,   \* when the first instalment is due, and the next
    TOTAL,          \* instalments of a loan
    GRACE_PERIOD,   \* GRACE_PERIOD_MS, the program's as well
    MAX_REMINDERS

ASSUME CollectionAssumption ==
    /\ IsFiniteSet(Polls) /\ Polls # {}
    /\ MaxTime \in Nat /\ MaxSchedules \in Nat
    /\ FIRST_DUE \in Nat /\ INTERVAL \in Nat \ {0} /\ TOTAL \in Nat \ {0}
    /\ GRACE_PERIOD \in Nat /\ MAX_REMINDERS \in Nat \ {0}

VARIABLES
    now,            \* Date.now(), and the chain's clock
    schedule,       \* the schedule objects, in the order they were registered
    table,          \* #schedules: the object a loan id maps to
    poll,           \* the polls under way
    chain           \* the loans on the chain

vars == <<now, schedule, table, poll, chain>>

None == 0
NoDeadline == -1
LastDue == FIRST_DUE + (TOTAL - 1) * INTERVAL

Statuses == {"ON_TRACK", "OVERDUE", "GRACE_PERIOD", "COMPLETE",
             "DEFAULT_PENDING", "DEFAULTED"}

\* What the agent keeps of a schedule; notices counts the notifications its
\* borrower was sent since it was registered, up to the last that matters.
Schedules ==
    [loan : Loans, status : Statuses, isActive : BOOLEAN,
     paidInstallments : Nat, nextDueDate : Nat,
     remindersSent : 0..MAX_REMINDERS + Cardinality(Polls) - 1,
     graceDeadline : Nat \cup {NoDeadline}, notices : 0..MAX_REMINDERS]

Stages == {"idle", "loop", "balance", "pull", "notify", "mark", "liquidate"}

Idle == [at |-> "idle", since |-> 0, visited |-> {}, s |-> None]

Init ==
    /\ now = 0
    /\ schedule = <<>>
    /\ table = [l \in Loans |-> None]
    /\ poll = [p \in Polls |-> Idle]
    /\ chain = [l \in Loans |->
          [status |-> "Active", pulled |-> 0, liquidated |-> FALSE]]

Tick ==
    /\ now < MaxTime
    /\ now' = now + 1
    /\ UNCHANGED <<schedule, table, poll, chain>>

RegisterSchedule(l) ==
    /\ Len(schedule) < MaxSchedules
    /\ schedule' = Append(schedule,
          [loan |-> l, status |-> "ON_TRACK", isActive |-> TRUE,
           paidInstallments |-> 0, nextDueDate |-> FIRST_DUE,
           remindersSent |-> 0, graceDeadline |-> NoDeadline, notices |-> 0])
    /\ table' = [table EXCEPT ![l] = Len(schedule')]
    /\ UNCHANGED <<now, poll, chain>>

-----------------------------------------------------------------------------
(* The loop of a poll.                                                      *)

PollOnce(p) ==
    /\ poll[p] = Idle
    /\ poll' = [poll EXCEPT ![p].at = "loop", ![p].since = now]
    /\ UNCHANGED <<now, schedule, table, chain>>

Registered == {l \in Loans : table[l] # None}

Collectable(s, since) ==
    /\ schedule[s].isActive
    /\ schedule[s].status \notin {"DEFAULTED", "COMPLETE"}
    /\ since >= schedule[s].nextDueDate

PassLoan(p, l) ==
    /\ poll[p].at = "loop"
    /\ l \in Registered \ poll[p].visited
    /\ ~Collectable(table[l], poll[p].since)
    /\ poll' = [poll EXCEPT ![p].visited = @ \cup {l}]
    /\ UNCHANGED <<now, schedule, table, chain>>

\* Without the borrower's mint the balance is not asked for.
TakeUpLoan(p, l) ==
    /\ poll[p].at = "loop"
    /\ l \in Registered \ poll[p].visited
    /\ Collectable(table[l], poll[p].since)
    /\ \E at \in {"balance", "pull"} :
          poll' = [poll EXCEPT ![p].at = at, ![p].visited = @ \cup {l},
                               ![p].s = table[l]]
    /\ UNCHANGED <<now, schedule, table, chain>>

PollEnds(p) ==
    /\ poll[p].at = "loop" /\ Registered \subseteq poll[p].visited
    /\ poll' = [poll EXCEPT ![p] = Idle]
    /\ UNCHANGED <<now, schedule, table, chain>>

GoTo(p, at) == poll' = [poll EXCEPT ![p].at = at]
NextLoan(p) == poll' = [poll EXCEPT ![p].at = "loop", ![p].s = None]

\* The state of every step after an awaited call: the poll p, at the given
\* stage, holds the schedule s.
Awaited(p, at, s) == poll[p].at = at /\ poll[p].s = s

-----------------------------------------------------------------------------
(* One instalment.                                                          *)

\* Variant: the default is triggered as soon as the grace period is over.
HandleFailedPullAtOnce(p, s) ==
    LET old == schedule[s]
        new == IF old.graceDeadline # NoDeadline THEN old
               ELSE [old EXCEPT !.graceDeadline = old.nextDueDate + GRACE_PERIOD,
                                !.status = "OVERDUE"]
    IN  /\ schedule' = [schedule EXCEPT ![s] = new]
        /\ \/ poll[p].since <= new.graceDeadline /\ GoTo(p, "notify")
           \/ poll[p].since > new.graceDeadline /\ GoTo(p, "mark")
        /\ UNCHANGED <<now, table, chain>>

\* handleFailedPull up to its notification or its end: the deadline counts
\* from the date due, and is compared with the time the poll began.
HandleFailedPull(p, s) ==
    LET old == schedule[s]
        new == IF old.graceDeadline # NoDeadline THEN old
               ELSE [old EXCEPT !.graceDeadline = old.nextDueDate + GRACE_PERIOD,
                                !.status = "OVERDUE"]
    IN  /\ schedule' = [schedule EXCEPT ![s] = new]
        /\ \/ /\ new.remindersSent < MAX_REMINDERS
              /\ GoTo(p, "notify")
           \/ /\ new.remindersSent >= MAX_REMINDERS
              /\ poll[p].since > new.graceDeadline
              /\ GoTo(p, "mark")
           \/ /\ new.remindersSent >= MAX_REMINDERS
              /\ poll[p].since <= new.graceDeadline
              /\ NextLoan(p)
        /\ UNCHANGED <<now, table, chain>>

\* The balance and the delegation answered, or the call failed: a failure is
\* only logged.
InspectBorrower(p, s) ==
    /\ Awaited(p, "balance", s)
    /\ \/ GoTo(p, "pull") /\ UNCHANGED <<now, schedule, table, chain>>
       \/ HandleFailedPull(p, s)

\* Variant: the schedule is completed by the poll after its last instalment.
PullLeavesOpen(p, s) ==
    /\ Awaited(p, "pull", s)
    /\ schedule' = [schedule EXCEPT
          ![s].paidInstallments = @ + 1, ![s].nextDueDate = @ + INTERVAL,
          ![s].remindersSent = 0, ![s].graceDeadline = NoDeadline,
          ![s].status = "ON_TRACK"]
    /\ NextLoan(p)
    /\ UNCHANGED <<now, table, chain>>

\* A success is an instruction built: nothing reaches the chain.
PullSucceeds(p, s) ==
    /\ Awaited(p, "pull", s)
    /\ LET paid == schedule[s].paidInstallments + 1
       IN  schedule' = [schedule EXCEPT
              ![s].paidInstallments = paid,
              ![s].nextDueDate = @ + INTERVAL,
              ![s].remindersSent = 0,
              ![s].graceDeadline = NoDeadline,
              ![s].status = IF paid >= TOTAL THEN "COMPLETE" ELSE "ON_TRACK",
              ![s].isActive = @ /\ paid < TOTAL]
    /\ NextLoan(p)
    /\ UNCHANGED <<now, table, chain>>

PullFails(p, s) ==
    /\ Awaited(p, "pull", s)
    /\ HandleFailedPull(p, s)

\* Whether or not the notification was dispatched, it counts.
Notified(p, s) ==
    /\ Awaited(p, "notify", s)
    /\ schedule' = [schedule EXCEPT
          ![s].remindersSent = @ + 1,
          ![s].notices = IF @ < MAX_REMINDERS THEN @ + 1 ELSE @,
          ![s].status = "GRACE_PERIOD"]
    /\ NextLoan(p)
    /\ UNCHANGED <<now, table, chain>>

-----------------------------------------------------------------------------
(* A default.                                                               *)

MarkDefaultOnChain(l) ==
    /\ chain[l].status = "Active"
    /\ now > LastDue + GRACE_PERIOD
    /\ chain' = [chain EXCEPT ![l].status = "Defaulted"]

\* mark_default landed and its answer arrived.
MarkConfirmed(p, s) ==
    /\ Awaited(p, "mark", s)
    /\ MarkDefaultOnChain(schedule[s].loan)
    /\ GoTo(p, "liquidate")
    /\ UNCHANGED <<now, schedule, table>>

\* Variant: what is refused is taken for done, and the escrow gone for.
MarkFailsOnward(p, s) ==
    /\ Awaited(p, "mark", s)
    /\ MarkDefaultOnChain(schedule[s].loan) \/ UNCHANGED chain
    /\ GoTo(p, "liquidate")
    /\ UNCHANGED <<now, schedule, table>>

\* It was refused, or it landed and its answer was lost: DEFAULT_FAILED.
MarkFails(p, s) ==
    /\ Awaited(p, "mark", s)
    /\ MarkDefaultOnChain(schedule[s].loan) \/ UNCHANGED chain
    /\ NextLoan(p)
    /\ UNCHANGED <<now, schedule, table>>

LiquidateOnChain(l) ==
    /\ chain[l].status = "Defaulted" /\ ~chain[l].liquidated
    /\ chain' = [chain EXCEPT ![l].liquidated = TRUE]

LiquidateConfirmed(p, s) ==
    /\ Awaited(p, "liquidate", s)
    /\ LiquidateOnChain(schedule[s].loan)
    /\ schedule' = [schedule EXCEPT ![s].status = "DEFAULTED", ![s].isActive = FALSE]
    /\ NextLoan(p)
    /\ UNCHANGED <<now, table>>

\* Variant: the liquidation is taken for done without its signature.
LiquidateUnchecked(p, s) ==
    /\ Awaited(p, "liquidate", s)
    /\ LiquidateOnChain(schedule[s].loan) \/ UNCHANGED chain
    /\ schedule' = [schedule EXCEPT ![s].status = "DEFAULTED",
                                    ![s].isActive = FALSE]
    /\ NextLoan(p)
    /\ UNCHANGED <<now, table>>

\* Refused, only built (the recovery account is missing), or its answer lost.
LiquidateFails(p, s) ==
    /\ Awaited(p, "liquidate", s)
    /\ LiquidateOnChain(schedule[s].loan) \/ UNCHANGED chain
    /\ schedule' = [schedule EXCEPT ![s].status = "DEFAULT_PENDING",
                                    ![s].isActive = FALSE]
    /\ NextLoan(p)
    /\ UNCHANGED <<now, table>>

\* The simulation pretends the reminders and goes on to the real calls; it is
\* a poll with no loan left to visit.
SimulateDefaultLifecycle(p, l) ==
    /\ poll[p] = Idle /\ table[l] # None
    /\ schedule' = [schedule EXCEPT
          ![table[l]].graceDeadline = schedule[table[l]].nextDueDate + GRACE_PERIOD,
          ![table[l]].status = "OVERDUE",
          ![table[l]].remindersSent = MAX_REMINDERS,
          ![table[l]].notices = MAX_REMINDERS]
    /\ poll' = [poll EXCEPT ![p] = [at |-> "mark", since |-> now,
                                    visited |-> Loans, s |-> table[l]]]
    /\ UNCHANGED <<now, table, chain>>

-----------------------------------------------------------------------------
(* The chain, as others move it.                                            *)

PullOnChain(l) ==
    /\ chain[l].status = "Active" /\ chain[l].pulled < TOTAL
    /\ now >= FIRST_DUE + chain[l].pulled * INTERVAL
    /\ chain' = [chain EXCEPT ![l].pulled = @ + 1,
          ![l].status = IF chain[l].pulled + 1 = TOTAL THEN "Repaid" ELSE @]
    /\ UNCHANGED <<now, schedule, table, poll>>

\* mark_default and liquidate_escrow are open to anyone.
SomeoneDefaults(l) ==
    /\ MarkDefaultOnChain(l) \/ LiquidateOnChain(l)
    /\ UNCHANGED <<now, schedule, table, poll>>

-----------------------------------------------------------------------------

PollStep(p) ==
    \/ PollEnds(p)
    \/ \E l \in Loans : PassLoan(p, l) \/ TakeUpLoan(p, l)
    \/ \E s \in DOMAIN schedule :
          \/ InspectBorrower(p, s) \/ PullSucceeds(p, s) \/ PullFails(p, s)
          \/ Notified(p, s)
          \/ MarkConfirmed(p, s) \/ MarkFails(p, s)
          \/ LiquidateConfirmed(p, s) \/ LiquidateFails(p, s)

Next ==
    \/ Tick
    \/ \E p \in Polls : PollOnce(p) \/ PollStep(p)
    \/ \E l \in Loans :
          \/ RegisterSchedule(l) \/ PullOnChain(l) \/ SomeoneDefaults(l)
          \/ \E p \in Polls : SimulateDefaultLifecycle(p, l)

Spec == Init /\ [][Next]_vars

-----------------------------------------------------------------------------
(* Properties.                                                              *)

\* The variables have their types.
TypeOK ==
    /\ now \in 0..MaxTime
    /\ schedule \in Seq(Schedules)
    /\ table \in [Loans -> None..Len(schedule)]
    /\ poll \in [Polls -> [at : Stages, since : Nat, visited : SUBSET Loans,
                           s : None..Len(schedule)]]
    /\ chain \in [Loans -> [status : {"Active", "Repaid", "Defaulted"},
                            pulled : 0..TOTAL, liquidated : BOOLEAN]]

\* A schedule is DEFAULTED only when the chain has defaulted the loan and
\* liquidated its escrow, whatever polls, repayments and lost answers came
\* between the two transactions (collectionAgent.js:225-230).
DefaultedIsReal ==
    \A s \in DOMAIN schedule :
       schedule[s].status = "DEFAULTED" =>
          chain[schedule[s].loan].status = "Defaulted"
            /\ chain[schedule[s].loan].liquidated

\* The default flow is entered for a schedule only after MAX_REMINDERS notices
\* for it, sent or pretended by the simulation, also when another poll has
\* pulled an instalment since (collectionAgent.js:139-166).
NoticeBeforeDefault ==
    \A p \in Polls :
       poll[p].at \in {"mark", "liquidate"} =>
          schedule[poll[p].s].notices >= MAX_REMINDERS

\* Overlapping polls pull a schedule past its total by at most one instalment
\* for each poll but one: all of them are charged to the borrower in the
\* agent's book (collectionAgent.js:68, 111).
PullsBounded ==
    \A s \in DOMAIN schedule :
       /\ schedule[s].paidInstallments <= TOTAL + Cardinality(Polls) - 1
       /\ schedule[s].paidInstallments >= TOTAL => ~schedule[s].isActive

\* A loan leaves collection for one of two causes, its instalments pulled or its
\* default on the chain: a mark_default that is refused, or whose answer is lost,
\* leaves the schedule to the polls after it, while a liquidation that fails
\* closes a schedule whose loan did default (collectionAgent.js:111, 178-230).
ClosedForCause ==
    \A s \in DOMAIN schedule :
       ~schedule[s].isActive =>
          \/ schedule[s].paidInstallments >= TOTAL
          \/ chain[schedule[s].loan].status = "Defaulted"

=============================================================================
