----------------------- MODULE CollectionAgentProofs -----------------------
(***************************************************************************)
(* Theorems about CollectionAgent, for any number of overlapping polls,    *)
(* loans and registrations, any number of instalments and reminders, and   *)
(* any calendar: a default is real and comes after its notices, a schedule is  *)
(* closed only for cause, and the agent's book is never ahead by more than *)
(* the polls that overlap.                                                 *)
(***************************************************************************)
EXTENDS CollectionAgent, FiniteSetTheorems, TLAPS

USE CollectionAssumption

\* The stages of a poll that may end in an instalment.
Pulling == {"balance", "pull"}

\* The polls that hold schedule s at one of the stages A, when the polls are ps.
Holders(A, s, ps) == {p \in Polls : ps[p].at \in A /\ ps[p].s = s}
HolderCount(A, s, ps) == Cardinality(Holders(A, s, ps))

\* No more polls hold a schedule than there are.
LEMMA HoldersCounted ==
    ASSUME NEW A, NEW s, NEW ps
    PROVE  /\ HolderCount(A, s, ps) \in 0..Cardinality(Polls)
           /\ Cardinality(Polls) \in Nat \ {0}
  <1>1. IsFiniteSet(Polls) /\ Polls # {}
    BY DEF CollectionAssumption
  <1>2. Holders(A, s, ps) \in SUBSET Polls
    BY DEF Holders
  <1>3. /\ IsFiniteSet(Holders(A, s, ps))
        /\ Cardinality(Holders(A, s, ps)) <= Cardinality(Polls)
    BY <1>1, <1>2, FS_Subset
  <1>4. Cardinality(Polls) \in Nat /\ Cardinality(Holders(A, s, ps)) \in Nat
    BY <1>1, <1>3, FS_CardinalityType
  <1>5. Cardinality(Polls) # 0
    BY <1>1, FS_EmptySet
  <1>6. QED
    BY <1>3, <1>4, <1>5 DEF HolderCount

\* A poll that holds s and leaves the stages makes one holder less; one that
\* does not come to hold s makes none more.
LEMMA HoldersMove ==
    ASSUME NEW A, NEW s, NEW ps, NEW qs, NEW p \in Polls,
           \A q \in Polls \ {p} : qs[q] = ps[q]
    PROVE  /\ qs[p].at \notin A \/ qs[p].s # s =>
                 /\ HolderCount(A, s, qs) <= HolderCount(A, s, ps)
                 /\ HolderCount(A, s, qs) <= Cardinality(Polls) - 1
                 /\ ps[p].at \in A /\ ps[p].s = s =>
                       HolderCount(A, s, qs) = HolderCount(A, s, ps) - 1
           /\ ps[p].at \in A /\ ps[p].s = s =>
                 HolderCount(A, s, qs) <= HolderCount(A, s, ps)
  <1> DEFINE H == Holders(A, s, ps)
             I == Holders(A, s, qs)
  <1>1. IsFiniteSet(Polls) /\ H \in SUBSET Polls /\ I \in SUBSET Polls
    BY DEF CollectionAssumption, Holders
  <1>2. IsFiniteSet(H) /\ IsFiniteSet(I)
    BY <1>1, FS_Subset
  <1>3. H \ {p} = I \ {p}
    BY DEF Holders
  <1>4. p \in H <=> ps[p].at \in A /\ ps[p].s = s
    BY DEF Holders
  <1>5. p \in I <=> qs[p].at \in A /\ qs[p].s = s
    BY DEF Holders
  <1> HIDE DEF H, I
  <1>6. CASE p \notin I
    <2>1. I \in SUBSET (Polls \ {p}) /\ I \in SUBSET H /\ (p \in H => I = H \ {p})
      BY <1>1, <1>3, <1>6
    <2>2. /\ IsFiniteSet(Polls \ {p}) /\ Cardinality(Polls \ {p}) = Cardinality(Polls) - 1
          /\ p \in H => Cardinality(H \ {p}) = Cardinality(H) - 1
      BY <1>1, <1>2, FS_RemoveElement
    <2>3. Cardinality(I) <= Cardinality(Polls \ {p}) /\ Cardinality(I) <= Cardinality(H)
      BY <1>2, <2>1, <2>2, FS_Subset
    <2>4. QED
      BY <1>4, <2>1, <2>2, <2>3 DEF HolderCount, H, I
  <1>7. CASE p \in I
    <2>1. p \in H => I = H
      BY <1>3, <1>7
    <2>2. Cardinality(H) \in Nat
      BY <1>2, FS_CardinalityType
    <2>3. QED
      BY <1>4, <1>5, <1>7, <2>1, <2>2 DEF HolderCount, H, I
  <1>8. QED
    BY <1>6, <1>7

-----------------------------------------------------------------------------
(* The books of a schedule x that k polls may pull and n may remind of.    *)

\* No poll pulls once the instalments are complete, and the pulls under way are
\* counted as if they had happened; likewise the reminders, of which the notices
\* are never behind.
Balanced(x, k, n) ==
    /\ x.paidInstallments >= TOTAL =>
          ~x.isActive /\ x.paidInstallments + k <= TOTAL + Cardinality(Polls) - 1
    /\ x.remindersSent >= MAX_REMINDERS =>
          x.remindersSent + n <= MAX_REMINDERS + Cardinality(Polls) - 1
    /\ x.notices < MAX_REMINDERS => x.remindersSent <= x.notices

\* A schedule whose number of reminders is not bounded yet.
Books ==
    [loan : Loans, status : Statuses, isActive : BOOLEAN,
     paidInstallments : Nat, nextDueDate : Nat, remindersSent : Nat,
     graceDeadline : Nat \cup {NoDeadline}, notices : 0..MAX_REMINDERS]

\* What a step does to the books: nothing but to close it; one instalment more;
\* one reminder more; all the reminders at once.
SameBook(x, y) ==
    /\ y.loan = x.loan /\ y.paidInstallments = x.paidInstallments
    /\ y.isActive => x.isActive
    /\ y.remindersSent = x.remindersSent /\ y.notices = x.notices
Instalment(x, y) ==
    /\ y.loan = x.loan /\ y.paidInstallments = x.paidInstallments + 1
    /\ y.isActive = (x.isActive /\ y.paidInstallments < TOTAL)
    /\ y.remindersSent = 0 /\ y.notices = x.notices
Reminder(x, y) ==
    /\ y.loan = x.loan /\ y.paidInstallments = x.paidInstallments
    /\ y.isActive = x.isActive /\ y.remindersSent = x.remindersSent + 1
    /\ y.notices = IF x.notices < MAX_REMINDERS THEN x.notices + 1 ELSE x.notices
AllReminders(x, y) ==
    /\ y.loan = x.loan /\ y.paidInstallments = x.paidInstallments
    /\ y.isActive = x.isActive
    /\ y.remindersSent = MAX_REMINDERS /\ y.notices = MAX_REMINDERS

\* Each keeps a schedule balanced, as the polls that hold it go on.
LEMMA BooksBalance ==
    ASSUME NEW x \in Books, NEW y \in Books,
           NEW k \in 0..Cardinality(Polls), NEW n \in 0..Cardinality(Polls),
           NEW k2 \in 0..Cardinality(Polls), NEW n2 \in 0..Cardinality(Polls),
           Cardinality(Polls) \in Nat \ {0},
           Balanced(x, k, n)
    PROVE  /\ \/ SameBook(x, y) /\ (k2 <= k \/ x.isActive)
                 /\ (n2 <= n \/ x.remindersSent < MAX_REMINDERS)
              \/ Instalment(x, y) /\ k2 = k - 1 /\ n2 <= n
              \/ Reminder(x, y) /\ k2 <= k /\ n2 = n - 1
              \/ AllReminders(x, y) /\ k2 <= k /\ n2 <= Cardinality(Polls) - 1
              => Balanced(y, k2, n2)
  <1> DEFINE M == Cardinality(Polls)
             xp == x.paidInstallments
             yp == y.paidInstallments
             xr == x.remindersSent
             yr == y.remindersSent
             xn == x.notices
             yn == y.notices
  <1>1. /\ xp \in Nat /\ yp \in Nat /\ xr \in Nat /\ yr \in Nat /\ xn \in Nat /\ yn \in Nat
        /\ x.isActive \in BOOLEAN /\ y.isActive \in BOOLEAN
        /\ MAX_REMINDERS \in Nat \ {0} /\ TOTAL \in Nat \ {0}
    BY DEF Books, CollectionAssumption
  <1>2. M \in Nat \ {0} /\ k \in 0..M /\ n \in 0..M /\ k2 \in 0..M /\ n2 \in 0..M
    OBVIOUS
  <1>3. /\ xp >= TOTAL => ~x.isActive /\ xp + k <= TOTAL + M - 1
        /\ xr >= MAX_REMINDERS => xr + n <= MAX_REMINDERS + M - 1
        /\ xn < MAX_REMINDERS => xr <= xn
    BY DEF Balanced
  <1>4. ASSUME SameBook(x, y), k2 <= k \/ x.isActive, n2 <= n \/ xr < MAX_REMINDERS
        PROVE  /\ yp >= TOTAL => ~y.isActive /\ yp + k2 <= TOTAL + M - 1
               /\ yr >= MAX_REMINDERS => yr + n2 <= MAX_REMINDERS + M - 1
               /\ yn < MAX_REMINDERS => yr <= yn
    <2>1. yp = xp /\ yr = xr /\ yn = xn /\ (y.isActive => x.isActive)
      BY <1>4 DEF SameBook
    <2> HIDE DEF xp, yp, xr, yr, xn, yn, M
    <2>2. QED
      BY <1>1, <1>2, <1>3, <1>4, <2>1
  <1>5. ASSUME Instalment(x, y), k2 = k - 1, n2 <= n
        PROVE  /\ yp >= TOTAL => ~y.isActive /\ yp + k2 <= TOTAL + M - 1
               /\ yr >= MAX_REMINDERS => yr + n2 <= MAX_REMINDERS + M - 1
               /\ yn < MAX_REMINDERS => yr <= yn
    <2>1. yp = xp + 1 /\ yr = 0 /\ yn = xn /\ (y.isActive => yp < TOTAL)
      BY <1>5 DEF Instalment
    <2> HIDE DEF xp, yp, xr, yr, xn, yn, M
    <2>2. QED
      BY <1>1, <1>2, <1>3, <1>5, <2>1
  <1>6. ASSUME Reminder(x, y), k2 <= k, n2 = n - 1
        PROVE  /\ yp >= TOTAL => ~y.isActive /\ yp + k2 <= TOTAL + M - 1
               /\ yr >= MAX_REMINDERS => yr + n2 <= MAX_REMINDERS + M - 1
               /\ yn < MAX_REMINDERS => yr <= yn
    <2>1. /\ yp = xp /\ yr = xr + 1 /\ y.isActive = x.isActive
          /\ yn = IF xn < MAX_REMINDERS THEN xn + 1 ELSE xn
      BY <1>6 DEF Reminder
    <2> HIDE DEF xp, yp, xr, yr, xn, yn, M
    <2>2. QED
      BY <1>1, <1>2, <1>3, <1>6, <2>1
  <1>7. ASSUME AllReminders(x, y), k2 <= k, n2 <= M - 1
        PROVE  /\ yp >= TOTAL => ~y.isActive /\ yp + k2 <= TOTAL + M - 1
               /\ yr >= MAX_REMINDERS => yr + n2 <= MAX_REMINDERS + M - 1
               /\ yn < MAX_REMINDERS => yr <= yn
    <2>1. /\ yp = xp /\ yr = MAX_REMINDERS /\ y.isActive = x.isActive
          /\ yn = MAX_REMINDERS
      BY <1>7 DEF AllReminders
    <2> HIDE DEF xp, yp, xr, yr, xn, yn, M
    <2>2. QED
      BY <1>1, <1>2, <1>3, <1>7, <2>1
  <1>8. QED
    BY <1>4, <1>5, <1>6, <1>7 DEF Balanced

-----------------------------------------------------------------------------
(* The inductive invariant.                                                *)

\* The states of a poll when there are n schedules, and of a loan on the chain.
PollStates(n) == [at : Stages, since : Nat, visited : SUBSET Loans, s : None..n]
Chains == [status : {"Active", "Repaid", "Defaulted"}, pulled : 0..TOTAL,
           liquidated : BOOLEAN]

\* The types, without a bound on the reminders.
Typed ==
    /\ now \in 0..MaxTime
    /\ schedule \in Seq(Books)
    /\ table \in [Loans -> None..Len(schedule)]
    /\ poll \in [Polls -> PollStates(Len(schedule))]
    /\ chain \in [Loans -> Chains]

\* A poll at an awaited call holds a schedule.
Holding == \A p \in Polls : poll[p].at \notin {"idle", "loop"} => poll[p].s # None

\* Every schedule is balanced with the polls that hold it.
AllBalanced ==
    \A s \in DOMAIN schedule :
       Balanced(schedule[s], HolderCount(Pulling, s, poll), HolderCount({"notify"}, s, poll))

\* All of it.
CollectionInv == Typed /\ Holding /\ AllBalanced /\ NoticeBeforeDefault /\ DefaultedIsReal

\* The balance bounds the reminders.
LEMMA BalancedTypes == ASSUME CollectionInv PROVE TypeOK
  <1> DEFINE M == Cardinality(Polls)
  <1>1. M \in Nat \ {0} /\ MAX_REMINDERS \in Nat \ {0}
    BY HoldersCounted DEF CollectionAssumption
  <1>2. ASSUME NEW s \in DOMAIN schedule PROVE schedule[s] \in Schedules
    <2> DEFINE x == schedule[s]
               n == HolderCount({"notify"}, s, poll)
    <2>1. x \in Books /\ n \in 0..M
      BY HoldersCounted DEF CollectionInv, Typed
    <2>2. x.remindersSent >= MAX_REMINDERS =>
             x.remindersSent + n <= MAX_REMINDERS + M - 1
      BY DEF CollectionInv, AllBalanced, Balanced
    <2> HIDE DEF x, n
    <2>3. x.remindersSent \in Nat
      BY <2>1 DEF Books
    <2> HIDE DEF M
    <2>4. x.remindersSent \in 0..MAX_REMINDERS + M - 1
      BY <1>1, <2>1, <2>2, <2>3
    <2>5. x \in Schedules
      BY <2>1, <2>4 DEF Books, Schedules, M
    <2>6. QED
      BY <2>5 DEF x
  <1>3. schedule \in Seq(Schedules)
    <2>1. schedule \in [1..Len(schedule) -> Schedules] /\ Len(schedule) \in Nat
      BY <1>2 DEF CollectionInv, Typed
    <2>2. QED
      BY <2>1
  <1>4. QED
    BY <1>3 DEF CollectionInv, Typed, TypeOK, PollStates, Chains

-----------------------------------------------------------------------------
(* The shapes of the steps.                                                *)

\* Loan l is defaulted and its escrow liquidated.
Gone(l, loans) == loans[l].status = "Defaulted" /\ loans[l].liquidated

\* The chain keeps its type, and what is liquidated stays so.
ChainKeeps ==
    /\ chain' \in [Loans -> Chains]
    /\ \A l \in Loans : Gone(l, chain) => Gone(l, chain')

\* The transactions of the agent and of others keep the chain so.
LEMMA ChainMoves ==
    ASSUME Typed, NEW l \in Loans,
           MarkDefaultOnChain(l) \/ LiquidateOnChain(l) \/ UNCHANGED chain
    PROVE  ChainKeeps
  <1>1. CASE MarkDefaultOnChain(l)
    BY <1>1 DEF Typed, Chains, MarkDefaultOnChain, ChainKeeps, Gone
  <1>2. CASE LiquidateOnChain(l)
    BY <1>2 DEF Typed, Chains, LiquidateOnChain, ChainKeeps, Gone
  <1>3. CASE UNCHANGED chain
    BY <1>3 DEF Typed, ChainKeeps, Gone
  <1>4. QED
    BY <1>1, <1>2, <1>3

LEMMA ChainPulls ==
    ASSUME Typed, NEW l \in Loans, PullOnChain(l)
    PROVE  ChainKeeps
  <1> DEFINE c == chain[l]
             st == IF c.pulled + 1 = TOTAL THEN "Repaid" ELSE c.status
             d == [c EXCEPT !.pulled = c.pulled + 1, !.status = st]
  <1>1. /\ c \in Chains /\ c.pulled + 1 \in 0..TOTAL
        /\ st \in {"Active", "Repaid", "Defaulted"}
    BY DEF Typed, Chains, PullOnChain, CollectionAssumption
  <1>2. \A n \in 0..TOTAL, x \in {"Active", "Repaid", "Defaulted"} :
           [c EXCEPT !.pulled = n, !.status = x] \in Chains
    BY <1>1 DEF Chains
  <1>3. d \in Chains
    <2> HIDE DEF st
    <2>1. QED
      BY <1>1, <1>2
  <1>4. chain' = [chain EXCEPT ![l] = d]
    BY Zenon DEF PullOnChain
  <1> HIDE DEF d
  <1>5. QED
    BY <1>3, <1>4 DEF Typed, ChainKeeps, Gone, PullOnChain

\* Poll p deals with schedule s: the poll becomes w and the schedule y.
Deals(p, s, w, y) ==
    LET x == schedule[s]
        v == poll[p]
    IN  /\ s \in DOMAIN schedule /\ y \in Books /\ w \in PollStates(Len(schedule))
        /\ schedule' = [schedule EXCEPT ![s] = y] /\ poll' = [poll EXCEPT ![p] = w]
        /\ UNCHANGED <<now, table>>
        /\ w.at \in {"idle", "loop"} \/ w.s = s
        /\ y.status = "DEFAULTED" => x.status = "DEFAULTED" \/ Gone(x.loan, chain')
        /\ \/ \* it holds the schedule no longer, or goes on to the default
              /\ SameBook(x, y) /\ w.at \in {"loop", "mark", "liquidate"}
              /\ w.at # "loop" =>
                    \/ x.remindersSent >= MAX_REMINDERS
                    \/ v.at \in {"mark", "liquidate"} /\ v.s = s
           \/ \* it is about to pull
              /\ SameBook(x, y) /\ w.at \in Pulling
              /\ x.isActive \/ (v.at \in Pulling /\ v.s = s)
           \/ \* it is about to notify
              SameBook(x, y) /\ w.at = "notify" /\ x.remindersSent < MAX_REMINDERS
           \/ Instalment(x, y) /\ v.at \in Pulling /\ v.s = s /\ w.at = "loop"
           \/ Reminder(x, y) /\ v.at = "notify" /\ v.s = s /\ w.at = "loop"
           \/ AllReminders(x, y) /\ w.at = "mark"

\* A poll that holds no schedule goes on.
Wanders(p) ==
    /\ \E w \in PollStates(Len(schedule)) :
          w.at \in {"idle", "loop"} /\ poll' = [poll EXCEPT ![p] = w]
    /\ UNCHANGED <<now, schedule, table>>

\* Every step of a poll is of one of these shapes: a pull that failed,
LEMMA FailedPullShape ==
    ASSUME CollectionInv, NEW p \in Polls, NEW s \in DOMAIN schedule,
           poll[p].at \in Pulling, poll[p].s = s, HandleFailedPull(p, s)
    PROVE  \E w, y : Deals(p, s, w, y)
  <1> DEFINE x == schedule[s]
             v == poll[p]
             y == IF x.graceDeadline # NoDeadline THEN x
                  ELSE [x EXCEPT !.graceDeadline = x.nextDueDate + GRACE_PERIOD,
                                 !.status = "OVERDUE"]
             w == poll'[p]
  <1>1. x \in Books /\ v \in PollStates(Len(schedule))
    BY DEF CollectionInv, Typed
  <1>2. y \in Books /\ SameBook(x, y) /\ (y.status = "DEFAULTED" => x.status = "DEFAULTED")
    <2>1. x.nextDueDate + GRACE_PERIOD \in Nat
      BY <1>1 DEF Books, CollectionAssumption
    <2>2. \A d \in Nat : LET z == [x EXCEPT !.graceDeadline = d, !.status = "OVERDUE"]
                         IN  z \in Books /\ SameBook(x, z) /\ z.status = "OVERDUE"
      BY <1>1 DEF Books, SameBook, Statuses
    <2>3. SameBook(x, x)
      BY DEF SameBook
    <2>4. QED
      BY <1>1, <2>1, <2>2, <2>3
  <1>3. y.remindersSent = x.remindersSent
    BY <1>2 DEF SameBook
  <1>4. schedule' = [schedule EXCEPT ![s] = y] /\ UNCHANGED <<now, table>>
    BY DEF HandleFailedPull
  <1>5. /\ \/ x.remindersSent < MAX_REMINDERS /\ GoTo(p, "notify")
           \/ x.remindersSent >= MAX_REMINDERS /\ GoTo(p, "mark")
           \/ NextLoan(p)
    BY <1>3 DEF HandleFailedPull
  <1> HIDE DEF y
  <1>6. ASSUME NEW at \in {"notify", "mark"}, GoTo(p, at)
        PROVE  /\ w \in PollStates(Len(schedule)) /\ w.at = at /\ w.s = s
               /\ poll' = [poll EXCEPT ![p] = w]
    BY <1>1, <1>6 DEF GoTo, PollStates, Stages, CollectionInv, Typed
  <1>7. ASSUME NextLoan(p)
        PROVE  /\ w \in PollStates(Len(schedule)) /\ w.at = "loop"
               /\ poll' = [poll EXCEPT ![p] = w]
    BY <1>1, <1>7 DEF NextLoan, PollStates, Stages, CollectionInv, Typed, None
  <1> HIDE DEF w
  <1>8. Deals(p, s, w, y)
    BY <1>2, <1>4, <1>5, <1>6, <1>7 DEF Deals
  <1>9. QED
    BY <1>8

\* the loop of a poll,
LEMMA LoopShape ==
    ASSUME CollectionInv, NEW p \in Polls,
           PollOnce(p) \/ PollEnds(p) \/ \E l \in Loans : PassLoan(p, l)
    PROVE  Wanders(p) /\ UNCHANGED chain
  <1> DEFINE n == Len(schedule)
  <1>1. poll \in [Polls -> PollStates(n)] /\ now \in Nat /\ n \in Nat
    BY DEF CollectionInv, Typed, CollectionAssumption
  <1>2. \A v \in PollStates(n) :
           /\ [v EXCEPT !.at = "loop", !.since = now] \in PollStates(n)
           /\ \A l \in Loans : [v EXCEPT !.visited = v.visited \cup {l}] \in PollStates(n)
    BY <1>1 DEF PollStates, Stages
  <1>3. Idle \in PollStates(n)
    BY <1>1 DEF PollStates, Stages, Idle, None
  <1> HIDE DEF n
  <1>4. CASE PollOnce(p)
    <2> DEFINE w == [poll[p] EXCEPT !.at = "loop", !.since = now]
    <2>1. poll' = [poll EXCEPT ![p] = w]
      BY <1>4 DEF PollOnce
    <2>2. poll[p] \in PollStates(n) /\ w.at = "loop"
      BY <1>1 DEF PollStates
    <2>3. w \in PollStates(n)
      BY <1>2, <2>2
    <2> HIDE DEF w
    <2>4. QED
      BY <1>4, <2>1, <2>2, <2>3 DEF Wanders, PollOnce, n
  <1>5. CASE PollEnds(p)
    BY <1>1, <1>3, <1>5 DEF Wanders, PollEnds, Idle, n
  <1>6. ASSUME NEW l \in Loans, PassLoan(p, l) PROVE Wanders(p) /\ UNCHANGED chain
    <2>1. poll' = [poll EXCEPT ![p] = [poll[p] EXCEPT !.visited = poll[p].visited \cup {l}]]
      BY <1>6 DEF PassLoan
    <2>2. [poll[p] EXCEPT !.visited = poll[p].visited \cup {l}].at = "loop"
      BY <1>1, <1>6 DEF PollStates, PassLoan
    <2>3. QED
      BY <1>1, <1>2, <1>6, <2>1, <2>2 DEF Wanders, PassLoan, n
  <1>7. QED
    BY <1>4, <1>5, <1>6

\* the schedule it takes up,
LEMMA TakeUpShape ==
    ASSUME CollectionInv, NEW p \in Polls, NEW l \in Loans,
           TakeUpLoan(p, l)
    PROVE  UNCHANGED chain /\ \E s, w, y : Deals(p, s, w, y)
  <1> DEFINE n == Len(schedule)
             s == table[l]
             x == schedule[s]
  <1>1. /\ poll \in [Polls -> PollStates(n)] /\ n \in Nat /\ s \in None..n
        /\ schedule \in Seq(Books)
    BY DEF CollectionInv, Typed
  <1>2. s \in DOMAIN schedule /\ s \in None..n /\ x \in Books /\ x.isActive
    BY <1>1 DEF TakeUpLoan, Registered, Collectable, None
  <1>3. SameBook(x, x) /\ schedule' = [schedule EXCEPT ![s] = x]
    BY <1>1, <1>2 DEF SameBook, TakeUpLoan
  <1>4. PICK at \in {"balance", "pull"} :
           poll' = [poll EXCEPT ![p].at = at, ![p].visited = @ \cup {l}, ![p].s = s]
    BY DEF TakeUpLoan
  <1> DEFINE w == [poll[p] EXCEPT !.at = at, !.visited = poll[p].visited \cup {l}, !.s = s]
  <1>5. poll' = [poll EXCEPT ![p] = w]
    BY <1>4
  <1>6. w \in PollStates(n) /\ w.at = at /\ w.s = s
    <2> HIDE DEF s, n
    <2>1. QED
      BY <1>1, <1>2 DEF PollStates, Stages
  <1>7. UNCHANGED <<now, table, chain>>
    BY DEF TakeUpLoan
  <1> HIDE DEF w, s
  <1>8. Deals(p, s, w, x)
    <2>1. w.at \in Pulling
      BY <1>6 DEF Pulling
    <2>2. w \in PollStates(Len(schedule)) /\ w.s = s
      BY <1>6
    <2> HIDE DEF n
    <2>3. QED
      BY <1>2, <1>3, <1>5, <1>7, <2>1, <2>2 DEF Deals
  <1>9. QED
    BY <1>7, <1>8

\* A poll that holds schedule s and goes to the stage at, or on in its loop.
LEMMA PollGoes ==
    ASSUME CollectionInv, NEW p \in Polls, NEW s, poll[p].s = s
    PROVE  /\ \A at \in Stages : GoTo(p, at) =>
                 \E w \in PollStates(Len(schedule)) :
                    w.at = at /\ w.s = s /\ poll' = [poll EXCEPT ![p] = w]
           /\ NextLoan(p) =>
                 \E w \in PollStates(Len(schedule)) :
                    w.at = "loop" /\ poll' = [poll EXCEPT ![p] = w]
  <1> DEFINE n == Len(schedule)
             v == poll[p]
  <1>1. poll \in [Polls -> PollStates(n)] /\ n \in Nat /\ v \in PollStates(n)
    BY DEF CollectionInv, Typed
  <1> HIDE DEF n
  <1>2. \A at \in Stages : /\ [v EXCEPT !.at = at] \in PollStates(n)
                           /\ [v EXCEPT !.at = at].at = at
                           /\ [v EXCEPT !.at = at].s = v.s
    BY <1>1 DEF PollStates
  <1>3. /\ [v EXCEPT !.at = "loop", !.s = None] \in PollStates(n)
        /\ [v EXCEPT !.at = "loop", !.s = None].at = "loop"
    <2>1. "loop" \in Stages /\ None \in None..n
      BY <1>1 DEF Stages, None
    <2>2. QED
      BY <1>1, <2>1 DEF PollStates
  <1>4. ASSUME NEW at \in Stages, GoTo(p, at)
        PROVE  poll' = [poll EXCEPT ![p] = [v EXCEPT !.at = at]]
    BY <1>4 DEF GoTo
  <1>5. ASSUME NextLoan(p)
        PROVE  poll' = [poll EXCEPT ![p] = [v EXCEPT !.at = "loop", !.s = None]]
    BY <1>5 DEF NextLoan
  <1>6. QED
    BY <1>2, <1>3, <1>4, <1>5 DEF n

\* the calls up to the pull and its notification,
LEMMA PullShape ==
    ASSUME CollectionInv, NEW p \in Polls, NEW s \in DOMAIN schedule,
           \/ InspectBorrower(p, s) \/ PullSucceeds(p, s) \/ PullFails(p, s)
           \/ Notified(p, s)
    PROVE  UNCHANGED chain /\ \E w, y : Deals(p, s, w, y)
  <1> DEFINE n == Len(schedule)
             x == schedule[s]
             v == poll[p]
  <1>1. schedule \in Seq(Books) /\ x \in Books /\ SameBook(x, x)
    BY DEF CollectionInv, Typed, SameBook
  <1>2. ASSUME v.at \in Pulling, v.s = s, HandleFailedPull(p, s)
        PROVE  UNCHANGED chain /\ \E w, y : Deals(p, s, w, y)
    BY <1>2, FailedPullShape DEF HandleFailedPull
  <1>3. CASE InspectBorrower(p, s)
    <2>1. v.at \in Pulling /\ v.s = s
      BY <1>3 DEF InspectBorrower, Awaited, Pulling
    <2>2. CASE GoTo(p, "pull") /\ UNCHANGED <<now, schedule, table, chain>>
      <3>1. PICK w \in PollStates(n) :
               w.at = "pull" /\ w.s = s /\ poll' = [poll EXCEPT ![p] = w]
        BY <2>1, <2>2, PollGoes DEF Stages
      <3>2. schedule' = [schedule EXCEPT ![s] = x]
        BY <1>1, <2>2
      <3>3. Deals(p, s, w, x)
        BY <1>1, <2>1, <2>2, <3>1, <3>2 DEF Deals, Pulling
      <3>4. QED
        BY <2>2, <3>3
    <2>3. QED
      BY <1>2, <1>3, <2>1, <2>2 DEF InspectBorrower
  <1>4. CASE PullFails(p, s)
    BY <1>2, <1>4 DEF PullFails, Awaited, Pulling
  <1>5. CASE PullSucceeds(p, s)
    <2> DEFINE paid == x.paidInstallments + 1
               due == x.nextDueDate + INTERVAL
               st == IF paid >= TOTAL THEN "COMPLETE" ELSE "ON_TRACK"
               open == x.isActive /\ paid < TOTAL
               y == [x EXCEPT !.paidInstallments = paid, !.nextDueDate = due,
                              !.remindersSent = 0, !.graceDeadline = NoDeadline,
                              !.status = st, !.isActive = open]
    <2>1. paid \in Nat /\ due \in Nat /\ open \in BOOLEAN
          /\ st \in Statuses /\ st # "DEFAULTED"
      BY <1>1 DEF Books, CollectionAssumption, Statuses
    <2>2. schedule' = [schedule EXCEPT ![s] = y]
      BY Zenon, <1>5 DEF PullSucceeds
    <2>3. v.at \in Pulling /\ v.s = s /\ NextLoan(p) /\ UNCHANGED <<now, table, chain>>
      BY <1>5 DEF PullSucceeds, Awaited, Pulling
    <2> HIDE DEF st
    <2>4. y.paidInstallments = paid /\ y.isActive = open /\ y.status = st
          /\ y.loan = x.loan /\ y.remindersSent = 0 /\ y.notices = x.notices
      BY <1>1 DEF Books
    <2>5. Instalment(x, y)
      <3> HIDE DEF y
      <3>1. QED
        BY <2>4 DEF Instalment
    <2> HIDE DEF open, paid, due
    <2>6. y \in Books
      BY <1>1, <2>1 DEF Books
    <2> HIDE DEF y
    <2>7. PICK w \in PollStates(n) : w.at = "loop" /\ poll' = [poll EXCEPT ![p] = w]
      BY <2>3, PollGoes
    <2>8. Deals(p, s, w, y)
      BY <2>1, <2>2, <2>3, <2>4, <2>5, <2>6, <2>7 DEF Deals
    <2>9. QED
      BY <2>3, <2>8
  <1>6. CASE Notified(p, s)
    <2> DEFINE k == IF x.notices < MAX_REMINDERS THEN x.notices + 1 ELSE x.notices
               y == [x EXCEPT !.remindersSent = x.remindersSent + 1, !.notices = k,
                              !.status = "GRACE_PERIOD"]
    <2>1. k \in 0..MAX_REMINDERS /\ x.remindersSent + 1 \in Nat
      <3>1. x.notices \in 0..MAX_REMINDERS /\ x.remindersSent \in Nat
        BY <1>1 DEF Books
      <3>2. MAX_REMINDERS \in Nat
        BY CollectionAssumption
      <3> HIDE DEF y
      <3>3. QED
        BY <3>1, <3>2
    <2>2. schedule' = [schedule EXCEPT ![s] = y]
      BY Zenon, <1>6 DEF Notified
    <2>3. v.at = "notify" /\ v.s = s /\ NextLoan(p) /\ UNCHANGED <<now, table, chain>>
      BY <1>6 DEF Notified, Awaited
    <2>4. Reminder(x, y) /\ y.status = "GRACE_PERIOD"
      BY <1>1 DEF Books, Reminder
    <2> HIDE DEF k
    <2>5. y \in Books
      BY <1>1, <2>1 DEF Books, Statuses
    <2> HIDE DEF y
    <2>6. PICK w \in PollStates(n) : w.at = "loop" /\ poll' = [poll EXCEPT ![p] = w]
      BY <2>3, PollGoes
    <2>7. Deals(p, s, w, y)
      BY <2>2, <2>3, <2>4, <2>5, <2>6 DEF Deals
    <2>8. QED
      BY <2>3, <2>7
  <1>7. QED
    BY <1>3, <1>4, <1>5, <1>6

\* the transactions of a default,
LEMMA DefaultShape ==
    ASSUME CollectionInv, NEW p \in Polls, NEW s \in DOMAIN schedule,
           \/ MarkConfirmed(p, s) \/ MarkFails(p, s)
           \/ LiquidateConfirmed(p, s) \/ LiquidateFails(p, s)
    PROVE  ChainKeeps /\ \E w, y : Deals(p, s, w, y)
  <1> DEFINE n == Len(schedule)
             x == schedule[s]
             v == poll[p]
             closed(st) == [x EXCEPT !.status = st, !.isActive = FALSE]
  <1>a. /\ schedule \in Seq(Books) /\ x \in Books /\ SameBook(x, x)
        /\ chain \in [Loans -> Chains]
    BY DEF CollectionInv, Typed, SameBook
  <1>b. x.loan \in Loans
    BY <1>a DEF Books
  <1>1. /\ schedule \in Seq(Books) /\ x \in Books /\ SameBook(x, x)
        /\ x.loan \in Loans /\ chain \in [Loans -> Chains]
    BY <1>a, <1>b
  <1>2. ChainKeeps
    <2>1. \/ MarkDefaultOnChain(x.loan) \/ LiquidateOnChain(x.loan) \/ UNCHANGED chain
      BY DEF MarkConfirmed, MarkFails, LiquidateConfirmed, LiquidateFails
    <2>2. QED
      BY <1>1, <2>1, ChainMoves DEF CollectionInv
  <1>3. \A st \in Statuses : LET y == closed(st)
                             IN  y \in Books /\ SameBook(x, y) /\ y.status = st
    BY <1>1 DEF Books, SameBook
  <1>4. v.at \in {"mark", "liquidate"} /\ v.s = s /\ UNCHANGED <<now, table>>
    BY DEF MarkConfirmed, MarkFails, LiquidateConfirmed, LiquidateFails, Awaited
  <1>5. NextLoan(p) => \E w \in PollStates(n) :
           w.at = "loop" /\ poll' = [poll EXCEPT ![p] = w]
    BY <1>4, PollGoes
  <1>6. CASE MarkConfirmed(p, s) \/ MarkFails(p, s)
    <2>1. schedule' = [schedule EXCEPT ![s] = x]
      BY <1>1, <1>6 DEF MarkConfirmed, MarkFails
    <2>2. PICK w \in PollStates(n) :
             /\ w.at = "loop" \/ (w.at = "liquidate" /\ w.s = s)
             /\ poll' = [poll EXCEPT ![p] = w]
      BY <1>4, <1>5, <1>6, PollGoes DEF MarkConfirmed, MarkFails, Stages
    <2>3. Deals(p, s, w, x)
      BY <1>1, <1>4, <2>1, <2>2 DEF Deals
    <2>4. QED
      BY <1>2, <2>3
  <1>7. CASE LiquidateConfirmed(p, s) \/ LiquidateFails(p, s)
    <2> DEFINE st == IF LiquidateConfirmed(p, s) THEN "DEFAULTED" ELSE "DEFAULT_PENDING"
               y == closed(st)
    <2>1. schedule' = [schedule EXCEPT ![s] = y] /\ NextLoan(p)
      BY <1>7 DEF LiquidateConfirmed, LiquidateFails
    <2>2. st \in Statuses
      BY DEF Statuses
    <2>3. y \in Books /\ SameBook(x, y) /\ y.status = st
      BY <1>3, <2>2
    <2>4. st = "DEFAULTED" => Gone(x.loan, chain')
      <3> DEFINE l == x.loan
      <3>1. ASSUME LiquidateOnChain(l) PROVE Gone(l, chain')
        <4>1. l \in Loans /\ chain[l] \in Chains
          BY <1>1
        <4>2. chain' = [chain EXCEPT ![l] = [chain[l] EXCEPT !.liquidated = TRUE]]
              /\ chain[l].status = "Defaulted"
          BY <3>1 DEF LiquidateOnChain
        <4> HIDE DEF l
        <4>3. chain'[l] = [chain[l] EXCEPT !.liquidated = TRUE]
          BY <1>1, <4>1, <4>2
        <4>4. QED
          BY <4>1, <4>2, <4>3 DEF Gone, Chains
      <3>2. QED
        BY <1>7, <3>1 DEF LiquidateConfirmed
    <2> HIDE DEF y
    <2>5. PICK w \in PollStates(n) : w.at = "loop" /\ poll' = [poll EXCEPT ![p] = w]
      BY <1>5, <2>1
    <2> HIDE DEF st
    <2>6. Deals(p, s, w, y)
      BY <1>4, <2>1, <2>3, <2>4, <2>5 DEF Deals
    <2>7. QED
      BY <1>2, <2>6
  <1>8. QED
    BY <1>6, <1>7

\* and the simulation of one.
LEMMA SimulationShape ==
    ASSUME CollectionInv, NEW p \in Polls, NEW l \in Loans,
           SimulateDefaultLifecycle(p, l)
    PROVE  UNCHANGED chain /\ \E s, w, y : Deals(p, s, w, y)
  <1> DEFINE n == Len(schedule)
             s == table[l]
             x == schedule[s]
             d == x.nextDueDate + GRACE_PERIOD
             y == [x EXCEPT !.graceDeadline = d, !.status = "OVERDUE",
                            !.remindersSent = MAX_REMINDERS, !.notices = MAX_REMINDERS]
             w == [at |-> "mark", since |-> now, visited |-> Loans, s |-> s]
  <1>1. /\ n \in Nat /\ s \in None..n /\ s # None /\ now \in Nat
        /\ schedule \in Seq(Books)
    BY DEF CollectionInv, Typed, SimulateDefaultLifecycle, CollectionAssumption
  <1>2. s \in DOMAIN schedule /\ x \in Books
    BY <1>1 DEF None
  <1>3. w \in PollStates(n) /\ w.at = "mark" /\ w.s = s
    <2> HIDE DEF n, s
    <2>1. QED
      BY <1>1 DEF PollStates, Stages
  <1>4. poll' = [poll EXCEPT ![p] = w] /\ UNCHANGED <<now, table, chain>>
    BY DEF SimulateDefaultLifecycle
  <1>5. schedule' = [schedule EXCEPT ![s] = y]
    BY Zenon DEF SimulateDefaultLifecycle
  <1> HIDE DEF w, s
  <1>6. d \in Nat /\ MAX_REMINDERS \in Nat
    BY <1>2 DEF Books, CollectionAssumption
  <1> HIDE DEF d
  <1>a. x.isActive \in BOOLEAN /\ MAX_REMINDERS \in 0..MAX_REMINDERS
    BY <1>2, <1>6 DEF Books
  <1>b. AllReminders(x, y) /\ y.status = "OVERDUE"
    BY <1>2 DEF Books, AllReminders
  <1>c. y \in Books
    BY <1>2, <1>6, <1>a DEF Books, Statuses
  <1>7. y \in Books /\ AllReminders(x, y) /\ y.status = "OVERDUE"
    BY <1>b, <1>c
  <1> HIDE DEF y
  <1>8. Deals(p, s, w, y)
    BY <1>2, <1>3, <1>4, <1>5, <1>7 DEF Deals
  <1>9. QED
    BY <1>4, <1>8

-----------------------------------------------------------------------------
(* The invariant is kept.                                                  *)

\* A poll that deals with a schedule leaves all schedules balanced, and keeps the
\* rest of the invariant.
LEMMA DealBalances ==
    ASSUME CollectionInv, NEW p \in Polls, NEW s, NEW w, NEW y,
           Deals(p, s, w, y)
    PROVE  AllBalanced'
  <1> DEFINE M == Cardinality(Polls)
             k(r) == HolderCount(Pulling, r, poll)
             n(r) == HolderCount({"notify"}, r, poll)
             k2(r) == HolderCount(Pulling, r, poll')
             n2(r) == HolderCount({"notify"}, r, poll')
             x == schedule[s]
             v == poll[p]
  <1>1. /\ schedule \in Seq(Books) /\ s \in DOMAIN schedule /\ x \in Books /\ y \in Books
        /\ schedule' = [schedule EXCEPT ![s] = y] /\ poll' = [poll EXCEPT ![p] = w]
        /\ poll'[p] = w /\ \A q \in Polls \ {p} : poll'[q] = poll[q]
    BY DEF Deals, CollectionInv, Typed
  <1>2. \A r : k(r) \in 0..M /\ n(r) \in 0..M /\ k2(r) \in 0..M /\ n2(r) \in 0..M
    BY HoldersCounted
  <1>3. M \in Nat \ {0}
    BY HoldersCounted
  <1>4. /\ w.at \in {"idle", "loop"} \/ w.s = s
        /\ w.at \in {"idle", "loop"} => w.at \notin Pulling /\ w.at \notin {"notify"}
    BY DEF Deals, Pulling
  <1>a. poll'[p] = w
    BY <1>1
  <1>b. \A q \in Polls \ {p} : poll'[q] = poll[q]
    BY <1>1
  <1>5. ASSUME NEW r, w.at \notin Pulling \/ w.s # r
        PROVE  k2(r) <= k(r) /\ (v.at \in Pulling /\ v.s = r => k2(r) = k(r) - 1)
    BY <1>5, <1>a, <1>b, HoldersMove
  <1>6. ASSUME NEW r, w.at \notin {"notify"} \/ w.s # r
        PROVE  /\ n2(r) <= n(r) /\ n2(r) <= M - 1
               /\ v.at \in {"notify"} /\ v.s = r => n2(r) = n(r) - 1
    BY <1>6, <1>a, <1>b, HoldersMove
  <1>7. v.at \in Pulling /\ v.s = s => k2(s) <= k(s)
    BY <1>1, HoldersMove
  <1>8. \A r \in DOMAIN schedule : Balanced(schedule[r], k(r), n(r))
    BY DEF CollectionInv, AllBalanced
  <1> HIDE DEF M, k, n, k2, n2
  <1>9. Balanced(y, k2(s), n2(s))
    <2>1. /\ w.at \notin Pulling => w.at # "balance" /\ w.at # "pull"
          /\ "notify" \notin Pulling /\ "loop" \notin Pulling /\ "mark" \notin Pulling
          /\ "liquidate" \notin Pulling /\ (w.at \in Pulling => w.at # "notify")
      BY DEF Pulling
    <2>2. \/ SameBook(x, y) /\ (k2(s) <= k(s) \/ x.isActive)
             /\ (n2(s) <= n(s) \/ x.remindersSent < MAX_REMINDERS)
          \/ Instalment(x, y) /\ k2(s) = k(s) - 1 /\ n2(s) <= n(s)
          \/ Reminder(x, y) /\ k2(s) <= k(s) /\ n2(s) = n(s) - 1
          \/ AllReminders(x, y) /\ k2(s) <= k(s) /\ n2(s) <= M - 1
      <3>1. CASE SameBook(x, y) /\ w.at \in {"loop", "mark", "liquidate"}
        BY <1>5, <1>6, <2>1, <3>1
      <3>2. CASE SameBook(x, y) /\ w.at \in Pulling
                 /\ (x.isActive \/ (v.at \in Pulling /\ v.s = s))
        BY <1>6, <1>7, <2>1, <3>2
      <3>3. CASE SameBook(x, y) /\ w.at = "notify" /\ x.remindersSent < MAX_REMINDERS
        BY <1>5, <2>1, <3>3
      <3>4. CASE Instalment(x, y) /\ v.at \in Pulling /\ v.s = s /\ w.at = "loop"
        BY <1>5, <1>6, <2>1, <3>4
      <3>5. CASE Reminder(x, y) /\ v.at = "notify" /\ v.s = s /\ w.at = "loop"
        BY <1>5, <1>6, <2>1, <3>5
      <3>6. CASE AllReminders(x, y) /\ w.at = "mark"
        BY <1>5, <1>6, <2>1, <3>6
      <3>7. QED
        BY <3>1, <3>2, <3>3, <3>4, <3>5, <3>6 DEF Deals
    <2>3. Balanced(x, k(s), n(s))
      BY <1>1, <1>8
    <2>4. QED
      BY <1>1, <1>2, <1>3, <2>2, <2>3, BooksBalance DEF M
  <1>10. ASSUME NEW r \in DOMAIN schedule, r # s
         PROVE  Balanced(schedule[r], k2(r), n2(r))
    <2>1. k2(r) <= k(r) /\ n2(r) <= n(r)
      BY <1>4, <1>5, <1>6, <1>10
    <2>2. schedule[r] \in Books /\ SameBook(schedule[r], schedule[r])
      BY <1>1 DEF SameBook
    <2>3. Balanced(schedule[r], k(r), n(r))
      BY <1>8
    <2>4. QED
      BY <1>2, <1>3, <2>1, <2>2, <2>3, BooksBalance DEF M
  <1>11. \A r \in DOMAIN schedule' : Balanced(schedule'[r], k2(r), n2(r))
    BY <1>1, <1>9, <1>10
  <1>12. QED
    BY <1>11 DEF AllBalanced, k2, n2, HolderCount, Holders

LEMMA DealKeeps ==
    ASSUME CollectionInv, NEW p \in Polls, NEW s, NEW w, NEW y,
           Deals(p, s, w, y), ChainKeeps
    PROVE  CollectionInv'
  <1> DEFINE x == schedule[s]
             v == poll[p]
             n == Len(schedule)
  <1>1. /\ schedule \in Seq(Books) /\ s \in DOMAIN schedule /\ x \in Books /\ y \in Books
        /\ schedule' = [schedule EXCEPT ![s] = y] /\ poll' = [poll EXCEPT ![p] = w]
        /\ poll \in [Polls -> PollStates(n)] /\ w \in PollStates(n)
        /\ UNCHANGED <<now, table>> /\ n \in Nat
    BY DEF Deals, CollectionInv, Typed
  <1>2. schedule' \in Seq(Books) /\ Len(schedule') = n
    BY <1>1
  <1>3. Typed'
    <2>1. poll' \in [Polls -> PollStates(n)]
      BY <1>1
    <2>2. QED
      BY <1>1, <1>2, <2>1 DEF Typed, CollectionInv, ChainKeeps
  <1>4. Holding'
    <2>1. w.at \notin {"idle", "loop"} => w.s # None
      BY <1>1 DEF Deals, None
    <2>2. \A q \in Polls \ {p} : poll'[q] = poll[q]
      BY <1>1
    <2>3. QED
      BY <1>1, <2>1, <2>2 DEF Holding, CollectionInv
  <1>5. AllBalanced'
    BY DealBalances
  <1>6. NoticeBeforeDefault'
    <2>1. y.notices >= x.notices
      <3>1. x.notices \in 0..MAX_REMINDERS /\ y.notices \in 0..MAX_REMINDERS
            /\ MAX_REMINDERS \in Nat
        BY <1>1 DEF Books, CollectionAssumption
      <3>2. \/ y.notices = x.notices \/ y.notices = x.notices + 1
            \/ y.notices = MAX_REMINDERS
        BY DEF Deals, SameBook, Instalment, Reminder, AllReminders
      <3>3. QED
        BY <3>1, <3>2
    <2>2. w.at \in {"mark", "liquidate"} => w.s = s /\ y.notices >= MAX_REMINDERS
      <3> SUFFICES ASSUME w.at \in {"mark", "liquidate"}
                   PROVE  w.s = s /\ y.notices >= MAX_REMINDERS
        OBVIOUS
      <3>1. /\ x.notices \in Nat /\ x.remindersSent \in Nat /\ MAX_REMINDERS \in Nat
            /\ y.notices \in Nat
        BY <1>1 DEF Books, CollectionAssumption
      <3>2. x.notices < MAX_REMINDERS => x.remindersSent <= x.notices
        BY <1>1 DEF CollectionInv, AllBalanced, Balanced
      <3>3. \/ x.remindersSent >= MAX_REMINDERS
            \/ v.at \in {"mark", "liquidate"} /\ v.s = s
            \/ AllReminders(x, y)
        BY DEF Deals, Pulling
      <3>4. v.at \in {"mark", "liquidate"} /\ v.s = s => x.notices >= MAX_REMINDERS
        BY DEF CollectionInv, NoticeBeforeDefault
      <3>5. w.s = s
        BY DEF Deals
      <3>6. x.notices >= MAX_REMINDERS \/ y.notices = MAX_REMINDERS
        BY <3>1, <3>2, <3>3, <3>4 DEF AllReminders
      <3>7. QED
        BY <2>1, <3>1, <3>5, <3>6
    <2>3. ASSUME NEW q \in Polls, q # p, poll[q].at \in {"mark", "liquidate"}
          PROVE  schedule'[poll[q].s].notices >= MAX_REMINDERS
      <3> DEFINE r == poll[q].s
      <3>1. schedule[r].notices >= MAX_REMINDERS
        BY <2>3 DEF CollectionInv, NoticeBeforeDefault
      <3>2. r \in None..n /\ r # None
        BY <1>1, <2>3 DEF PollStates, CollectionInv, Holding
      <3> HIDE DEF r
      <3>3. r \in DOMAIN schedule
        BY <1>1, <3>2 DEF None
      <3>4. ASSUME r = s PROVE schedule'[r].notices >= MAX_REMINDERS
        <4>1. /\ x.notices \in Nat /\ y.notices \in Nat /\ MAX_REMINDERS \in Nat
          BY <1>1 DEF Books, CollectionAssumption
        <4>2. schedule'[r] = y /\ schedule[r] = x
          BY <1>1, <3>4
        <4>3. QED
          BY <2>1, <3>1, <4>1, <4>2
      <3>5. ASSUME r # s PROVE schedule'[r].notices >= MAX_REMINDERS
        BY <1>1, <3>1, <3>3, <3>5
      <3>6. QED
        BY <3>4, <3>5 DEF r
    <2>4. QED
      BY <1>1, <2>2, <2>3 DEF NoticeBeforeDefault
  <1>7. DefaultedIsReal'
    <2>a. \A r \in DOMAIN schedule : schedule[r] \in Books
      BY <1>1
    <2>1. \A r \in DOMAIN schedule : schedule[r].loan \in Loans
      BY <2>a DEF Books
    <2>2. y.loan = x.loan
      BY DEF Deals, SameBook, Instalment, Reminder, AllReminders
    <2>3. \A r \in DOMAIN schedule : schedule[r].status = "DEFAULTED" =>
             Gone(schedule[r].loan, chain')
      BY <2>1 DEF CollectionInv, DefaultedIsReal, ChainKeeps, Gone
    <2>4. y.status = "DEFAULTED" => Gone(y.loan, chain')
      BY <1>1, <2>2, <2>3 DEF Deals
    <2>5. QED
      BY <1>1, <2>3, <2>4 DEF DefaultedIsReal, Gone
  <1>8. QED
    BY <1>3, <1>4, <1>5, <1>6, <1>7 DEF CollectionInv

\* A poll that holds no schedule disturbs none.
LEMMA WanderKeeps ==
    ASSUME CollectionInv, NEW p \in Polls, Wanders(p), ChainKeeps
    PROVE  CollectionInv'
  <1> DEFINE n == Len(schedule)
  <1>1. PICK w \in PollStates(n) :
           w.at \in {"idle", "loop"} /\ poll' = [poll EXCEPT ![p] = w]
    BY DEF Wanders
  <1>2. /\ poll \in [Polls -> PollStates(n)] /\ UNCHANGED <<now, schedule, table>>
        /\ poll'[p] = w /\ \A q \in Polls \ {p} : poll'[q] = poll[q]
    BY <1>1 DEF Wanders, CollectionInv, Typed
  <1>3. Typed'
    BY <1>1, <1>2 DEF CollectionInv, Typed, ChainKeeps
  <1>4. Holding' /\ NoticeBeforeDefault'
    BY <1>1, <1>2 DEF CollectionInv, Holding, NoticeBeforeDefault
  <1>5. AllBalanced'
    <2> SUFFICES ASSUME NEW r \in DOMAIN schedule
                 PROVE  Balanced(schedule[r], HolderCount(Pulling, r, poll'),
                                 HolderCount({"notify"}, r, poll'))
      BY <1>2 DEF AllBalanced, HolderCount, Holders
    <2> DEFINE M == Cardinality(Polls)
               k == HolderCount(Pulling, r, poll)
               m == HolderCount({"notify"}, r, poll)
               k2 == HolderCount(Pulling, r, poll')
               m2 == HolderCount({"notify"}, r, poll')
    <2>1. M \in Nat \ {0} /\ k \in 0..M /\ m \in 0..M /\ k2 \in 0..M /\ m2 \in 0..M
      BY HoldersCounted
    <2>2. w.at \notin Pulling /\ w.at \notin {"notify"}
      BY <1>1 DEF Pulling
    <2>3. k2 <= k /\ m2 <= m
      BY <1>2, <2>2, HoldersMove
    <2>4. schedule[r] \in Books /\ SameBook(schedule[r], schedule[r])
          /\ Balanced(schedule[r], k, m)
      BY DEF CollectionInv, Typed, SameBook, AllBalanced
    <2> HIDE DEF k, m, k2, m2
    <2>5. Balanced(schedule[r], k2, m2)
      BY <2>1, <2>3, <2>4, BooksBalance
    <2>6. QED
      BY <2>5 DEF k2, m2
  <1>6. DefaultedIsReal'
    <2>a. \A r \in DOMAIN schedule : schedule[r] \in Books
      BY DEF CollectionInv, Typed
    <2>1. \A r \in DOMAIN schedule : schedule[r].loan \in Loans
      BY <2>a DEF Books
    <2>2. QED
      BY <1>2, <2>1 DEF CollectionInv, DefaultedIsReal, ChainKeeps, Gone
  <1>7. QED
    BY <1>3, <1>4, <1>5, <1>6 DEF CollectionInv

\* A schedule starts balanced, and no poll holds it.
LEMMA RegisterKeeps ==
    ASSUME CollectionInv, NEW l \in Loans, RegisterSchedule(l)
    PROVE  CollectionInv'
  <1> DEFINE n == Len(schedule)
             y == [loan |-> l, status |-> "ON_TRACK", isActive |-> TRUE,
                   paidInstallments |-> 0, nextDueDate |-> FIRST_DUE,
                   remindersSent |-> 0, graceDeadline |-> NoDeadline, notices |-> 0]
  <1>1. /\ schedule \in Seq(Books) /\ n \in Nat /\ poll \in [Polls -> PollStates(n)]
        /\ table \in [Loans -> None..n]
    BY DEF CollectionInv, Typed
  <1>2. y \in Books /\ y.status # "DEFAULTED"
    BY DEF Books, Statuses, CollectionAssumption
  <1>a. /\ y.paidInstallments = 0 /\ y.remindersSent = 0 /\ y.notices = 0
    OBVIOUS
  <1>3. schedule' = Append(schedule, y) /\ UNCHANGED <<now, poll, chain>>
        /\ table' = [table EXCEPT ![l] = Len(schedule')]
    BY DEF RegisterSchedule
  <1> HIDE DEF y
  <1>4. /\ schedule' \in Seq(Books) /\ Len(schedule') = n + 1
        /\ DOMAIN schedule' = 1..n + 1 /\ DOMAIN schedule = 1..n
        /\ schedule'[n + 1] = y /\ \A r \in 1..n : schedule'[r] = schedule[r]
    BY <1>1, <1>2, <1>3
  <1> HIDE DEF n
  <1>5. Typed'
    <2>1. \A v \in PollStates(n) : v \in PollStates(n + 1)
      BY <1>1 DEF PollStates, None
    <2>2. poll' \in [Polls -> PollStates(n + 1)]
      BY <1>1, <1>3, <2>1
    <2>3. table' \in [Loans -> None..n + 1]
      BY <1>1, <1>3, <1>4 DEF None
    <2>4. QED
      BY <1>3, <1>4, <2>2, <2>3 DEF CollectionInv, Typed
  <1>6. Holding'
    BY <1>3 DEF CollectionInv, Holding
  <1>7. \A r : /\ HolderCount(Pulling, r, poll') = HolderCount(Pulling, r, poll)
               /\ HolderCount({"notify"}, r, poll') = HolderCount({"notify"}, r, poll)
    BY <1>3
  <1>8. AllBalanced'
    <2>1. Balanced(y, HolderCount(Pulling, n + 1, poll'),
                   HolderCount({"notify"}, n + 1, poll'))
      BY <1>a DEF Balanced, CollectionAssumption
    <2>2. \A r \in DOMAIN schedule' :
             Balanced(schedule'[r], HolderCount(Pulling, r, poll'),
                      HolderCount({"notify"}, r, poll'))
      BY <1>1, <1>4, <1>7, <2>1 DEF CollectionInv, AllBalanced
    <2>3. QED
      BY <2>2 DEF AllBalanced, HolderCount, Holders
  <1>9. NoticeBeforeDefault'
    <2>1. \A q \in Polls : poll[q].at \in {"mark", "liquidate"} => poll[q].s \in 1..n
      BY <1>1 DEF PollStates, CollectionInv, Holding, None
    <2>2. QED
      BY <1>3, <1>4, <2>1 DEF CollectionInv, NoticeBeforeDefault
  <1>10. DefaultedIsReal'
    BY <1>1, <1>2, <1>3, <1>4 DEF CollectionInv, DefaultedIsReal
  <1>11. QED
    BY <1>5, <1>6, <1>8, <1>9, <1>10 DEF CollectionInv

\* So do time and the transactions of others.
LEMMA ChainOnlyKeeps ==
    ASSUME CollectionInv, now' \in 0..MaxTime, ChainKeeps,
           UNCHANGED <<schedule, table, poll>>
    PROVE  CollectionInv'
  <1>1. Typed'
    BY DEF CollectionInv, Typed, ChainKeeps
  <1>2. Holding' /\ AllBalanced' /\ NoticeBeforeDefault'
    BY DEF CollectionInv, Holding, AllBalanced, NoticeBeforeDefault, HolderCount, Holders
  <1>3. DefaultedIsReal'
    <2>a. \A r \in DOMAIN schedule : schedule[r] \in Books
      BY DEF CollectionInv, Typed
    <2>1. \A r \in DOMAIN schedule : schedule[r].loan \in Loans
      BY <2>a DEF Books
    <2>2. QED
      BY <2>1 DEF CollectionInv, DefaultedIsReal, ChainKeeps, Gone
  <1>4. QED
    BY <1>1, <1>2, <1>3 DEF CollectionInv

\* Every step keeps the invariant.
LEMMA CollectionStep ==
    ASSUME CollectionInv, [Next]_vars
    PROVE  CollectionInv'
  <1>1. now \in 0..MaxTime /\ chain \in [Loans -> Chains]
    BY DEF CollectionInv, Typed
  <1>2. UNCHANGED chain => ChainKeeps
    BY <1>1 DEF ChainKeeps
  <1>3. CASE Tick \/ UNCHANGED vars
    <2>1. now' \in 0..MaxTime
      BY <1>1, <1>3 DEF Tick, vars, CollectionAssumption
    <2>2. QED
      BY <1>2, <1>3, <2>1, ChainOnlyKeeps DEF Tick, vars
  <1>4. ASSUME NEW l \in Loans, PullOnChain(l) \/ SomeoneDefaults(l)
        PROVE  CollectionInv'
    <2>1. ChainKeeps
      BY <1>4, ChainMoves, ChainPulls DEF SomeoneDefaults, CollectionInv
    <2>2. QED
      BY <1>1, <1>4, <2>1, ChainOnlyKeeps DEF PullOnChain, SomeoneDefaults
  <1>5. ASSUME NEW l \in Loans, RegisterSchedule(l)
        PROVE  CollectionInv'
    BY <1>5, RegisterKeeps
  <1>6. ASSUME NEW l \in Loans, NEW p \in Polls, SimulateDefaultLifecycle(p, l)
        PROVE  CollectionInv'
    BY <1>2, <1>6, SimulationShape, DealKeeps
  <1>7. ASSUME NEW p \in Polls,
               PollOnce(p) \/ PollEnds(p) \/ \E l \in Loans : PassLoan(p, l)
        PROVE  CollectionInv'
    BY <1>2, <1>7, LoopShape, WanderKeeps
  <1>8. ASSUME NEW p \in Polls, NEW l \in Loans, TakeUpLoan(p, l)
        PROVE  CollectionInv'
    BY <1>2, <1>8, TakeUpShape, DealKeeps
  <1>9. ASSUME NEW p \in Polls, NEW s \in DOMAIN schedule,
               \/ InspectBorrower(p, s) \/ PullSucceeds(p, s) \/ PullFails(p, s)
               \/ Notified(p, s)
        PROVE  CollectionInv'
    BY <1>2, <1>9, PullShape, DealKeeps
  <1>10. ASSUME NEW p \in Polls, NEW s \in DOMAIN schedule,
                \/ MarkConfirmed(p, s) \/ MarkFails(p, s)
                \/ LiquidateConfirmed(p, s) \/ LiquidateFails(p, s)
         PROVE  CollectionInv'
    BY <1>10, DefaultShape, DealKeeps
  <1>11. ASSUME NEW p \in Polls, PollStep(p) PROVE CollectionInv'
    BY <1>7, <1>8, <1>9, <1>10, <1>11 DEF PollStep
  <1>12. QED
    BY <1>3, <1>4, <1>5, <1>6, <1>7, <1>11 DEF Next

\* The inductive invariant of collection: in every state that overlapping polls,
\* failing calls, lost answers, repayments and new registrations lead to, each
\* schedule is balanced with the polls that hold it (collectionAgent.js).
THEOREM SchedulesBalance == Spec => []CollectionInv
  <1>1. Init => CollectionInv
    <2> SUFFICES ASSUME Init PROVE CollectionInv
      OBVIOUS
    <2>1. schedule = <<>> /\ Len(schedule) = 0 /\ schedule \in Seq(Books)
      BY DEF Init
    <2>2. Idle \in PollStates(0) /\ Idle.at = "idle"
      BY DEF PollStates, Idle, Stages, None
    <2>3. Typed
      BY <2>1, <2>2 DEF Init, Typed, Chains, CollectionAssumption, None
    <2>4. Holding /\ NoticeBeforeDefault
      BY <2>2 DEF Init, Holding, NoticeBeforeDefault
    <2>5. AllBalanced /\ DefaultedIsReal
      BY <2>1 DEF AllBalanced, DefaultedIsReal
    <2>6. QED
      BY <2>3, <2>4, <2>5 DEF CollectionInv
  <1>2. CollectionInv /\ [Next]_vars => CollectionInv'
    BY CollectionStep
  <1>3. QED
    BY <1>1, <1>2, PTL DEF Spec

\* Schedules, polls and loans keep their types; the reminders of a schedule stay
\* within MAX_REMINDERS and one for every poll but one.
THEOREM CollectionTypeCorrect == Spec => []TypeOK
  BY SchedulesBalance, BalancedTypes, PTL

\* A schedule marked DEFAULTED is of a loan that the chain has defaulted and whose
\* escrow it has liquidated, for any number of polls and loans.
THEOREM DefaultedAlwaysReal == Spec => []DefaultedIsReal
  BY SchedulesBalance, PTL DEF CollectionInv

\* No poll calls mark_default or liquidate_escrow for a schedule that was not sent
\* MAX_REMINDERS notices, however many polls overlap.
THEOREM NoticeAlwaysFirst == Spec => []NoticeBeforeDefault
  BY SchedulesBalance, PTL DEF CollectionInv

\* However many polls overlap, they pull a schedule past its total by at most one
\* instalment for each poll but one, and a schedule that is paid is closed.
THEOREM PullsAlwaysBounded == Spec => []PullsBounded
  <1>1. CollectionInv => PullsBounded
    <2> SUFFICES ASSUME CollectionInv, NEW s \in DOMAIN schedule
                 PROVE  /\ schedule[s].paidInstallments <= TOTAL + Cardinality(Polls) - 1
                        /\ schedule[s].paidInstallments >= TOTAL => ~schedule[s].isActive
      BY DEF PullsBounded
    <2> DEFINE paid == schedule[s].paidInstallments
               k == HolderCount(Pulling, s, poll)
               M == Cardinality(Polls)
    <2>1. schedule[s] \in Books /\ k \in 0..M /\ M \in Nat \ {0} /\ TOTAL \in Nat
      BY HoldersCounted DEF CollectionInv, Typed, CollectionAssumption
    <2>2. paid \in Nat
      BY <2>1 DEF Books
    <2>3. paid >= TOTAL => ~schedule[s].isActive /\ paid + k <= TOTAL + M - 1
      BY DEF CollectionInv, AllBalanced, Balanced
    <2> HIDE DEF paid, k, M
    <2>4. paid <= TOTAL + M - 1
      BY <2>1, <2>2, <2>3
    <2>5. QED
      BY <2>3, <2>4 DEF paid, M
  <1>2. QED
    BY <1>1, SchedulesBalance, PTL

-----------------------------------------------------------------------------
(* Why a schedule is closed.                                               *)

\* The chain has defaulted loan l.
IsDefaulted(l, loans) == loans[l].status = "Defaulted"

\* A schedule x is open, or it is closed for one of the two causes.
Caused(x, loans) ==
    ~x.isActive => x.paidInstallments >= TOTAL \/ IsDefaulted(x.loan, loans)

\* A poll that is to liquidate an escrow has seen its loan defaulted.
LiquidatesDefaulted ==
    \A p \in Polls :
       poll[p].at = "liquidate" => IsDefaulted(schedule[poll[p].s].loan, chain)

CauseInv == ClosedForCause /\ LiquidatesDefaulted

\* What is defaulted on the chain stays so.
LEMMA DefaultsStay ==
    ASSUME CollectionInv, [Next]_vars
    PROVE  \A l \in Loans : IsDefaulted(l, chain) => IsDefaulted(l, chain')
  <1>1. chain \in [Loans -> Chains]
    BY DEF CollectionInv, Typed
  <1>2. ASSUME NEW k \in Loans, MarkDefaultOnChain(k) \/ LiquidateOnChain(k)
        PROVE  \A l \in Loans : IsDefaulted(l, chain) => IsDefaulted(l, chain')
    BY <1>1, <1>2 DEF MarkDefaultOnChain, LiquidateOnChain, IsDefaulted, Chains
  <1>3. ASSUME NEW k \in Loans, PullOnChain(k)
        PROVE  \A l \in Loans : IsDefaulted(l, chain) => IsDefaulted(l, chain')
    <2>1. \A l \in Loans \ {k} : chain'[l] = chain[l]
      BY <1>1, <1>3 DEF PullOnChain
    <2>2. ~IsDefaulted(k, chain)
      BY <1>3 DEF PullOnChain, IsDefaulted
    <2>3. QED
      BY <2>1, <2>2 DEF IsDefaulted
  <1>4. ASSUME NEW s \in DOMAIN schedule PROVE schedule[s].loan \in Loans
    <2>1. schedule[s] \in Books
      BY <1>4 DEF CollectionInv, Typed
    <2>2. QED
      BY <2>1 DEF Books
  <1>5. ASSUME NEW p \in Polls, PollStep(p)
        PROVE  \A l \in Loans : IsDefaulted(l, chain) => IsDefaulted(l, chain')
    <2>1. \/ UNCHANGED chain
          \/ \E s \in DOMAIN schedule :
                MarkDefaultOnChain(schedule[s].loan) \/ LiquidateOnChain(schedule[s].loan)
      BY <1>5 DEF PollStep, PollEnds, PassLoan, TakeUpLoan, InspectBorrower, PullSucceeds,
                  PullFails, HandleFailedPull, Notified, MarkConfirmed, MarkFails,
                  LiquidateConfirmed, LiquidateFails
    <2>2. QED
      BY <1>2, <1>4, <2>1
  <1>6. QED
    BY <1>2, <1>3, <1>5
       DEF Next, vars, Tick, PollOnce, RegisterSchedule, SomeoneDefaults,
           SimulateDefaultLifecycle

\* The causes hold after a step that changes schedules only for a cause, and sends
\* a poll to a liquidation only after a default.
LEMMA CauseKept ==
    ASSUME CollectionInv, CauseInv, [Next]_vars,
           DOMAIN schedule' = DOMAIN schedule,
           \A r \in DOMAIN schedule :
              /\ schedule'[r].loan = schedule[r].loan
              /\ schedule'[r] = schedule[r] \/ Caused(schedule'[r], chain'),
           \A q \in Polls :
              poll'[q].at = "liquidate" =>
                 \/ poll[q].at = "liquidate" /\ poll'[q].s = poll[q].s
                 \/ /\ poll'[q].s \in DOMAIN schedule
                    /\ IsDefaulted(schedule[poll'[q].s].loan, chain')
    PROVE  CauseInv'
  <1>1. ASSUME NEW r \in DOMAIN schedule PROVE schedule[r].loan \in Loans
    <2>1. schedule[r] \in Books
      BY <1>1 DEF CollectionInv, Typed
    <2>2. QED
      BY <2>1 DEF Books
  <1>2. ASSUME NEW q \in Polls, poll[q].at = "liquidate" PROVE poll[q].s \in DOMAIN schedule
    <2>1. /\ poll[q] \in PollStates(Len(schedule)) /\ Len(schedule) \in Nat
          /\ DOMAIN schedule = 1..Len(schedule)
      BY DEF CollectionInv, Typed
    <2>2. poll[q].s \in None..Len(schedule) /\ poll[q].s # None
      BY <1>2, <2>1 DEF PollStates, CollectionInv, Holding
    <2>3. QED
      BY <2>1, <2>2 DEF None
  <1>3. \A r \in DOMAIN schedule : Caused(schedule'[r], chain')
    BY <1>1, DefaultsStay DEF CauseInv, ClosedForCause, Caused, IsDefaulted
  <1>4. ClosedForCause'
    BY <1>3 DEF ClosedForCause, Caused, IsDefaulted
  <1>5. LiquidatesDefaulted'
    BY <1>1, <1>2, DefaultsStay DEF CauseInv, LiquidatesDefaulted, IsDefaulted
  <1>6. QED
    BY <1>4, <1>5 DEF CauseInv

\* The steps of a poll that leave the schedules as they are, and do not come to a
\* liquidation; time, and the transactions of others.
LEMMA QuietKeepsCause ==
    ASSUME CollectionInv, CauseInv, [Next]_vars, UNCHANGED schedule,
           \/ UNCHANGED poll
           \/ \E p \in Polls :
                 \/ PollOnce(p) \/ PollEnds(p) \/ NextLoan(p)
                 \/ GoTo(p, "pull") \/ GoTo(p, "notify") \/ GoTo(p, "mark")
                 \/ \E l \in Loans : PassLoan(p, l) \/ TakeUpLoan(p, l)
    PROVE  CauseInv'
  <1>1. poll \in [Polls -> PollStates(Len(schedule))]
    BY DEF CollectionInv, Typed
  <1>2. ASSUME NEW q \in Polls, poll'[q].at = "liquidate", poll'[q] # poll[q]
        PROVE  FALSE
    <2>1. poll[q] \in PollStates(Len(schedule))
      BY <1>1
    <2>2. PICK p \in Polls :
             \/ PollOnce(p) \/ PollEnds(p) \/ NextLoan(p)
             \/ GoTo(p, "pull") \/ GoTo(p, "notify") \/ GoTo(p, "mark")
             \/ \E l \in Loans : PassLoan(p, l) \/ TakeUpLoan(p, l)
      BY <1>2
    <2>3. CASE PollOnce(p) \/ GoTo(p, "pull") \/ GoTo(p, "notify") \/ GoTo(p, "mark")
      BY <1>1, <1>2, <2>1, <2>3 DEF PollOnce, GoTo, PollStates
    <2>4. CASE PollEnds(p) \/ NextLoan(p)
      BY <1>1, <1>2, <2>1, <2>4 DEF PollEnds, NextLoan, PollStates, Idle
    <2>5. ASSUME NEW l \in Loans, PassLoan(p, l) \/ TakeUpLoan(p, l)
          PROVE  FALSE
      <3>1. q = p
        BY <1>1, <1>2, <2>5 DEF PassLoan, TakeUpLoan
      <3>2. CASE PassLoan(p, l)
        BY <1>1, <1>2, <2>1, <3>1, <3>2 DEF PassLoan, PollStates
      <3>3. CASE TakeUpLoan(p, l)
        <4>1. PICK at \in {"balance", "pull"} :
                 poll' = [poll EXCEPT ![p].at = at, ![p].visited = @ \cup {l},
                                      ![p].s = table[l]]
          BY <3>3 DEF TakeUpLoan
        <4>2. poll'[p].at = at
          BY <1>1, <2>1, <3>1, <4>1 DEF PollStates
        <4>3. QED
          BY <1>2, <3>1, <4>2
      <3>4. QED
        BY <2>5, <3>2, <3>3
    <2>6. QED
      BY <2>2, <2>3, <2>4, <2>5
  <1>3. QED
    BY <1>2, CauseKept

\* The steps that change the schedule a poll holds, and not the chain.
LEMMA BookKeepsCause ==
    ASSUME CollectionInv, CauseInv, [Next]_vars, NEW p \in Polls, NEW s \in DOMAIN schedule,
           NEW y, y.loan = schedule[s].loan,
           \/ y.isActive = schedule[s].isActive
              /\ y.paidInstallments = schedule[s].paidInstallments
           \/ Caused(y, chain'),
           schedule' = [schedule EXCEPT ![s] = y],
           poll'[p].at # "liquidate", \A q \in Polls \ {p} : poll'[q] = poll[q]
    PROVE  CauseInv'
  <1>1. schedule \in Seq(Books) /\ schedule[s] \in Books
    BY DEF CollectionInv, Typed
  <1>2. schedule[s].loan \in Loans
    BY <1>1 DEF Books
  <1>3. Caused(y, chain')
    BY <1>2, DefaultsStay DEF CauseInv, ClosedForCause, Caused, IsDefaulted
  <1>4. /\ DOMAIN schedule' = DOMAIN schedule /\ schedule'[s] = y
        /\ \A r \in DOMAIN schedule \ {s} : schedule'[r] = schedule[r]
    BY <1>1
  <1>5. \A r \in DOMAIN schedule :
           /\ schedule'[r].loan = schedule[r].loan
           /\ schedule'[r] = schedule[r] \/ Caused(schedule'[r], chain')
    BY <1>3, <1>4
  <1>6. \A q \in Polls : poll'[q].at = "liquidate" =>
           poll[q].at = "liquidate" /\ poll'[q].s = poll[q].s
    BY Zenon
  <1>7. QED
    BY <1>4, <1>5, <1>6, CauseKept

\* The steps of a poll after its pull keep the causes,
LEMMA PullKeepsCause ==
    ASSUME CollectionInv, CauseInv, [Next]_vars, NEW p \in Polls, NEW s \in DOMAIN schedule,
           \/ InspectBorrower(p, s) \/ PullSucceeds(p, s) \/ PullFails(p, s)
           \/ Notified(p, s)
    PROVE  CauseInv'
  <1> DEFINE x == schedule[s]
  <1>1. /\ schedule \in Seq(Books) /\ x \in Books
        /\ poll \in [Polls -> PollStates(Len(schedule))]
        /\ poll[p] \in PollStates(Len(schedule))
    BY DEF CollectionInv, Typed
  <1>2. \A at \in {"pull", "notify", "mark"} : GoTo(p, at) \/ NextLoan(p) =>
           /\ poll'[p].at # "liquidate"
           /\ \A q \in Polls \ {p} : poll'[q] = poll[q]
    BY <1>1 DEF GoTo, NextLoan, PollStates
  <1>3. CASE HandleFailedPull(p, s)
    <2> DEFINE y == IF x.graceDeadline # NoDeadline THEN x
                    ELSE [x EXCEPT !.graceDeadline = x.nextDueDate + GRACE_PERIOD,
                                   !.status = "OVERDUE"]
    <2>1. schedule' = [schedule EXCEPT ![s] = y]
      BY <1>3 DEF HandleFailedPull
    <2>2. /\ y.loan = x.loan /\ y.isActive = x.isActive
          /\ y.paidInstallments = x.paidInstallments
      BY <1>1 DEF Books
    <2>3. NextLoan(p) \/ GoTo(p, "notify") \/ GoTo(p, "mark")
      BY <1>3 DEF HandleFailedPull
    <2> HIDE DEF y
    <2>4. QED
      BY <1>2, <2>1, <2>2, <2>3, BookKeepsCause
  <1>4. CASE GoTo(p, "pull") /\ UNCHANGED schedule
    BY <1>4, QuietKeepsCause
  <1>5. CASE PullSucceeds(p, s)
    <2> DEFINE paid == x.paidInstallments + 1
               due == x.nextDueDate + INTERVAL
               st == IF paid >= TOTAL THEN "COMPLETE" ELSE "ON_TRACK"
               open == x.isActive /\ paid < TOTAL
               y == [x EXCEPT !.paidInstallments = paid, !.nextDueDate = due,
                              !.remindersSent = 0, !.graceDeadline = NoDeadline,
                              !.status = st, !.isActive = open]
    <2>1. schedule' = [schedule EXCEPT ![s] = y] /\ NextLoan(p)
      BY Zenon, <1>5 DEF PullSucceeds
    <2> HIDE DEF st, due
    <2>2. y.loan = x.loan /\ y.isActive = open /\ y.paidInstallments = paid
      BY <1>1 DEF Books
    <2> HIDE DEF y
    <2>3. /\ x.isActive \in BOOLEAN /\ x.paidInstallments \in Nat /\ paid \in Nat
          /\ x.loan \in Loans /\ TOTAL \in Nat
      BY <1>1 DEF Books, CollectionAssumption
    <2>4. Caused(x, chain')
      BY <2>3, DefaultsStay DEF CauseInv, ClosedForCause, Caused, IsDefaulted
    <2>5. Caused(y, chain')
      BY <2>2, <2>3, <2>4 DEF Caused
    <2>6. QED
      BY <1>2, <2>1, <2>2, <2>5, BookKeepsCause
  <1>6. CASE Notified(p, s)
    <2> DEFINE k == IF x.notices < MAX_REMINDERS THEN x.notices + 1 ELSE x.notices
               y == [x EXCEPT !.remindersSent = x.remindersSent + 1, !.notices = k,
                              !.status = "GRACE_PERIOD"]
    <2>1. schedule' = [schedule EXCEPT ![s] = y] /\ NextLoan(p)
      BY Zenon, <1>6 DEF Notified
    <2> HIDE DEF k
    <2>2. /\ y.loan = x.loan /\ y.isActive = x.isActive
          /\ y.paidInstallments = x.paidInstallments
      BY <1>1 DEF Books
    <2> HIDE DEF y
    <2>3. QED
      BY <1>2, <2>1, <2>2, BookKeepsCause
  <1>7. QED
    BY <1>3, <1>4, <1>5, <1>6 DEF InspectBorrower, PullFails

\* and so do the steps of a default: the liquidation follows a default that landed.
LEMMA DefaultKeepsCause ==
    ASSUME CollectionInv, CauseInv, [Next]_vars, NEW p \in Polls, NEW s \in DOMAIN schedule,
           \/ MarkConfirmed(p, s) \/ MarkFails(p, s)
           \/ LiquidateConfirmed(p, s) \/ LiquidateFails(p, s)
    PROVE  CauseInv'
  <1> DEFINE x == schedule[s]
  <1>1. /\ schedule \in Seq(Books) /\ x \in Books
        /\ poll \in [Polls -> PollStates(Len(schedule))]
        /\ poll[p] \in PollStates(Len(schedule))
        /\ chain \in [Loans -> Chains]
    BY DEF CollectionInv, Typed
  <1>2. x.loan \in Loans
    BY <1>1 DEF Books
  <1>3. CASE MarkConfirmed(p, s)
    <2>1. IsDefaulted(x.loan, chain')
      BY <1>1, <1>2, <1>3 DEF MarkConfirmed, MarkDefaultOnChain, IsDefaulted, Chains
    <2>2. /\ poll'[p].s = s /\ \A q \in Polls \ {p} : poll'[q] = poll[q]
      BY <1>1, <1>3 DEF MarkConfirmed, GoTo, Awaited, PollStates
    <2>3. UNCHANGED schedule
      BY <1>3 DEF MarkConfirmed
    <2>4. \A q \in Polls : poll'[q].at = "liquidate" =>
             \/ poll[q].at = "liquidate" /\ poll'[q].s = poll[q].s
             \/ /\ poll'[q].s \in DOMAIN schedule
                /\ IsDefaulted(schedule[poll'[q].s].loan, chain')
      BY <2>1, <2>2
    <2>5. QED
      BY <2>3, <2>4, CauseKept
  <1>4. CASE MarkFails(p, s)
    BY <1>4, QuietKeepsCause DEF MarkFails
  <1>5. CASE LiquidateConfirmed(p, s) \/ LiquidateFails(p, s)
    <2> DEFINE st == IF LiquidateConfirmed(p, s) THEN "DEFAULTED" ELSE "DEFAULT_PENDING"
               y == [x EXCEPT !.status = st, !.isActive = FALSE]
    <2>1. schedule' = [schedule EXCEPT ![s] = y] /\ NextLoan(p)
      BY <1>5 DEF LiquidateConfirmed, LiquidateFails
    <2> HIDE DEF st
    <2>2. y.loan = x.loan
      BY <1>1 DEF Books
    <2>3. IsDefaulted(x.loan, chain')
      BY <1>2, <1>5, DefaultsStay
         DEF LiquidateConfirmed, LiquidateFails, Awaited, CauseInv, LiquidatesDefaulted
    <2> HIDE DEF y
    <2>4. Caused(y, chain')
      BY <2>2, <2>3 DEF Caused
    <2>5. poll'[p].at # "liquidate" /\ \A q \in Polls \ {p} : poll'[q] = poll[q]
      BY <1>1, <2>1 DEF NextLoan, PollStates
    <2>6. QED
      BY <2>1, <2>2, <2>4, <2>5, BookKeepsCause
  <1>6. QED
    BY <1>3, <1>4, <1>5

\* A new schedule is open, and one that is simulated stays as it was.
LEMMA StartKeepsCause ==
    ASSUME CollectionInv, CauseInv, [Next]_vars, NEW l \in Loans,
           RegisterSchedule(l) \/ \E p \in Polls : SimulateDefaultLifecycle(p, l)
    PROVE  CauseInv'
  <1>1. /\ schedule \in Seq(Books) /\ table \in [Loans -> None..Len(schedule)]
        /\ poll \in [Polls -> PollStates(Len(schedule))] /\ Len(schedule) \in Nat
    BY DEF CollectionInv, Typed
  <1>2. CASE RegisterSchedule(l)
    <2> DEFINE n == Len(schedule)
               y == [loan |-> l, status |-> "ON_TRACK", isActive |-> TRUE,
                     paidInstallments |-> 0, nextDueDate |-> FIRST_DUE,
                     remindersSent |-> 0, graceDeadline |-> NoDeadline, notices |-> 0]
    <2>1. schedule' = Append(schedule, y) /\ y.isActive /\ UNCHANGED <<poll, chain>>
      BY <1>2 DEF RegisterSchedule
    <2> HIDE DEF y
    <2>2. /\ DOMAIN schedule' = 1..n + 1 /\ DOMAIN schedule = 1..n
          /\ schedule'[n + 1] = y /\ \A r \in 1..n : schedule'[r] = schedule[r]
      BY <1>1, <2>1
    <2>3. ClosedForCause'
      BY <1>1, <2>1, <2>2 DEF CauseInv, ClosedForCause
    <2>4. \A q \in Polls : poll[q].at = "liquidate" => poll[q].s \in 1..n
      BY <1>1 DEF PollStates, CollectionInv, Holding, None
    <2>5. LiquidatesDefaulted'
      BY <2>1, <2>2, <2>4 DEF CauseInv, LiquidatesDefaulted, IsDefaulted
    <2>6. QED
      BY <2>3, <2>5 DEF CauseInv
  <1>3. ASSUME NEW p \in Polls, SimulateDefaultLifecycle(p, l) PROVE CauseInv'
    <2> DEFINE s == table[l]
               x == schedule[s]
               d == x.nextDueDate + GRACE_PERIOD
               y == [x EXCEPT !.graceDeadline = d, !.status = "OVERDUE",
                              !.remindersSent = MAX_REMINDERS, !.notices = MAX_REMINDERS]
    <2>1. s \in DOMAIN schedule /\ x \in Books
      BY <1>1, <1>3 DEF SimulateDefaultLifecycle, None
    <2>2. schedule' = [schedule EXCEPT ![s] = y]
      BY Zenon, <1>3 DEF SimulateDefaultLifecycle
    <2>3. poll'[p].at # "liquidate" /\ \A q \in Polls \ {p} : poll'[q] = poll[q]
      BY <1>1, <1>3 DEF SimulateDefaultLifecycle
    <2> HIDE DEF s, d
    <2>4. /\ y.loan = x.loan /\ y.isActive = x.isActive
          /\ y.paidInstallments = x.paidInstallments
      BY <2>1 DEF Books
    <2> HIDE DEF y
    <2>5. QED
      BY <2>1, <2>2, <2>3, <2>4, BookKeepsCause
  <1>4. QED
    BY <1>2, <1>3

\* A loan leaves collection only when its instalments are pulled or the chain has
\* defaulted it, however many polls overlap and whatever of their calls fails.
THEOREM ClosedAlwaysForCause == Spec => []ClosedForCause
  <1>1. Init => CauseInv
    BY DEF Init, CauseInv, ClosedForCause, LiquidatesDefaulted, Idle
  <1>2. CollectionInv /\ CauseInv /\ [Next]_vars => CauseInv'
    <2> SUFFICES ASSUME CollectionInv, CauseInv, [Next]_vars PROVE CauseInv'
      OBVIOUS
    <2>1. ASSUME NEW p \in Polls, PollOnce(p) \/ PollStep(p) PROVE CauseInv'
      <3>1. CASE \/ PollOnce(p) \/ PollEnds(p)
                 \/ \E l \in Loans : PassLoan(p, l) \/ TakeUpLoan(p, l)
        <4>1. UNCHANGED schedule
          BY <3>1 DEF PollOnce, PollEnds, PassLoan, TakeUpLoan
        <4>2. QED
          BY <3>1, <4>1, QuietKeepsCause
      <3>2. QED
        BY <2>1, <3>1, PullKeepsCause, DefaultKeepsCause DEF PollStep
    <2>2. ASSUME NEW l \in Loans,
                 RegisterSchedule(l) \/ \E p \in Polls : SimulateDefaultLifecycle(p, l)
          PROVE  CauseInv'
      BY <2>2, StartKeepsCause
    <2>3. CASE Tick \/ (\E l \in Loans : PullOnChain(l) \/ SomeoneDefaults(l)) \/ UNCHANGED vars
      <3>1. UNCHANGED <<schedule, poll>>
        BY <2>3 DEF Tick, PullOnChain, SomeoneDefaults, vars
      <3>2. QED
        BY <3>1, QuietKeepsCause
    <2>4. QED
      BY <2>1, <2>2, <2>3 DEF Next
  <1>3. QED
    BY <1>1, <1>2, SchedulesBalance, PTL DEF Spec, CauseInv

=============================================================================
