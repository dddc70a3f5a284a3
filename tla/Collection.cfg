SPECIFICATION Spec
CONSTANTS
    Loans = {"l1"}
    Polls = {"p1", "p2"}
    MaxTime = 4
    MaxSchedules = 1
    FIRST_DUE = 1
    INTERVAL = 1
    TOTAL = 2
    GRACE_PERIOD = 1
    MAX_REMINDERS = 2
INVARIANT DefaultedIsReal
INVARIANT NoticeBeforeDefault
INVARIANT PullsBounded
INVARIANT ClosedForCause
CHECK_DEADLOCK FALSE
