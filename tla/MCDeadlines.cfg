SPECIFICATION FairSpec
CONSTANTS
    m1 = m1
    m2 = m2
    k1 = k1
    RetryAfter = 1
    StartTime = 0
    MaxTime = 3
    Members = {m1, m2}
    Tokens = {k1}
    Lives = {2}
    EndTimes = {1, 2}
    warnBefore = 1
    maxDeadlineLate = 2
    MaxChanges = 1
    MaxFaults = 1
    InviterOf <- MCInviter
INVARIANTS
    NoLostDeadline
PROPERTIES
    SendsOnce
    DeadlineSettles
CHECK_DEADLOCK FALSE
