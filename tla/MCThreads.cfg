\* Three threads, one of which there may be no memory for; fewer ticks than
\* TICK_NUM between intr_enable and the end of kern_init's schedule().
CONSTANTS
    Workers = {t1, t2, t3}
    InitProc = init
    ListHead = head
    ListTail = tail
    NULL = null
    MayFail = {t3}
    PidMapLen = 4
    TickNum = 3
    MaxBootTicks = 2
SPECIFICATION FairSpec
INVARIANTS QueueIntact NeverWild PidsDistinct
PROPERTY TakeTurns
