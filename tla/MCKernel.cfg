\* Two threads on a screen of three rows of two characters.  Every second
\* tick schedules.
CONSTANTS
    Workers = {t1, t2}
    InitProc = init
    ListHead = head
    ListTail = tail
    NULL = null
    MayFail = {t2}
    PidMapLen = 4
    TickNum = 2
    MaxBootTicks = 1
    Rows = 3
    Cols = 2
    Patience = 1
SPECIFICATION KFairSpec
INVARIANT CursorBounded
PROPERTIES PanicFinal EveryThreadPrints
