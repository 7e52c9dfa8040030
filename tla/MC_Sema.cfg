CONSTANTS
    c0 = c0
    c1 = c1
    i0 = i0
    i1 = i1
    t1 = t1
    t2 = t2
    t3 = t3
    NoThread = NoThread
    CPU <- MCCPU
    Thread <- MCThread
    Idle <- MCIdle
    RemoteCallers <- MCRemoteCallers
    Pri = 2
    SleepMs = {1, 2}
    SleepWidth = 8
    SemaInit = 1

SPECIFICATION SemaSpec
SYMMETRY MCSymmetry

INVARIANT CntInRange
INVARIANT RunQueueIntegrity
INVARIANT CurRunning
INVARIANT SleepTimerConsistent
INVARIANT NoTickDeadlock
INVARIANT SemaTypeOK
INVARIANT Permits
INVARIANT WaitersAccounted
INVARIANT NoSpinDeadlock
