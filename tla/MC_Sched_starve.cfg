CONSTANTS
    c0 = c0
    c1 = c1
    i0 = i0
    i1 = i1
    t1 = t1
    t2 = t2
    t3 = t3
    NoThread = NoThread
    CPU <- MCOneCPU
    Thread <- MCThree
    Idle <- MCIdle
    RemoteCallers <- MCRemoteCallers
    Pri = 2
    SleepMs = {1}
    SleepWidth = 8

SPECIFICATION FairSpec

PROPERTY RunnableScheduled
