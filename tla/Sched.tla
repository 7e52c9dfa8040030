------------------------------- MODULE Sched -------------------------------
(***************************************************************************)
(* The per-CPU scheduler of the kernel: src/src/sched.c, the thread        *)
(* factory and wakeup of src/src/thread.c, the per-CPU lock helpers of     *)
(* src/src/cpu.h and the timer interrupt handler of src/src/cpu.c.         *)
(*                                                                         *)
(* Every CPU owns a circular run queue whose head is its idle thread, a    *)
(* current thread and a spinlock.  Scheduling state of a CPU is only       *)
(* touched with that CPU's lock held.  A section run with the lock taken   *)
(* at high IPL on the owning CPU (cpu_lock_splhi, or inside the interrupt  *)
(* handler) cannot be interleaved with anything else touching that CPU,    *)
(* so it is one action here.  Two things are not atomic and are modelled   *)
(* as separate steps:                                                      *)
(*   - thread_create and thread_wakeup aimed at another CPU take that      *)
(*     CPU's lock with cpu_lock_id, at LOW IPL: the caller's own timer     *)
(*     may interrupt it, and switch it out, while it holds the lock;       *)
(*   - the timer interrupt is taken (TickEnter) and then spins for the     *)
(*     CPU lock (TickRun) with interrupts off: nothing else runs on that   *)
(*     CPU meanwhile.                                                      *)
(* The context switch itself is a change of cpu->cur_thread: the thread   *)
(* switched in releases the CPU lock first thing on every resume path      *)
(* (thread_start, sched_yield, sched_sleep, timer_irq_handler), so the     *)
(* release is folded into the switching action.                            *)
(***************************************************************************)
EXTENDS Integers, Sequences, FiniteSets, SequencesExt

LOCAL G == INSTANCE Graphs

CONSTANTS
    CPU,            \* APIC ids of the active CPUs
    Thread,         \* thread records that thread_create may hand out
    Idle,           \* Idle[c]: the idle_thread embedded in cpus[c]
    Pri,            \* THREAD_DEFAULT_PRI
    SleepMs,        \* arguments passed to sched_sleep
    SleepWidth,     \* bit width of thread_t.sleep_time
    RemoteCallers,  \* CPUs whose threads call thread_create/thread_wakeup
                    \* for a thread living on another CPU
    NoThread        \* an unheld lock

ASSUME /\ DOMAIN Idle = CPU
       /\ \A c, d \in CPU : c # d => Idle[c] # Idle[d]
       /\ Range(Idle) \cap Thread = {}
       /\ Pri \in Nat \ {0}
       /\ SleepMs \subseteq Nat
       /\ RemoteCallers \subseteq CPU
       /\ NoThread \notin Thread \cup Range(Idle)

IdleThreads == Range(Idle)
AllThread == Thread \cup IdleThreads

\* THREAD_STATE_RUNNING / THREAD_STATE_SLEEPING of thread.h
RUNNING == "RUNNING"
SLEEPING == "SLEEPING"

\* thread_t.sleep_time is a uint32_t: the model keeps the wrap-around of
\* its decrement at SleepWidth bits.
SleepWord == 2^SleepWidth
Dec(x) == (x + SleepWord - 1) % SleepWord

VARIABLES
    runq,       \* cpu->threads: the ring as a sequence, head (idle) first
    cur,        \* cpu->cur_thread
    state,      \* thread_t.state
    cnt,        \* thread_t.cnt, the dynamic credit
    sleep_time, \* thread_t.sleep_time
    timer,      \* THREAD_FLAG_SLEEP_TIMER of thread_t.flags
    cpu_id,     \* thread_t.cpu_id
    holder,     \* cpu->lock held across steps: the thread holding it, or NoThread
    inIrq,      \* the CPU has taken its timer interrupt and spins for its lock
    pc,         \* where each thread is in the code it runs
    arg,        \* argument of a pending remote thread_create/thread_wakeup
    sreq,       \* history: the ms of the thread's last sched_sleep
    selapsed    \* history: ticks of its CPU since that sched_sleep

schedVars == <<runq, cur, state, cnt, sleep_time, timer, cpu_id>>
vars == <<runq, cur, state, cnt, sleep_time, timer, cpu_id, holder, inIrq,
          pc, arg, sreq, selapsed>>

(* pc values: "unborn" (not yet handed out by thread_create), "embryo"    *)
(* (allocated, being queued by a remote thread_create), "run" (running    *)
(* its own code), "yielded" (blocked in sched_yield until thread_wakeup), *)
(* "wakeup" / "create" (holds a remote CPU lock inside thread_wakeup /    *)
(* thread_create).                                                        *)
PCs == {"unborn", "embryo", "run", "yielded", "wakeup", "create"}

\* The pcs at which a thread runs with interrupts enabled.
LowIpl == {"run", "wakeup", "create"}

Created == {t \in AllThread : pc[t] \notin {"unborn", "embryo"}}

TypeOK ==
    /\ runq \in [CPU -> Seq(AllThread)]
    /\ cur \in [CPU -> AllThread]
    /\ state \in [AllThread -> {RUNNING, SLEEPING}]
    /\ cnt \in [AllThread -> Nat]
    /\ sleep_time \in [AllThread -> 0..(SleepWord - 1)]
    /\ timer \in [AllThread -> BOOLEAN]
    /\ cpu_id \in [AllThread -> CPU]
    /\ holder \in [CPU -> AllThread \cup {NoThread}]
    /\ inIrq \in [CPU -> BOOLEAN]
    /\ pc \in [AllThread -> PCs]
    /\ arg \in [AllThread -> [thr : AllThread, cpu : CPU]]
    /\ sreq \in [AllThread -> Nat]
    /\ selapsed \in [AllThread -> Nat]

-----------------------------------------------------------------------------
(* The scheduling algorithm, as operators over a candidate state and      *)
(* credit assignment.                                                     *)

\* sched_find(threads->next): the ring is scanned from the thread after the
\* head round to the head; the first RUNNING thread of greatest cnt wins
\* (strict >, starting from -1), and the start of the scan when none runs.
ScanOrder(c) == Tail(runq[c]) \o <<Head(runq[c])>>

\* Mutant: the scan forgets the state test and may pick a SLEEPING thread.
SchedFindAnyState(c, st, cn) ==
    LET s == ScanOrder(c)
        R == 1..Len(s)
        best == {i \in R : \A j \in R : cn[s[j]] <= cn[s[i]]}
    IN  s[Min(best)]

SchedFind(c, st, cn) ==
    LET s == ScanOrder(c)
        R == {i \in 1..Len(s) : st[s[i]] = RUNNING}
        best == {i \in R : \A j \in R : cn[s[j]] <= cn[s[i]]}
    IN  IF R = {} THEN s[1] ELSE s[Min(best)]

\* The decay pass of sched_next: every thread but the head is recharged.
Decay(c, cn) ==
    [t \in AllThread |-> IF t \in ToSet(Tail(runq[c]))
                         THEN cn[t] \div 2 + Pri ELSE cn[t]]

\* sched_next: <<thread to run, credits>>; when the winner has no credit
\* left, all threads are recharged and the scan is repeated.
SchedNext(c, st, cn) ==
    LET first == SchedFind(c, st, cn)
        cn2 == IF cn[first] = 0 THEN Decay(c, cn) ELSE cn
    IN  <<SchedFind(c, st, cn2), cn2>>

\* sched_next followed by the context switch: cur_thread and cnt change.
Switch(c, st, cn) ==
    LET r == SchedNext(c, st, cn)
    IN  /\ cur' = [cur EXCEPT ![c] = r[1]]
        /\ cnt' = r[2]

\* thread t is the one executing on its CPU
Runs(t) == cur[cpu_id[t]] = t /\ ~inIrq[cpu_id[t]]

LockFree(c) == holder[c] = NoThread

-----------------------------------------------------------------------------
(* Actions.                                                               *)

\* timer_irq_handler is entered: only when the running code has
\* interrupts enabled.
TickEnter(c) ==
    /\ ~inIrq[c]
    /\ pc[cur[c]] \in LowIpl
    /\ inIrq' = [inIrq EXCEPT ![c] = TRUE]
    /\ UNCHANGED <<schedVars, holder, pc, arg, sreq, selapsed>>

\* The threads of the ring blocked in sched_sleep (SLEEPING with the timer
\* flag), the ones sched_check_sleeping looks at.
TimedSleepers(c) ==
    {t \in ToSet(runq[c]) : state[t] = SLEEPING /\ timer[t]}

\* Mutant: the zero test is made before the decrement, not after it.
WokenBeforeDec(c) == {t \in TimedSleepers(c) : sleep_time[t] = 0}

\* sched_check_sleeping: "if (--t->sleep_time == 0)" wakes the thread.
Woken(c) == {t \in TimedSleepers(c) : Dec(sleep_time[t]) = 0}

\* Mutant: sched_tick calls sched_next without "cur_thread->cnt = 0".
ChargeTickNoClamp(c, st, cn) ==
    LET me == cur[c]
        cn2 == [cn EXCEPT ![me] = @ - 1]
    IN  IF cn2[me] > 0 THEN cnt' = cn2 /\ UNCHANGED cur
                        ELSE Switch(c, st, cn2)

\* The rest of sched_tick: the current thread pays one tick; when its
\* credit is spent it is clamped to zero and sched_next switches.
ChargeTick(c, st, cn) ==
    LET me == cur[c]
        cn2 == [cn EXCEPT ![me] = @ - 1]
    IN  IF cn2[me] > 0 THEN cnt' = cn2 /\ UNCHANGED cur
                        ELSE Switch(c, st, [cn2 EXCEPT ![me] = 0])

\* timer_irq_handler with cpu_lock() taken: cpu->ticks++ and sched_tick,
\* i.e. sched_check_sleeping over the whole ring (a woken thread is made
\* RUNNING with cnt = pri), then the charge of the tick.
TickRun(c) ==
    LET timed == TimedSleepers(c)
        woken == Woken(c)
        st1 == [t \in AllThread |-> IF t \in woken THEN RUNNING ELSE state[t]]
        cn1 == [t \in AllThread |-> IF t \in woken THEN Pri ELSE cnt[t]]
    IN
    /\ inIrq[c]
    /\ LockFree(c)
    /\ inIrq' = [inIrq EXCEPT ![c] = FALSE]
    /\ sleep_time' = [t \in AllThread |->
                        IF t \in timed THEN Dec(sleep_time[t]) ELSE sleep_time[t]]
    /\ timer' = [t \in AllThread |-> IF t \in woken THEN FALSE ELSE timer[t]]
    /\ state' = st1
    /\ selapsed' = [t \in AllThread |->
                        IF t \in timed THEN selapsed[t] + 1 ELSE selapsed[t]]
    /\ ChargeTick(c, st1, cn1)
    /\ UNCHANGED <<runq, cpu_id, holder, pc, arg, sreq>>

\* sched_yield: the caller is marked SLEEPING and another thread chosen;
\* only thread_wakeup makes it RUNNING again.
Yield(t) ==
    LET c == cpu_id[t]
        st == [state EXCEPT ![t] = SLEEPING]
    IN
    /\ t \in Thread
    /\ Runs(t) /\ pc[t] = "run"
    /\ LockFree(c)
    /\ state' = st
    /\ Switch(c, st, cnt)
    /\ pc' = [pc EXCEPT ![t] = "yielded"]
    /\ UNCHANGED <<runq, sleep_time, timer, cpu_id, holder, inIrq, arg,
                   sreq, selapsed>>

\* sched_sleep(ms); the idle thread is exempt (cur_thread != cpu->threads).
Sleep(t, ms) ==
    LET c == cpu_id[t]
        st == [state EXCEPT ![t] = SLEEPING]
    IN
    /\ t \in Thread
    /\ Runs(t) /\ pc[t] = "run"
    /\ LockFree(c)
    /\ state' = st
    /\ sleep_time' = [sleep_time EXCEPT ![t] = ms]
    /\ timer' = [timer EXCEPT ![t] = TRUE]
    /\ Switch(c, st, cnt)
    /\ sreq' = [sreq EXCEPT ![t] = ms]
    /\ selapsed' = [selapsed EXCEPT ![t] = 0]
    /\ UNCHANGED <<runq, cpu_id, holder, inIrq, pc, arg>>

\* Mutant: the new thread is linked with queue_insert_before(head), which
\* makes it the new head of the ring.
EnqueueAtHead(u, c) ==
    /\ runq' = [runq EXCEPT ![c] = <<u>> \o @]
    /\ state' = [state EXCEPT ![u] = RUNNING]
    /\ cnt' = [cnt EXCEPT ![u] = Pri]
    /\ sleep_time' = [sleep_time EXCEPT ![u] = 0]
    /\ timer' = [timer EXCEPT ![u] = FALSE]
    /\ cpu_id' = [cpu_id EXCEPT ![u] = c]

\* The part of thread_create that runs with the target CPU locked: a fresh
\* id, cpu_id, and queue_push_back (before the head, i.e. at the end).
Enqueue(u, c) ==
    /\ runq' = [runq EXCEPT ![c] = Append(@, u)]
    /\ state' = [state EXCEPT ![u] = RUNNING]
    /\ cnt' = [cnt EXCEPT ![u] = Pri]
    /\ sleep_time' = [sleep_time EXCEPT ![u] = 0]
    /\ timer' = [timer EXCEPT ![u] = FALSE]
    /\ cpu_id' = [cpu_id EXCEPT ![u] = c]

\* thread_create(entry, size, cpu_id) for the caller's own CPU: the whole
\* insertion runs under cpu_lock_splhi.
CreateLocal(t, u) ==
    /\ Runs(t) /\ pc[t] = "run"
    /\ pc[u] = "unborn"
    /\ LockFree(cpu_id[t])
    /\ Enqueue(u, cpu_id[t])
    /\ pc' = [pc EXCEPT ![u] = "run"]
    /\ UNCHANGED <<cur, holder, inIrq, arg, sreq, selapsed>>

\* Mutant: thread_create always takes the target lock with cpu_lock_id,
\* also when the target is the caller's own CPU.
CreateLockAnyCpu(t, u, c) ==
    /\ Runs(t) /\ pc[t] = "run"
    /\ cpu_id[t] \in RemoteCallers
    /\ pc[u] = "unborn"
    /\ LockFree(c)
    /\ holder' = [holder EXCEPT ![c] = t]
    /\ pc' = [pc EXCEPT ![t] = "create", ![u] = "embryo"]
    /\ arg' = [arg EXCEPT ![t] = [thr |-> u, cpu |-> c]]
    /\ UNCHANGED <<schedVars, inIrq, sreq, selapsed>>

\* thread_create for another CPU: cpu_lock_id(cpu_id) at low IPL ...
CreateLock(t, u, c) ==
    /\ Runs(t) /\ pc[t] = "run"
    /\ cpu_id[t] \in RemoteCallers
    /\ c # cpu_id[t]
    /\ pc[u] = "unborn"
    /\ LockFree(c)
    /\ holder' = [holder EXCEPT ![c] = t]
    /\ pc' = [pc EXCEPT ![t] = "create", ![u] = "embryo"]
    /\ arg' = [arg EXCEPT ![t] = [thr |-> u, cpu |-> c]]
    /\ UNCHANGED <<schedVars, inIrq, sreq, selapsed>>

\* ... then the queue insertion and cpu_unlock.
CreateDone(t) ==
    LET u == arg[t].thr
        c == arg[t].cpu
    IN
    /\ Runs(t) /\ pc[t] = "create"
    /\ Enqueue(u, c)
    /\ holder' = [holder EXCEPT ![c] = NoThread]
    /\ pc' = [pc EXCEPT ![t] = "run", ![u] = "run"]
    /\ UNCHANGED <<cur, inIrq, arg, sreq, selapsed>>

\* thread_wakeup(u) for a thread of the caller's CPU (cpu_lock_splhi).
WakeupLocal(t, u) ==
    /\ Runs(t) /\ pc[t] = "run"
    /\ pc[u] = "yielded"
    /\ cpu_id[u] = cpu_id[t]
    /\ LockFree(cpu_id[t])
    /\ state' = [state EXCEPT ![u] = RUNNING]
    /\ pc' = [pc EXCEPT ![u] = "run"]
    /\ UNCHANGED <<runq, cur, cnt, sleep_time, timer, cpu_id, holder, inIrq,
                   arg, sreq, selapsed>>

\* thread_wakeup(u) for a thread of another CPU: cpu_lock_id at low IPL ...
WakeupLock(t, u) ==
    /\ Runs(t) /\ pc[t] = "run"
    /\ cpu_id[t] \in RemoteCallers
    /\ pc[u] = "yielded"
    /\ cpu_id[u] # cpu_id[t]
    /\ LockFree(cpu_id[u])
    /\ holder' = [holder EXCEPT ![cpu_id[u]] = t]
    /\ pc' = [pc EXCEPT ![t] = "wakeup"]
    /\ arg' = [arg EXCEPT ![t] = [thr |-> u, cpu |-> cpu_id[u]]]
    /\ UNCHANGED <<schedVars, inIrq, sreq, selapsed>>

\* ... then thread->state = RUNNING and cpu_unlock.
WakeupDone(t) ==
    LET u == arg[t].thr
    IN
    /\ Runs(t) /\ pc[t] = "wakeup"
    /\ state' = [state EXCEPT ![u] = RUNNING]
    /\ holder' = [holder EXCEPT ![arg[t].cpu] = NoThread]
    /\ pc' = [pc EXCEPT ![t] = "run", ![u] = "run"]
    /\ UNCHANGED <<runq, cur, cnt, sleep_time, timer, cpu_id, inIrq, arg,
                   sreq, selapsed>>

-----------------------------------------------------------------------------
\* sched_init_cpu on every CPU: the idle thread alone on the ring, current,
\* RUNNING with cnt = pri = THREAD_DEFAULT_PRI; no other thread exists.
\* The fields of an unborn thread are don't-care values overwritten by
\* thread_create.
Init ==
    /\ runq = [c \in CPU |-> <<Idle[c]>>]
    /\ cur = Idle
    /\ state = [t \in AllThread |-> RUNNING]
    /\ cnt = [t \in AllThread |-> Pri]
    /\ sleep_time = [t \in AllThread |-> 0]
    /\ timer = [t \in AllThread |-> FALSE]
    /\ cpu_id = [t \in AllThread |->
                    IF \E c \in CPU : Idle[c] = t
                    THEN CHOOSE c \in CPU : Idle[c] = t
                    ELSE CHOOSE c \in CPU : TRUE]
    /\ holder = [c \in CPU |-> NoThread]
    /\ inIrq = [c \in CPU |-> FALSE]
    /\ pc = [t \in AllThread |-> IF t \in IdleThreads THEN "run" ELSE "unborn"]
    /\ arg = [t \in AllThread |-> [thr |-> t, cpu |-> cpu_id[t]]]
    /\ sreq = [t \in AllThread |-> 0]
    /\ selapsed = [t \in AllThread |-> 0]

ThreadStep(t) ==
    \/ Yield(t)
    \/ \E ms \in SleepMs : Sleep(t, ms)
    \/ \E u \in Thread : CreateLocal(t, u)
    \/ \E u \in Thread, c \in CPU : CreateLock(t, u, c)
    \/ CreateDone(t)
    \/ \E u \in Thread : WakeupLocal(t, u) \/ WakeupLock(t, u)
    \/ WakeupDone(t)

Next ==
    \/ \E c \in CPU : TickEnter(c) \/ TickRun(c)
    \/ \E t \in AllThread : ThreadStep(t)

\* The timer is periodic and its interrupt stays pending while masked, so
\* each CPU keeps taking it; the handler is eventually granted the lock
\* whenever it is free infinitely often.
Fairness ==
    \A c \in CPU : WF_vars(TickEnter(c)) /\ SF_vars(TickRun(c))

Spec == Init /\ [][Next]_vars
FairSpec == Spec /\ Fairness

-----------------------------------------------------------------------------
(* Properties.                                                            *)

\* Every CPU's ring starts at its idle thread and holds each thread once;
\* a created thread is on exactly one ring, the one of the CPU its cpu_id
\* names (thread_create, thread_wakeup and the cross-CPU wake paths all
\* lock the CPU through cpu_id); the current thread is on the ring.
RunQueueIntegrity ==
    /\ \A c \in CPU :
          /\ Head(runq[c]) = Idle[c]
          /\ IsInjective(runq[c])
          /\ cur[c] \in ToSet(runq[c])
    /\ \A c \in CPU, t \in AllThread :
          t \in ToSet(runq[c]) <=> (t \in Created /\ cpu_id[t] = c)

\* sched_next never switches to a thread that is SLEEPING: a thread that
\* blocked in sched_yield or sched_sleep is not run until it is woken.
CurRunning == \A c \in CPU : state[cur[c]] = RUNNING

\* A thread blocked in sched_sleep(ms) has had exactly (ms - sleep_time)
\* ticks of its own CPU since: sched_check_sleeping decrements it once per
\* tick and it wakes on the tick that brings sleep_time to zero, i.e.
\* a thread woken by its timer slept exactly ms ticks.
SleepTimerConsistent ==
    \A t \in Created :
        IF timer[t] THEN /\ state[t] = SLEEPING
                         /\ sleep_time[t] + selapsed[t] = sreq[t]
                    ELSE selapsed[t] = sreq[t]

\* The credit stays within what the tick charge (clamped at zero) and the
\* decay pass (cnt / 2 + pri) can produce: 0 <= cnt < 2 * pri.
CntInRange == \A t \in Created : cnt[t] \in 0..(2 * Pri - 1)

\* No set of CPUs is stuck in their timer handlers, each spinning for its
\* own lock held by a thread of the next that cannot run because that CPU
\* is itself in its handler (a lock taken at low IPL and kept across an
\* interrupt, cpu.h cpu_lock_id).
TickWaitsFor ==
    {<<c, d>> \in CPU \X CPU :
        inIrq[c] /\ holder[c] # NoThread /\ cpu_id[holder[c]] = d}

NoTickDeadlock == ~G!HasCycle([node |-> CPU, edge |-> TickWaitsFor])

\* A thread blocked in sched_yield returns from it: the scheduler visits
\* yielding threads in turn and each yield comes back (spec E3).
YieldReturns == \A t \in Thread : (pc[t] = "yielded") ~> (pc[t] = "run")

\* A thread that is RUNNING and ready is eventually given its CPU: the
\* credit scheme of sched_tick / sched_next starves no runnable thread.
RunnableScheduled ==
    \A t \in Thread :
        (pc[t] = "run" /\ state[t] = RUNNING) ~> (cur[cpu_id[t]] = t)

=============================================================================
