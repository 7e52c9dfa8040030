-------------------------------- MODULE Sema --------------------------------
(***************************************************************************)
(* The counting semaphore of src/src/semaphore.c on top of the scheduler  *)
(* of Sched.  Threads use it the way spec E4 does: sema_wait, a critical  *)
(* section in which they may do anything else the scheduler offers, then  *)
(* sema_signal.                                                           *)
(*                                                                         *)
(* Both operations raise the IPL first (cpu_splhi) and then spin for the  *)
(* semaphore lock, so a thread inside them is never preempted: its CPU    *)
(* takes no timer interrupt until it lowers the IPL again.  The steps     *)
(* are cut where the code spins for a lock:                               *)
(*   sema_wait:   enter at high IPL | take s->lock (and return when       *)
(*                count > 0) | take the CPU lock, queue, drop s->lock,    *)
(*                sched_yield_locked;                                     *)
(*   sema_signal: enter at high IPL | take s->lock (and return when no    *)
(*                one waits, else pop a waiter) | cpu_lock_id of the      *)
(*                waiter's CPU, make it RUNNING, drop both locks.         *)
(***************************************************************************)
EXTENDS Sched

LOCAL SG == INSTANCE Graphs

CONSTANT SemaInit   \* the count given to sema_init

ASSUME SemaInit \in Nat

VARIABLES
    count,      \* s->count
    waitq,      \* s->threads, the wait list, head first
    slock,      \* holder of s->lock, or NoThread
    inCS        \* history: threads between their sema_wait and sema_signal

semaVars == <<count, waitq, slock, inCS>>
allVars == <<vars, semaVars>>

\* pc values added to those of Sched: spinning for s->lock in sema_wait
\* ("sw_spin") or sema_signal ("ss_spin"), holding it and spinning for a
\* CPU lock ("sw_held", "ss_held"), queued on the semaphore ("semwait").
SemaPCs == {"sw_spin", "sw_held", "semwait", "ss_spin", "ss_held"}

SemaTypeOK ==
    /\ runq \in [CPU -> Seq(AllThread)]
    /\ cur \in [CPU -> AllThread]
    /\ state \in [AllThread -> {RUNNING, SLEEPING}]
    /\ cnt \in [AllThread -> Nat]
    /\ holder \in [CPU -> AllThread \cup {NoThread}]
    /\ pc \in [AllThread -> PCs \cup SemaPCs]
    /\ count \in Nat
    /\ waitq \in Seq(Thread)
    /\ slock \in Thread \cup {NoThread}
    /\ inCS \subseteq Thread

-----------------------------------------------------------------------------
(* sema_wait                                                              *)

\* cpu_splhi: from here on the thread cannot be preempted.
WaitEnter(t) ==
    /\ Runs(t) /\ pc[t] = "run" /\ t \notin inCS
    /\ pc' = [pc EXCEPT ![t] = "sw_spin"]
    /\ UNCHANGED <<runq, cur, state, cnt, sleep_time, timer, cpu_id, holder,
                   inIrq, arg, sreq, selapsed, semaVars>>

\* Mutant: "if (s->count >= 0)" takes a permit that is not there.
WaitLockGe(t) ==
    /\ Runs(t) /\ pc[t] = "sw_spin"
    /\ slock = NoThread
    /\ count' = count - 1
    /\ inCS' = inCS \cup {t}
    /\ pc' = [pc EXCEPT ![t] = "run"]
    /\ UNCHANGED <<schedVars, holder, inIrq, arg, sreq, selapsed, waitq, slock>>

\* spinlock_lock(&s->lock); a free permit is taken at once.
WaitLock(t) ==
    /\ Runs(t) /\ pc[t] = "sw_spin"
    /\ slock = NoThread
    /\ IF count > 0
       THEN /\ count' = count - 1
            /\ inCS' = inCS \cup {t}
            /\ pc' = [pc EXCEPT ![t] = "run"]
            /\ UNCHANGED slock
       ELSE /\ slock' = t
            /\ pc' = [pc EXCEPT ![t] = "sw_held"]
            /\ UNCHANGED <<count, inCS>>
    /\ UNCHANGED <<schedVars, holder, inIrq, arg, sreq, selapsed, waitq>>

\* Mutant: the thread is queued twice (thread_list_push before and after
\* the CPU lock).
BlockTwice(t) ==
    LET c == cpu_id[t]
        st == [state EXCEPT ![t] = SLEEPING]
    IN
    /\ Runs(t) /\ pc[t] = "sw_held"
    /\ LockFree(c)
    /\ waitq' = waitq \o <<t, t>>
    /\ slock' = NoThread
    /\ state' = st
    /\ Switch(c, st, cnt)
    /\ pc' = [pc EXCEPT ![t] = "semwait"]
    /\ UNCHANGED <<runq, sleep_time, timer, cpu_id, holder, inIrq, arg, sreq,
                   selapsed, count, inCS>>

\* cpu_lock(); thread_list_push; spinlock_unlock(&s->lock);
\* sched_yield_locked(cpu).  The thread switched in drops the CPU lock.
Block(t) ==
    LET c == cpu_id[t]
        st == [state EXCEPT ![t] = SLEEPING]
    IN
    /\ Runs(t) /\ pc[t] = "sw_held"
    /\ LockFree(c)
    /\ waitq' = Append(waitq, t)
    /\ slock' = NoThread
    /\ state' = st
    /\ Switch(c, st, cnt)
    /\ pc' = [pc EXCEPT ![t] = "semwait"]
    /\ UNCHANGED <<runq, sleep_time, timer, cpu_id, holder, inIrq, arg, sreq,
                   selapsed, count, inCS>>

-----------------------------------------------------------------------------
(* sema_signal                                                            *)

\* cpu_splhi.
SignalEnter(t) ==
    /\ Runs(t) /\ pc[t] = "run" /\ t \in inCS
    /\ pc' = [pc EXCEPT ![t] = "ss_spin"]
    /\ UNCHANGED <<runq, cur, state, cnt, sleep_time, timer, cpu_id, holder,
                   inIrq, arg, sreq, selapsed, semaVars>>

\* Mutant: the count is raised even when a waiter is handed the permit.
SignalLockAlwaysInc(t) ==
    /\ Runs(t) /\ pc[t] = "ss_spin"
    /\ slock = NoThread
    /\ count' = count + 1
    /\ IF waitq = <<>>
       THEN /\ inCS' = inCS \ {t}
            /\ pc' = [pc EXCEPT ![t] = "run"]
            /\ UNCHANGED <<waitq, slock, arg>>
       ELSE /\ waitq' = Tail(waitq)
            /\ slock' = t
            /\ arg' = [arg EXCEPT ![t] = [thr |-> Head(waitq),
                                          cpu |-> cpu_id[Head(waitq)]]]
            /\ pc' = [pc EXCEPT ![t] = "ss_held"]
            /\ UNCHANGED inCS
    /\ UNCHANGED <<schedVars, holder, inIrq, sreq, selapsed>>

\* spinlock_lock(&s->lock); with no waiter the count is raised and the
\* call returns, else the head waiter is popped.
SignalLock(t) ==
    /\ Runs(t) /\ pc[t] = "ss_spin"
    /\ slock = NoThread
    /\ IF waitq = <<>>
       THEN /\ count' = count + 1
            /\ inCS' = inCS \ {t}
            /\ pc' = [pc EXCEPT ![t] = "run"]
            /\ UNCHANGED <<waitq, slock, arg>>
       ELSE /\ waitq' = Tail(waitq)
            /\ slock' = t
            /\ arg' = [arg EXCEPT ![t] = [thr |-> Head(waitq),
                                          cpu |-> cpu_id[Head(waitq)]]]
            /\ pc' = [pc EXCEPT ![t] = "ss_held"]
            /\ UNCHANGED <<count, inCS>>
    /\ UNCHANGED <<schedVars, holder, inIrq, sreq, selapsed>>

\* Mutant: the hand-off path returns without spinlock_unlock(&s->lock).
SignalWakeKeepLock(t) ==
    LET w == arg[t].thr
    IN
    /\ Runs(t) /\ pc[t] = "ss_held"
    /\ LockFree(cpu_id[w])
    /\ state' = [state EXCEPT ![w] = RUNNING]
    /\ inCS' = (inCS \ {t}) \cup {w}
    /\ pc' = [pc EXCEPT ![t] = "run", ![w] = "run"]
    /\ UNCHANGED <<runq, cur, cnt, sleep_time, timer, cpu_id, holder, inIrq,
                   arg, sreq, selapsed, count, waitq, slock>>

\* cpu_lock_id(t->cpu_id); t->state = RUNNING; cpu_unlock;
\* spinlock_unlock(&s->lock); cpu_splx.  The permit passes to the waiter,
\* which returns from sema_wait when its CPU next switches to it.
SignalWake(t) ==
    LET w == arg[t].thr
    IN
    /\ Runs(t) /\ pc[t] = "ss_held"
    /\ LockFree(cpu_id[w])
    /\ state' = [state EXCEPT ![w] = RUNNING]
    /\ slock' = NoThread
    /\ inCS' = (inCS \ {t}) \cup {w}
    /\ pc' = [pc EXCEPT ![t] = "run", ![w] = "run"]
    /\ UNCHANGED <<runq, cur, cnt, sleep_time, timer, cpu_id, holder, inIrq,
                   arg, sreq, selapsed, count, waitq>>

-----------------------------------------------------------------------------

SemaInitState ==
    /\ Init
    /\ count = SemaInit
    /\ waitq = <<>>
    /\ slock = NoThread
    /\ inCS = {}

SemaStep(t) ==
    \/ WaitEnter(t) \/ WaitLock(t) \/ Block(t)
    \/ SignalEnter(t) \/ SignalLock(t) \/ SignalWake(t)

SemaNext ==
    \/ Next /\ UNCHANGED semaVars
    \/ \E t \in Thread : SemaStep(t)

SemaSpec == SemaInitState /\ [][SemaNext]_allVars

-----------------------------------------------------------------------------
(* Properties.                                                            *)

\* Permits are conserved (spec section 8 property 6): the count plus the
\* threads past sema_wait and not yet out of sema_signal is the initial
\* count, so at most SemaInit threads are ever inside, whatever the
\* interleaving of waits, signals and hand-offs to waiters of other CPUs.
Permits == count + Cardinality(inCS) = SemaInit

\* No wakeup is lost: the threads blocked in sema_wait are exactly those
\* on the wait list, once each, plus the one a signaler has popped and is
\* about to wake; each of them is SLEEPING, and a permit is never left in
\* the count while someone waits.
Popped == {arg[t].thr : t \in {u \in Thread : pc[u] = "ss_held"}}

WaitersAccounted ==
    /\ IsInjective(waitq)
    /\ {t \in Thread : pc[t] = "semwait"} = ToSet(waitq) \cup Popped
    /\ \A t \in ToSet(waitq) \cup Popped : state[t] = SLEEPING
    /\ (count > 0 => waitq = <<>>)

\* The CPUs a CPU waits for: one in its timer handler, or whose current
\* thread spins at high IPL, waits for the CPU of the thread holding the
\* lock it spins on.  A holder that is not running on its CPU, or whose
\* CPU is itself stuck, never releases it.
LockOwnerCpu(l) == cpu_id[l]

SpinsFor(c) ==
    LET t == cur[c]
    IN  IF inIrq[c] THEN {holder[c]} \ {NoThread}
        ELSE CASE pc[t] \in {"sw_spin", "ss_spin"} -> {slock} \ {NoThread}
               [] pc[t] = "sw_held" -> {holder[c]} \ {NoThread}
               [] pc[t] = "ss_held" -> {holder[arg[t].cpu]} \ {NoThread}
               [] OTHER -> {}

SpinWaitsFor ==
    {<<c, d>> \in CPU \X CPU :
        \E h \in SpinsFor(c) : LockOwnerCpu(h) = d}

\* No set of CPUs spins forever with interrupts off, each for a lock that
\* only the next can release: neither across CPUs nor on one CPU whose
\* lock holder has been switched out.
NoSpinDeadlock == ~SG!HasCycle([node |-> CPU, edge |-> SpinWaitsFor])

=============================================================================
