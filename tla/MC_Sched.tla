------------------------------ MODULE MC_Sched ------------------------------
(***************************************************************************)
(* Model of Sched for TLC: two CPUs, two threads to create, priority 2    *)
(* (THREAD_DEFAULT_PRI is 8; the algorithm is the same for any positive   *)
(* priority and 2 keeps the credit range 0..3).                           *)
(***************************************************************************)
EXTENDS Sched, TLC

CONSTANTS c0, c1, i0, i1, t1, t2, t3

MCCPU == {c0, c1}
MCThread == {t1, t2}
MCIdle == [c \in CPU |-> IF c = c0 THEN i0 ELSE i1]

\* Only the boot CPU creates or wakes threads on another CPU, as
\* kernel_main does (thread_create(test_thread, ..., 1)).
MCRemoteCallers == {c0}

\* One CPU and three threads for the fairness question.
MCOneCPU == {c0}
MCThree == {t1, t2, t3}

\* One CPU and one thread for the questions about a single thread.
MCOneThread == {t1}

MCSymmetry == Permutations(MCThread)
=============================================================================
