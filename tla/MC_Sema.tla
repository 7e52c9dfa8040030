------------------------------- MODULE MC_Sema -------------------------------
(***************************************************************************)
(* Model of Sema for TLC: two CPUs, threads created on both, a binary     *)
(* semaphore shared by all of them.                                       *)
(***************************************************************************)
EXTENDS Sema, TLC

CONSTANTS c0, c1, i0, i1, t1, t2, t3

MCCPU == {c0, c1}
MCThread == {t1, t2}
MCIdle == [c \in CPU |-> IF c = c0 THEN i0 ELSE i1]

\* The boot CPU creates or wakes threads on the other CPU, as kernel_main
\* does (thread_create(test_thread, ..., 1)).
MCRemoteCallers == {c0}

\* A third thread: one can be created remotely while the other two hold
\* or wait for the semaphore.
MCThree == {t1, t2, t3}

MCSymmetry == Permutations(MCThread)
=============================================================================
