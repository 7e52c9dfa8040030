-------------------------------- MODULE Kbd --------------------------------
(***************************************************************************)
(* The keyboard ring of src/src/kbd_8042.c and the condition variable of  *)
(* src/src/cond.c that its reader sleeps on.                              *)
(*                                                                         *)
(* The producer is irq_handler, run with interrupts off on the CPU the    *)
(* IRQ is routed to (the boot CPU): it takes kbd.lock, stores the scan    *)
(* code at write_pos % KBD_BUFSIZE, increments write_pos and cond_signals *)
(* the reader.  The consumer is kbd_read, called in a loop by the kernel  *)
(* terminal thread of kterm_run on CPU 1: with kbd.lock taken at high IPL *)
(* it waits while read_pos >= write_pos, then copies every unread code    *)
(* into a local uint8_t buf[KBD_BUFSIZE].                                 *)
(*                                                                         *)
(* Scan codes are numbered: the k-th key pressed has code k, so the order *)
(* in which the reader gets them can be compared with the order they were *)
(* pressed in.  Codes that kbd_check_special consumes, and break codes,   *)
(* return before the lock and change no ring state.  Of the modifiers it  *)
(* tracks only shift and caps are read (by kbd_decode): ctrl, alt and num *)
(* are written and never read, and are left out.  Every key is a letter,  *)
(* and what kbd_decode makes of it is reduced to its case.               *)
(* The reader's CPU is reduced to what cond_wait and cond_signal touch:   *)
(* its lock, held from cond_wait's cpu_lock until the next thread is      *)
(* switched in, and the reader's state.  The scheduler itself is Sched.   *)
(***************************************************************************)
EXTENDS Naturals, Sequences

CONSTANTS
    BufSize,    \* KBD_BUFSIZE
    PosWidth,   \* bit width of read_pos and write_pos (uint32_t)
    MaxKeys,    \* keys pressed in a behaviour
    MaxAhead,   \* the typist presses a key only while fewer than MaxAhead
                \* keys are waiting to be read
    MaxMods     \* Shift and Caps Lock codes in a behaviour

ASSUME /\ BufSize \in Nat \ {0}
       /\ PosWidth \in Nat
       /\ 2^PosWidth % BufSize = 0
       /\ MaxKeys \in Nat /\ MaxAhead \in Nat \ {0} /\ MaxMods \in Nat

PosWord == 2^PosWidth
Slots == 0..(BufSize - 1)

RUNNING == "RUNNING"
SLEEPING == "SLEEPING"

VARIABLES
    read_pos,   \* kbd.read_pos
    write_pos,  \* kbd.write_pos
    buf,        \* kbd.buf; 0 in a slot never written
    klock,      \* holder of kbd.lock: "none", "reader" or "irq"
    cpulock,    \* the reader's CPU lock is held across its switch-out
    queued,     \* the reader is on kbd.cond.threads
    rstate,     \* the reader thread's state
    rpc,        \* where the reader is in kbd_read
    ipc,        \* where irq_handler is
    pressed,    \* history: keys pressed so far
    got,        \* history: the codes kbd_read has returned, in order
    lastN,      \* history: n at the end of the last copy loop
    shift,      \* kbd.shift
    caps,       \* kbd.caps
    mods,       \* Shift and Caps Lock codes handled so far
    pressedUpper,   \* history: the case of each key, by the modifiers held
                    \* when it was pressed
    decodedUpper    \* history: the case kbd_decode gave each code returned

modVars == <<shift, caps, mods, pressedUpper, decodedUpper>>
vars == <<read_pos, write_pos, buf, klock, cpulock, queued, rstate, rpc, ipc,
          pressed, got, lastN, modVars>>

TypeOK ==
    /\ read_pos \in 0..(PosWord - 1)
    /\ write_pos \in 0..(PosWord - 1)
    /\ buf \in [Slots -> 0..MaxKeys]
    /\ klock \in {"none", "reader", "irq"}
    /\ cpulock \in BOOLEAN
    /\ queued \in BOOLEAN
    /\ rstate \in {RUNNING, SLEEPING}
    /\ rpc \in {"out", "test", "asleep", "relock", "decode"}
    /\ ipc \in {"none", "spin", "held"}
    /\ pressed \in 0..MaxKeys
    /\ got \in Seq(1..MaxKeys)
    /\ lastN \in Nat
    /\ shift \in BOOLEAN /\ caps \in BOOLEAN /\ mods \in 0..MaxMods
    /\ pressedUpper \in Seq(BOOLEAN) /\ Len(pressedUpper) = pressed
    /\ decodedUpper \in Seq(BOOLEAN) /\ Len(decodedUpper) <= Len(got)

\* x++ on a uint32_t position.
Inc(x) == (x + 1) % PosWord

\* kbd_decode of a letter: with caps set a letter takes the case opposite
\* to shift, else the case shift gives.
UpperCase == IF caps THEN ~shift ELSE shift

-----------------------------------------------------------------------------
(* kbd_read                                                               *)

\* spinlock_lock_splhi(&kbd.lock) on entry to kbd_read.
ReadLock ==
    /\ rpc = "out" /\ klock = "none"
    /\ klock' = "reader"
    /\ rpc' = "test"
    /\ UNCHANGED <<read_pos, write_pos, buf, cpulock, queued, rstate, ipc,
                   pressed, got, lastN, modVars>>

\* "while (kbd.read_pos >= kbd.write_pos) cond_wait(...)": cpu_lock,
\* thread_list_push, spinlock_unlock(lock), sched_yield_locked.
ReadWait ==
    /\ rpc = "test" /\ read_pos >= write_pos
    /\ ~cpulock
    /\ cpulock' = TRUE
    /\ queued' = TRUE
    /\ klock' = "none"
    /\ rstate' = SLEEPING
    /\ rpc' = "asleep"
    /\ UNCHANGED <<read_pos, write_pos, buf, ipc, pressed, got, lastN, modVars>>

\* Inside sched_yield_locked the next thread of CPU 1 is switched in and
\* releases the CPU lock.
SwitchAway ==
    /\ rpc = "asleep" /\ cpulock
    /\ cpulock' = FALSE
    /\ UNCHANGED <<read_pos, write_pos, buf, klock, queued, rstate, rpc, ipc,
                   pressed, got, lastN, modVars>>

\* Once RUNNING again the reader is switched back in; sched_yield_locked
\* returns and cond_wait releases the CPU lock.
Resume ==
    /\ rpc = "asleep" /\ rstate = RUNNING /\ ~cpulock
    /\ rpc' = "relock"
    /\ UNCHANGED <<read_pos, write_pos, buf, klock, cpulock, queued, rstate,
                   ipc, pressed, got, lastN, modVars>>

\* spinlock_lock(lock) at the end of cond_wait; the loop test follows.
Relock ==
    /\ rpc = "relock" /\ klock = "none"
    /\ klock' = "reader"
    /\ rpc' = "test"
    /\ UNCHANGED <<read_pos, write_pos, buf, cpulock, queued, rstate, ipc,
                   pressed, got, lastN, modVars>>

\* Mutant: the loop runs while read_pos <= write_pos, one code too far.
ReadCopyInclusive ==
    LET n == write_pos - read_pos + 1
    IN
    /\ rpc = "test" /\ read_pos < write_pos
    /\ got' = got \o [i \in 1..n |-> buf[(read_pos + i - 1) % BufSize]]
    /\ read_pos' = Inc(write_pos)
    /\ lastN' = n
    /\ klock' = "none"
    /\ rpc' = "decode"
    /\ UNCHANGED <<write_pos, buf, cpulock, queued, rstate, ipc, pressed,
                   modVars>>

\* Mutant: the codes are copied but read_pos is not advanced.
ReadCopyNoAdvance ==
    LET n == write_pos - read_pos
    IN
    /\ rpc = "test" /\ read_pos < write_pos
    /\ got' = got \o [i \in 1..n |-> buf[(read_pos + i - 1) % BufSize]]
    /\ lastN' = n
    /\ klock' = "none"
    /\ rpc' = "decode"
    /\ UNCHANGED <<read_pos, write_pos, buf, cpulock, queued, rstate, ipc,
                   pressed, modVars>>

\* The copy loop "while (read_pos < write_pos) buf[n++] =
\* kbd.buf[(read_pos++) % KBD_BUFSIZE]" and spinlock_unlock_splx.  The
\* local buf is not bounded by the loop: lastN records how far it went.
\* The codes are decoded after the unlock, by ReadDecode.
ReadCopy ==
    LET n == write_pos - read_pos
    IN
    /\ rpc = "test" /\ read_pos < write_pos
    /\ got' = got \o [i \in 1..n |-> buf[(read_pos + i - 1) % BufSize]]
    /\ read_pos' = write_pos
    /\ lastN' = n
    /\ klock' = "none"
    /\ rpc' = "decode"
    /\ UNCHANGED <<write_pos, buf, cpulock, queued, rstate, ipc, pressed,
                   modVars>>

\* One pass of "for (i = 0; i < n; ++i) out_buf[i] = kbd_decode(buf[i])",
\* with kbd.lock no longer held: it reads kbd.shift and kbd.caps as they
\* are now.  kbd_read returns after the last code.
ReadDecode ==
    /\ rpc = "decode"
    /\ decodedUpper' = Append(decodedUpper, UpperCase)
    /\ rpc' = IF Len(decodedUpper') = Len(got) THEN "out" ELSE "decode"
    /\ UNCHANGED <<read_pos, write_pos, buf, klock, cpulock, queued, rstate,
                   ipc, pressed, got, lastN, shift, caps, mods, pressedUpper>>

-----------------------------------------------------------------------------
(* irq_handler                                                            *)

\* A letter key's make code arrives; the handler is entered with
\* interrupts off, and kbd_check_special lets the code through.  The
\* modifiers in force now are the ones the typist holds with the key.
KeyPress ==
    /\ ipc = "none"
    /\ pressed < MaxKeys
    /\ pressed - Len(got) < MaxAhead
    /\ pressed' = pressed + 1
    /\ pressedUpper' = Append(pressedUpper, UpperCase)
    /\ ipc' = "spin"
    /\ UNCHANGED <<read_pos, write_pos, buf, klock, cpulock, queued, rstate,
                   rpc, got, lastN, shift, caps, mods, decodedUpper>>

\* kbd_check_special on a Shift or Caps Lock code: 0x2A / 0x36 set
\* kbd.shift, 0xAA / 0xB6 clear it, 0xBA (Caps Lock released) toggles
\* kbd.caps.  The handler returns without taking kbd.lock.
ShiftMake == shift' = TRUE /\ UNCHANGED caps
ShiftBreak == shift' = FALSE /\ UNCHANGED caps
CapsBreak == caps' = ~caps /\ UNCHANGED shift

IrqSpecial ==
    /\ ipc = "none"
    /\ mods < MaxMods
    /\ ShiftMake \/ ShiftBreak \/ CapsBreak
    /\ mods' = mods + 1
    /\ UNCHANGED <<read_pos, write_pos, buf, klock, cpulock, queued, rstate,
                   rpc, ipc, pressed, got, lastN, pressedUpper, decodedUpper>>

\* Mutant: cond_signal is left out of the handler.
IrqLockNoSignal ==
    /\ ipc = "spin" /\ klock = "none"
    /\ buf' = [buf EXCEPT ![write_pos % BufSize] = pressed]
    /\ write_pos' = Inc(write_pos)
    /\ ipc' = "none"
    /\ UNCHANGED <<read_pos, klock, cpulock, queued, rstate, rpc, pressed,
                   got, lastN, modVars>>

\* Mutant: spinlock_unlock(&kbd.lock) is missed when nobody waits.
IrqLockKeepLock ==
    /\ ipc = "spin" /\ klock = "none"
    /\ buf' = [buf EXCEPT ![write_pos % BufSize] = pressed]
    /\ write_pos' = Inc(write_pos)
    /\ klock' = "irq"
    /\ IF queued
       THEN /\ queued' = FALSE
            /\ ipc' = "held"
       ELSE /\ ipc' = "none"
            /\ UNCHANGED queued
    /\ UNCHANGED <<read_pos, cpulock, rstate, rpc, pressed, got, lastN, modVars>>

\* spinlock_lock(&kbd.lock); kbd.buf[(write_pos++) % KBD_BUFSIZE] = code;
\* cond_signal: with no waiter it returns and the lock is dropped, else
\* the waiter is popped.
IrqLock ==
    /\ ipc = "spin" /\ klock = "none"
    /\ buf' = [buf EXCEPT ![write_pos % BufSize] = pressed]
    /\ write_pos' = Inc(write_pos)
    /\ IF queued
       THEN /\ queued' = FALSE
            /\ klock' = "irq"
            /\ ipc' = "held"
       ELSE /\ ipc' = "none"
            /\ UNCHANGED <<queued, klock>>
    /\ UNCHANGED <<read_pos, cpulock, rstate, rpc, pressed, got, lastN, modVars>>

\* cpu_lock_id(t->cpu_id); t->state = RUNNING; cpu_unlock;
\* spinlock_unlock(&kbd.lock).
IrqWake ==
    /\ ipc = "held" /\ ~cpulock
    /\ rstate' = RUNNING
    /\ klock' = "none"
    /\ ipc' = "none"
    /\ UNCHANGED <<read_pos, write_pos, buf, cpulock, queued, rpc, pressed,
                   got, lastN, modVars>>

-----------------------------------------------------------------------------

\* kbd_8042_init and cond_init; kterm_run is about to call kbd_read.
Init ==
    /\ read_pos = 0 /\ write_pos = 0
    /\ buf = [i \in Slots |-> 0]
    /\ klock = "none" /\ cpulock = FALSE /\ queued = FALSE
    /\ rstate = RUNNING /\ rpc = "out" /\ ipc = "none"
    /\ pressed = 0 /\ got = <<>> /\ lastN = 0
    /\ shift = FALSE /\ caps = FALSE /\ mods = 0
    /\ pressedUpper = <<>> /\ decodedUpper = <<>>

Next ==
    \/ ReadLock \/ ReadWait \/ SwitchAway \/ Resume \/ Relock \/ ReadCopy
    \/ ReadDecode \/ KeyPress \/ IrqSpecial \/ IrqLock \/ IrqWake

\* kterm_run calls kbd_read forever and CPU 1 keeps scheduling it; the
\* interrupt handler runs to completion.  Pressing keys is left to the
\* typist.
Fairness ==
    /\ WF_vars(ReadLock) /\ WF_vars(ReadWait) /\ WF_vars(SwitchAway)
    /\ WF_vars(Resume) /\ WF_vars(Relock) /\ WF_vars(ReadCopy)
    /\ WF_vars(ReadDecode)
    /\ WF_vars(IrqLock) /\ WF_vars(IrqWake)

Spec == Init /\ [][Next]_vars
FairSpec == Spec /\ Fairness

-----------------------------------------------------------------------------
(* Properties.                                                            *)

\* kbd_read hands out exactly the keys pressed, in the order they were
\* pressed, none twice and none skipped, across any reuse of the ring's
\* slots and any interleaving of the handler with the reader's wait.
InOrder == got = [i \in 1..Len(got) |-> i]

\* The copy loop of kbd_read never writes past its uint8_t buf[KBD_BUFSIZE].
LocalBufBound == lastN <= BufSize

\* The reader never sleeps on the condition while a key is waiting, except
\* in the moment between irq_handler popping it and setting it RUNNING:
\* the push in cond_wait happens before kbd.lock is dropped.
NoLostWakeup ==
    (rpc = "asleep" /\ rstate = SLEEPING /\ ipc # "held")
        => queued /\ read_pos >= write_pos

\* kbd_decode gives each letter the case the modifiers held with its key
\* gave it: Shift or Caps Lock, not both, makes a capital.  Shift pressed
\* or released, or Caps Lock toggled, between the key's interrupt and the
\* decode after kbd_read's unlock must not change the letter.
DecodedAsPressed ==
    \A i \in DOMAIN decodedUpper : decodedUpper[i] = pressedUpper[got[i]]

\* Every key pressed is eventually returned by kbd_read.
KeysDelivered == \A k \in 1..MaxKeys : (pressed >= k) ~> (Len(got) >= k)

=============================================================================
