------------------------------ MODULE SmpBoot ------------------------------
(***************************************************************************)
(* SMP bring-up: cpu_init and cpu_smp_init on the boot CPU (cpu.c), the   *)
(* application processors' cpu_init_ap, the per-CPU descriptors they key *)
(* by local-APIC id, the timer routing of intr_irq_enable and the         *)
(* logical destination local_apic_init programs, and the first thing     *)
(* kernel_main does once cpu_init returns: thread_create(test_thread,    *)
(* 0x1000, 1), which queues a thread on CPU 1 (main.c:107).               *)
(*                                                                         *)
(* The CPUs run in parallel.  The BSP's calls that touch only its own     *)
(* state are one step each; every statement that reads or writes state   *)
(* another CPU also touches is a step of its own, so that the two         *)
(* queue_push_back expansions on CPU 1's run queue (the BSP's under the  *)
(* CPU lock, the AP's in sched_init_cpu under none) interleave statement *)
(* by statement.  Each statement re-reads cpus[c].threads, as the macro  *)
(* text does; keeping it in a register is another outcome of the same    *)
(* data race, not needed to show it.  Delays (cpu_wait) are not modelled: *)
(* nothing in the code orders two CPUs by them.                           *)
(***************************************************************************)
EXTENDS Integers, Sequences, FiniteSets, SequencesExt, Bitwise

CONSTANTS
    Madt,       \* the MADT's sub-entries, in table order
    BspId,      \* local_apic_id() of the boot CPU
    Target,     \* the cpu_id main.c passes to thread_create
    NewThread,  \* the thread record thread_create allocates
    NULL

VARIABLES
    bpc,        \* the boot CPU's place in cpu_init / kernel_main
    ipi,        \* the index i into Listed of cpu_smp_init's IPI loops
    apc,        \* each AP's place in its trampoline and cpu_init_ap
    num_cpus,   \* num_cpus
    boot_ap,    \* boot_info->boot_ap
    hw,         \* each AP's hardware state: "reset", "wait" (for a
                \* STARTUP IPI after an INIT IPI) or "run"
    cpu_mask,   \* cpu_smp_init's cpu_mask
    intr,       \* interrupt routing: io_apic's redirection table, the
                \* irq_handlers table and the IDT
    ldr,        \* each local APIC's logical destination register
    desc,       \* cpus[c]: apic_id, and whether CPU_FLAGS_ACTIVE is set
    cur,        \* cpus[c].cur_thread
    ie,         \* interrupts enabled on the CPU
    threads,    \* cpus[c].threads, the head of the run-queue ring
    next, prev, \* the ring links of every node
    tcpu,       \* the new thread's cpu_id
    wild,       \* a store went through a NULL ring pointer
    ptr,        \* acpi_parse_madt's ptr, as an offset into the MADT
    lapics,     \* local_apic.cpus[0..num_cpus-1].apic_id
    ioapic,     \* the one io_apic registered (NULL before any)
    iovr        \* io_apic_iovr[0..io_apic_num_iovr-1]

acpiVars == <<ptr, lapics, ioapic, iovr>>

vars == <<bpc, ipi, apc, num_cpus, boot_ap, hw, cpu_mask, intr, ldr,
          desc, cur, ie, threads, next, prev, tcpu, wild, acpiVars>>

-----------------------------------------------------------------------------
(* The MADT as the firmware lays it out, and what acpi_init decodes from  *)
(* it before cpu_init: acpi_parse_madt registers every LOCAL_APIC entry   *)
(* as a CPU (whatever its enabled flag), lets each IO_APIC entry          *)
(* overwrite the one io_apic, and appends each INTERRUPT_OVERRIDE.  An    *)
(* entry carries its length byte; an IO_APIC entry also the number of     *)
(* redirection entries its version register will report.                 *)

Entries(t) == SelectSeq(Madt, LAMBDA e : e.type = t)

\* sizeof(struct acpi_madt_t): the entries start after the header.
MadtHdr == 44

\* The offset of entry i from the start of the table, as the sum of the
\* length bytes before it; MadtEnd is madt->hdr.length.
EntryStart(i) == MadtHdr + FoldSeq(LAMBDA e, n : e.len + n, 0, SubSeq(Madt, 1, i - 1))
MadtEnd == EntryStart(Len(Madt) + 1)

\* The entry whose header ptr points at (the first, if a zero length
\* leaves two at one offset).
EntryAt(p) == CHOOSE i \in 1..Len(Madt) :
                  EntryStart(i) = p /\ \A j \in 1..(i - 1) : EntryStart(j) # p

MAX_CPUS == 16
MAX_IO_APIC_IOVR == 16

\* What the code works with once acpi_init has returned.
Listed == lapics
IoApic == ioapic
Iovr == iovr

\* io_apic_interrupt_override over the overrides ov: the GSI of the
\* first override of irq, or irq itself; the result is used as the
\* redirection-table index.
OverrideIn(ov, irq) ==
    LET I == {i \in 1..Len(ov) : ov[i].irq = irq}
    IN IF I = {} THEN irq
       ELSE ov[CHOOSE i \in I : \A j \in I : i <= j].gsi

Override(irq) == OverrideIn(iovr, irq)

\* The hardware: ISA IRQ irq drives the GSI that the MADT's overrides
\* name (identity when none does), which is pin GSI - gsi_base of the
\* I/O APIC whose range holds it.
HwGsi(irq) == OverrideIn(Entries("iovr"), irq)
ChipOf(g) == CHOOSE e \in {Entries("ioapic")[i] : i \in 1..Len(Entries("ioapic"))} :
                 e.base <= g /\ g < e.base + e.pins

\* The chip the walk leaves registered: the last IO_APIC entry.
HwIoApic == Entries("ioapic")[Len(Entries("ioapic"))]

\* The CPUs of the machine: every LOCAL_APIC entry.
Cpus == {Entries("lapic")[i].id : i \in 1..Len(Entries("lapic"))}

\* The CPUs that are there to answer a STARTUP IPI: the enabled entries.
Present == LET L == Entries("lapic")
           IN {L[i].id : i \in {j \in 1..Len(L) : L[j].enabled}}
Aps  == Cpus \ {BspId}

ASSUME /\ BspId \in Present /\ Target \in Aps /\ Cpus \subseteq 0..15
       /\ Len(Entries("ioapic")) > 0

\* A run-queue node: a CPU's embedded idle thread (named by the CPU) or
\* the new thread.
Node == Cpus \cup {NewThread}

\* (1 << apic_id) as a uint8_t: cpu_mask in cpu_smp_init and the logical
\* id local_apic_init writes to LDR.
Bit8(id) == (2 ^ id) % 256

-----------------------------------------------------------------------------
(* Interrupt routing (interrupt.c, io_apic.c).  An I/O APIC redirection   *)
(* entry is reduced to its vector, logical destination and mask bit; the  *)
(* IDT to the vectors that are ever programmed, each naming the stub      *)
(* idt_set installed: <<"irq", i>> for irq_stubs[i], which hands i to     *)
(* cpu_interrupt, or an exception, spurious or lint stub.                 *)

IRQ_TIMER == 0
IRQ_KEYBOARD == 1
Irqs == {IRQ_TIMER, IRQ_KEYBOARD}
IRQ_BASE == 64
LINT_VECTOR == 240                 \* intr_register_local_irq_handler(0, 0xf0)
Vectors == {0, LINT_VECTOR} \cup {IRQ_BASE + i : i \in Irqs}

\* The handler each IRQ is meant to reach.
Handler == [i \in Irqs |-> IF i = IRQ_TIMER THEN "timer" ELSE "kbd"]

ASSUME \A i \in Irqs : \E k \in 1..Len(Entries("ioapic")) :
           Entries("ioapic")[k].base <= HwGsi(i)
           /\ HwGsi(i) < Entries("ioapic")[k].base + Entries("ioapic")[k].pins

Masked == [vec |-> 0, dest |-> 0, masked |-> TRUE]     \* IOREDTBL_INTERRUPT_OFF
Pins == 0..(HwIoApic.pins - 1)                         \* 0..num_redtbl-1

\* io_apic_init: every entry of the table is written masked.
IoApicInit(r) == [r EXCEPT !.redtbl = [p \in Pins |-> Masked]]

\* Mutant: the vector is IRQ_BASE, without the IRQ number.
RegisterIrqNoOffset(r, irq, h) ==
    [r EXCEPT !.handler[irq] = h, !.ivec[irq] = IRQ_BASE,
              !.idt[IRQ_BASE] = <<"irq", irq>>]

\* intr_register_irq_handler: the handler and vector IRQ_BASE + irq in
\* irq_handlers[irq], and irq_stubs[irq] at that vector of the IDT.
RegisterIrq(r, irq, h) ==
    [r EXCEPT !.handler[irq] = h, !.ivec[irq] = IRQ_BASE + irq,
              !.idt[IRQ_BASE + irq] = <<"irq", irq>>]

\* intr_irq_enable, io_apic_enable_irq: irq_handlers[irq].vector and the
\* mask written unmasked, in logical mode, at index
\* io_apic_interrupt_override(irq) of the table (an index past the table
\* selects no register, and the write is lost).
EnableIrq(r, irq, mask) ==
    LET idx == Override(irq)
    IN IF idx \in Pins
       THEN [r EXCEPT !.redtbl[idx] = [vec |-> r.ivec[irq], dest |-> mask,
                                       masked |-> FALSE]]
       ELSE r

\* What cpu_interrupt runs for vector v: irq_handlers[trap_num].handler
\* behind an IRQ stub, else the stub's own handler.
Dispatch(r, v) ==
    IF r.idt[v][1] = "irq" THEN r.handler[r.idt[v][2]] ELSE r.idt[v][1]


-----------------------------------------------------------------------------
(* queue_push_back(cpus[c].threads, e), one statement per label.          *)

QLabels == {"q_test", "q_first", "q_self", "q_next", "q_prev", "q_link",
            "q_head"}

\* The label after l; fin is where the caller goes on after the macro.
QNext(c, l, fin) ==
    CASE l = "q_test"  -> IF threads[c] = NULL THEN "q_first" ELSE "q_next"
      [] l = "q_first" -> "q_self"
      [] l = "q_next"  -> "q_prev"
      [] l = "q_prev"  -> "q_link"
      [] l = "q_link"  -> "q_head"
      [] l \in {"q_self", "q_head"} -> fin

\* The statement at label l, with head = cpus[c].threads read afresh.
QStep(c, e, l) ==
    LET h == threads[c] IN
    \/ /\ l = "q_test"
       /\ UNCHANGED <<threads, next, prev, wild>>
    \/ /\ l = "q_first"                             \* head = elem
       /\ threads' = [threads EXCEPT ![c] = e]
       /\ UNCHANGED <<next, prev, wild>>
    \/ /\ l = "q_self"                              \* elem->next = elem->prev = head
       /\ next' = [next EXCEPT ![e] = h]
       /\ prev' = [prev EXCEPT ![e] = h]
       /\ UNCHANGED <<threads, wild>>
    \/ /\ l = "q_next"                              \* elem->next = head
       /\ next' = [next EXCEPT ![e] = h]
       /\ UNCHANGED <<threads, prev, wild>>
    \/ /\ l = "q_prev"                              \* elem->prev = head->prev
       /\ prev' = [prev EXCEPT ![e] = prev[h]]
       /\ UNCHANGED <<threads, next, wild>>
    \/ /\ l = "q_link"                              \* elem->prev->next = elem
       /\ IF prev[e] = NULL
          THEN wild' = TRUE /\ UNCHANGED next
          ELSE next' = [next EXCEPT ![prev[e]] = e] /\ UNCHANGED wild
       /\ UNCHANGED <<threads, prev>>
    \/ /\ l = "q_head"                              \* head->prev = elem
       /\ prev' = [prev EXCEPT ![h] = e]
       /\ UNCHANGED <<threads, next, wild>>

-----------------------------------------------------------------------------
(* The boot CPU.                                                          *)

\* One pass of acpi_parse_madt's loop: the entry at ptr is decoded by its
\* type (local_apic_add_cpu and io_apic_add_iovr fail their check on a
\* full table, and the kernel stops), and ptr moves on by its length.
ParseEntry ==
    /\ bpc = "acpi" /\ ptr < MadtEnd
    /\ LET e == Madt[EntryAt(ptr)]
           full == \/ e.type = "lapic" /\ Len(lapics) >= MAX_CPUS
                   \/ e.type = "iovr" /\ Len(iovr) >= MAX_IO_APIC_IOVR
       IN IF full
          THEN bpc' = "halted" /\ UNCHANGED acpiVars
          ELSE /\ lapics' = IF e.type = "lapic" THEN Append(lapics, e.id) ELSE lapics
               /\ ioapic' = IF e.type = "ioapic" THEN e ELSE ioapic
               /\ iovr' = IF e.type = "iovr" THEN Append(iovr, e) ELSE iovr
               /\ ptr' = ptr + e.len
               /\ UNCHANGED bpc
    /\ UNCHANGED <<ipi, apc, num_cpus, boot_ap, hw, cpu_mask, intr, ldr, desc,
                   cur, ie, threads, next, prev, tcpu, wild>>

\* cpu_init up to cpu_smp_init: io_apic_init masks every redirection
\* entry, local_apic_init sets the LDR, cpu_init_desc keys cpus[] by the
\* APIC id, flags = ACTIVE | BSP, sched_init_cpu queues the idle thread
\* (no other CPU runs yet), the timer is routed to the BSP alone and
\* interrupts are enabled.
BspInit ==
    /\ bpc = "acpi" /\ ptr >= MadtEnd
    /\ bpc' = "smp"
    /\ ldr' = [ldr EXCEPT ![BspId] = Bit8(BspId)]
    /\ desc' = [desc EXCEPT ![BspId] = [apic_id |-> BspId, active |-> TRUE]]
    /\ threads' = [threads EXCEPT ![BspId] = BspId]
    /\ next' = [next EXCEPT ![BspId] = BspId]
    /\ prev' = [prev EXCEPT ![BspId] = BspId]
    /\ cur' = [cur EXCEPT ![BspId] = BspId]
    /\ intr' = LET r == [IoApicInit(intr) EXCEPT !.idt[LINT_VECTOR] = <<"lint", 0>>]
               IN EnableIrq(RegisterIrq(r, IRQ_TIMER, "timer"), IRQ_TIMER,
                            Bit8(BspId))
    /\ ie' = [ie EXCEPT ![BspId] = TRUE]
    /\ UNCHANGED <<ipi, apc, num_cpus, boot_ap, hw, cpu_mask, tcpu, wild>>

\* local_apic_ipi_init(apic_id): an INIT IPI, physical destination
\* apic_id; the sender spins until the ICR reports it delivered.  The
\* target resets into wait-for-SIPI.
IpiInit(h, id) == [h EXCEPT ![id] = "wait"]

\* local_apic_ipi_start(apic_id): a STARTUP IPI with vector 8.  A CPU
\* waiting for it starts at the trampoline; a CPU that has had no INIT
\* ignores it.
IpiStart(h, id) == IF h[id] = "wait" THEN [h EXCEPT ![id] = "run"] ELSE h

\* Mutant: cpu_mask = 1 << apic_id, each id replacing the last.
InitMaskAssign(m, id) == Bit8(id)

\* cpu_mask |= 1 << apic_id in the INIT loop (cpu_mask is a uint8_t).
InitMask(m, id) == m | Bit8(id)

\* cpu_smp_init up to its INIT loop: num_cpus = 1, boot_enable_ap,
\* cpu_mask = 1 << bsp_apic_id.
SmpStart ==
    /\ bpc = "smp"
    /\ bpc' = "init_ipi"
    /\ ipi' = 1
    /\ num_cpus' = 1
    /\ boot_ap' = TRUE
    /\ cpu_mask' = Bit8(BspId)
    /\ UNCHANGED <<apc, hw, intr, ldr, desc, cur, ie, threads, next,
                   prev, tcpu, wild>>

\* One iteration of the INIT IPI loop: every listed id but the BSP's gets
\* an INIT IPI and its bit in cpu_mask.
SendInit ==
    /\ bpc = "init_ipi"
    /\ ipi <= Len(Listed)
    /\ LET id == Listed[ipi]
       IN /\ hw' = IF id # BspId THEN IpiInit(hw, id) ELSE hw
          /\ cpu_mask' = IF id # BspId THEN InitMask(cpu_mask, id) ELSE cpu_mask
    /\ ipi' = ipi + 1
    /\ UNCHANGED <<bpc, apc, num_cpus, boot_ap, intr, ldr, desc, cur, ie,
                   threads, next, prev, tcpu, wild>>

\* The INIT loop is done; cpu_wait(10) and the STARTUP loop starts over.
InitDone ==
    /\ bpc = "init_ipi" /\ ipi > Len(Listed)
    /\ bpc' = "startup" /\ ipi' = 1
    /\ UNCHANGED <<apc, num_cpus, boot_ap, hw, cpu_mask, intr, ldr, desc, cur,
                   ie, threads, next, prev, tcpu, wild>>

\* One iteration of the STARTUP IPI loop: local_apic_ipi_start to every
\* listed id but the BSP's.
SendStartup ==
    /\ bpc = "startup"
    /\ ipi <= Len(Listed)
    /\ hw' = IF Listed[ipi] # BspId THEN IpiStart(hw, Listed[ipi]) ELSE hw
    /\ ipi' = ipi + 1
    /\ UNCHANGED <<bpc, apc, num_cpus, boot_ap, cpu_mask, intr, ldr, desc, cur,
                   ie, threads, next, prev, tcpu, wild>>

\* while (num_cpus != local_apic.num_cpus) cpu_wait(1); then
\* intr_irq_enable(IRQ_TIMER, cpu_mask).
Online ==
    /\ bpc = "startup" /\ ipi > Len(Listed)
    /\ num_cpus = Len(Listed)
    /\ bpc' = "kbd"
    /\ intr' = EnableIrq(intr, IRQ_TIMER, cpu_mask)
    /\ UNCHANGED <<ipi, apc, num_cpus, boot_ap, hw, cpu_mask, ldr, desc,
                   cur, ie, threads, next, prev, tcpu, wild>>

\* kbd_8042_init, which main.c calls after cpu_init: the keyboard's
\* handler registered, its IRQ routed to the calling CPU.
KbdInit ==
    /\ bpc = "kbd"
    /\ bpc' = "create"
    /\ intr' = EnableIrq(RegisterIrq(intr, IRQ_KEYBOARD, "kbd"), IRQ_KEYBOARD,
                         Bit8(BspId))
    /\ UNCHANGED <<ipi, apc, num_cpus, boot_ap, hw, cpu_mask, ldr, desc,
                   cur, ie, threads, next, prev, tcpu, wild>>

\* thread_create(test_thread, 0x1000, 1) from kernel_main: the record's
\* links are cleared, cpu_lock_id(1), id = ++cpu->id_cnt and
\* thread->cpu_id = cpu->apic_id; then queue_push_back.  No other CPU
\* takes CPU 1's lock here (the AP's sched_init_cpu takes none), so the
\* lock is not a variable.
CreateLock ==
    /\ bpc = "create"
    /\ bpc' = "q_test"
    /\ tcpu' = desc[Target].apic_id
    /\ next' = [next EXCEPT ![NewThread] = NULL]
    /\ prev' = [prev EXCEPT ![NewThread] = NULL]
    /\ UNCHANGED <<ipi, apc, num_cpus, boot_ap, hw, cpu_mask, intr, ldr,
                   desc, cur, ie, threads, wild>>

CreateQueue ==
    /\ bpc \in QLabels
    /\ QStep(Target, NewThread, bpc)
    /\ bpc' = QNext(Target, bpc, "done")
    /\ UNCHANGED <<ipi, apc, num_cpus, boot_ap, hw, cpu_mask, intr, ldr,
                   desc, cur, ie, tcpu>>

-----------------------------------------------------------------------------
(* An application processor.                                              *)

\* The trampoline (boot stubs, not in the tree) runs once the STARTUP IPI
\* arrives and boot_ap is set, and calls cpu_init_ap, whose first
\* statement is fetch_and_add_32(&num_cpus, 1).
ApStart(a) ==
    /\ apc[a] = "off" /\ hw[a] = "run" /\ boot_ap /\ a \in Present
    /\ num_cpus' = num_cpus + 1
    /\ apc' = [apc EXCEPT ![a] = "lapic"]
    /\ UNCHANGED <<bpc, ipi, boot_ap, hw, cpu_mask, intr, ldr, desc, cur,
                   ie, threads, next, prev, tcpu, wild>>

\* gdt_load, idt_load, local_apic_init: LDR = (1 << apic_id) & 0xff.
ApLapic(a) ==
    /\ apc[a] = "lapic"
    /\ ldr' = [ldr EXCEPT ![a] = Bit8(a)]
    /\ apc' = [apc EXCEPT ![a] = "desc"]
    /\ UNCHANGED <<bpc, ipi, num_cpus, boot_ap, hw, cpu_mask, intr, desc,
                   cur, ie, threads, next, prev, tcpu, wild>>

\* Mutant: cpu_init_desc without the ID_SHIFT of local_apic_id.
ApDescNoShift(a) ==
    /\ apc[a] = "desc"
    /\ desc' = [desc EXCEPT ![a] = [apic_id |-> a * 2^24, active |-> TRUE]]
    /\ next' = [next EXCEPT ![a] = NULL]
    /\ prev' = [prev EXCEPT ![a] = NULL]
    /\ apc' = [apc EXCEPT ![a] = "q_test"]
    /\ UNCHANGED <<bpc, ipi, num_cpus, boot_ap, hw, cpu_mask, intr, ldr,
                   cur, ie, threads, tcpu, wild>>

\* Mutant: cpu->flags = CPU_FLAGS_ACTIVE is left out.
ApDescNoActive(a) ==
    /\ apc[a] = "desc"
    /\ desc' = [desc EXCEPT ![a] = [apic_id |-> a, active |-> FALSE]]
    /\ next' = [next EXCEPT ![a] = NULL]
    /\ prev' = [prev EXCEPT ![a] = NULL]
    /\ apc' = [apc EXCEPT ![a] = "q_test"]
    /\ UNCHANGED <<bpc, ipi, num_cpus, boot_ap, hw, cpu_mask, intr, ldr,
                   cur, ie, threads, tcpu, wild>>

\* cpu_init_desc (cpus[apic_id].apic_id, self, GS base), cpu->flags =
\* CPU_FLAGS_ACTIVE, and setup_idle_thread, which clears the idle
\* thread's links before sched_init_cpu queues it.
ApDesc(a) ==
    /\ apc[a] = "desc"
    /\ desc' = [desc EXCEPT ![a] = [apic_id |-> a, active |-> TRUE]]
    /\ next' = [next EXCEPT ![a] = NULL]
    /\ prev' = [prev EXCEPT ![a] = NULL]
    /\ apc' = [apc EXCEPT ![a] = "q_test"]
    /\ UNCHANGED <<bpc, ipi, num_cpus, boot_ap, hw, cpu_mask, intr, ldr,
                   cur, ie, threads, tcpu, wild>>

\* sched_init_cpu: queue_push_back(cpu->threads, idle) with no lock.
ApQueue(a) ==
    /\ apc[a] \in QLabels
    /\ QStep(a, a, apc[a])
    /\ apc' = [apc EXCEPT ![a] = QNext(a, apc[a], "cur")]
    /\ UNCHANGED <<bpc, ipi, num_cpus, boot_ap, hw, cpu_mask, intr, ldr,
                   desc, cur, ie, tcpu>>

\* cpu->cur_thread = idle; cpu_enable_interrupts; idle_loop.
ApIdle(a) ==
    /\ apc[a] = "cur"
    /\ cur' = [cur EXCEPT ![a] = a]
    /\ ie' = [ie EXCEPT ![a] = TRUE]
    /\ apc' = [apc EXCEPT ![a] = "idle"]
    /\ UNCHANGED <<bpc, ipi, num_cpus, boot_ap, hw, cpu_mask, intr, ldr,
                   desc, threads, next, prev, tcpu, wild>>

-----------------------------------------------------------------------------

\* Everything is zero (BSS) before cpu_init; the I/O APIC's entries are
\* masked at reset.
Init ==
    /\ bpc = "acpi"
    /\ ptr = MadtHdr /\ lapics = <<>> /\ ioapic = NULL /\ iovr = <<>>
    /\ ipi = 1
    /\ apc = [a \in Aps |-> "off"]
    /\ num_cpus = 0
    /\ boot_ap = FALSE
    /\ hw = [a \in Aps |-> "reset"]
    /\ cpu_mask = 0
    /\ intr = [redtbl |-> [p \in Pins |-> Masked],
               handler |-> [i \in Irqs |-> NULL], ivec |-> [i \in Irqs |-> 0],
               idt |-> [v \in Vectors |-> IF v < 32 THEN <<"exception", v>>
                                                     ELSE <<"spurious", 0>>]]
    /\ ldr = [c \in Cpus |-> 0]
    /\ desc = [c \in Cpus |-> [apic_id |-> 0, active |-> FALSE]]
    /\ cur = [c \in Cpus |-> NULL]
    /\ ie = [c \in Cpus |-> FALSE]
    /\ threads = [c \in Cpus |-> NULL]
    /\ next = [n \in Node |-> NULL]
    /\ prev = [n \in Node |-> NULL]
    /\ tcpu = 0
    /\ wild = FALSE

BspSteps == BspInit \/ SmpStart \/ SendInit \/ InitDone \/ SendStartup \/ Online \/ KbdInit \/ CreateLock \/ CreateQueue

Bsp == ParseEntry \/ (BspSteps /\ UNCHANGED acpiVars)


Ap(a) == /\ \/ ApStart(a) \/ ApLapic(a) \/ ApDesc(a) \/ ApQueue(a) \/ ApIdle(a)
         /\ UNCHANGED acpiVars

Next == Bsp \/ \E a \in Aps : Ap(a)

\* Every CPU runs on its own, so each gets weak fairness.
Spec == Init /\ [][Next]_vars /\ WF_vars(Bsp) /\ \A a \in Aps : WF_vars(Ap(a))

-----------------------------------------------------------------------------
(* Properties.                                                            *)

Labels == {"acpi", "halted", "smp", "init_ipi", "startup", "kbd", "create", "done", "off", "lapic", "desc",
           "cur", "idle"} \cup QLabels

TypeOK ==
    /\ bpc \in Labels /\ apc \in [Aps -> Labels]
    /\ ipi \in 1..(Len(Listed) + 1)
    /\ num_cpus \in 0..Len(Listed)
    /\ boot_ap \in BOOLEAN /\ hw \in [Aps -> {"reset", "wait", "run"}]
    /\ intr \in [redtbl : [Pins -> [vec : Vectors, dest : 0..255,
                                     masked : BOOLEAN]],
                 handler : [Irqs -> {"timer", "kbd", NULL}],
                 ivec : [Irqs -> Vectors],
                 idt : [Vectors -> {"irq", "exception", "spurious", "lint"}
                                   \X (Irqs \cup {0})]]
    /\ cpu_mask \in 0..255 /\ ldr \in [Cpus -> 0..255]
    /\ desc \in [Cpus -> [apic_id : 0..15, active : BOOLEAN]]
    /\ cur \in [Cpus -> Node \cup {NULL}] /\ ie \in [Cpus -> BOOLEAN]
    /\ threads \in [Cpus -> Node \cup {NULL}]
    /\ next \in [Node -> Node \cup {NULL}] /\ prev \in [Node -> Node \cup {NULL}]
    /\ tcpu \in 0..15 /\ wild \in BOOLEAN
    /\ ptr \in Nat /\ lapics \in Seq(0..255) /\ iovr \in Seq(ToSet(Madt))
    /\ ioapic \in ToSet(Madt) \cup {NULL}

\* A CPU takes the timer interrupt through cpu_lock() on the descriptor its
\* GS base names and runs sched_tick on its cur_thread: a CPU with
\* interrupts enabled has its descriptor keyed by its own APIC id, ACTIVE,
\* and its idle thread current (spec section 4.6 step 5, the order of
\* cpu_init_ap).
InterruptsOnlyWhenReady ==
    \A c \in Cpus : ie[c] =>
        /\ desc[c] = [apic_id |-> c, active |-> TRUE]
        /\ cur[c] = c

\* The redirection entry the line of ISA IRQ irq reaches: its pin on the
\* I/O APIC cpu_init programs, or a masked one on any other.
HwEntry(irq) ==
    LET g == HwGsi(irq)
    IN IF ChipOf(g) = IoApic THEN intr.redtbl[g - IoApic.base] ELSE Masked

\* The local APIC of c accepts the entry's interrupt: unmasked, and the
\* LDR shares a bit with the logical destination (flat model).
Accepts(c, e) == ~e.masked /\ (ldr[c] & e.dest) # 0

\* IRQ irq, raised by its device, makes cpu_interrupt on c run h.
Reaches(irq, c, h) ==
    Accepts(c, HwEntry(irq)) /\ Dispatch(intr, HwEntry(irq).vec) = h

\* Whatever CPU a device interrupt is delivered to, cpu_interrupt runs that
\* device's handler: no unmasked line reaches an exception, spurious or
\* other device's handler, at any point of the boot (io_apic_enable_irq
\* after intr_register_irq_handler, in cpu_init, cpu_smp_init and
\* kbd_8042_init).
NoMisroute ==
    \A i \in Irqs, c \in Cpus :
        Accepts(c, HwEntry(i)) => Dispatch(intr, HwEntry(i).vec) = Handler[i]

\* Bring-up ends with every listed CPU running with interrupts enabled and
\* taking the timer tick in timer_irq_handler, and the keyboard reaching
\* kbd's irq_handler on the boot CPU (spec section 4.6 steps 5 and 6):
\* the STARTUP loop must reach every AP, the BSP must leave its poll,
\* cpu_mask must cover every LDR and the override must be applied.
AllCpusTick ==
    <>[](/\ \A c \in Cpus : ie[c] /\ Reaches(IRQ_TIMER, c, "timer")
         /\ Reaches(IRQ_KEYBOARD, BspId, "kbd"))

\* The nodes of CPU c's ring, following next from the head.
RECURSIVE Walk(_, _)
Walk(n, k) == IF k = 0 \/ n = NULL THEN n ELSE Walk(next[n], k - 1)

RingNodes(c) == {Walk(threads[c], k) : k \in 0..Cardinality(Node)} \ {NULL}

\* A well-formed ring over the set S: entered at the head, closed under
\* next, prev the inverse of next, every member reachable.
IsRing(c, S) ==
    /\ threads[c] \in S
    /\ \A n \in S : next[n] \in S /\ prev[next[n]] = n
    /\ RingNodes(c) = S

\* Once thread_create has returned and CPU 1 has attached its idle thread,
\* CPU 1's run queue is a ring of exactly its idle thread and the new
\* thread, no store went astray, and the thread's cpu_id names CPU 1
\* (thread_create, sched_init_cpu; spec section 3: the run queue always
\* contains the idle thread).
ThreadPlaced ==
    (bpc = "done" /\ apc[Target] \in {"cur", "idle"}) =>
        /\ ~wild
        /\ IsRing(Target, {Target, NewThread})
        /\ tcpu = Target

=============================================================================
