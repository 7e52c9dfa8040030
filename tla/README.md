# TLA+ models of the smor kernel

This directory holds TLA+ models of the execution and memory core of the
kernel in `src/src/`. Every module is translated from the C source. The
model checker TLC checks each one through an `MC_*` module and a `.cfg`
file. `PROJECT.json` is the machine-readable index. It lists the
components, the TLC runs, a mutant per checked property, the source lines
each definition models, the findings, and the hazards.

## 1. The system

| Part | Source | State | Operations |
|------|--------|-------|------------|
| Scheduler | `sched.c` | per CPU: ring `cpu->threads` headed by the idle thread, `cur_thread`; per thread: `state`, `cnt`, `sleep_time`, `SLEEP_TIMER` flag | `sched_tick` (from the timer IRQ), `sched_next`/`sched_find`, `sched_yield(_locked)`, `sched_sleep`, `sched_init_cpu` |
| Threads | `thread.c`, `thread.h` | thread records, per-CPU `id_cnt`, wait-list links | `thread_create`, `thread_start`, `thread_wakeup`, `thread_list_push/pop` |
| CPU locks, timer IRQ | `cpu.h`, `cpu.c`, `spinlock.h` | per-CPU spinlock, `cpu->spl`, IPL | `cpu_lock`, `cpu_lock_splhi`, `cpu_lock_id`, `timer_irq_handler` |
| Semaphore | `semaphore.c` | `count`, wait list, lock | `sema_wait`, `sema_signal` |
| Condition | `cond.c` | wait list | `cond_wait`, `cond_signal`, `cond_broadcast` (empty) |
| Keyboard ring | `kbd_8042.c` | `buf`, `write_pos`, `read_pos` (uint32), lock, condition | `irq_handler` (producer), `kbd_read` (consumer) |
| Terminal | `kterm.c`, `fb_cons.c`, `vsprintf.c`, `string.c` | `cmd_line`, `cmd_pos`, the console line | `kterm_run`, `kterm_exec`, `printf`/`vsprintf`, `fb_cons_putchar`, `fb_cons_clear_char` |
| Page DB, two tiers | `vm_page.c` | `pages[].flags`, `next_free`, `free_list`, `num_free`, `num_reserved`, `page_index` | `page_db_init`, `page_db_init_4k`, `alloc`, `free`, `free_addr`, `reserve_page`, `index2addr`, `addr2index` |
| Slab / kmalloc | `slab.c`, `kmalloc.c` | slab headers, chunk lists, free/used slab lists | `slab_list_alloc/free`, `reserve_on_slack`, `kmalloc_get_slab` |
| Boot memory | `multiboot.c`, `vm_boot.c`, `kernel.c`, `main.c` | `boot_info` (multiboot tags, memory map), PML4/PDPT/PD entries, boot-frame cursor, `kernel_top` | `multiboot_init`, `vm_boot_map/unmap`, `kernel_slack_alloc`, `vm_boot_sync` |
| PCI scan | `pci.c`, `main.c` | configuration space (the hardware), `pci_devices[]`, `pci_num_devices` | `pci_init`, `pci_read_8/16/32`, `pci_write_32`, `pci_read_bars`, `pci_bar_size` |
| SMP bring-up and interrupt routing | `cpu.c`, `acpi.c`, `local_apic.c`, `io_apic.c`, `interrupt.c` | MADT entries, `num_cpus`, per-CPU descriptors, AP hardware state, I/O APIC redirection table, LDRs | `acpi_parse_madt`, `cpu_init`, `cpu_smp_init` (INIT/STARTUP IPIs), `cpu_init_ap`, `intr_register_irq_handler`, `intr_irq_enable` |

How the parts interact:

- The timer IRQ drives each CPU's scheduler. It is programmed per CPU, and
  `timer_irq_handler` takes the CPU lock and calls `sched_tick`.
- Threads enter the scheduler through `sched_yield`, `sched_sleep`,
  `sema_wait` and `cond_wait`.
- `thread_create`, `thread_wakeup`, `sema_signal` and `cond_signal` reach
  into another CPU's scheduler by taking its lock with `cpu_lock_id`.
- The keyboard IRQ, which runs on the boot CPU, wakes the terminal thread
  on CPU 1 through `cond_signal`. The terminal echoes what `kbd_read`
  returns and runs each line it collects.
- `cpu_smp_init` wakes the APs with INIT and STARTUP IPIs; each AP counts
  itself, builds its descriptor and queues its idle thread, while the boot
  CPU goes on and creates a thread on CPU 1, then scans the PCI buses
  while the APs may still be coming up.
- Memory:
  - `thread_create` takes thread records and stacks from slab lists.
  - The root slab list lives on a slab reserved from the kernel slack.
  - `multiboot_init` walks the loader's tags into `boot_info`: the
    framebuffer `fb_cons_init` maps, and the top of memory from the memory
    map, below which `page_db_init` marks every page FREE.
  - `vm_boot_sync` reserves in the page DB the frames that the boot page
    tables map.
  - A client can build a small-page database of 4K slots inside a 2M
    page it allocated (`page_db_init_4k`).

The behaviours that make this hard:

- Every CPU runs concurrently.
- Interrupts preempt low-IPL code.
- A lock can be held across a context switch.
  - The switching thread takes the CPU lock.
  - The thread switched in releases it.
- Cross-CPU lock hops.
- Unsigned counters that wrap.
- Free lists threaded through arrays.

## 2. The modules

### Sched (`Sched.tla`, `MC_Sched.tla`)

This module models the scheduler, thread creation and wakeup, the CPU
locks and the timer interrupt.

**State:**

- `runq[c]` is the ring as a sequence, with the idle thread first.
- `cur[c]` is the current thread.
- `state`, `cnt`, `sleep_time` and `timer` are the thread fields of the
  same names.
- `cpu_id` is each thread's CPU.
- `holder[c]` is the thread that holds CPU `c`'s lock across steps.
- `inIrq[c]` means CPU `c` has entered its timer handler and spins for
  its lock.
- `pc` is where each thread is:
  - unborn;
  - embryo, while a remote create is in progress;
  - run;
  - yielded;
  - holding a remote lock inside `thread_wakeup` or `thread_create`.
- Two history variables, `sreq` and `selapsed`, record the last
  `sched_sleep` argument and the ticks since it.

**Atomicity.** A section run on the owning CPU with the lock taken at
high IPL (`cpu_lock_splhi`, or inside the handler) cannot interleave with
anything else that touches that CPU, so it is one action.

The following are split into two steps each:

- The timer handler is entered (`TickEnter`), then takes the lock and
  runs `sched_tick` (`TickRun`).
- A remote `thread_create` or `thread_wakeup` takes the lock at low IPL
  (`CreateLock`, `WakeupLock`), then finishes (`CreateDone`,
  `WakeupDone`).

The context switch is the change of `cur`. The thread switched in
releases the CPU lock first thing on every resume path, so that release
is part of the switching action.

**Algorithms.** The algorithms are operators:

- `SchedFind`: the first RUNNING thread of greatest `cnt` in scan order,
  with a strict `>` from -1.
- `Decay`: `cnt/2 + pri` over every thread but the head.
- `SchedNext`
- `Woken`: a thread wakes when `--sleep_time == 0`, decremented modulo
  `2^SleepWidth`.
- `ChargeTick`

**Properties:**

- `RunQueueIntegrity`:
  - the idle thread is the head of its ring;
  - no thread appears twice;
  - a thread is on ring `c` exactly when it has been created with
    `cpu_id = c`.
- `CurRunning`: no CPU runs a SLEEPING thread.
- `SleepTimerConsistent`:
  - a timed sleeper has had exactly `ms - sleep_time` ticks;
  - a woken sleeper slept exactly `ms`.
- `CntInRange`: `0 <= cnt < 2*pri`.
- `NoTickDeadlock`: the graph in which a CPU in its handler waits for its
  lock, held by a thread of another CPU, has no cycle.
- `RunnableScheduled` (liveness): a RUNNING thread eventually runs.
- `YieldReturns` (liveness): a thread in `sched_yield` eventually returns.

### PageAlloc, PageDB and TwoTier (`PageAlloc.tla`, `PageDB.tla`, `TwoTier.tla`, `MC_TwoTier.tla`, `MC_PageDB.tla`)

**PageAlloc** is the abstract page allocator of spec §4.2. It has three
sets, `free`, `used` and `reserved`, and three actions:

- `Alloc` moves any free page to used.
- `Free` moves a used page back to free.
- `Reserve` moves a free page to reserved for good.

**PageDB** is one `page_db_t` of `vm_page.c`.

- **State:** `flags`, `next_free`, `free_list` (0 ends the list),
  `num_free`, `num_reserved`. The constant `PageIndex` is
  `pdb->page_index`: 0 for the big-page database, the backing page of a
  small one. It switches `Index2Addr` and `Addr2Index`
  (`page_db_index2addr`, `page_db_addr2index`) between 2M pages and 4K
  slots inside the backing page.
- **Init:** `InitPages` is `page_db_init_pages`: the first
  `num_reserved` pages RESERVED, the rest FREE and linked in order.
- **Client and boot phase:**
  - `SyncReserve` is one `page_db_reserve_page` call of the
    `vm_boot_sync` walk. It covers every frame in `Mapped`, in any order.
  - `SyncDone` ends the walk.
  - A client then allocates (`Alloc`) and frees its pages with
    `page_db_free` (`Free`) or `page_db_free_addr` (`FreeAddr`).
- **Checks:** a failed `check()` is modelled as `phase = "halted"`.
- **Concurrency:** nothing takes `pdb->lock`, and every caller runs on
  the boot CPU before the APs start, so each call is one action.
- **Refinement:** `Refinement` is `PageAlloc!Spec` under a refinement
  mapping:
  - the pages reachable from `free_list` are `free`;
  - the flags give `used` and `reserved`.

  A free list that holds a reserved or used page, or that loses a free
  page, therefore breaks the refinement.
- **Properties:**
  - `FreeListSound` (spec §8.1): the list ends at 0, has no repeats, and
    holds exactly the FREE pages.
  - `NumFreeAccurate` and `NoLeak` (every USED page is held by a client)
    are stated but not checked by a run; see the observations in §4.

**TwoTier** extends PageDB with the small-page database that
`page_db_init_4k` builds inside a 2M page a client holds.

- The small database is a second instance of PageDB,
  `SmallDb(b) == INSTANCE PageDB WITH PageIndex <- b, ...`, over its own
  variables `sflags`, `snext_free`, `sfree_list`, ... It is the same code
  with `page_index` set to the backing page, so the same definitions serve
  both tiers. `backing` is that page, 0 before `Init4k`.
- `Init4k(p)` is `page_db_init_4k`: 512 slots (scaled), the first
  `db_size >> PAGE_4K_SHIFT` RESERVED for the database's own header.
- `BigStep` is any big-page operation except freeing the backing page;
  `SmallStep` is `page_db_alloc`, `page_db_free` or `page_db_free_addr`
  on the small database.
- **Properties:**
  - `SmallPagesInBacking`: while the small database lives, its free list
    is sound, the backing page is USED in the big database, and every slot
    a client holds has an address inside the backing page, past the
    header, which `page_db_addr2index` passes its checks on and maps back
    to the slot.
  - `TiersRefine`: both tiers implement `PageAlloc`, the small one under
    the same mapping over its own fields (`SPA`).
- **Scaling** (`MC_TwoTier.tla`): a big page is 2^4 address units and a
  slot 2^2, so a big page holds four slots, the first the header. A 6-bit
  index keeps `2*PageShift >= IndexBits` and
  `PageShift + SmallShift >= IndexBits`, the relations of 21 and 12 to the
  32-bit index that decide what `page_db_free_addr` computes.

### Sema (`Sema.tla`, `MC_Sema.tla`)

**Sema** extends Sched with the counting semaphore of `semaphore.c`.

- **State:**
  - `count`
  - `waitq`, the FIFO `thread_list_t` of `thread.h`
  - `slock`, the holder of `s->lock`
  - the history set `inCS` of threads between their wait and signal
- **Steps:** both operations run at high IPL (`cpu_splhi`), so the
  caller's CPU takes no timer interrupt meanwhile; Sched's `TickEnter`
  is enabled only at the low-IPL pcs. Each operation is cut where the
  code spins for a lock:
  - `WaitEnter`, `WaitLock` (with the early return when `count > 0`)
    and `Block` (CPU lock, push, drop `s->lock`, `sched_yield_locked`);
  - `SignalEnter`, `SignalLock` (the early return on an empty list, else
    pop), and `SignalWake` (`cpu_lock_id` of the waiter's CPU, RUNNING,
    drop both locks).
- **Properties:**
  - `Permits` (spec §8.6): `count + |inCS| = SemaInit`.
  - `WaitersAccounted`: the blocked threads are exactly the queued ones,
    once each, plus the one a signaller has popped. They are all
    SLEEPING, and no permit sits in `count` while anyone waits.
  - `NoSpinDeadlock`: the graph "CPU c spins with interrupts off for a
    lock whose holder lives on CPU d" has no cycle. A self-loop, where
    the holder was switched out on the spinning CPU itself, counts.

### Kbd (`Kbd.tla`)

**Kbd** models the keyboard ring of `kbd_8042.c` and the condition variable
of `cond.c`, whose only user is this ring.

- **Producer:** `irq_handler` runs on the boot CPU with interrupts off.
  - `KeyPress` is the interrupt.
  - `IrqLock` takes `kbd.lock`, stores the code at
    `write_pos % KBD_BUFSIZE`, increments `write_pos` and runs
    `cond_signal`. It returns if nobody waits, else it pops the reader.
  - `IrqWake` takes the reader CPU's lock with `cpu_lock_id`, marks the
    reader RUNNING and drops both locks.
- **Consumer:** `kbd_read`, in the kterm thread on CPU 1.
  - `ReadLock` is `spinlock_lock_splhi`.
  - `ReadWait` is `cond_wait`: it takes the CPU lock, pushes, drops
    `kbd.lock` and sleeps.
  - `SwitchAway` is the next thread dropping the CPU lock.
  - `Resume` and `Relock` are the return from `sched_yield_locked` and
    the re-lock.
  - `ReadCopy` is the whole copy loop and the unlock.
  - `ReadDecode` is one `kbd_decode` of the copied codes, after the
    unlock, with the `kbd.shift` and `kbd.caps` of that moment.
- **Modifiers:** `IrqSpecial` is an interrupt whose code
  `kbd_check_special` consumes: Shift make and break set and clear
  `shift`, a Caps Lock break toggles `caps`. Only these two are read by
  `kbd_decode` for letters, so ctrl, alt and num lock are left out and
  every key is a letter reduced to its case (`UpperCase`). `MaxMods`
  bounds the modifier codes of a behaviour; `pressedUpper` records the
  case each key was typed in.
- **Abstractions:**
  - The k-th key pressed has scan code k.
  - The reader's CPU is reduced to its lock and the reader's state. The
    scheduler itself is `Sched`.
  - Positions are kept modulo `2^PosWidth`, as the `uint32_t` counters
    are modulo 2^32.
- **Typist bound:** `MaxAhead` bounds how far the typist may get ahead of
  the reader. It is an assumption about the environment, not a check of
  the code.
- **Properties:**
  - `InOrder`: the codes returned are exactly 1, 2, 3, ...
  - `NoLostWakeup`: the reader never sleeps over a pending key.
  - `KeysDelivered`: every key pressed is eventually returned.
  - `LocalBufBound`: the copy stays inside the 16-byte stack buffer.
  - `DecodedAsPressed`: each key is decoded in the case it was typed in.

  The first three are checked through KTerm; `LocalBufBound` and
  `DecodedAsPressed` are the properties of the violation runs `kbd_stack`
  and `kbd_shift`.

### KTerm (`KTerm.tla`, `MC_KTerm.tla`)

**KTerm** extends Kbd with the terminal thread of `kterm.c` that calls
`kbd_read` in its loop.

- **State:** `typed` (the character of each key: `kbd_decode` of its
  code), `cmd_line`, `scr` (the glyphs left of the console cursor on its
  line), `tpc` (reading, or holding a batch) and two history variables,
  `shown` (the console line of each command when Enter moved past it) and
  `ran` (the argument vectors `kterm_exec` was called with).
- **Steps:** Kbd's steps run unchanged. `TReadCopy` is `kbd_read`
  returning its batch, decoded by Kbd's `ReadDecode`; `Batch` is the whole `for` loop of `kterm_run`
  over it and the deferred echo `printf("\b%s_", tmp)` after it. The
  loop `KTermLoop` folds `KTermChar` over the batch; `KTermChar`
  follows the four cases of the code: Enter on a non-empty line
  (`kterm_exec`, reset), Enter on an empty one, backspace (`"\b\b_"` at
  once), and a printable character (appended to `tmp` and `cmd_line`).
- **Console:** `PutChar`/`PutStr` follow `fb_cons_putchar`: a glyph is
  drawn at the cursor, `'\b'` is `fb_cons_clear_char`, `'\n'` starts a
  new line. Lines are assumed narrower than the screen.
- **Reference:** the recursive operator `Entered` says what the keys
  mean: each Enter enters the line typed since the last one, with
  backspaces applied.
- **Properties:**
  - `CommandsAsTyped`: between batches, `kterm_exec` has run exactly the
    lines entered by the keys returned so far, and `cmd_line` holds the
    rest, however `kbd_read` split the keys into batches.
  - `EchoMatches`: between batches the console line is the prompt, the
    command line and the cursor, and each command was shown as typed.
    It is violated (run `kterm_echo`).
  - Kbd's `InOrder`, `NoLostWakeup` and `KeysDelivered`, checked here.
- **Echo text:** the deferred echo `EchoText` is the text `vsprintf`
  (module Vsprintf) writes for the format `"\b%s_"` and `tmp`.
  `kterm_exec` finds a command by `Strcmp`.
- **Evaluation:** under fairness TLC evaluates an action again for every
  use of a `LET` or an operator argument. `Batch` therefore binds the
  batch's result with `\E u \in {...}`, and the loops are folds
  (`FoldLeft`), so that each is evaluated once per step.

### Vsprintf (`Vsprintf.tla`)

**Vsprintf** is the formatter of `vsprintf.c`, as pure operators over
sequences of one-character strings: `Loop` is the `for` loop over the
format and `Step` one pass of it; a conversion `Conv` is `ConvSpec`
(flags, field width, precision, qualifier) followed by `Convert` (each
of `c`, `s`, `o`, `p`, `x`, `X`, `d`, `i`, `u`, `n`, `%`),
`Number` is `number()` (sign, `0`/`0x` prefix, zero or space padding,
`LEFT`), and `DivDigits` is `do_div`'s digit loop. `int32_t` and `int64_t`
keep their two's-complement behaviour at the widths `IntBits` and
`LongBits` (8 and 16 in the runs). `KTerm` uses it for its echo. `Loop`,
`Conv` and `VsprintfSt` bind the parsed specification and each pass's
result with a set comprehension (`{e : x \in {v}}`), so that TLC
computes each once instead of at every use.

Evaluating `Vsprintf` on other formats shows where it departs from C
(none of these formats occurs in the tree's calls that the models reach,
so no run checks them):

- With no qualifier, `%x` reads an `int32_t` and sign-extends it, so a
  value with the top bit set prints with a `LongBits`-wide run of `f`s.
- `ll` is not a qualifier: `%llx` takes `l` as the qualifier and prints
  the second `l` as a literal conversion character.
- A `*` width or precision takes its argument, but `fmt` is not advanced
  past the `*`.

### Slab (`Slab.tla`, `MC_Slab.cfg`)

**Slab** models `slab.c` as `kmalloc.c` sets it up: the root list
`sl_root` of `PAGE_2M_SIZE` slabs, its first slab reserved on the kernel
slack, and one size class of `sl_table` whose slabs are root chunks (the
class `thread_init` takes for thread records).

- **State:** `heap` (per slab: the chunk links, `free_list`, `num_free`,
  the `SLAB_RESERVED` flag; per list: `free_slabs` and `used_slabs`),
  `childInit`, `held` (the chunks clients hold), `failed` (the last
  allocation returned NULL).
- **Steps:** each list's lock covers the whole of `slab_list_alloc` and
  `slab_list_free`, and the class list takes the root's lock inside its
  own, so each call is one action. `SlabListAlloc` and `SlabListFree` are
  RECURSIVE operators: a class list out of chunks allocates a slab from
  its owner, and a class slab that empties is freed back to it.
- **Geometry:** `Geometry` is `slab_init`'s arithmetic. `CeilPow2` is
  `ceil_pow2` (`32 - __builtin_clz(x - 1)`). An `ASSUME` on the
  constants checks it against `LeastPow2`, its definition, and checks
  that chunk size, chunk count and header chunks are what `slab_init`
  means. This is arithmetic on constants, so it is not a property of a run.
- **Properties:**
  - `ChunkConservation` (spec §8.2–3): every chunk of every live slab, at
    both levels, is a header chunk, on its slab's free list once, or
    handed out once; `num_free` counts the free list.
  - `ListsPartition`: `used_slabs` holds only full slabs, `free_slabs`
    only slabs with a free chunk, no slab twice, and the slack slab
    never leaves the root list.
  - `HeldMemoryDisjoint`: no memory has two holders. A class chunk a
    client holds lies in a slab still live on the class list, and no root
    chunk a client holds is at the same time a class slab. This is the
    cross-level half that `ChunkConservation` cannot see: that invariant
    looks only at live slabs, and it counts a root chunk once even when
    a client and the class list both have it. Take a `slab_is_empty`
    that is off by one (`num_free + 1 == num_chunks - num_reserved`),
    with `ElemSize = 16` so that a class slab has five free chunks. It
    releases a class slab while one chunk is still held. TLC then
    reports `HeldMemoryDisjoint` violated after 45 states, and the other
    four invariants still hold. (With the run's two free chunks per
    class slab, that off-by-one never fires, because the freeing of a
    full slab takes the `was_full` branch. The run's mutant instead
    drops `slab_list_remove` from the release path.)
  - `AllocFailsOnlyWhenExhausted` (action property): NULL comes back only
    when the list and its owner have no chunk left.

### VmBoot (`VmBoot.tla`)

**VmBoot** is the boot sequence of `kernel_main` up to the APs:
`multiboot_init`'s tag walk, the boot page-table editor of `vm_boot.c`,
`kernel_slack_alloc` of `kernel.c`, and `vm_boot_sync` feeding the page
database (an instance `PDB` of PageDB).

- **State:** `mem` (the page tables, the boot-frame cursor, `kernel_top`
  and `kernel_slack`), `bootInfo` (the `boot_info` fields
  `multiboot_init` fills: command line, memory size, `mmap_top`,
  framebuffer address, pitch and height), `acpi`, `layout` (whether the boot stubs share
  one PD between the identity and the kernel half), `pc`, `walk` (the
  frames `vm_boot_sync` has left to reserve) and the page database.
- **Inputs**, chosen in Init: where the kernel image ends, the ACPI
  tables and the boot table layout; `MultibootInit` chooses the
  multiboot information (the magic and the tags by byte offset).
  `TagWalk` is the tag loop: it advances by the size rounded up to 8 and
  hands each tag to `MultibootCmdline`, `MultibootMeminfo`,
  `MultibootFramebuffer` or `MultibootMmap`, skipping the others.
  `MmapTop` is the `mmap_top` `multiboot_mmap` computes from the available
  entries of the memory map (the `Mmap` constant, decoded). A wrong magic
  makes `kernel_main` return (`MultibootBadMagic`). A tag of size 0 would
  keep the walk in place forever, as a zero-length MADT entry does in
  `acpi_parse_madt`; loaders do not write one, and the inputs have none.
- **Steps:** one action per call of `kernel_main`'s sequence
  (`MultibootInit`, `MultibootBadMagic`, `ConsoleInit`, `VmPageInit`, `VmHashInit`, `AcpiInit`,
  `KmallocInit`, `CpuInit`, `ApInit`) and one per reservation of
  `vm_boot_sync`'s walk (`SyncReserve`). The editor's calls are operators
  over the table state: `MapPage` allocates missing tables from the boot
  frames, `MapRange` rounds to 2M pages, `SyncWalk` is the PML4/PDPT/PD
  walk in its order.
- **Properties:**
  - `BootFramesSuffice`: no `check()` of the boot fails; in particular
    `boot_page_alloc`'s pool of boot frames never runs out, for every
    input and layout.
  - `KernelImageMapped`: the kernel image and every page the slack has
    grown into stay mapped at `KERNEL_BASE` through the boot.
  - `BootFramesReserved` (spec §4.3): after the sync, the RESERVED pages
    are exactly the frames of RAM the tables map, and the free list is
    sound, whatever order the walk meets them in.
  - `FreePagesInRam`: every FREE page lies wholly in RAM the memory map
    marks available.
  - `MapIdempotent` (spec §8.8): mapping a range twice is mapping it once,
    and unmap then map restores every translation, from every table state
    the boot reaches.

### SmpBoot (`SmpBoot.tla`)

**SmpBoot** models SMP bring-up and interrupt routing: `acpi_parse_madt`
(the MADT is the constant `Madt`, decoded), `cpu_init` and `cpu_smp_init`
on the boot CPU, `cpu_init_ap` on each AP, and the `thread_create` on
CPU 1 that `kernel_main` makes next.

- **MADT walk:** `ParseEntry` is one pass of `acpi_parse_madt`'s loop.
  `ptr` is a byte offset that moves by each entry's length byte until it
  reaches the table's length. A LOCAL_APIC entry appends to `lapics`, an
  IO_APIC entry overwrites `ioapic`, and an override appends to `iovr`.
  The `MAX_CPUS` and `MAX_IO_APIC_IOVR` checks stop the kernel when a
  table is full. Setting an entry's `len` to 0 in `MCMadt` reproduces the
  endless walk of `acpi.c:191`: `AllCpusTick` is violated.

- **State:** the BSP's `bpc` and `ipi` (the index of its IPI loops); each
  AP's `apc` and `hw` (reset, waiting for STARTUP, running); `num_cpus`,
  `boot_ap`, `cpu_mask`; the interrupt state `intr` (I/O APIC redirection
  table, `irq_handlers[]`, IDT); each CPU's LDR, descriptor, `cur_thread`
  and interrupt flag; CPU run queues as `threads`, `next`, `prev`.
- **Steps:** the CPUs run in parallel. Every statement that touches state
  another CPU also touches is a step of its own, so the two
  `queue_push_back` expansions on CPU 1's queue (the BSP's under the lock,
  the AP's in `sched_init_cpu` under none) interleave statement by
  statement (`QStep`). `SendInit` and `SendStartup` are one iteration
  each of the INIT and STARTUP loops; an AP starts only after an INIT and
  then a STARTUP reach it (`IpiInit`, `IpiStart`).
- **Routing:** `RegisterIrq`, `EnableIrq` and `Dispatch` are
  `intr_register_irq_handler`, `intr_irq_enable`/`io_apic_enable_irq`
  with the interrupt override, and `cpu_interrupt`'s lookup.
- **Properties:**
  - `InterruptsOnlyWhenReady`: a CPU enables interrupts only once its
    descriptor is keyed by its APIC id, ACTIVE, and runs its idle thread.
  - `NoMisroute`: no unmasked line ever reaches another handler than its
    device's.
  - `AllCpusTick` (liveness): bring-up ends with every CPU taking the
    timer in `timer_irq_handler` and the keyboard reaching the boot CPU.
  - `ThreadPlaced`: once `thread_create` has returned and CPU 1 has its
    idle thread, CPU 1's queue is a ring of both threads and the thread's
    `cpu_id` is 1. It is violated (run `smp_race`).

### Pci (`Pci.tla`, `MC_Pci.tla`)

**Pci** is `pci_init` of `pci.c`, which `kernel_main` calls on the boot
CPU after `thread_create`.

- **State:** `space` (the configuration space, dwords of four bytes per
  function and register, as the hardware holds it and `pci_write_32`
  leaves it), `pci_devices` (the filled prefix of the array) and
  `scanned`. The constant `Devices` gives each function's header, or
  `NoDevice` (reads all ones).
- **Accessors** are modelled by what they do with the port lanes:
  `pci_read_8` and `pci_read_16` take the byte or word lane of the dword
  the address port selects; `pci_read_32` reads port `0xCFC + reg`,
  which is the data port only for `reg = 0`, so a BAR read returns one of
  `PortJunk`; `pci_bar_size` writes all ones and then the value it read
  back.
- **Scan:** `pci_init` is one step. Only the boot CPU touches the ports
  and `pci_devices`, and no other CPU reads them. Its loops are the
  recursive operators `ScanFrom` (bus and dev), `ScanDevice` (the
  multi-function test on function 0's header type), `ScanFuncs` and
  `ScanFunc` (a vendor id of 0xFFFF is skipped, else an `Entry` is
  appended and `ReadBars` runs). Each operator gives the set of results
  that the junk reads allow.
- **Property:** `DevicesEnumerated`: when `pci_init` returns,
  `pci_devices` lists every function present at function 0, or at a
  function of a multi-function device, once and in bus, device, function
  order, with the identity, class and interrupt bytes of its own header.
- **Property:** `HeaderTypesOwn`: every entry records its own function's
  header type, without the multi-function bit. `pci_init` reads the
  header type once, from function 0 (`pci.c:187`), and stores it in the
  entry of every function (`pci.c:202`). `pci_read_bars` picks the BAR
  layout by this field (`pci.c:152`). `MC_Pci` has one device: a
  multi-function generic function 0 and a PCI-to-PCI bridge (header
  type 1) at function 1. `PciSpec` is `pci_init` alone.

### Boot (`Boot.tla`, `MC_Boot.tla`)

**Boot** composes the boot CPU's sequence in `kernel_main` order. It
EXTENDS SmpBoot and INSTANCEs VmBoot (`V`) and Pci (`P`):
- VmBoot's memory steps come first.
- The MADT walk (`Parse`) comes before VmBoot's RSDT map and unmap
  (`Acpi`).
- `CpuInit` is one step of both: the APIC windows are mapped while the
  boot CPU is set up.
- Then come SmpBoot's bring-up and `thread_create`, and `PciStep`.

The APs run in parallel. Each AP's `local_apic_init` also maps the local
APIC window in VmBoot's tables, under `vm_boot_lock` as one step (`ApMapLapic`). A boot that
halts goes no further (`Alive`). Boot checks the properties of VmBoot,
SmpBoot and Pci over the whole boot. `BootTicks` says that a boot that
does not halt ends with every CPU ticking.

## 3. Runs

| Run | Module, cfg | Expect | What it shows |
|-----|-------------|--------|---------------|
| sema | `MC_Sema`, `MC_Sema.cfg` | pass | Two CPUs, two threads sharing a binary semaphore and sleeping 1 or 2 ticks, the boot CPU creating and waking threads on CPU 1 (as `kernel_main` and `kterm_init` do). The rings, current threads, sleep timers and credits stay consistent (Sched's `RunQueueIntegrity`, `CurRunning`, `SleepTimerConsistent`, `CntInRange`, `NoTickDeadlock`), permits are conserved, no waiter is lost and no CPU spins forever. |
| sema_remote_deadlock | `MC_Sema`, `MC_Sema_remote.cfg` | violation | With a third thread: idle on CPU 0 holds CPU 1's lock in `thread_create` and is switched out; a CPU 1 thread in `sema_wait` holds `s->lock` and spins for CPU 1's lock; a CPU 0 thread in `sema_signal` spins for `s->lock` at high IPL, so CPU 0 never ticks again (`NoSpinDeadlock`). |
| starvation | `MC_Sched`, `MC_Sched_starve.cfg` | violation | On one CPU two threads alternate `sched_sleep(1)`. Each wakes with `cnt = pri` and wins the tie, so the RUNNING thread later in the ring never runs (`RunnableScheduled`). |
| pagedb | `MC_TwoTier`, `MC_TwoTier.cfg` | pass | Six big pages, page 0 the kernel's; the boot maps frames {0, 1, 3, 7} (one past the end of memory), reserved in every order. The big free list stays sound through any alloc, free and free_addr; a small database built in an allocated page keeps its slots inside that page, past its header, with translations that round-trip; both tiers refine `PageAlloc` (64,542 states). |
| kterm | `MC_KTerm`, `MC_KTerm.cfg` | pass | Four keys from {a, space, backspace, Enter} typed while `kterm_run` reads and echoes, in every split into batches: the ring hands them over in order with no lost wakeup, every key is delivered, and `kterm_exec` runs exactly the lines they enter. |
| kterm_echo | `MC_KTerm`, `MC_KTerm_echo.cfg` | violation | A character and a backspace in one batch leave the character on the screen although it is gone from the command line (`EchoMatches`). |
| kbd_stack | `Kbd`, `MC_Kbd_stack.cfg` | violation | A typist three keys ahead of a 2-slot ring: `irq_handler` overwrites an unread slot and the copy loop writes 3 codes into the 2-byte local buffer (`LocalBufBound`). |
| kbd_shift | `Kbd`, `MC_Kbd_shift.cfg` | violation | A key pressed, then Shift pressed before `kbd_read` decodes the batch: the key comes out upper case (`DecodedAsPressed`). |
| slab | `Slab`, `MC_Slab.cfg` | pass | Any sequence of root and class allocations and frees with up to five chunks held: geometry, chunk conservation at both levels, no memory handed to two holders, the list partition and the NULL-only-on-exhaustion rule hold. |
| boot | `MC_Boot`, `MC_Boot.cfg` | pass | The whole boot: GRUB-like multiboot tags (two framebuffers, tags in two orders, a wrong magic) with spec E1's memory map, every kernel size, ACPI placement and boot table layout; a boot CPU and two APs with QEMU's I/O APIC and IRQ 0 override, in every interleaving; and a PCI scan of 2 buses x 2 devices x 2 functions. The boot frames suffice, the kernel stays mapped, `vm_boot_sync` leaves exactly the mapped frames RESERVED with a sound list, free pages lie in RAM, and re-mapping changes nothing. No CPU enables interrupts too early, no line is misrouted, and every CPU ends up ticking. `pci_devices` lists what the scan should find (41,970 states). |
| pci_header_type | `MC_Pci`, `MC_Pci.cfg` | violation | A multi-function device with a generic function 0 and a bridge at function 1: the bridge's entry records header type 0 (`HeaderTypesOwn`). |
| smp_race | `MC_Boot`, `MC_Boot_race.cfg` | violation | The BSP leaves its poll as soon as every AP has counted itself, so `thread_create` onto CPU 1 can run during CPU 1's unlocked `sched_init_cpu` and lose the thread from the run queue (`ThreadPlaced`). |

Every property of every pass run has a mutant in `PROJECT.json`: a
definition the map names, replaced by a plausible bug in that code (a
dropped guard, a missing reset, an off-by-one), for which TLC reports the
property violated.

**Bounds:**

- Sched/Sema: two CPUs and two creatable threads (plus the idle
  threads), `pri = 2`. The credit range is then 0..3, so the decay pass,
  ties, the clamp and every branch of `sched_next` are reached.
  `SleepMs = {1,2}` covers waking on the first tick and on a later one.
  `SleepWidth = 8`: TLC's integers are 32-bit signed, so a `uint32`
  cannot be represented directly; the wrap behaves the same at any width.
  `SemaInit = 1`. The starvation run uses one CPU and three threads, the
  fewest that can show it. Symmetry over the created threads is used only
  in the safety run.
- Kbd/KTerm: `BufSize = 2`, `PosWidth = 3` (positions stay below the
  wrap, as 32-bit positions do in practice), 4 keys, a typist at most 2
  keys ahead in the pass run and 3 in `kbd_stack`. `CHECK_DEADLOCK FALSE`:
  once the typist stops the reader sleeps forever, which is what the code
  does.
- PageDB/TwoTier: six big pages and four slots per page, one of them the
  header; the mapped set includes a frame past the end of memory and a
  gap, so every branch of `page_db_reserve_page` is taken.
- Slab: the real 28-byte header, a 512-unit root slab of four 128-unit
  chunks and a class of 24-byte elements, so a class slab has two header
  chunks and two free ones and both levels fill, empty and give back
  slabs within five held chunks.
- VmBoot: tables of 8 entries, 4 units per 2M page, kernel ends inside,
  at and past a page boundary. Two spare boot frames (of the 28 the code
  has): the boot takes at most two new tables, and the mutant with one
  frame fewer fails, so the pool is as tight as it can be and
  `BootFramesSuffice` is checked at its edge. `CHECK_DEADLOCK FALSE`:
  the sequence ends.
- SmpBoot: a BSP and two APs, which is enough for two APs to interleave
  with each other and with the BSP. `CHECK_DEADLOCK FALSE`: bring-up ends.
- Pci (in `MC_Boot`): two buses, two devices and two functions, with one
  BAR each. The devices are:
  - a multi-function ISA bridge at function 0, with a PCI-to-PCI bridge
    of header type 1 at function 1 (function 0's header type 0x80 must
    not reach the entry);
  - on bus 1, a single-function device that also answers at function 1,
    which the scan must skip.

  `PortJunk` is one memory-shaped value, so the junk read of a BAR is
  sized. A second junk value multiplies the scan's results, and every AP
  interleaving after them: the run then took more than 6 minutes.
- Kbd modifiers (`kbd_shift`): two keys and two modifier codes, enough
  for a Shift between a key and its decode.

**Fairness.**

- Sched: the local APIC timer is periodic, and an interrupt masked by
  high IPL stays pending, so `TickEnter` is weakly fair. The handler
  spins on the lock, which is free infinitely often, so `TickRun` is
  strongly fair. Thread steps get no fairness: a thread may never call
  anything.
- Kbd/KTerm: weak fairness on every reader and handler step. `kterm_run`
  calls `kbd_read` in an endless loop, CPU 1 has one other thread, and the
  handler runs to completion with interrupts off. Pressing keys is not
  fair.
- SmpBoot: every CPU runs on its own, so the BSP and each AP are weakly
  fair. Delays (`cpu_wait`) are not modelled: nothing orders two CPUs by
  them.
- PageDB, TwoTier, Slab and VmBoot check only safety and need none.

## 4. Findings

The findings in `PROJECT.json`, each reproduced by a violation run:

- **Low-IPL cross-CPU lock deadlock** (`thread.c:104`, run
  `sema_remote_deadlock`). The in-tree pattern deadlocks both CPUs once a
  semaphore is in use, even though only the boot CPU creates threads on
  CPU 1. This contradicts spec §4.1.
- **Starvation by sleeping pairs** (`sched.c:68`, run `starvation`). This
  contradicts spec §8 property 4.
- **Keyboard ring overflow smashes kterm's stack** (`kbd_8042.c:112`,
  `:138`, run `kbd_stack`).
- **Unlocked `sched_init_cpu` races `thread_create`** (`cpu.c:225`,
  `sched.c:50`, run `smp_race`). The AP counts itself before it has a
  descriptor or an idle thread, and nothing but delays orders the BSP's
  thread_create after it.
- **Batched backspace leaves the echo wrong** (`kterm.c:182`, run
  `kterm_echo`).
- **Every function gets function 0's header type** (`pci.c:202`, run
  `pci_header_type`). A bridge behind a generic function 0 has six BARs
  read as a type-0 header's (`pci.c:152`).
- **Keys decoded with stale modifiers** (`kbd_8042.c:144`, run
  `kbd_shift`). `kbd_read` decodes after the unlock, with the Shift and
  Caps state of that moment rather than of the key press.

Further observations. No run is spent on these. All but the `sched.c:144` and `pci.c:197`
rows are hazards in `PROJECT.json`.

| Observation | Source | To reproduce | Why no run |
|-------------|--------|--------------|------------|
| Threads of both CPUs that create threads on each other deadlock the two timer handlers. | `thread.c:104` | `NoTickDeadlock` with `RemoteCallers <- MCCPU` in `MC_Sema.cfg` | The tree creates remote threads from the boot CPU only. |
| kterm's `cpu` command (`cpu_show_cmd`, on CPU 1) takes the boot CPU's lock through `cpu_lock_smp(0)`, which is `cpu_lock_id` at low IPL, and holds it across `printf`. If kterm is preempted there, the boot CPU's timer handler spins with interrupts off until kterm runs again. | `cpu.c:338` | `NoTickDeadlock` with `RemoteCallers <- MCCPU` in `MC_Sema.cfg` finds the cycle that a boot-CPU thread locking CPU 1 at the same moment would close | Once kterm runs, the boot CPU no longer locks CPU 1. What remains is a stall, which is not a safety property. |
| `sched_sleep(0)` sleeps 2^32 ticks. | `sched.c:64` | `MC_Sched_starve.cfg` with `SleepMs = {0}`, `Thread <- MCOneThread`, `SPECIFICATION Spec`, `INVARIANT SleepTimerConsistent` | The only call is `sched_sleep(5000)`. |
| `sched_yield` without a `thread_wakeup` never returns. | `sched.c:144` | `YieldReturns` under `FairSpec`, one CPU, one thread | No caller in the tree. |
| `page_db_reserve_page(num_reserved)` links the page before it onto the free list without checking it, so reserving frames 2 then 1 leaves a RESERVED page at the head. | `vm_page.c:176` | `INVARIANT FreeListSound` in `MC_PageDB.cfg` with `MCMapped == {1, 2}` | `vm_boot_sync` reserves in ascending address order, so the tree never makes the calls in this order. |
| `page_db_reserve_page` never decrements `num_free`. | `vm_page.c:172` | `NumFreeAccurate` in `MC_PageDB.cfg` | The counter is never read. |
| `page_db_free_addr` frees nothing: the index is computed from an address shifted left and truncated to 32 bits. | `vm_page.c:160` | `INVARIANT NoLeak` in place of `NumFreeAccurate` in `MC_PageDB.cfg` | The function has no caller. |
| Pages in a reserved range of the memory map below `mmap_top` are marked FREE. | `vm_page.c:29` | split `MCMmap`'s RAM entry `[2, 24)` into `[2, 12)`, a reserved `[12, 14)` and `[14, 26)` | Spec E1's map has no such range. |
| After `write_pos` wraps, `kbd_read` sleeps over pending keys. | `kbd_8042.c:131` | `KeysDelivered` in `MC_KTerm.cfg` with `PosWidth = 2` | Needs 2^32 keys. |
| A disabled LOCAL_APIC entry keeps the BSP polling forever. | `cpu.c:282` | `enabled |-> FALSE` on CPU 2 in `MCMadt` | Spec §4.6 says every entry registers a CPU. |
| A second I/O APIC wins and the timer is programmed into the wrong chip. | `io_apic.c:74`, `:120` | a second `ioapic` entry with `base |-> 24` in `MCMadt` | The machines the spec names have one I/O APIC. |
| `pci_read_32` reads port `0xCFC + reg`. `pci_bar_size` then writes the junk it read back into the BAR, so an I/O BAR is overwritten. | `pci.c:118`, `:145` | an invariant that the BARs of `space` equal those of `Devices`, checked on `MC_Boot.cfg` | No run slot is left; `DevicesEnumerated` reads only header bytes. |
| `pci_devices[pci_num_devices++]` has no bound against 32. | `pci.c:197` | more than 32 functions | A single bound, which a test reaches directly. |
| `mmio_base64` is overwritten with the upper half instead of OR-ed with it. | `pci.c:169` | (not represented: the bars[] fields are left out) | The field is never read. |

## 5. What is not modelled

- Consoles other than the cursor line and the commands' output: I/O
  with no shared state. ATA: `ata_init` is commented out in `main.c`,
  as is `imps_init`. `pci.c`'s second scan is compiled out (`#if 0`).
  The `bars[]` fields of a PCI entry are left out, and `pci_read_caps`
  is empty. Of `vsprintf`, only the echo format
  is composed into a run.
- The ACPI table checksums, the RSDP search and the MP tables of
  `imps.c`. The MADT's entries are decoded (`Madt`); only their walk by
  length byte is modelled.
- The page cache (`vm_cache.c`): scaffolding with no caller (spec §9). Its
  `page_hash_insert` links the old head to the new page and then clears
  the new page's link, losing the chain; nothing calls it.
- `page_db_reserve_region`, `page_db_4k_vaddr` and the dump, zero and copy
  helpers of the page database.
- The saved IPL in `cpu->spl`. `cpu_lock_splhi` stores the caller's IPL
  in that shared field (`cpu.h:59`), and `cpu_unlock_splx` restores
  whatever the field holds when it unlocks (`cpu.h:66`), possibly after a
  switch. A local `thread_create` or `thread_wakeup` called at high IPL
  would store HIGH, and a thread resuming in `sched_sleep` would then
  return with interrupts off. Every in-tree caller of `cpu_lock_splhi`
  runs at low IPL: `sema_signal` and the timer and keyboard handlers use
  `cpu_lock_id` or `cpu_lock`, which store nothing. So the field always
  holds LOW, and the models leave it out.
- The 8259 PIC and the PIT (`pic.c`, `pit.c`). `pic_init` remaps the
  PIC and masks every line, and the local APIC's LINT0 is never enabled.
  `pic_enable_irq`, `pic_disable_irq` and `pic_eoi` have no caller, so
  the PIC delivers nothing. `pic_eoi`'s test is inverted (`irq_num > 8`
  acks the master only), but that is dead code. `pit_init` only programs
  a divisor.
- The IPI test command (`ipi -self/-bcast/-all`) and the lint 0xf0
  handler. The handler only prints, and the IDT is shared, so every CPU
  reaches it.
- Local APIC timer calibration against the PIT, and the register layout
  of context-switch frames.
- The ctrl, alt and num lock state of `kbd_check_special`, which
  `kbd_decode` does not read for letters.

The map in `PROJECT.json` covers about 34% of the implementation's
lines. The rest is the I/O, formatting and table-decoding code above,
which has no state a property distinguishes.
