# A verification project for SipaaKernel

TLA+ modules, TLC configurations and TLAPS proofs about SipaaKernel, a small
monolithic kernel for x86_64 (one processor, C, Limine boot protocol, built
without optimisation). Paths below are relative to the repository's `src/`
directory. Definitions carry the names of the C functions they model;
`PROJECT.json` maps each of them to its lines.

Check a model with `tlc -config MCSched_any.cfg MCSched`, the proofs of a module
with `tlapm VmmProofs.tla`; the modules with proofs are `SchedProofs`,
`InterruptsProofs`, `VmmProofs`, `KHeapProofs`, `KHeapSharedProofs`, `PmmProofs`,
`LibraryProofs` and `Totals`.

## The system

| component | state | operations | used by |
|---|---|---|---|
| Scheduler (`arch/x86_64/sched.c`) | `pid_counter`, `current_process`, `process_list`, the ring of `ProcessT` through `next` | create, exit, schedule | PIT, IDT, boot |
| Interrupt dispatch (`idt.c`, `idt.asm`) | the gates, `isrh[]`, `Idt_PendingReboot` | set a handler, dispatch, panic, end of interrupt | hardware, `int $32` |
| PIT (`pit.c`) | `tick` (32 bits, wraps) | count and schedule; sleep | IDT |
| Boot (`init/init.c`) | none | the order of the initialisations, `sti` | Limine |
| Physical memory (`memory/pmm.c`) | stack of free pages, chain of blocks | allocate, free, reallocate, take a page | heap, VMM, ELF, PCI, ramdisk |
| Kernel heap (`memory/heap.c`) | ring of blocks in pages of their own | allocate, free | scheduler, VFS, tokenizer |
| Virtual memory (`vmm.c`) | page tables, current address space | map, unmap, new space, switch | scheduler, IDT, ELF |
| Spinlock and logger (`sys/spinlock.c`, `log/logger.c`) | a lock word; flags | acquire, release, log | everybody (without the lock) |
| VFS, ramdisk, hellofs, devfs (`fs/`) | nodes, header array | open, read, find, register | not called at boot |
| Strings (`klibc/`) | `TokenizeString`'s static position | tokenize, compare, copy | VFS |
| PCI (`sys/pci.c`) | the ids that are looked for | scan buses, slots, functions, bridges; does a device exist | framebuffer |
| Console (`dev/conio.c`, `trdparty/sterm.c`) | the cursor | put a character or a string | logger, system call 0 |
| System calls (`arch/x86_64/syscall.c`, `syscall/`) | a table of one entry | dispatch vector 128 | `int $0x80` |
| ATA, GPU, serial, ACPI, ELF, symbols, command line | device registers, small tables | see `PROJECT.json` | boot, or nobody |

The components call each other directly. What makes them interact in a way
that is hard to test is the timer: after `sti` it interrupts any code that runs
with interrupts enabled, and its handler switches processes. All processes run
in ring 0 and share the heap, the ring and the logger, without a lock.
Interrupt gates clear IF, so handlers are not preempted. A process ends by
returning from its entry point (then `Scheduler_Entry` unlinks it and frees it
*with interrupts enabled*) or by a page fault (then the fault handler does so
with interrupts disabled).

What makes each component correct:

- **Scheduler**: every live process stays within reach of the scheduler; each
  switch saves and loads the right context and address space; what has exited
  never runs again; no live process loses its memory; round robin; exits
  complete.
- **Physical memory**: no byte belongs to two owners; chain and callers agree;
  pages and sizes are conserved.
- **Heap**: the ring stays a doubly linked ring; a block is in use exactly when
  somebody holds it; free neighbours are merged; bytes are conserved; and when
  calls are preempted and abandoned, no block in use is lost.
- **VMM**: a call changes one address; address spaces share the kernel's half and
  nothing else; no page is a table twice; the processor's cache holds nothing
  that was unmapped.
- **Interrupts and sleep**: every request gets its end of interrupt, whichever way
  its handler ends; a process dies only of its own fault; a handler does not
  fault; a sleep lasts as long as asked for, and ends. (The second, the third and
  the first half of the last do not hold: see "Other disagreements".)
- **PCI, strings, console**: each computes what a definition without its loops
  says.
- **Spinlock, VFS, file systems, ELF**: see "Not modelled".

## Modules

| module | what it is |
|---|---|
| `Sched` | the scheduler with the timer, the page-fault handler, the boot code and the exit path; one step per access to shared memory |
| `RoundRobin` | what the scheduler promises: an abstract round robin over the live processes |
| `SchedProofs` | theorems about `Sched` |
| `MCSched` | its instances |
| `Pmm`, `MCPmm`, `PmmProofs` | the physical memory manager, its instances, theorems about it |
| `KHeap`, `MCKHeap`, `KHeapProofs` | the kernel heap, its instance, theorems about it |
| `KHeapShared`, `MCKHeapShared`, `KHeapSharedProofs` | `KHeap_Free` access by access, as exiting processes call it |
| `Totals` | lemmas about sums over a chain or a ring, and about least elements |
| `Vmm`, `MCVmm`, `VmmProofs` | page tables in physical pages, and the processor's cache |
| `AddressSpaces` | what `Vmm` promises: maps from addresses to leaves |
| `Interrupts`, `MCInterrupts`, `InterruptsProofs` | the interrupt controllers, the dispatcher, the timer and sleeping |
| `Pci`, `Tokenizer`, `Strings`, `Console` | pure algorithms, as operators |
| `Library`, `MCLibrary`, `LibraryProofs` | calls each of them with every input of a set, and what each should return; its instance, theorems about them for any inputs |

### Sched

`next` is the ring, by pid (-1 the boot process, 0 "idle"). `cpu` is the context
that executes, `regs[p]` the one saved in the record of `p`. A context records
whose registers it is (`of`), where its code is (`at`), IF (`irq`) and the three
locals of `Scheduler_ExitProcess`. `stacks` and `procs` are the heap blocks still
allocated for stacks and records.

- `Scheduler_CreateProcess` and `SKEntry_Sti` are the boot code. Interrupts are
  off, so a creation is one step.
- `TimerInterrupt` fires whenever IF is set and runs `Pit_Handler` to its end
  in one step, as the gate allows: tick, save, advance, load, switch of the
  address space.
- `Scheduler_Entry` is a return from the entry point, and
  `general_interrupt_handler_PageFault` a page fault, either at any moment
  while the process runs. The fault branch compares
  `vmm_current_address_space` with the current process's `pml4` and panics
  otherwise.
- `ExitProcess_Test`, `_Advance`, `_Load`, `_Store`, `_FreeStack`, `_FreeProc` and
  `Scheduler_Entry_Yield` are the exit path, instruction group by instruction
  group. The two loads of `prev_proc->next` (lines 74 and 76) and the load and
  the store of line 79 are separate steps, as in the unoptimised build.
- `RunOff` is what a process does that is resumed after its last `int $32`: there
  is no caller to return to. From then on anything may happen; the model stops
  in the label `wild`.

`KHeap_Free` of a record may free nothing, because the magic number may have
been overwritten: a stack is 4096 bytes in a page that also holds 56 bytes of
headers, so its top lies on the headers of the block that was allocated just
before it, which is its own `ProcessT`. `ExitProcess_FreeProc` allows both.

A system in which *no two neighbours of the ring exit* (`Isolated`) deserves
separate properties, because the kernel as built is such a system and
everything one would want holds there. With neighbours that exit together two
things go wrong, shown by the runs `sched_resumed` and `sched_leak`; some
properties still hold for any set of exiting processes, which is less obvious
and is what the theorems without assumption say.

### Pmm

`pmm_stack` is the array up to its top, `pmm_free_blocks` the linked list as the
sequence of its headers (addresses, sizes, flags); `live` is what callers hold
and `whole` the pages taken as page tables. `Allocate` and `Free` are functions
on the manager's state, so that `Pmm_Reallocate`, which calls both, is one
action. The kernel only allocates at boot, with interrupts disabled, so calls
are atomic. A failing call changes nothing and is a stutter. `overrun` records that
`Pmm_Reallocate` copied beyond its new block (it copies to the first NUL byte
of the old data, `Scans` being where that is); the model stops there.

### KHeap

`heap` holds the fields of every block, by address. `At` and `Lap` are the walk
of `KHeap_Allocate`'s search; `Reuse` and `Extend` are its two outcomes, `Absorb`
one of the two merges of `KHeap_Free`. `Extend` takes the next page of `Supply`
or, when Pmm fails, the block `Zero`: the code does not test for NULL. The second
failure makes `Zero` its own successor; nothing is claimed after it. Calls are
atomic, as they are at boot.

### KHeapShared

After boot the heap is only used by exits. A process that returns runs
`KHeap_Free` with interrupts enabled, first for its stack and then for its
record, and is already off the ring of processes: once preempted it never
comes back, so its call is *abandoned* between two accesses, for ever. One that
faults runs it with interrupts disabled. `Free` is the function as the list of
its loads, stores and tests, in the order of the unoptimised build; `pc` is how
far a process is, `x` and `y` what it loaded. The `Do...` actions execute one
access each.

`below` are the processes whose stack lies just below their record in memory (it
depends on the pages of Pmm, so it is chosen at the start). A stack starts 56 bytes
into its page, behind two headers, so that the last 56 of its 4096 bytes lie on the
headers of the next page, and the block header of the record is what frames are
pushed on. Three writes reach it:

- `Scheduler_Entry`: the prologue stores the argument over `next` (`NoBlock`).
- `Scheduler_ExitProcess(p, FALSE)`: the entry point has *returned*, and its result is
  stored over `magic`, so that `KHeap_Free` of the record does nothing. A process that
  a page fault ends (`fault`) has not got there: its magic is whole, and
  `FreeRecord` leads to all of `Free`, with a `next` that is no block.
- `general_interrupt_handler`: an interrupt that finds the process before its prologue
  pushes its frame at the very top, over `prev`, `state`, `magic` and `next`
  (`Overwritten`). Its record then stays in use, whichever way it exits.

Nothing is said of accesses through a value that is no block: the model stops there.
This composes the heap with the exit
path of `Sched` at the level of addresses, with the search in the ring of
processes left out. `Resumed` would allow a stale link (run `sched_resumed`) to
resume an abandoned call; `InUseCovered` then fails, so the system's heap depends
on the isolation of exits.

### Vmm and AddressSpaces

`mem` gives every physical page its entries, seen as a table; an entry is an
address with flags. `Vmm_Map` descends three levels (`Descend`), takes and clears
a page where an entry is not present, and writes the leaf. `Vmm_Unmap` follows
the addresses and never looks at a present bit (`Follow`): an absent level leads
to physical page 0, which the window at the HHDM offset makes a valid pointer. The
kernel does not own page 0, and firmware may have left anything there: until a
failing `Pmm_AllocatePage`, which also yields page 0, has cleared it, a walk that
meets it may end in *any* table (`Reached`), or out of the tables, where it changes
none. `strays` counts the calls that changed a table in this way; it exists for the
properties and for the bound `MaxStrays`. `tlb` is the
processor's cache, filled by `Access`, emptied by the load of CR3 and, for one
address, by `invlpg`. `Lookup`, `Translate` and `Access` are the processor's and
external.

`AddressSpaces` knows no tables: a space is a function from addresses to leaves,
a new one starts with the kernel's upper half, and a call changes one address in
one space or, in the kernel's half, in those that share the table.

### Interrupts

`irr` and `inService` are the registers of the two 8259 controllers, with the
vectors that `Idt_PicRemap` gives them: 0x20 to 0x27, and 8 to 15 for the second.
`frames` is the stack of handlers; interrupt gates clear IF, so only an exception
of a handler itself adds a second. A handler first prints its log line
(`Handler_Log`), then does what its vector asks for: `SegmentationFault` takes the
process off and enters the timer handler through `int $32`, which abandons the
frame; `Panic` stops; `HandleTimer`, `Syscall_Handler` and `HandleOther` end in the
EOI. The index of a system call is not checked: the call is refused or prints, or
faults in its handler, or anything may happen.

A process also leaves by returning: `Scheduler_Entry` takes it out of `live`, it runs
on with interrupts enabled (`current` is not in `live` then), and
`Scheduler_Entry_Switch` is its `int $32`, unless the timer or a device comes first.
Its steps in between are those of `Sched`. A request of line 14 that hits it there
finds a process that is off the ring, for which the search never ends
(`SegmentationFault_Undefined`).

`After` is the round robin that `Sched` is shown to implement. `sleep[p]` is `eticks` of
a sleeping process, with three values for the properties: `owed`, how many periods of
the timer it is still to sleep, paid only by interrupts of the timer's line and never
by an `int $32`; `wraps`, whether `eticks` wrapped; and `with`, the processes that were
live when it went to sleep.

### Pci, Tokenizer, Strings, Console, Library

Each is the translation of one or more C functions as operators: a
configuration space is a function from bus, slot and function to what is there;
strings are sequences of bytes in a memory, copied byte by byte in the order of
the loop; the tokenizer takes and returns its static position; the terminal is
the list of cursor positions. `Library` has one state per input and one per
result. `TokenizeString` steps over the terminator of the last word and reads
what lies behind the copy on the heap, so `Texts` are combined with
`Followers`, the memory up to the first two NULs in a row: the second of them
makes `TokenizeString` return NULL, and the caller stops. A caller that goes on
until it gets NULL is `Tokens`; the words it should see are `Words`, defined by
where a stretch without a delimiter starts and ends.

`Library` asks for a bus to be reachable by its definition as a least fixed
point (`Reached`), where the code recurses; for a moved range to hold what was
there before, where the code copies in an order; for the first occurrence of a
substring, where the code searches. So each property compares two ways to say
the same, one with the code's loop and one without.

## Runs

| run | expected | instance |
|---|---|---|
| `sched_any` | pass | 4 processes, all but "idle" may return or fault; 216 662 states |
| `sched_isolated` | pass | 4 processes, 1 and 3 may exit |
| `sched_resumed` | violation of `NoResume` | 3 processes, two neighbours exit |
| `sched_leak` | violation of `ReturnFreesMemory` | 2 processes, one exits |
| `pmm_small` | pass | 3 of 4 pages of 12 units, requests of 1 to 3 |
| `pmm_merged` | violation of `LiveDisjoint` | 3 adjacent pages of 8 units, requests of 1 and 5 |
| `kheap_ring` | pass | 4 pages and the block `Zero`, requests of 1 and 3 |
| `kheap_shared` | pass | 4 processes, 3 neighbours exit; 5.0 million states |
| `kheap_fault` | violation of `LoadsAreBlocks` | 2 processes, one exits |
| `vmm` | pass | 11 pages, 2 spaces, 4 addresses, tables of 3 entries; 49 748 states |
| `irq` | pass | 2 processes, lines 0, 1, 14, 15, no serial port; 323 552 states |
| `library` | pass | 59 059 inputs |

- `sched_any`: for any set of exiting tasks and any interleaving, no live process
  leaves the ring (`LiveInRing`) or loses its memory (`LiveHoldsMemory`),
  contexts go with their process (`ContextMatches`), a fault never reaches the
  panic (`FaultNeverPanics`) and the search for the predecessor ends
  (`SearchTerminates`), although it may step past the process it looks for when
  the ring changes between two loads. `IInv` is the inductive invariant.
- `sched_isolated`: the ring is exactly the live processes (`RingIsLive`), the
  scheduler never switches to what has exited (`SwitchesToLive`), implements
  `RoundRobin` with `live <- Live, current <- current_process`, starves nobody,
  and a process that dies of a fault frees its stack and reaches its last
  `int $32`.
- `sched_resumed`: two neighbours exit; the one further along the ring has loaded
  the link to the other before that one unlinks itself. The ring keeps the
  exited one, the scheduler resumes it, and it runs off `Scheduler_Entry`.
- `sched_leak`: the timer fires between the unlinking store and the first
  `KHeap_Free`. The process is off the ring, so its blocks are never freed.
- `pmm_small`: with little memory in use, chain and callers agree
  (`LiveMatchesChain`), no byte has two owners (`LiveDisjoint`), a page is in
  one place (`PagesPartition`), and splitting and merging conserve sizes.
- `pmm_merged`: `Pmm_Free` adds sizes of blocks on different pages. A block
  near the end of a page swallows one of a lower page, is split beyond its own
  page, and the rest is memory that somebody else holds. Every request fits a
  page with its header.
- `kheap_ring`: until Pmm has failed twice, the search always returns to the head,
  `next` and `prev` are inverse, nothing is handed out twice, free neighbours
  are merged and bytes are conserved.
- `kheap_shared`: wherever frees are abandoned, and although two processes relink
  the same neighbours, the way back along `prev` still meets every block in use
  (`InUseCovered`), and so does `KHeap_Allocate`'s search along `next`, each unless a
  frame has overwritten a link of its direction. There is one way only to an
  overwritten link (`SpoiltLinkOnlyOnFault`): a process that a page fault has ended
  frees its own record. Nobody else follows one: a process that returned, or was
  interrupted at its start, has lost its magic too, so its record stays in use, and
  the tests of `state` in `KHeap_Free` keep its neighbours from it.
- `kheap_fault`: that one way. A process faults before its entry point returns; its
  `next` is overwritten, its `magic` is not; `heap.c:56` does not return and
  `heap.c:60` follows the link.
- `vmm`: as long as there are pages and no unmap strays, every call is a step of
  `AddressSpaces` (`ImplementsAddressSpaces`). No page
  is a table twice (`TablesNotShared`, also after failures and strays), all spaces see
  the kernel's boot mappings alike for ever (`KernelHalfShared`), the cache holds
  nothing that is unmapped (`NoDanglingTranslation`). After a failure the damage is
  confined to addresses whose walk meets page 0 (`DamageConfined`).
- `irq`: no request stays in service when a handler has ended, also the
  abandoned one (`NothingHeldBack`); a sleep that does not wrap ends early by at most
  one period for each process that left meanwhile (`SleepLosesOnlyExits`), and it
  ends (`SleepEnds`).
- `library`: `Pci_Scan` calls back for exactly the functions that can be reached
  through the host bridge and the bridges (`ScanFindsReachable`); `Pci_Exists`
  misses none of them (`ExistsNeverMisses`); the
  tokens are the words, followed by garbage only if the text ends in a word and
  the heap behind it is not zero (`TokensAreWords`); glyphs are drawn inside the
  screen and apart (`GlyphsApart`); moves of overlapping ranges, removal of a
  substring, comparison and the parsing of an option are as their definitions
  say (`StringsAsSpecified`).

### Other disagreements

The models contain these as the code has them. A property that states the promise
is violated on the instance of the run named; no run is kept for it.

- *Devices kill processes* (`irq`). `Idt_PicRemap` gives the second controller the
  base 8 (`idt.c:74`), so IRQ 14 has the vector of a page fault and ends whatever
  process runs, as "due to a segmentation fault" (`idt.c:234`):
  `[][SegmentationFault => Top.line = None]_vars` fails.
- *Short sleeps* (`irq`). While one process sleeps the other leaves; its `int $32` is
  counted as a tick (`pit.c:11`), and the sleeper wakes one period too early, with
  `owed` 1 in place of 0. `SleepLosesOnlyExits` says how much is lost.
- *Handlers that fault* (`irq` with `SerialReady` TRUE). The debug line of the first
  interrupt that hits a process uses the colour `lineColors[LT_DEBUG]`. A comma is
  missing in that array (`logger.c:19`), so it is NULL, and reading it faults in the
  handler itself, and in its handler again: `Len(frames) =< 1` fails. No run has a
  serial port; the theorems about `Interrupts` hold with one as well.
- *Unmapping what is not mapped* (`vmm`). `if (pml3 == NULL) return;` (`vmm.c:116`)
  never returns, since the offset of the window was added. `Vmm_Unmap` of an address
  that was never mapped walks on through page 0 and clears the entry of
  another address, if page 0 leads there: `strays` counts these calls.
- *Devices of other vendors* (`library`). `Pci_Exists(vendorId, deviceId)` ("Check if a
  PCI device exists", `pci.c:144`) reports a device with that device number of any
  vendor, since `pci.c:150` assigns the vendor where it should compare it. The
  converse of `ExistsNeverMisses` fails.

### Bounds

Three exiting tasks are enough for two of them to be neighbours, to have a third
between them and the boot process, or to be on either side of a survivor;
preemption at every step is unbounded. `TickMod` is 2 in place of 2^32: only the
wrap matters, and nothing in `Sched` reads the counter. In `Pmm` three
pages and three sizes give splits, reuse, runs of free blocks, cross-page
merges and an exhausted stack; `StackSize` is below the number of pages, so one is
dropped, and each entry has or lacks an incomplete last page.
`SmallBlocks` is chosen so that all blocks together fit a page: that
is the regime in which `LiveDisjoint` holds, and `pmm_merged` shows the other
one. In `KHeap` five blocks suffice to have both neighbours of a freed
block free or in use, and the pages run out so that both failures of Pmm
happen. In `KHeapShared` three exiting processes with six neighbouring blocks
give every pair of neighbours in every phase of the function, and "idle" marks
an end that stays. In `Vmm` a table has one entry of the user's half and two of
the kernel's; four addresses share all, some or none of their levels;
`Pool` has so many pages that a second space with all its tables exists before
it runs out, `MaxSpaces` is 2 (the kernel's, and one that shares its half: what is
shared and what is not is a matter of two spaces; with 3 the properties hold as well,
in three minutes), and with `MaxFailures` 1 the second call without memory is the
last; with `MaxStrays` 0 the model stops once an unmap has strayed, as most
properties speak of the time before. In `Interrupts` `TickMod` is 8 and `Durations` 2 and 5, so that sleeps end
before, at and after the wrap; the lines are one timer, one device of each
controller and the one without a gate; `MaxNest` is the depth at which nested
handlers stop: 2 is a handler and its own fault. `Library` enumerates all strings up to 3 to 7 characters over two
or three, three buses with two slots and functions, and six screens.
`PointerSize` is 2 in place of 8, and `MemorySize` 8 bytes are moved
in every way that stays inside of them. The heap and the memory manager are deterministic data structures
without time, so small shapes exercise every branch.

`CHECK_DEADLOCK FALSE` is used where the system really stops: after a process
runs wild (`sched_any`, `sched_resumed`), after an overrun (`pmm_*`) and after
the second failure (`kheap_ring`), when all have exited (`kheap_shared`, `kheap_fault`), after
`MaxFailures` or `MaxStrays` (`vmm`), after a panic (`irq`), and once a result is
returned (`library`).

### Fairness

`Fairness` assumes that the boot code runs to its end, that the timer goes on
firing (the PIT is periodic), and that a process which gets the processor again
and again advances on the exit path: a slice is a millisecond and a step a
few instructions. The last needs strong fairness because its steps are
disabled while others run. Nothing obliges a process to return or to fault.

In `Interrupts` the timer never stops asking (`WF` of `Request(Timer)`) and, since
it has the highest priority, is acknowledged again and again (`SF`); handlers run
to their end because nothing interrupts them; a sleeper that has the processor
again and again while the time is past sees it (`SF` of `Wake`). `SleepEnds` needs
this and a condition of its own: every live process must get a turn between the
last tick and the wrap, or the sleeper may find the counter small again. A process
that is leaving counts as one until it is switched away from.

## Proofs

Every theorem holds for all values of the constants that its module's assumption
allows. A run checks each of the properties named here on a small instance, with
the same definitions.

| module | proved of `Spec` | provided |
|---|---|---|
| `SchedProofs` | `[]TypeOK`, `[]ContextMatches`, `[]FaultNeverPanics`, `[]LiveInRing`, `[]LiveHoldsMemory` | |
| | `[]RingIsLive`, `SwitchesToLive`, `ImplementsRoundRobin` | `Isolated` |
| `InterruptsProofs` | `[]TypeOK`, `[]NothingHeldBack`, `SleepLosesOnlyExits` | |
| `KHeapProofs` | `[]TypeOK`, `[]RingClosed`, `[]HeldMatchesState`, `[]FreeCoalesced`, `BytesConserved` | |
| `KHeapSharedProofs` | `[]SpoiltLinkOnlyOnFault`, `[]InUseCovered` | `~Resumed` |
| `PmmProofs` | `[]TypeOK`, `SizesConserved` | |
| | `[](AllFit => PagesPartition)`, `[](AllFit => LiveDisjoint)`, `[](AllFit => LiveMatchesChain)` | |
| `VmmProofs` | `[]TypeOK`, `[]TablesNotShared`, `[]KernelHalfShared`, `[]NoDanglingTranslation`, `ImplementsAddressSpaces`, `DamageConfined` | |
| `LibraryProofs` | `[]ScanFindsReachable`, `[]ExistsNeverMisses`, `[]TokensAreWords`, `[]GlyphsApart`, `[]StringsAsSpecified` | |

In each module the inductive invariant is called `IInv`, or carries the name of what
it speaks of. Where a property has a condition of its own (`Running` in `KHeap`,
`failures = 0`, `strays = 0` and `Page0 \notin spaces` in `Vmm`), the theorem has the same one.

### Assumptions

- `SchedAssumption`: "idle" exists and never returns.
- `InterruptsAssumption`: the processes are finitely many numbers, so that there is a
  largest one to go on with; lines are 0 to 15, exceptions 0 to 31 without 15,
  which the processor reserves and for which there is no gate.
- `KHeapAssumption`: Pmm gives each page once, and none of them is the head or `Zero`.
- `KHeapSharedAssumption`: the processes are numbered without gaps.
- `PmmAssumption`: a header is smaller than a page, and the usable entries of Limine's
  memory map begin at a page and do not overlap. The Limine protocol promises both;
  nothing in `pmm.c` tests it.
- `PciAssumption`, `StringsAssumption`: there is a bus, a slot and a function, no
  more functions than buses, and a pointer has a size.
- `LibraryAssumption`: the inputs. Firmware numbers the bus behind a bridge higher than
  the bridge's own, vendors are neither 0 nor `PCI_NONE`, a string holds no
  terminator, and a screen has a width and a height. Somewhere behind a string are two
  NULs in a row; `TokenizeString` does not test for the end of memory, so without
  them a caller could read on outside of any model. Nothing bounds the number of
  functions, the lengths of strings or the size of a screen.
- `VmmAssumption`: the pages of the stack are different from each other, from page 0 and
  from what callers map; every mapping asks for the present bit; at least one
  address is used.

### Sched

None of the properties is inductive: `LiveInRing` says something about paths, and
a step changes one link. The argument rests on an order.
`Scheduler_CreateProcess` inserts behind the boot process, so the ring descends
in pid order, and exits only shorten it; `Top` places the boot process above
everybody as a source. `SkipsOnlyExited` says that a link never jumps over a live
process. A pending store is the danger, so `ExitersSafe` says the same of the
locals that wait in a context, executing or saved: the link from `prev` covers
nobody alive but the exiting process, and the loaded successor nobody at all.
Since others can only leave, both survive any preemption. `SkipsImplyReachable`
turns the order into reachability: a closed set that contains the boot process
contains every live process, because the least member of the set above a
missing one would skip it. `LiveHoldsMemory` needs that a process on the exit path
works on itself (`ExitsItself`).

Under `Isolated` the ring is known exactly: `RingExact` gives each link, and
`ExitersExact` the locals of a process between load and store, since its only
possible predecessors do not exit. From it follow `NoResume`, `RingIsLive` and
the step simulation of `RoundRobin`.

### Interrupts

`FramesInv` says what is in service while a handler runs: exactly the line that
started the one handler there is, with the cascade. Handlers do nest when the
log line faults, but a nested handler logs and faults again, so that none gets
past its log line and none below goes on; or when a system call faults, which no
device has started, so that nothing is in service (`OneHandler`): the EOI always
meets one line per controller (`EndOfServed`). `Cause` keeps where a handler comes
from: vector 32 is the timer's, or the `int $32` of a process that has left the ring.
`TypeInv` adds the types; that there is a process to go on with rests on the largest
number.

For sleeps the invariant is `SleepInv`. Let `Left(p)` be how many of the processes that
were live when `p` went to sleep are neither live nor running now. Either
`owed =< Left(p)`, or `tick + owed =< eticks + Left(p)` with `eticks` below the width
(`Owes`). A tick of the timer moves one from `owed` to `tick`. Any other tick is that of
a process which is switched away from for good, by `Cause` or in
`SegmentationFault`, and which was live at the start, so that `Left(p)` grows
(`PaysTick`); a process that has only left the ring still runs and is not counted
(`NotYetLeft`). When the loop finds `tick >= eticks`, `owed` is at most `Left(p)`.

### KHeap

The invariant names the ring: there is a numbering `f` of `n` blocks, the head at
both ends, such that `next` is one up and `prev` one down (`RingOf`), no number is
used twice, no two free blocks are neighbours (`Apart`), and the blocks in use are
those that somebody holds (`InUse`, `HeldOnRing`). Each call is then a renumbering:
`KHeap_Free` removes one or two numbers, `Extend` adds one at the end. The free
block that is being merged is the exception `E` of "no two free neighbours", so
that the two merges of one call can be proved one after the other. The search is a
function of the number of its steps, equal to `f` as long as nothing fits.
`BytesConserved` compares sums over sets; `Totals` states what adding, removing
and replacing one member does to them.

### KHeapShared

`SkipsFree(h, a, b)` orders the blocks as they lie on the ring when all is whole: a
link from `a` to `b` jumps over free blocks only. Every link in memory does
(`RingOK`), except those that a stack has written over (`Spoilt`), whose block
stays in use. A load is still true for the process that runs, since the others
are abandoned for ever: that is where `~Resumed` is needed. `At(k, ...)` is what the
running process knows before access `k`. That a link may be followed at all
needs that the block being freed is whole (`Freeing`): a stack is, and so is a record
whose magic is whole, unless its process has faulted. The invariant therefore has two
sides: `Sound`, all of the above, and `Doomed`, which begins where a faulting process
passes `heap.c:56` with its own record: it runs with interrupts disabled, so nobody else
moves, and stops at its first access through the link. `IInv` is their disjunction,
and either gives `SpoiltLinkOnlyOnFault`. An interrupt at the start of a process
overwrites `prev` and `state` too, with values that count as in use (`HitOK`).
`InUseCovered` is about walks of any length: a
block in use that the walk along a field does not meet would lie between two of
its consecutive blocks, the nearest before it and the one after that, and be
skipped.

### Pmm

`Pmm_Free` merges blocks by their place in the chain and never looks at addresses,
and the chain mixes blocks of different pages. What keeps them apart is a bound:
all blocks together fit a page (`AllFit`). With `v`, the sums of the sizes in front
of each block, `Laid` says that a block is at most `v` into its page, and that two
blocks of one page are in the order of the chain, at least as far apart as their
`v` are. A block that swallows one of another page leaves both true, and since
`v` and the size together are at most a page, no block leaves its page and no two
overlap. Splits, merges and appended blocks move the sums in known ways
(`SumsOfSplit`, `SumsOfMerged`, `SumsOfAppended`). The total only grows, when a page is
taken, so a state with `AllFit` has been reached through such states only. Whether
or not the blocks fit, every pointer that a caller holds can be given a block in
use of its own (`Covered`), which the type of what `Pmm_Free` finds needs. Without
`AllFit` the three properties are false: that is the run `pmm_merged`.

### Vmm

`TablesOK` is the invariant of the tables, failures included: an entry is absent or
present, no entry leads to a page on the stack or to a PML4, and two entries that
lead to one page are the same entry of two PML4s in the kernel's half. It is
kept by one level of a walk (`DescendKeeps`), by the leaf (`WriteLeaf`) and by a new
PML4 (`NewKeeps`). `BootShared` adds that the boot code's entries in the kernel's
PML4 are in all others.

As long as no call has failed the tables have levels: `lev` says which page is of
which level, entries lead one level down and those of level 1 to frames
(`Leveled`). A walk is then a path down the levels, and an entry of level `l` is
met by the walks that share the first indices and by no others (`OneWay`). From
this follows what a leaf changes (`LeafWritten`), that building tables changes no
translation (`BuiltSameMaps`), and so the step simulation of `AddressSpaces`
(`CleanStep`), with the cache as a by-product. A walk of `Vmm_Unmap` that runs into
an absent entry goes on in page 0, and from there anywhere: it changes a table only if
the call is counted in `strays` (`UnmapWrites`). In the tables as the model keeps them
page 0 leads to itself only (`ZeroLeadsNowhere`), so other walks never use it.

After a failure page 0 is a table that many entries lead to, and levels are
lost. `DamageConfined` is proved on `Cut(mem)`, the tables without the entries that
lead to page 0. The invariant `DamagedInv` says that the cut is in levels as if no
call had failed, that nothing leads back from page 0 or from a frame into the
tables, and that entries to page 0 only exist when the stack is empty and never
in a table of leaves (`Sealed`). A walk of `Vmm_Map` is on its track, where it does
to the cut what it would do without damage (`OnTrack`), or astray, where it does
nothing to the cut (`Astray`); a walk of the processor that does not meet page 0
finds the same in the cut (`CutTranslate`).

### Library

A call is one step, so the invariant is short: `CallInv` says that the call is one of
the inputs and that its result is none yet or what the function computes. The work
is in the functions. Each loop of the code is a recursive function, and such a
function is a `CHOOSE` in TLA+: it has the value of its equation only if
something satisfies that equation. `Iteration` proves this for loops that take one
step after another, and `ScanBusIs` for the recursion over buses, which ends
because bridges lead to higher ones. What a loop keeps is then proved without
induction, at the least round that would break it (`Least`, or `Greatest` for the
buses): the round before is still right, and one round keeps it so.

- *Terminal.* Without tabs each glyph is further on than those before it, in the order
  of screens, lines and columns (`CornersRise`), so no two are at one place of one
  screen; `Wrapped` brings the cursor inside the screen before it draws.
- *Strings.* `Copy` in either direction keeps that the bytes copied so far hold what
  their sources held at the start (`CopyUp`, `CopyDown`): the direction that `memmove`
  takes is the one in which no source is overwritten before it is read. The
  searches stop at the first place where their condition holds (`FirstStop`), which
  turns `StringFromString` into the first match and the comparison into the first
  difference.
- *Tokenizer.* Before each call, the words found so far are the first words of the
  text, and the memory in front of the position is spent, while the rest is as at
  the start (`WordsTold`). Behind the text, the two NULs keep the position inside of
  the memory, whatever the caller does (`CallStays`).
- *PCI.* What the scan of a bus reports is the union of what its functions lead to
  (`CallsAre`). It stays on every set of buses that no bridge leads out of
  (`CallsInside`), and the buses whose reports are all among the result are such a
  set with the roots (`ScanFinds`): the first gives that nothing else is found, the
  second that nothing is missed. If one way leads to each bus, then two buses that
  lead to a common one lead one to the other (`MeetBelow`, at the least common one);
  bridges on one bus cannot, so their reports are disjoint (`BridgesApart`) and
  nothing is found twice (`BusOnce`).

### Only model-checked

Everything with fairness (`SearchTerminates`, `NeverStarved`, `FaultFreesMemory`,
`SleepEnds`), since the prover has no rule for liveness under fairness or
`ENABLED`. Every safety property of a passing run is a theorem. That `Isolated` is needed is shown by the
violated properties of `sched_resumed` and `sched_leak`.

## Not modelled

- The contents of blocks, log lines and registers; undefined behaviour beyond
  its first step (the models stop); a page fault raised by kernel code on the
  exit path itself. `Sched` and `KHeapShared` assume that logging returns, which
  it does only without a serial port (see "Other disagreements"), and that a log line
  harms nothing, although its buffer is eight times a stack.
- `SK_Reboot` and `Idt_PendingReboot`: nothing calls it.
- Code that nothing calls and that cannot work as written, so that there is no
  behaviour to relate to a promise: `Vfs_Open` (it takes a comparison's
  difference for equality and compares a character with a pointer; the loop over
  `TokenizeString` that `Library` calls `Tokens` is behind those tests), the
  ramdisk (its header array is copied up to the first zero byte), hellofs,
  devfs, the ELF loader, the ATA driver's initialisation, the spinlock (its two
  calls are commented out). Their defects are listed as hazards.
- Devices: register writes of the graphics adapters, the serial port, ATA; tables:
  GDT, ACPI; accessors for Limine's responses; the symbol search of the panic.
- Vendored code (`flanterm`, `nanoprintf`, Limine, the ELF header): four fifths of
  the repository's lines. What the models cover is most of the kernel's own code
  that keeps state.

`PROJECT.json` lists every component with its status and every hazard with the
properties that cover it.

## Plan

1. (done) `Sched`, `RoundRobin`, `SchedProofs`; `Pmm`; `KHeap`.
2. (done) `KHeapShared`; `Vmm` and `AddressSpaces`; `Interrupts` with sleeping;
   `Library` with PCI, strings, tokenizer and terminal.
3. (done) `InterruptsProofs`, `KHeapProofs`, `KHeapSharedProofs`, `PmmProofs`,
   `VmmProofs` and `LibraryProofs`: every safety invariant and action property that a
   passing run checks.
4. If the kernel comes to call them: the virtual file system and the ramdisk, with
   `Tokens` and `Pmm_Reallocate` as they are.
