# NeutrinoOS: a verification of the kernel in TLA+

NeutrinoOS is a small 32-bit kernel in C and assembly: a boot sector that reads
the BIOS memory map and enters protected mode, a heap, interrupt handling through
two 8259 controllers, a timer that drives a task scheduler, a keyboard, a VESA text
console and an ATA driver.  This directory models it in TLA+, checks the models with
TLC and proves every safety property they check with TLAPS.  Line references are to
files under `src/`; `PROJECT.json` maps every definition to the lines it translates.
Where the code and its comments part, a run shows it and `findings` quotes the comment.

## The system

| Part | Source | State | Operations |
|---|---|---|---|
| boot sector | `bootloader/boot.asm` | `__e820_data`, `__e820_size`, stack | E820 loop, `stage2` calls `main`, then `jmp $` |
| boot sequence | `kernel/kernel.c` | `system_task_manager` | `main` |
| memory map | `memory.c` | `__e820_map`, `totalMemory` | `_reserve_area`, `_shift_map`, `_remove_index`, `memory_init` |
| heap | `memory.c` | chain of `alloc` headers, `_currentAlloc` | `split`, `merge`, `malloc`, `free` |
| interrupts | `idt.c`, `isr.c`, `irq.c`, the two `_defs.asm` | `idt`, `irq_routines`, the 8259s, `esp`, eflags | install, remap, stubs, `irq_handler`, `fault_handler`, end of interrupt |
| timer | `timer.c` | `timer_ticks` | `timer_handler` |
| tasks | `multithreading.c`, `tests.c` | `task_manager`, `rem_tasks`, each task's state | create, `add_task`, `scheduler`, `remove_task_by_pid`, `get_task`, `clear_manager` |
| search | `algorithms.c` | none | two binary searches |
| keyboard | `keyboard.c` | shift, ctrl, alt, caps | `keyboard_handler` |
| console | `vga.c` | cursor, frame buffer | `vga_putc`, `vga_scroll`, drawing |
| ATA | `ata.c` | `ata_buffer`, the disk's registers | identify, read, write, flush, the two handlers |
| device table | `device.c` | `_devices`, `_current_id` | `device_add`, `device_get` |
| stack | `stack.c` | `arr`, `top`, `size` | create, push, pop, copy |
| output | `stdio.c` | a 32 KB buffer on the stack | `printf`, `vsnprintf` |
| helpers | `string.c`, `wstring.c`, `ctype.c`, `ports.c` | none | copies, character classes, in and out |

How they interact.  `main` runs once with interrupts off, calls every `_install`
routine in order, creates the tasks through `malloc`, executes `sti` and returns to
`jmp $`.  After that no code runs outside interrupt handlers: the timer interrupt
calls `timer_handler`, which every 18 ticks calls `scheduler`, which calls a task's
function *inside the handler*, with interrupts off; the keyboard interrupt writes to
the console; the disk handlers only acknowledge.  There is no hlt and no user mode.

What is hard to test here: the interplay of four interrupt sources, spurious
interrupts, doubled ends of interrupt and exceptions inside a task; stack words the
CPU pushes for some vectors and stubs for the others; the scheduler's cursor, which
starts from a pid and is stepped against a count that never shrinks; undefined reads
(an uninitialised index, an array malloc does not clear); and a heap whose headers
live in the memory they hand out, so that any mistake shows long after it was made;
a console whose cursor arithmetic is unsigned and calls itself; a keyboard that keeps
one flag for two shift keys and loses bytes while a task runs; a disk protocol with its
busy test bound the wrong way, polls without a bound and a cache flush nobody waits for;
and a `vsnprintf` that has its own idea of half the directives.
The `hazards` of `PROJECT.json` list each at its line.

## Modules

| Module | Models | Used by |
|---|---|---|
| `Allocator` | abstract: what callers of malloc and free may rely on | `Heap` |
| `Heap` | `split`, `merge`, `malloc`, `free` of `memory.c` | `HeapProofs`, `MCHeap` |
| `HeapProofs` | theorems about `Heap` | |
| `MemoryMap` | the E820 loop of `boot.asm`, `_reserve_area`, `memory_init` | `MemoryMapProofs`, `MCMemoryMap` |
| `MemoryMapProofs` | theorems about `MemoryMap` | |
| `Interrupts` | 8259s, gates, stubs, `irq_handler`, `fault_handler`, installation | `Kernel` |
| `Tasks` | `multithreading.c` and `tests.c` | `Kernel`, `TaskDirectory` |
| `TaskService` | abstract: what a task manager promises | `Kernel` |
| `Kernel` | `main`, `timer.c` and who runs when; composes the two above | `KernelProofs`, `MCKernel` |
| `KernelProofs` | theorems about `Kernel` | |
| `Console` | `vga_init`, `vga_putc`, `vga_scroll`, `putc` and `puts` of `vga.c` | `Terminal` |
| `Typewriter` | abstract: printing on an endless roll of paper | `Console` |
| `Keyboard` | `keyboard.c` and the controller's bytes | `Terminal` |
| `Terminal` | the keyboard interrupt typing on the console; composes the two | `TerminalProofs`, `MCTerminal` |
| `TerminalProofs` | theorems about `Terminal` | |
| `Disk` | external: the primary IDE channel, QEMU's, with a disk, a packet drive or nothing | `Ata` |
| `Ata` | `ata.c`: detection, registration, 48-bit read and write, flush | `AtaProofs`, `MCAta` |
| `AtaProofs` | theorems about `Ata` | |
| `TaskDirectory` | the search of `algorithms.c` under `remove_task_by_pid`, `get_task`; `clear_manager` | `TaskDirectoryProofs`, `MCTaskDirectory` |
| `TaskDirectoryProofs` | theorems about `TaskDirectory` | |
| `Directives` | reference: the text each directive of `vsnprintf` stands for, and what its caller owes | `Output` |
| `Formatter` | abstract: what the caller of `vsnprintf` is promised | `Output` |
| `Output` | `vsnprintf`, `format_int` and `printf` of `stdio.c` | `OutputProofs`, `MCOutput` |
| `FormattingProofs` | lemmas about the operators of `Directives` and `Output`, whatever the state | `OutputProofs` |
| `OutputProofs` | theorems about `Output` | |
| `MCHeap`, `MCMemoryMap`, `MCKernel`, `MCTerminal`, `MCAta`, `MCTaskDirectory`, `MCOutput` | values for TLC | |

### Heap

`hdr` maps each address to the header that a read of an `alloc` there would yield.
Headers and payloads are thus the same memory: `Store` turns every record that
overlaps a stored header into junk, and `UseBlock`, the owner of a block filling it,
changes every record its bytes touch.  The C variable `_currentAlloc` is called
`currentAlloc`.  Pointer arithmetic in `uint32_t` wraps at `Word`; the `Size` field is
64 bits wide in the source, more than any sum of sizes of a 4 GB machine, and is a natural number here.

One call of malloc is several steps: `Malloc` (the call), `MallocSplits` (split
succeeded) or `MallocFails`, then `MallocWalks`, one per test of the loop condition,
the last of which is the recursive call.  `MaxDepth` stands for the nested calls that
fit the 64 KB stack; past it the model stops in `"overflow"`, where nothing more can
be said.  The loop reads `NextAlloc->Reserved` before it compares `NextAlloc` with
NULL, so it reads address 0; what it finds there is part of `Boot`.  `malloc` and
`free` are never interrupted by each other: `main` calls them with interrupts off, and
no handler reached from an interrupt allocates.

`Init` is what `memory_init` leaves: the first usable region under the cursor,
`NextAlloc` set to the last other usable one (each further region overwrites the link,
because the cursor goes back to the first at the end of the loop body), and
`PreviousAlloc` set to the region itself.

### MemoryMap

One call of the BIOS, one turn of a loop of `_reserve_area`, or one entry of
`memory_init` is a step.  The array is modelled with what lies behind its last counted
entry, because the code reads there: the boot loop stores the last entry but does not
count it when it comes with a zero continuation (it is counted when the BIOS ends with
the carry flag on a further call, `carry`), and `_reserve_area` looks at the entry
after the reserved one whether or not it is counted.  Nothing in `boot.asm` or in `_shift_map` tests the array's end
(`memory.c:151`), so `e820_map` goes on past it: the first `Room` descriptors are the array, declared with 16, and those up to
`Cells` what follows it in memory, `__drive_count` and `__drive_data` with the values `Behind`.  A map longer than the array is stored over
these, shifted and clipped there, and given to the heap from there.  `InRoom` says when that does not happen: fewer entries are
counted than the array has room for, and the area does not begin in one of the last two.  Descriptors are 64 bits wide
and wrap at `Wide`; the cast to a pointer wraps at `Narrow`.

`PlausibleBios` says which maps are considered: sorted and disjoint; of fewer entries than `Cells`, past which would lie the memory the
code itself works on (or is made of); memory from 0 past 0x7C00 described, and
usable there, since that is where the BIOS put the boot sector; every usable entry
with room for a header, also after the reserved area is cut off; nothing usable across or
right below 4 GB, and memory above 4 GB beginning there.  Outside these the code's arithmetic
wraps (`memory.c:116`, and `176` where the first region ending above the area begins above it too) or drops the upper half of an address (`110`); no PC reports such a
map, and the properties claim nothing of it.  `HeapReady` is the counterpart of
`HeapAssumption`: what `Heap` assumes of its first region is what `memory_init` delivers.
It also shows a quirk: the usable region at 0, which every PC has, is taken for "no region yet",
so that the heap lies in the first one above it.

### Interrupts, Tasks, Kernel

`Interrupts` has one operator per step of the hardware or of a handler, over the
controllers' request and service registers, the interrupt flag, the stack pointer in
words, and `frames`, the handlers that have not returned, each with its vector and the
point it has reached.  `Enter` is the CPU's entry through a gate, with the words it pushes;
`Stub` adds those of the assembly stub; `Iret` is the `add esp, 8` and `iret` at the
end of the common stub.  The 8259s are modelled as external devices in the
fully nested mode `irq_remap` leaves them in.  `AcceptSpurious` is the
controller's answer to a request that went away: vector 39 or 47 with nothing in service.

`Tasks` keeps `tasks`, `num_tasks`, `current_task`, `rem_tasks` and the states, plus
the ghost `ran`.  Undefined reads are choices: `Junk` lists the slots that may hold a
nonzero word in the array `create_task_manager` does not clear, `Starts` the values the
uninitialised index of `add_task` may have.  A store through a slot that holds no task
(the scheduler writes to the state of the slot before and of the one past the last)
lands outside the tasks.  `add_tests` adds two tasks and the manager holds 256, so the
branch of `add_task` for a full manager is never reached; `TasksAssumption` says so.
`stack_create` writes through an uninitialised pointer in every
`task_create`: where that lands is not determined by the source and outside this state.

`Kernel` gives each step to an actor.  `main` is the sequence `Main`, run with
`frames = <<>>`; handlers advance the innermost frame; a task's function is the place
`"body"`, from which it returns, traps once (a bound) or faults.  A fault returns to
the instruction that faulted, so it repeats for ever; a call through a slot that holds
no task is the place `"wild"`, after which nothing is claimed.

### Console, Keyboard, Terminal

A cell of the screen is the set of pixels lit in it.  The background colour of the
console is 0x00000000 and `vga_putpixel` draws nothing for an alpha of 0, so that a
character adds its pixels to what is there: a space, and therefore a backspace, erases
nothing.  `vga_putc` is one action, with the inner `vga_putc(' ')` of a backspace and
the wrap and scroll at its end (`Settled`, which a backspace goes through twice).
The cursor is unsigned: below 0 it would be `Largest`.  `puts` sets what is still to
be put (`out`), one character a step.  Callers never overlap: each runs with
interrupts off.

`gone`, the rows scrolled off, is a ghost: with it the screen is a typewriter's roll,
and `Console` implements `Typewriter`, where a backspace steps back within the line
and no line is ever lost, repeated or erased.

`Keyboard` keeps the four flags, of which only `shift` and `caps` are ever read, and
the bytes the controller sends (`wire`): shift keys, and the print key, whose bytes
contain those of the left shift key behind a prefix the handler does not know.  The
ghosts are `held`, the keys that are down, and `unsure`: a byte of the last shift key to move was
lost, as when a task runs too long with interrupts off, or a shift key went up while another was down, which
one flag cannot express.  Nothing is claimed until the next shift key goes down or the last goes up.

### Disk, Ata

`Disk` is external: the drive the ports of `ata.c` reach under QEMU, in which `run.sh`
starts the kernel.  It keeps the registers and their values before (the upper halves of
a 48-bit command), the busy, request and error bits, the command in progress and which
sector the data belongs to.  While it is busy or has data to move it ignores registers and
commands, which is what makes a driver that does not wait go wrong.  Its
master is a disk, a packet drive or nothing.  The data itself is not modelled, only
whose sector each word is: that `inportw` (`ports.c:31`) drops half of each is outside.

`Ata` gives each port access its own step, so that the disk works between any two.
`BSY != 0` binds before `&` at `ata.c:215`, so the loop before the identification tests the error
bit; the polls have no bound; the flush follows the data at once and nobody waits for it.
Two shifts by more than the operand's width are choices (`junk`, 0 or not; `sound`
says that all were 0), and so is the drive of a call, which is read through a
`_priv` nobody set: the master or the slave of the primary bus, either drive of the secondary one (`"secondary"`), or an unknown number, at which
the call returns.  The secondary bus is not modelled as a channel: the registers and the data written to it leave the primary one's disk alone, and every status
read from it may have any of the bits (`Answers`), so that a call for it may move at any time, poll for ever or panic.  `MovesWhenReady`,
`MovesAsAsked` and `PanicsOnJunk` speak of calls for the primary bus; calls for the other may come between them.  A read asks for 256 sectors, the two writes of the count being in the wrong order,
and takes one; the disk goes on with the next, which happens to be the one
the loop takes next.  A read or write that finds the disk still at that gets the wrong
sector, so `MovesAsAsked` speaks of calls that find it idle.  Of those a
read gets its sectors in order, and a write stores its first; its further sectors
go to the right place or nowhere.  A `panic` stops the driver.

### TaskDirectory

Between the additions, runs and clearings of the manager of `Tasks`, `remove_task_by_pid` and
`get_task` search for any pid.  A turn of the loop is a step; it reads a pid through the slot
in the middle, and through a slot that holds no task, or lies outside the array, it may see
any.  `Word` stands for 2^32 in `middle = start + (end - 1) / 2`, which is not half way: with one
or two tasks, all there, each is found in its slot (`FindsBothTasks`); with three the search
for the first goes on to the middle 0x7FFFFFFF, far outside, and with that nothing is claimed
of finding it.  Whatever it reads, it takes no other task out of the array (`RemovesOnlyAsked`).
`remove_task_by_pid` stores NULL at `tasks[index]` whatever the index (`multithreading.c:93`): `tasks[256]` is `num_tasks` and
`tasks[257]` is `current_task`, which such a store clears, and the address, four bytes a slot, wraps, so that an index far outside may be back in
the array (`Cell`).  What else lies around the manager on the heap is not modelled, so that a store there changes nothing.  0xFF, which means "not
found", is also the last slot.  `clear_manager` leaves `rem_tasks`, and `remove_task_by_pid`
both counts, as they were.

### Directives, Formatter, Output

`Output` is the state machine of `vsnprintf`: one character of the format a step, and one more
step where the code hands it back to the next state.  `format_int` is a function on the
cells of the buffer that have been written, and writes a number from its end as the code does.  Words are
16 bits, short 8 and char 4, so that truncation shows with small numbers.
`o`, the count of characters, is a `size_t` and wraps at `Word`; `printf` takes it for an `int` and hands a negative one on with
nothing shown (`stdio.c:29-32`), and shows what the buffer holds else (`Shows`).  `LengthAssumption` restricts the calls to those whose whole text is shorter
than 2^31 characters, far more than the 32 KB buffer, and the strings in memory likewise: beyond it the count is taken for an error, and beyond 2^32
begins again while the output pointer does not, so that nothing this project says holds of such a call.
`Directives` says independently of that code what text a directive stands for, in the
dialect of `stdio.c`, which is not ISO C: a 0 flag stays in force with a precision, `%.0d` of 0
prints 0, `%#x` of 0 prints 0x0, `+` and space also apply to unsigned numbers, `'` groups digits
with `_` in every base (by four in hexadecimal, else by three), `%lld` keeps the low
word only.  `Formatter` is the promise, which `Output` implements: directive after directive, the text of each is
appended, cut to what the buffer holds with its terminator; `%n` learns the length so far, and
`printf` shows the text up to a 0 in it (a `%c` of 0 puts one there) and returns its length.

## Runs

| Run | Expect | Shows |
|---|---|---|
| `heap` | pass | blocks apart, headers intact, the cursor's block is the free tail, nothing reused, `Allocator` implemented |
| `heap_returns` | violation of `ReturnsIfSplitFails` | `memory.c:257-259` says malloc returns when split fails; it walks and calls itself |
| `memory_map` | pass | reserving the area keeps exactly the counted usable memory, stores nothing behind the array as long as the map leaves room, the heap gets a sound first region, the loops end |
| `memory_gap` | violation of `GapMapped` | `memory.c:205` says unmapped memory behind the area is checked for; the branch never runs |
| `terminal` | pass | the cursor stays on the screen, the console implements `Typewriter`: nothing printed is lost, repeated or erased; a key types what its cap shows for the keys held, as far as one flag can tell |
| `disk` | pass | on the primary bus data moves only when the drive is ready, from or to the sectors asked for, and reads panic only where an undefined shift misleads them; one device is registered if there is a disk; reads of the master end, and so does the probe unless the drive answers with an error, which the loop at `ata.c:215` then waits out |
| `directory` | pass | a removal takes no other task out of the array whatever the search reads; the two tasks the kernel adds are found; such a search ends |
| `output` | pass | for texts whose length an int holds `vsnprintf` and `printf` implement `Formatter`, never write outside the buffer, and each step moves on |
| `kernel` | pass | no nested interrupt, balanced stack, machinery ready at the first interrupt, no call through an empty slot, `TaskService` implemented, all tasks run, the timer keeps ticking |
| `fault_halts` | violation of `HaltsOnException` | `isr.c:135` says an exception halts the system; the handler returns |
| `lost_tick` | violation of `CountsEveryTick` | `timer.c:11-13` says every pulse is counted; those during a task collapse into one |
| `task_index` | violation of `AddsToArray` | `multithreading.c:51` says the task goes into the array; with the uninitialised index it need not |

Bounds.  `heap`: 20 addresses, a 9-byte region behind a two-byte header, a second region, requests of 0, 1 and 3
bytes: the region takes up to five blocks, splits fail both ways (too small, no
room for a header), blocks merge with neighbours on every side, and malloc runs out.
Owners write records that look like headers in use or like large free ones.
`memory_map`: every map of nine units below 4 GB, three of them reserved by the kernel, of up to five
entries in an array of three with three more behind it, with or without memory above 4 GB (1,412 maps, each with both endings): entries before the
area, inside it, across its end, right behind it, and none behind it; maps that leave room in the array, fill it and overrun it.
`Behind` holds small usable regions at 1, of all data the likeliest to be taken for an entry and clipped.
`kernel`: the timer, the keyboard and both disks (one line per distinct path through
`irq_handler`, two of them on the slave), two faults (one with an error code, one without) and a trap; three tasks, one more
than the code creates, so that the cursor starts past the middle and wraps, in five
slots; garbage in slot 0 or none; a search from slot 0, slot 1 or outside; a scheduler
period of 3 instead of 18, enough for pulses to be lost and counted apart.  `ticks`
and `fired` are kept modulo the period.

`terminal`: a screen of two lines of three characters and a tab stop of 2, on which typing goes on until a line
has scrolled off: enough to wrap, scroll and step back at both edges, in every combination of text and
echo; the three shift keys, caps lock, ctrl, alt, enter, tab, backspace, a letter, a sign and the `*` the print key
also sends; any last bytes of a shift key lost.
`disk`: four sectors of two words, counts in base 3 instead of 256, so that a read asks for three sectors; three calls
of two or four sectors each, for any of the units: one, one that finds the disk still busy with it, and one
more.  Deadlock is off since the calls are bounded and a panic stops the driver.
`directory`: three tasks in five slots, one more than the code adds, so that searches leave
the array; garbage in slot 0 or none; `Word` = 32; three runs and three clearings, after which nothing is left to
do in some states, hence no deadlock check.
`output`: calls of two directives, each directive (every conversion, with flags, widths, precisions, lengths and `*`
that combine) before and after one of seven representative ones, into buffers of 1, 9 and 24 characters: none, some and all of
the text fits.  `Word` is 2^16 there, and no text comes near half of it.

Fairness.  `WF(CpuStep)`: the CPU always executes its next instruction, there being no
hlt on any path, and takes an interrupt it may take.  `WF(TimerFires)`: the interval
timer is free-running and never disabled.  Nothing is assumed of the other devices,
nor that a task ever stops being interrupted by faults: the liveness properties say
"unless stuck" where a fault loops.  Weak fairness of the whole CPU suffices because the CPU is
sequential: at most the choice between accepting and nothing is open in the idle loop.
`TimerFires` finds its earlier request still latched only while something long runs
(boot with interrupts off, a task's function): a pulse comes every 55 ms, far longer
than any handler.
`MemoryMap` is sequential: `WF(Next)` says only that the CPU runs, and so does
`WF(SearchStep)` in `TaskDirectory`.  In `Ata`, `WF(DriverStep)` is the CPU and `WF(DiskStep)` says that
a busy drive gets done; no call need ever be made.  `Terminal` and `Output` claim no
liveness; that a call of `printf` ends follows from `GoesOn`, each step taking a
character or moving to a later state, together with the absence of deadlock.

## Proofs

Eight modules prove, for every value of the constants their assumptions allow, every safety
property the passing runs check, the refinements among them.  Each follows the same
plan: an inductive invariant, first checked by TLC as an invariant of the run, then one
lemma per action that it is preserved, then the properties from it.

| Run | Theorems (property) | Only model-checked |
|---|---|---|
| `heap` | `TypeCorrect`, `BlocksDisjoint` (`LiveDisjoint`), `HeadersIntact` (`LiveIntact`), `CursorSound` (`CursorIntact`), `NoReuse` (`NothingReused`), `Refinement` (`KeepsPromise`) | |
| `memory_map` | `Typing`, `Confined` (`InRoom`), `Exact` (`MapExact`), `Ready` (`HeapReady`) | `Terminates` |
| `kernel` | `Typing`, `Alone` (`OneInterrupt`), `StackKept` (`ReturnsWhereInterrupted`), `Ready` (`MachineryReady`), `NoEmptySlot` (`NeverCallsEmptySlot`), `TasksOnce` (`RunsTasksOnce`) | `AllTasksRun`, `TimerKeepsTicking` |
| `terminal` | `Typing`, `CursorStays` (`CursorOnScreen`), `ShiftFollows` (`ShiftFollowsKeys`), `TypesOnPaper` (`PrintsOnPaper`), `AsHeld` (`TypesAsHeld`) | |
| `disk` | `Typing`, `WhenReady` (`MovesWhenReady`), `AsAsked` (`MovesAsAsked`), `Registered` (`RegistersDisk`), `OnlyJunkPanics` (`PanicsOnJunk`) | `ProbeEnds`, `ReadsEnd` |
| `directory` | `Typing`, `Removal` (`RemovesOnlyAsked`), `Finding` (`FindsBothTasks`) | `SearchEnds` |
| `output` | `TypeCorrect` (`TypeOK`), `StaysInside` (`WritesInside`), `Proceeds` (`GoesOn`), `MeansWhatIsAsked` (`FormatsAsMeant`) | |

### HeapProofs

For every memory size, header size, region, set of requests, initial memory and user data.
`LiveDisjoint` is not inductive: it needs that the next split works on memory nobody
owns, which in turn needs that `free`'s merge cannot touch the block under the cursor's size
or address.  The invariant `IInv` therefore says that the block under `currentAlloc`
is free and is exactly the rest of the region (`CursorIntact`), that every block in use lies before it with an intact header
whose `NextAlloc` is its end (`LiveDisjoint`, `LiveIntact`), and that the cursor's own
`NextAlloc` is what `memory_init` linked.  The
argument then goes action by action (`...Preserves`), over two lemmas on memory
(`StoreThere`, `StoreElsewhere`) and one on where `split` puts the tail
(`SplitTail`).  A consequence the proof makes plain: `MallocWalks` never moves the cursor in a state
where the successor is not reserved, so memory given back by `free` is never used
again (`NoReuse`), and a heap that is full stays full.
`Refinement` follows from the same invariant: `MallocSplits` is a `Grant`, `Free` a
`Release`, everything else stutters.

Assumed: the region is not at address 0, ends below 2^32, leaves room for
one header before it, and the other usable region, if any, lies above it.

### MemoryMapProofs

For every plausible map, area and header size.  The program is a sequence of loops, so
`IInv` is a conjunction by phase: `FillInv` (the entries stored are the first of the BIOS's),
`SearchInv` (the search is not past the entry that holds the area), `RemoveInv`, `MapInv` (what is left is
sorted and apart, and each usable entry has room for a header), `HdrInv` and `LinkInv` (the first
low region found keeps its header, and its link goes to a later one).  The hard
part is the removal: each turn moves every later entry down by one, so `Removed` says that entry
k of the array is entry k + r of the original, where r counts the entries removed so far, each of which
ended inside the area; the last turn takes the area's own entry off the count.
`Confined` is a separate induction over `IInv` (`RoomKept`): in each phase the highest index stored to is below `Room` if the map leaves room (`HasRoom`).
`MapExact` itself is carried through `memory_init` by `ClippedEntry`, that clipping the
entry across the area's end loses exactly what lay inside.

Assumed: `PlausibleBios`, whose bound of `Cells` is that of the memory and not of the array, of which nothing is assumed; proving it made explicit that no entry may reach the last 64-bit address, where
its end would wrap to 0.

### KernelProofs

For every set of lines, faults and traps, any number of tasks and slots, any garbage in the array and any
start of the index.  `BootInv` ties the step `main` has reached to what is installed: a gate, a
handler or the manager is missing only while interrupts are off and nothing is in service.  `FrameInv` ties the stack
pointer to the place the innermost handler has reached (and, below a nested exception, to where the
interrupted one stopped), the service registers to the vectors of the handlers not yet past their end of
interrupt, and the interrupt flag to there being none.  `AddedInv` says what `main` has done with the tasks by then, and `SlotInv`
that the slots hold tasks that wait to run, each once at most, and that `rem_tasks` counts those that wait.

`NeverCallsEmptySlot` holds when the array was clear and filled from slot 0 (`Tame`).  `Cursor` then says
that the scheduler's cursor is on a task that has not run, with all that come after it in the array, or that every task has run: `add_task`
leaves it on the last task, and once that one has run it wraps to the first and goes up to the last but one.
`TasksOnce` maps the adding of a task and the end of its run to the steps of `TaskService`; everything else stutters.

Assumed: what `TasksAssumption` says of the manager's size (at most 256 slots, more
than the tasks added, and room for all of them behind the slot the search starts from), lines other than the cascade
with the timer's among them, and faults and traps below 32.

### TerminalProofs

For every screen, tab stop, font, message and set of typed keys.  `TypesOnPaper` is the strongest
result about the console.  The invariant is that the console is a `Sheet`: the
cursor is in a column of one of the screen's lines, and nothing is printed below it.  What is on the paper (`Text`) is then
the lines scrolled off with those of the screen down to the cursor.  A character leaves the cursor at most one line
below the screen, then at a column in range, so that one wrap (`NextBelow`) and one scroll
(`NextScrolled`) settle it (`Settles`), which a backspace needs twice; with two columns or more the step
back after the inner space never meets column 0 (`StepsBack`), where the unsigned cursor would wrap.  `CursorStays` comes
from the same invariant.

`ShiftFollowsKeys` is strengthened to `ShiftInv`: while it is sure, the bytes still on the
wire either hold exactly one shift byte, which tells what `held` says, or hold none and the flag is right;
and every byte before that one is at least 128, a prefix or a release, so that no character is
typed while the flag is behind the keys.  That gives `AsHeld`.

Assumed: at least two columns, one line and one column to a tab stop, messages of
characters the font has or the console handles, typed keys that are not shift keys, and a table whose characters are such too.

### AtaProofs

For every number of sectors, words in one, counts, calls, whatever answers the probe and whatever the secondary bus answers.  `IInv` is
`TypeOK` with: `DriveInv` (the drive's status bits and what it moves agree with the command in
progress), `RangeInv`, `RegsInv` (the register writes still to come are the tail of what the request
writes, so that when the command goes out the registers hold the request), `WordsInv` (the words the driver
has left are those the drive has left, or the drive has more sectors to follow), `ProbeInv`, `ReadInv` and `WriteInv`.  The last two differ because
the later requests of a read are ignored by a drive still serving the first one's count, whereas those of a
write are partly taken.  `MovesAsAsked` and `PanicsOnJunk` speak of calls for the primary bus that find the disk idle (`Clean`), and the
invariant says of the others only what keeps the types.

Assumed: a sector and a word in it at least, registers of more than one value, and calls that stay on the disk.

### TaskDirectoryProofs

For any number of slots, tasks, starts and any garbage.
`DirInv` says that in a `Whole` manager a running search walks up from slot 0 and has not passed its pid,
because half of a range of one or two adds nothing to its start (`MiddleIsStart`);
removal needs only that the array is one, whatever the search did.
`Typing` needs `CountInv`: neither count, of which `clear_manager` leaves `rem_tasks` alone and a stray NULL may clear `num_tasks`, ever passes the number of
tasks added, which go in the order of their pids.

Assumed: more than two slots, more than the tasks, and memory of more words than the manager has.

### FormattingProofs, OutputProofs

For every buffer size and every call a caller may make whose text has a length an `int` holds (`LengthAssumption`).
The invariant `Inv` joins three: `IInv`, about the buffer, `Sense`, about the reading, and `Counted`.  `Counted` says that `o` is the length of the text that the
directives done stand for; with the assumption it follows that `o` never wraps (`PieceFits`) and that `printf` takes it for no error (`CountFits`),
without which the buffer could not be shown to be safe.  Each needs the others, so they are proved together, a step at a time (`StepInv`), with what `Formatter` sees of the step.

`WritesInside` rests on an exact invariant: until the text is terminated, the cells written are those of the
characters output that the buffer has room for, and the output pointer is at the next one, or
past the end once the buffer is full (`Emitted`).  Each piece of output keeps it.  For `format_int`
that needs three things of functions defined by recursion: the loop
that counts digits ends with at least one unless the number is 0 (`DigitsCounted`); a number and its marks fill exactly
the characters reserved for them, because what is left always has room for the digits
to come and the marks between them (`Ticks`, `MarkWrites`, `TurnWrites`); and the loop that writes them from the end, over
a pointer that may be past the buffer, stores in the cells that exist and in no other (`WriteNumberWrites`).

The library's induction theorems take the induction hypothesis as an operator, which the provers here
cannot instantiate.  The module therefore proves induction as a fact about sets: a
set of naturals has a least element (`LeastNumber`), because the intervals from 0 below one of its elements are subsets of a finite set, on which
strict inclusion is well founded; so a set that contains 0 and the successor of each element is
all of them (`Induction`).  With that each recursive function of the model is shown to exist and
unfolded once (`EmitAllUnfolds`, `WriteNumberUnfolds`, `DigitsCounted`).

`Proceeds` needs only that every action takes a character or names a later state.

`TypeCorrect` is about reading: that `va_arg` never goes past the words passed, that the rank stays one of the five the table has,
and that width and precision are ints holds because `vsnprintf` takes the directives apart as the caller put them together.
The invariant `Sense` says so.  Between directives, all that the first k of them spell and pass has been taken
(`Aligned`); inside one, some of its characters and words have, and `flags`, `width`, `prec` and `rank` are what
those say (`Reading`, with a case for each state).  A number is read digit by digit, and what is read is always the number that
the digits so far spell (`DigitRead`, over `Leads`, `NumeralGrows` and `NumeralOrder`: the digits of a number lead those of
ten times it plus a digit, and no smaller number has more).  `FormattingProofs` has what this needs of sequences joined
one after the other (`FlattenUnfolds`) and of spellings: where the parts of a directive are in it, and that none of them
reads on into the next (`ConversionSpelled`).

`MeansWhatIsAsked` is that `Output` implements `Formatter`, whose step prints a whole directive at once.  The argument has three parts.

- What `format_int` leaves in its cells is one text, `NumberText`: not only that the cells are written (`Emitted`) but what with (`Adds`,
  made of `Holds`, the characters in their places, and `Preserves`, what was there before).  The loop over the digits writes from the end, so that
  after some turns the cells hold the end of the text and what is left of the value is the value without the figures
  already written (`Figured`, `Peeled`); counted from the end, the place of a figure among the marks is a
  quotient and a remainder (`Marks`, `Since`, `GroupNext`).  `TurnFigures` is the turn, `WriteNumberFigures` the loop, `FormatIntAdds` the whole.
- That text is what `Directives` says of the directive (`NumberTextMeant`, and `TextMeant` for `%c` and `%s`), although the code
  works on flags, a rank and a word modulo 2^32 and `Directives` on an integer and on grouped digits: the same
  magnitude and sign (`IntegerMeans`, over `SignedWord`), as many digits (`DigitsMeant`), the same groups (`GroupedWhole`), sign and prefix (`HeadMeant`) and padding (`LaidMeant`).
- Each step is one of `Formatter`'s or none (`StepInv`).  Under the mapping of `Output`, directives are done when they lie before the next character
  and the text is what the buffer holds.  By `Sense` a step inside a directive leaves the mapped state alone (`InsideStill`), and so does the terminator
  (`TerminatesStill`); a plain character and each kind of conversion print the directive in hand (`PlainPrints`,
  `IntegerPrints`, `TextPrints`, `CountPrints`, `OtherPrints`, and for all of them `PromisePrints`), which also makes `o` the length of one directive more (`PrintsCounted`); and `printf` shows the text
  up to its first NUL, which is the terminator or a `%c` of 0 before it (`PromiseShows`).

`Formatter` and `Output` share `Directives`, whose operators `SameProduced` shows to be the same through the instance.

Assumed: the moduli grow, there is room for one character, the strings in memory are strings, and each call is
what `CallsAssumption` says a caller owes: flags, modifiers and a conversion that are not one another's characters, numbers an `int` holds, and
the words, the string or the character the conversion takes; and that the text of a call, and each string in memory, is shorter than 2^31.

### What stays with TLC

Liveness (`AllTasksRun`, `TimerKeepsTicking`, `Terminates`, `ProbeEnds`, `ReadsEnd`, `SearchEnds`), since the prover has no reasoning
about fairness.

## Not modelled

Not modelled:

- glyphs and pixels as such (`vga_fillrect`, `vga_fillicon` and the font), which no property is about;
- the real-mode half of `boot.asm`: loading sectors and VESA modes are BIOS calls without state of the kernel's own;
- `stack.c`: `stack_create` writes through a pointer it never set, so that what it
  does is not determined by the source; push, pop and copy have no caller;
- what nothing calls: `get_pid`, `get_state`, the stack switches, `irq_uninstall_handler`, `timer_wait`, `device_get`,
  `device_count`, `binary_search` (the same loop as the search modelled), most of `string.c`, `wstring.c` and `ctype.c`,
  double-word port access;
- calls of `printf` whose text has 2^31 characters or more;
- the secondary IDE channel, but for what it may answer, and the memory around the task manager, into which a removal may store NULL;
- the bits of the words a disk read returns, of which `inportw` keeps the lower half.
