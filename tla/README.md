# atlos: TLA+ models and proofs

atlos is a small x86 kernel in C, grown from the ucore teaching system: a boot
loader, paging and three layers of memory management, kernel threads under a
timer interrupt, and a console with a monitor. This directory holds models of
its core in TLA+, the TLC configurations that check them, and proofs of the
results that hold for every size. `PROJECT.json` lists the runs, the theorems,
the source lines behind each definition, the hazards, and for each property a
plausible bug that breaks it (an operator marked "Faulty variant" beside the
definition it would replace).

To check a model, `tlc -config MCX.cfg M`; to check a proof, `tlapm M.tla`.

## 1. The system

| Component | Source | State | Operations |
|---|---|---|---|
| Boot loader | `boot/` | e820 map at 0x8000 | probe memory, load the kernel |
| Memory layout, boot paging | `kern/mm/pmm.c`, `kern/init/entry.S` | page directory, page descriptors | `get_mem_layout`, `setup_mm_page`, `pgdir_add` |
| Buddy page allocator | `kern/mm/buddy.c`, `pmm.c` | one array, a binary tree of sizes | `kalloc_pages`, `kfree_pages` |
| Slab object allocator | `kern/mm/slab.c` | ten caches of three lists; descriptors; free chains | `kmalloc`, `kfree`, releasing caches |
| Regions of an address space | `kern/mm/vmm.c` | list of `vma_t` | `vma_create`, `vma_add`, `find_vma`, `do_pgfault`, `mm_create`, `mm_destroy` |
| Pointer lists | `libs/list.c` | two-way links between sentinels | insert, erase, push, pop, replace |
| Bitmaps | `libs/bitmap.c` | bytes | set, scan |
| Threads and scheduler | `kern/arinc/process.c`, `switch.S` | queue of tasks, pid map, TSS stack | `kernel_thread`, `schedule` |
| Traps and interrupts | `kern/trap/`, `kern/driver/clock.c`, `picirq.c`, `intr.c` | IDT, ticks, requests | timer, keyboard, serial; privilege switch |
| Console input | `kern/driver/console.c`, `kern/libs/stdio.c` | circular buffer, modifiers, device registers | `cons_getc`, `cons_intr`, `kbd_proc_data`, `serial_proc_data` |
| Line editing, screen | `kern/libs/readline.c`, `console.c` | line, screen, cursor | `readline`, `cga_putc` |
| Console output | `console.c` | the cursor, shared by all threads and handlers | `cons_putc`, `lpt_putc`, `cga_putc`, `serial_putc` |
| Panic, monitor | `kern/debug/panic.c`, `kmonitor.c` | `is_panic`, the line and its words | `__panic`, `kmonitor` and three commands |
| Debug information | `kern/debug/kdebug.c` | the compiler's table | `debuginfo_eip`, `print_stackframe` |
| Strings, printing | `libs/` | none of their own | `memmove`, `strcmp`, `vprintfmt`, ... |

How they interact. `kern_init` calls everything once, with interrupts off:
the layout is computed, the pool mapped, `slab_init`, `vmm_init` and
`process_init` allocate; then the interrupt controller, the IDT and the clock
are set up, interrupts are enabled and `schedule()` is called. From there on
the only concurrency is between that call, the threads and the three
interrupts, all on one processor. `kmalloc` calls `kalloc_pages`; `slab_alloc`
calls itself for descriptors; the page mapping calls `kalloc_pages` for page
tables; the thread queue, the slabs and the regions are on the same kind of
list; a panic ends in the monitor, which reads the console by polling with
interrupts off. Everything prints: the threads with interrupts on, the handlers
and the monitor with interrupts off, all through `cons_putc`, and nothing
guards it.

What is hard in it:

* the buddy tree keeps summaries that must agree with what is handed out
  through long sequences of calls of different sizes;
* a slab moves between lists by tests on a count, the allocator calls itself,
  and pages run out between two steps of a fill;
* regions are merged with a range of others by a retry loop that compares
  flags in some places and not in others;
* lists are changed link by link, with the guards against interrupts
  commented out, while the timer's `schedule()` uses the same list;
* bytes arrive from two devices at any point of a handler that polls both, and
  one interrupt takes one character out of a buffer that may hold more;
* threads are interrupted, and switched away from, between two accesses to the
  cursor that handlers and other threads move too, and a trap may panic at any
  point, even while a panic prints;
* the monitor splits the line it reads in place, and a backtrace finds each
  address by three binary searches in a table of mixed entries, whose loop on
  an exact match ends only because the address is moved on;
* start-up clears page tables through addresses it has yet to map and puts
  tables whose length depends on themselves in front of the pool.

## 2. The modules

| Module | Models | Instance for TLC |
|---|---|---|
| `PageAllocator` | what the page allocator promises (abstract) | |
| `Buddy` | `buddy.c`, `kalloc_pages`, `kfree_pages` | `MCBuddy` |
| `Slab` | `slab.c`, `kmalloc`, `kfree` | `MCSlab` |
| `SlabGeometry` | how `fill_empty_slot` lays out a block | |
| `Vmm` | `vmm.c` | `MCVmm` |
| `List` | `list.c` on links | through `Threads` |
| `Bitmap` | `bitmap.c` | through `Threads` |
| `RoundRobin` | what the scheduler promises (abstract) | |
| `Threads` | `process.c`, the timer interrupt | `Threads` itself |
| `CharQueue` | what console input promises (abstract) | |
| `Console` | console input, both device interrupts, polling | `Console` itself |
| `Kernel` | threads printing, interrupts, traps and panic, on top of `Threads` | `Kernel` itself |
| `Readline` | `readline` and the screen | through `Monitor` |
| `Stabs` | `stab_binsearch`, `debuginfo_eip` | through `Monitor` |
| `Monitor` | `kmonitor.c`, `print_stackframe`, on top of `Readline` and `Stabs` | `MCMonitor` |
| `Layout` | `pmm_init` | `MCLayout` |
| `NatFacts`, `BuddyProofs`, `SlabProofs`, `VmmProofs`, `KernelProofs`, `ConsoleProofs`, `MonitorProofs`, `LayoutProofs` | lemmas and theorems | |

**Buddy.** `elem` is `bd->buff`; `index`, `clevel` and `parent` are the locals
of the two loops. One action is one iteration of `find_buddy_slot` or of
`fix_parent_buddy_size`; the body of `buddy_free` up to the call of the latter
is one action. `held` counts how often each block is out, which is not in the
code: it is the callers' view and the observable of `PageAllocator`.
`Return` forgets the locals, as the return does.

**Slab.** A block is a set of pages, an aligned run as long as its cache's
slabs (`slab_pages`); `slab[b]` is what `page->slab` of block `b` points to, with
its free chain in `obj_list`; the three lists are sequences. The page allocator is
kept to what its callers may count on: it gives a free run (`Given`) or
refuses, which it may do at any time, because free pages may be scattered or
taken by others (`FillFails`). That it gives only free pages is what `Buddy`
shows for requests of one size, and what a mixture can break (`buddy_assert`).
`calls` is the stack of `slab_alloc` activations: a fill for a cache with its
descriptors elsewhere pushes a call, which may fill a cache of its own, and holds
its pages meanwhile. `slab_free` with its list moves and its trimming is one action.

**Vmm.** `vma_set` is the list as a sequence, `region` the fields of the areas.
`vma_add` is one action for its two look-ups and the cases they decide, and one
for each round of the retry loop. Where the code would follow a null pointer
the model ends in `panic`: page 0 is not mapped. `asked` is the history
against which the list is judged.

**Threads, List, Bitmap.** `queue` has the links of `all_proc_set` as they are
in memory. In an interrupt gate interrupts are off, so the scheduling of a
tick is one action; the call `kern_init` makes has them on, so it is one
action per store of `list_erase`. `cur` is whose stack the processor is on. `AllocPid` runs
the scan of `Bitmap` bit by bit.

**Console.** `kbd` and `com` are what the devices hold, `irr` the requests the
interrupt controller keeps, `buf`, `rpos`, `wpos` are `cons`. A poll of a
device is one action; keys and characters come between any two of them. The
scan codes and the tables that are indexed by them are the source's, for a
letter, Enter, Delete, Caps Lock, Shift and both Ctrl keys.

**Kernel.** It extends `Threads` and adds what the threads do: `thread_func`
prints for ever. `putc[t]` is where in `cons_putc` thread `t` is and the value
of the cursor it has loaded; every read and every write of `crt_pos` is a step,
because the kernel is built without optimisation and the source names `crt_pos`
at each of them. Handlers print with interrupts off, so their text moves the
cursor in one step, over whatever the interrupted thread has loaded.
`Unexpected` is the default branch of `trap_dispatch`, in a thread, in a handler
or in a panic. The letters on the screen are not kept: only the cursor decides
where the program goes.

**Readline, Stabs, Monitor.** One action of `Readline` per character read, with
its echo through `cga_putc`, wrap and scroll included. One action of `Stabs` per
iteration of `stab_binsearch` and one for what `debuginfo_eip` does between two
searches; `srch` has that function's variables. `Monitor` composes the two: it
adds one action per word that `parse` finds, one for its end, one per command,
and for `backtrace` one for each frame's first line, the steps of `Stabs`, and
one for its second line. The stack is whatever was interrupted, so its return
addresses are any of `Returns`. The table in `MCMonitor` has the shapes the
compiler makes: a file in assembler, parameters, lines of an inlined function,
the block entries at a function's end, a line of one byte, a gap between two
files. What any table has in common `Stabs` says in `StabLaidOut`. A word beyond
`MAXARGS` is stored behind the end of `argv` (`kmonitor.c:49`): the source does not
say what lies there, so either nothing comes of it or the monitor is in the
state `wild`, which it does not leave.

**Layout.** One action per entry of the memory map, per page table, and per
pass over the descriptors. Numbers are the real ones, memory in pages and the
tables behind the image in bytes; `mem_end` and `all_mem` have 32 bits and wrap
where the code's do (`pmm.c:126`, `pmm.c:251`).

## 3. What is checked

Every run below is expected to pass except those marked *violated*.

| Run | Question | Bounds |
|---|---|---|
| `buddy_uniform` | Requests of one (rounded) size, returned in any order. No block is handed out over another, the tree is the merge of its children, coalesces completely, the assertion of `buddy_free` holds, calls return, and `PageAllocator` is implemented. | 16 pages, requests of 2 |
| `buddy_mixed` | Requests of 1, 2, 3 and 9 pages returned in any order, beyond the first inconsistency (next line): the walk stays in the array, no node claims more than it stands for. | 8 pages; a block is out at most twice |
| `buddy_assert` *violated* | Does `ASSERT(ptr->elem_size == page_align)` hold for every block given back? | the same, 1 to 3 pages |
| `slab` | Two caches, one with descriptors in objects of the other, any request for pages refused. Lists agree with counts and free chains, no object lost or handed out twice, pages lost only by a fill whose descriptor could not be had, 0 returned only while every slab of the caches being looked in is full, every call returns. | 3 pages, slabs of 1 and 2 pages with 3 and 2 objects |
| `slab_release` *violated* | The same with one empty slab more than the cache keeps: is the page under a live object ever given back? | 5 pages |
| `vmm` | Four regions of two kinds in any order: the list covers exactly what was accepted, the assertion of the merge loop holds, `vma_add` returns; while all have been of one kind, neighbours never touch and faults are judged by the region they fall into. | 4 pages of 2 units, one area off the list at a time |
| `threads` | Three threads, one of which may not be created: the queue is whole, never empty when popped, pids differ, and `RoundRobin` is implemented: the threads take turns for ever. | 3 ticks a period, fewer than that during `kern_init`'s call |
| `threads_race` *violated* | The same, with a whole period during that call. | 3 ticks |
| `console` | Keys and characters at any point: modifiers follow the keys, `CharQueue` is implemented, nothing stays in a device, the monitor gets what waits. | buffer of 3, 3 bytes in the keyboard, 4 events |
| `kernel` | Two threads printing at once under all interrupts: the cursor stays within a row of the screen, a panic is final and said once, and unless there is one every thread gets behind its wait for the serial port, and on to its next character, for ever. | 3 rows of 2, 2 ticks a period, ports looked at once |
| `monitor` | The screen shows the line, through wrapping, erasing and scrolling; `argv` has the line's words and is overrun only by more than `MAXARGS`; an address of a backtrace is given its function and file, and its line number where only the next line's entry follows, unless the entry of the next byte is taken for its own; every command ends. | 5 rows of 2, lines of 5, up to 3 words with `MAXARGS` 2, 2 frames, 31 table entries |
| `layout` | Nine memories from 8 MB to 3 GB, and one that goes on past 4 GB so that its end wraps, behind 248 images: the pool is memory and can be mapped at `KERNBASE`, page tables are in reach, the mapping survives the initialisation of the descriptors, start-up ends. | real sizes |

Why the bounds are enough. A pool of eight pages has every shape of two unequal
siblings under a parent with an equal sibling, which is what the mixed-size
behaviour needs; sixteen pages have four levels, so an inner recomputation has
recomputed nodes above and below it. Three pages are one slab with its descriptor
elsewhere and the slab that holds the descriptor, or leave two pages that are no
aligned run; every refusal may come in every state. Slabs of two and three objects
pass through every combination of the two list tests, a slab of two through both
at once. Four regions over four pages give a new region neighbours on both sides,
and one it must swallow. Three threads are the least for which order shows; more
ticks only repeat a period. A buffer for two characters overruns with three; four
events are a prefixed key pressed and released inside another. In `kernel` a
thread is interrupted between any two of its accesses to the cursor by a handler
that scrolls, and by the other thread at any of its own; `CursorBounded` was
checked for three threads as well (16.5 million states, too many for a run that is
to be repeated), and with two its bound is reached. In `monitor` a line of five
has three words, blanks in front, behind and between, and with its prompt covers
three rows of the screen; the table is long enough for each search to go both
ways. `MAXARGS` is two there, so that a line of three words overruns `argv`. For
`layout` nothing is scaled down.

`MaxHeld`, `MaxLoose`, `Top`, `MaxBootTicks`, `MaxEvents`, `KbdRoom` and the
constants named "bound" in the modules are the only limits on behaviour, with
`Patience` (12800 in the source), `Depth` (20) and `MaxArgs` (16) made small. In
`buddy_mixed` `MaxHeld` matters only after a block has been handed out twice.
`Console` lets no device act between `cons_init` and `pic_init`: what the
controller does with a line that is already up is the hardware's. `CHECK_DEADLOCK`
is off where the system may stop: in a panic (`Buddy`, `Vmm`), when start-up is
over (`Layout`), and where the bound on events ends the world (`Console`).

Fairness. The kernel's calls run to their end because nothing else runs on the
processor meanwhile: weak fairness on the steps of a call in progress
(`Buddy`, `Slab`, `Vmm`, `Layout`), none on starting one. In `Threads` the
clock keeps ticking (weak fairness on `Tick`), which is what the scheduler is
driven by; threads never end. `Kernel` asks for one thing more, that a thread
which has its turn again and again also gets something done (strong fairness on
`ThreadFunc(t)`): the clock is a hundred interrupts a second, far slower than
the processor. In `Monitor` the processor belongs to the monitor (weak fairness
on what it does with a line), and nobody must type. In `Console` requested interrupts are taken when
they are on and handlers run on; nobody must type and the kernel need not
panic.

## 4. What the violated runs show

* `buddy_assert`: `fix_parent_buddy_size` doubles two equal children without
  asking whether they are wholly free (`buddy.c:103`). With one page in use in
  each of two buddies of two pages, both claim 1, and their parent claims 2:
  a run of two that does not exist. A request for two pages then takes the parent
  over pages in use, and giving back a block fails the assertion. Requests of
  one size cannot get there, which is why the last part of `BuddyProofs` is about them.
* `slab_release`: `try_free_empty_slabs` asks `i > slab_t_in_slab_index` with
  its loop counter instead of the cache (`slab.c:54`), and gives the page of the
  descriptor back instead of the slab's.
* `threads_race`: `kern_init` calls `schedule()` with interrupts on, and the
  guards in `list.c` are comments. It takes a whole tick period of 100 ticks
  inside that call, so it is unlikely rather than impossible; `threads` shows that
  nothing else can go wrong there.

Met on the way and kept in the models as they are: a request for the whole
pool takes node 0, which is also the failure value (`buddy.c:155`); a region
can never be extended past the last one, since `vma_merge_check` follows the
null `next` (`vmm.c:143`); an area that touches the end of another with other
flags is put in front of it (`vmm.c:153`), so the list need not be sorted by end as
the comment at `vmm.c:116` has it; `mm_destroy` of an empty address space follows null;
a fill without a descriptor loses its page (`slab.c:108`); `bitmap_set`
compares bits with bytes, so pids repeat from 512 on; the scan for several
bits does not reset its count (`BitmapScan`). In `Layout`: a kernel image that
ends in page 0x17d, on 512 MB, has the last page descriptor over the first
page of the pool; with 1 GB the pool begins behind the 4 MB that `entry.S`
maps and the first `memset` of a page table faults. 1 GB is more than the
896 MB of `KMEMSIZE`, but `setup_mm_page` has a case for it.

In `Kernel`: with interrupts on between any two accesses to `crt_pos`, letters of
two threads overwrite each other, a cursor moved by one is put back by another,
and a thread may write a letter up to a row behind the screen before it scrolls
(`console.c:158`); the text may then move up twice. That is as far as it goes
(`CursorBounded`), however many threads there are, only because the text that
`print_ticks` prints in front of every `schedule()` scrolls the cursor back.
`__panic` turns interrupts off only after its message; it is the interrupt gates,
from which every caller comes, that keep ticks out of it. A trap frame that
`kernel_thread` makes is built in memory nobody cleared, so a new thread's
`tf_eflags` are what the memory held.

In `Stabs`, against what the comments say: the line number is
`stabs[rline].n_desc` (`kdebug.c:183`), the entry in front of the next line's,
which in front of inlined code and at a function's end is no line, and its
description is 0. `kdebug.c:19` calls what is stored the source code line number
for `eip` and `kdebug.c:179` speaks of the right line number. `TraceRight` claims
the number only where the line's entry is the last in front of the next line's
(`LineFollows`); without that hypothesis the table of `MCMonitor` has
counterexamples. A search over entries that are all above the address returns the
left end of its region as if it contained the address. One that meets the address
exactly moves it on by one, so as not to stand still, and then takes an entry that
begins there for one that contains it: an address at which a line, a function or a
file of one byte begins is given the one behind it, against the comment at
`kdebug.c:48`. `TraceRight` excepts these (`OneByteLine`, `OneByteFun`);
`MCMonitor` has such a line, and without the exception it is a counterexample.
Return addresses less one lie inside a `call`, which is longer than a byte.
`parse` says that there are too many arguments and goes on storing them
(`kmonitor.c:46`), so a line of more than `MAXARGS` words, which the buffer has
room for, overruns `argv`. The last loop of `stab_binsearch` was seen to change
nothing: the left end is always at the last match already.

## 5. What is proved

All with `tlapm`, for every value of the constants their modules' ASSUMEs allow,
and under the hypotheses named below: every invariant and every step property of
the passing runs, and the three refinements of `PageAllocator` (for one size of
request), `RoundRobin` and `CharQueue`.

**`BuddyProofs`** (any sizes, any order, any pool): `TypeCorrect` and
`SizesFitCorrect`. The invariant `IInv` has to say more than the two properties:
besides the typing and the size bound of each node, that the walk's `clevel` is
the depth of `index` or has met a node whose claim its children do not back, and
that a node claims 0 or a power of two that its depth allows. That is what
keeps reads inside the array even after a phantom merge.

**`BuddyProofs`, part 3** (requests that all round to one size, a pool larger
than it): `UniformNoOverlap`, `UniformTreeConsistent`, `UniformCoalesced`,
`UniformFreeAssert`, and `UniformImplementsPromise`, the refinement of
`PageAllocator`. The argument is the invariant `UInv`: call the nodes of the
requested size slots. Each slot claims 0 or its whole size, and 0 exactly when
its block is held or about to be; a node above the slots claims the merge of its
children, except the one on the way up that is about to be recomputed, so
between calls its claim is at least the request exactly when a slot below it is
free; below the slots nothing ever changes. The walk therefore arrives at a free slot, takes
it, and gives back only what was taken. `NatFacts` supplies induction in a
form without operator parameters (a set of naturals without a least element is
empty).

**`SlabProofs`** (any pages, caches, slab sizes and callers, refusals of the page
allocator at any time): `ListsAlwaysMatch`, `ObjectsAlwaysAccounted`,
`PagesAlwaysStay`, `OnlyFailedFillLosesPages` and `RefusalsHonest` (no 0 is
returned while a slab of the cache asked, or of the one that waits for a
descriptor, has an object), each `Spec /\ [][KeepsOffSlab]_vars => ...`.
`KeepsOffSlab` says that no slab whose descriptor lies in another slab leaves the
lists: when one does, `try_free_empty_slabs` frees the wrong page and `PagesStay`
is false (`slab_release`). The hypothesis is true of every behaviour of run
`slab`, and of every behaviour at all where the caches keep their descriptors on
the slab, which `OnSlabOnly` proves: there trimming and releasing give back the
right pages. The invariant `SInv` is stated for any lists, slabs and objects
(`Lists`, `Accounts`), because `slab_free` goes through a state in which the slab
has changed list and the surplus is yet to be popped; `FreeStep` and `ReleaseStep`
both end in `TrimStep`, on whatever lists it meets. Three of its parts are in no
property: that the free chain visits the unmarked objects once each (`WellFormed`,
kept by `FetchedGood` and `ReturnedGood`); that a descriptor elsewhere is an
object out, in a slab that is on a list itself; and that while a call waits for a
descriptor its own cache has neither partial nor empty slabs (`Waiting`), without
which the refusal of the nested call would not be honest for the outer one. That a
slab can be on one list only is not said separately: it follows from the counts,
which exclude each other, and what `list_erase` and `list_push_back` do to a list
without repetition is `Hung`. `SInv` and `KeepsOffSlab` were checked by TLC on
`MCSlab` first. `ObjectsFit`, about `SlabGeometry`: for every block and object
size the descriptor ends before the first object and the last object inside the
block, although each length depends on the other.

**`VmmProofs`** (any number of regions, of any kinds, pages of any size):
`PagesAccountedCorrect`, `RangeAssertCorrect`, `SortedCorrect`,
`FaultsJudgedCorrect` and the typing. What one would like to be invariant, that the
list ascends, is not: an area may be put in front of one with other flags that
ends before it. `VInv` therefore says only that neighbours *of the same flags*
are apart (`Ordered`), which is all that a merge ever relies on, since it is
done only when all areas from `prev` to `next` have the new region's flags; such
a run does ascend (`RunAscends`). While `vma_add` retries, `Between` says where the
region belongs: the areas before `prev` end before it, those from `prev` on that
lie before `next` end inside it, and `next` reaches as far as it does or the one
behind `next` begins after it. From this follow that each area merged touches what has been merged
so far (`InOneGoHolds`, the assertion), that the result stays apart from its new
neighbours, and that its pages are exactly those of what went into it
(`MergedPages`, by `PagesJoin`, one area after the other). Only with one kind of region is
the list sorted, and `find_vma` then finds the area an address lies in.
`VInv` was checked by TLC on `MCVmm` first.

**`KernelProofs`, of `Threads`** (any number of threads, any choice of those that may
fail, any pid map). `QueueIntactCorrect` needs `MaxBootTicks < TickNum`: with a whole
period in `kern_init`'s `schedule()` it is false (`threads_race`). The invariant
`TInv` says that the links are in both directions those of some sequence of
threads without repetition (`QHolds`, with one thread half unlinked while
`list_erase` is between its stores), that this sequence is what is created and
neither running nor taken, and that until `kern_init` has switched away the
ticks counted are fewer than a period. It rests on what `PushBack` and `Erase` do
to a list that holds a sequence (`PushBackHolds`, `EraseHolds`).
`NeverWildCorrect` also needs a thread that is sure to get its memory, without
which there is nothing to pop. `PidsDistinctCorrect` needs fewer threads than
pids that `bitmap_set` can mark; it rests on `ScanFirst`, that the scan of the
bitmap, byte by byte and bit by bit, finds the first clear bit. `TurnsInOrder` is
the refinement of `RoundRobin`, each step mapped to a turn or a stutter.

**`KernelProofs`, of `Kernel`** (any number of threads, any screen of at least two rows
and columns). `PanicFinalCorrect` has no assumption: `PanicInv` adds to the property
that interrupts are off from the moment of the trap, so that no tick comes into
the message. `CursorBoundedCorrect` needs what keeps the scheduler whole. Its
invariant `CursorInv` bounds the value a thread has loaded at each place of `cga_putc` where it
can be suspended (`RegInv`), and says how `crt_pos` fits the place of the one that
runs (`Fits`): it is what that thread left there, or where an interrupt has left it,
at the beginning of a line on the screen. Since `print_ticks` prints before every
switch, a thread that goes on always finds the latter, and the excess of one does
not add to that of another. `CursorInv` was checked by TLC on
screens of 3 by 2 and 2 by 3 first.

**`ConsoleProofs`** (any of the modelled keys, any serial characters, any buffer of two
places or more, any number of events): `ModifiersFollowCorrect`, and
`QueueKeptCorrect`, the refinement of `CharQueue`, which has no fairness. The
invariant `ConsInv` is the typing and `Mods`, which is `ModifiersFollow` said of any
shift and any keys held; `QStep` says that each action does to what is typed, sent,
waiting and taken what one action of the queue does, or nothing. Two arguments carry
it. The bytes under way: `Spelt` is a recursion over them, so what is needed of it is
proved by the least element of a set of lengths - that a byte more is decoded
last (`SpeltAppend`), that the first is decoded first (`SpeltFirst`), and
from these that a key appends one or two bytes which together take shift where the key
takes it and spell one character at most (`KeyDoes`). The buffer: `Held` is the text from
`rpos` up to `wpos`, wherever the end of the buffer lies between (`Around`); writing
appends to it, and empties it when `BufSize - 1` characters wait (`HeldMore`); reading takes
its head (`HeldLess`).

**`MonitorProofs`.** Of `Readline`, for every screen, prompt and line that
`ReadlineConstants` admits: `PutAny` keeps the cursor on the screen, `PutLetter`
and `PutBackspace` say what one character does to a text in front of the cursor,
with the wrap and the scroll inside; `ShowsPrompt` is an induction along the
prompt. `ScreenInv` adds to `ScreenShowsLine` that the screen is whole while no
line is typed, since commands print as much as they like. Of `parse`, for every
line: `Parsed(l, b, a, m)` says of the place `m` it has come to that in front of
it every blank is a NUL, behind it the line is untouched, and `argv` has the words
that begin in front of it; `NextText` is the argument that the next place holds
the start of a word or the end of the line, `WordIs` that the string which begins
there ends where the word did, and `WordsCounted` that `argv` has no more of them
than the line, so that it is overrun only by a line of more than `MAXARGS`. Of
`Stabs`, for every table laid out as `StabLaidOut` says: `HalveKeeps`: an
iteration of `stab_binsearch` keeps the last entry at or below the address in its
region, through the exact match, where the address moves on by one; the argument
fails exactly when an entry begins at that next address, which is where
`OneByteFun` and `OneByteLine` came from. `SearchEnds`: the search therefore
returns that entry and, on the right, the one before the next of its type.
`TraceInv` carries what the search for the file found into the search for the
function, and that into the search for the line; `TraceRightCorrect` follows, with
these exceptions and with the line number where `LineFollows` holds. For the
addresses left out the code may give something else.

**`LayoutProofs`** (every memory map, every image within the 4 MB that `entry.S`
maps, `mem_end` and `all_mem` wrapping at 32 bits): `DescriptorsFit`, that one
correction of the estimate is enough below 1 MB: if `est = 16 y` and `q = est div
4096 <= 255`, the rounded total is at most `q + 2` pages, and in the case `q + 2`
the remainder of `est`, a multiple of 16, still leaves room for one more
descriptor. `PoolMappableCorrect`: wherever the two numbers wrap, the pool ends
below 896 MB, because `kern_pages` is at most 512 MB whatever `all_mem` is
(`KernPagesFact`) and the tables for it and the image at most 1000 pages
(`PoolEnd`). `FaultCondition` and `MappingCorrect` from the invariant `LInv`,
which adds to the properties that while mapping goes on, one table has been taken
for each 4 MB mapped beyond the first. `PoolCorrect` and `StartsUpCorrect` are
about ordinary machines (`Ordinary`, a hypothesis on the state, not an
assumption): the image, which is linked at 1 MB, ends within 2 MB, in a piece of
memory that goes on to 7 MB or more, ends below 4 GB, and behind which nothing
usable begins; how large the memory is, what else the map lists and in what order
does not matter. Without some such hypothesis both are false: an image that fills
most of the memory leaves no room for half of it, and a memory that goes on past 4
GB has an end that wraps. `OInv` says that the scan of the map arrives at the end
of that piece; `OrdinaryPlan` that the tables and the pool fit below it, that the
assertion of `init_reserved_pages` holds, and that up to 896 MB the one on
`kpages` does and the pool begins below 4 MB. The machines of `MCLayout` are
ordinary but for the one past 4 GB.

Only model-checked: all liveness (fairness and `ENABLED` are beyond the prover), in
which the fair half of `TakeTurns`; `BitmapScan` for more than one bit, being defined
by recursion over data; and, of `Buddy`, all that is said about mixed sizes beyond
typing and size bounds, most of which is false.

## 6. What is not modelled

* The self tests (`buddy_check`, `test_slab`, `check_vmm_vma`, `check_pgfault`,
  `check_bitmap`): scripts of the modelled calls. Of `buddy_check`, `Layout` has
  the size of pool it needs.
* The privilege switches in `trap_dispatch`, which only a commented-out test would
  raise; the saving of registers; the build for grading, which panics at the first
  print of the ticks.
* The contents of the screen under concurrent output, and what the ports do with a
  character that comes too early: nothing reads either back.
* What happens after `parse` has written behind `argv`, beyond that it may be
  anything (`wild`).
* `pgdir_add` for an entry that exists and for an empty pool (`pmm.c:159-168`):
  `pmm_init` meets each address once, with a pool larger than its page tables.
* `do_exit`, `free_pid`, `free_proc`: empty or never called.
* Boot loader, generated vectors, host tools: straight-line, or not part of the
  running kernel.
* `printfmt.c` and what the commands print: wording and layout; of `string.c` and
  `x86.h` what no modelled part uses.
* `apex.h`, `arinc_proc.h`: declarations without code.

## 7. Plan

Done: the modules above, in the order Buddy, Slab, Vmm, Threads, Console,
Layout, Kernel, Stabs, Monitor, and the proofs of section 5. Next:

1. The boot loader's sectors (`readseg` writes whole sectors in increasing
   order) and `printnum`, if they get properties worth a run.
