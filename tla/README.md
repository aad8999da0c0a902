# A verification project for axKernel

axKernel is a small AArch64 kernel in C and assembler: processes with a
preemptive round-robin scheduler and message passing, a memory map, a file
system whose names are in a B+ tree, virtio drivers, and a shell.  This
directory holds TLA+ models of its parts, TLC configurations that check them on
small instances, and proofs of their main properties for every instance.

Paths below are relative to the repository's root; `src/manage/pm.c` is the
file of that name under it.

## 1. The system

| Component | State | Operations |
|---|---|---|
| Kernel heap, `src/global/alloc.c` | the array of 100 KB with its doubly linked block list | `heap_init`, `heap_alloc` (first fit), `heap_free` |
| Byte queue and stack, `src/tools/dstruc.c` | ring with write index, read index, count | `queue_push/pop/peek`, `stack_*` |
| Scheduler and timer, `src/manage/expm.c`, `schedule_proc` in `src/global/meta.c`, `src/handler/irq.c` | `lowqueue`, `highqueue`, `current_proc` | `pm_run`, `pm_awake`, the timer interrupt |
| Message passing, `ptp` in `expm.c`, IPC calls in `src/handler/syscall.c` | one box per process, `proto_arr` | `ptp`, `ipc_send`, `ipc_rece`, `setup` |
| Context switch, `boot/proc.S`, `boot/IRV/*.S` | registers, `regs` in each pcb, the kernel's stack | interrupt entry, `_proc`, system call entry and return |
| Process creation and memory map, `pm.c`, `mm.c`, `exmm.c` | `is_alloc`, the pcbs, the 2-bit stack of the map | `pm_create`, `mm_creat`, `mm_find` |
| Image loader and brk, `meta.c`, `syscall.c` | a pcb's heap bounds | `mata_exec_file`, `elf_load_image`, `brk_call` |
| Name index, `src/tools/fs.c` | the nodes of the B+ tree | `bpt_insert`, `bpt_delete`, `bpt_search` |
| File manager and file calls, `src/manage/fm.c`, `syscall.c` | file and directory control blocks, data, per-process descriptors | create, delete, open, read, write, close, directories |
| Exception handlers, `src/handler/sync.c` | none | one handler per class, all but system calls stop |
| Display driver, `src/tools/vgpu.c` | two frame buffers, command slots, the control queue | initialisation, commands, flush, time-out |
| Keyboard driver and input, `src/tools/vhid.c`, `getchar` in `io.c` | event queues, modifiers, the ring of 256 characters | interrupt handler, `vhid_getchar`, `getchar` |
| Console and graphics, `io.c`, `gm.c`, `font.c` | cursor, the line being typed, clipboard | `io_puts_color`, `gets`, drawing |
| Device tree parser, `dtb.c` | what the walk collected, the devices found | `parse_dtb` |
| Shell and editor, `src/frm` | directory stack, edit buffer | commands |
| VirtIO transport, `virtio.c` | queues | set-up of version 1 and 2 |
| Device manager, `src/manage/dm.c` | table of device control blocks | register, find |
| Network manager, `src/manage/nm.c`, L2 calls, `vnet.c` | receive ring, ten payload slots | `nm_discap`, `net_in/out`, the L2 system calls |
| Block and sound drivers, `vblk.c`, `vsnd.c` | virtqueues | requests |

**How they interact.**  `kernel_main` initialises all of them with interrupts
masked, writes one or two program files, makes them processes (`proc_turn`,
`mata_exec_file`, `pm_create`), queues them and enters the first one through
`_proc`.  From then on the kernel runs only in exception handlers.  A timer
interrupt saves the registers in the pcb, `schedule_proc` takes the next
process from the queues and puts the interrupted one back, and `_proc` loads
the next one's registers.  A system call runs to its end with interrupts
masked, so that system calls do not interleave with each other or with
interrupts; what interleaves is the order of ticks, device interrupts and calls
of the processes.  The name index takes its nodes, and a process its page
table, from the kernel heap.  The scheduler's queues are byte rings.  What
`parse_dtb` finds before `kernel_main` starts tells the drivers where their
devices are; the drivers share their queues with the devices, which go on at
any time, and the keyboard driver shares the ring of characters with `getchar`,
which its interrupt can stop anywhere.  The console draws into the display
driver's back buffer and has it flushed.

**What is hard.**  No operation of the kernel is concurrent with itself on one
processor, so most difficulties are long sequences: orders of allocation and freeing, of
insertion and deletion; the order of ticks and sends; registers and slots
saved at one moment and used at another; failures in the middle of a
construction; limits (queue size, map entries, heap, stack); and waits with
interrupts masked.  Devices are concurrent with everything: events that come
while a handler looks at a queue, commands that are executed after the driver
has given them up.  `PROJECT.json` lists the hazards at their lines.

**What makes each part correct.**  Heap: blocks tile the array, payloads never
overlap, all freed memory is one block again.  Ring: it is a bounded FIFO
queue.  Scheduler: every process has exactly one place and gets the processor
again and again; a receiver runs next.  Context switch: a process goes on with
the registers it had.  Creation: memory of processes is disjoint, a failed
creation leaves nothing.  Name index: it is a map from names to values.  Files:
contents of different files stay apart, reads and writes stop at the end,
failed opens keep no descriptor.  Directories: the shell's path goes down one
level at a time, a parent lists its directories, names lead to different ones.
Display: after time-outs the driver finds back to its device, a flush that
succeeds shows everything drawn, one that fails leaves the old picture.
Keyboard: no event waits where nothing fetches it, the characters are those
typed, each is read.  Console: the screen shows the line being typed.  Device
tree: the devices registered are those the tree lists.

## 2. Modules

| Module | Models | Kind |
|---|---|---|
| `Heap`, `HeapProofs` | kernel heap | state machine, proofs |
| `Queues` | what a push, a pop and its answer are, on sequences | operators |
| `Fifo` | what a queue promises | abstract specification |
| `RingQueue` | the byte ring, refines `Fifo` | state machine; proofs in `SchedulerProofs` |
| `Scheduler`, `SchedulerProofs` | scheduler, tick, message passing; uses `Queues` | state machine, proofs |
| `ContextSwitch` | registers through interrupts and system calls | state machine; proofs in `SchedulerProofs` |
| `Processes`, `MCProcesses`, `ProcessesProofs` | creation, memory map, image loading, brk | state machine, proofs |
| `KeyedStore` | what the name index promises | abstract specification |
| `BPTree`, `MCBPTree`, `MCBPTreeDeep`, `BPTreeLemmas`, `BPTreeProofs` | the B+ tree, implements `KeyedStore` | state machine, proofs |
| `FileStore` | what files promise about contents | abstract specification |
| `Files`, `MCFiles`, `FilesProofs` | files, descriptors, reading and writing; implements `FileStore` | state machine, proofs |
| `Directories`, `DirectoriesProofs` | directories, the shell's commands on them and its path | state machine, proofs |
| `Display` | the display driver, its control queue and its device | state machine |
| `Input` | the keyboard driver, its devices, the character ring and `getchar`; the ring implements `Fifo` | state machine |
| `Console` | the text console and `gets` | state machine |
| `DeviceTree` | the walk over the device tree | state machine |
| `Devices`, `DevicesProofs` | one of these four at a time | composition, proofs about it and each of the four |

A definition has the name of the function it models wherever there is one;
`map` in `PROJECT.json` gives the lines of each.  Definitions called
"Mutant of" are not part of a model: each is a plausible mistake in the
definition that follows, with which TLC finds a property violated.

### Heap
`heap_mem` is an array of `HeapSize` units; a block header, at the start of
each block, is a record in a function from addresses, and takes `Hdr` units.
`heap_alloc` walks the list: `AllocEnter` adds the header and starts, `AllocSkip` passes
one block, `AllocTake` splits and marks, `AllocFail` ends without.  `Free`
includes both merges.  The walk is a step per node so that its termination can
be stated.  In the code interrupts are masked or the caller is the only one, so
nothing interleaves with a walk and only `AllocSkip`, `AllocTake` and
`AllocFail` are enabled during one.

### Queues, Fifo and RingQueue
`Scheduler` sees a queue as a sequence, with the operators of `Queues`.
`RingQueue` has the code's three fields and shows that this view is right: its
`queue_push` and `queue_pop`, with their return values, implement `Fifo`, in
which an operation that is refused changes nothing and a pop of an empty queue
answers 0.  `RingSpec` is its specification; the size of the ring is `Size` of
`Queues`.

### Scheduler
One action for the timer interrupt and one for each system call that touches
queues or messages; `read_call` and `getchar` are two, because the code spins
there with interrupts masked for as long as the console says nothing;
`full_stop` is what `exit`, faults and unknown interrupts end in:
`sync_handler_main` has the exception classes with an entry in `ec_table`, whose
handlers all print and stop, but the one for system calls.  `boot` is
`B_MAIN_FLAG`: which processes exist, which level they run at and what is
queued first.  Only processes at EL0 make system calls.  Sends go to
processes that exist; a send to another id makes the code queue an empty pcb
(`syscall.c:523`), which is listed as a hazard and not modelled.

### ContextSwitch
The general registers are numbered as the words of `proc_regs_t`, and `running` is `current_proc`.  A value says which
process computed it, in which register and when (`Stamps`), or that the kernel
did.  `el0_a64_irq` and `el1_spx_irq` are the slots an interrupt leaves,
`_proc` the registers a resumed process gets.  Which process is next is open
here: the model covers the timer (another process) and devices (the same).
`irq_handler_main` ends in `_proc` and never returns, so that for processes at
EL0 its frame stays on the kernel's stack at each interrupt.  `frames` counts
them, `StackFrames` is how many the stack has room for, and the model does not
go on once it is overrun.
`boot.S` lets processes use the vector registers too (`boot.S:19-22`), and no
handler saves, loads or clears them: `v` is who computed what they hold, and
each entry to the kernel leaves it, or has it overwritten by the C code of a
handler.

### Processes
`pm_create` is written as the sequence of what it takes (slot, page table, map
entries) and gives back; whether the heap has a page table is an input.  An
image is a record of what the loader looks at: whether it is well formed, its
segments, alignment and entry.  Addresses are numbers in a scale where 128 KB
is `Unit`.  The map's word has `Word` entries (32 in the code) and the map
`Bottom` entries.  What `mm_find` adds up is `Sums`, a recursive function.

`elf_load_image` computes with what the file says, in 64 bits, and so does the
model, with `Wide` values: where a segment ends (`End`), the extent of the
image, and the check of each segment before it is copied (`meta.c:230`), which
can refuse one after those before it were copied (`near`).  A segment whose end
wraps around passes these checks as a shorter image would; nothing bounds where
it is copied to.  `HeapInRegion` therefore speaks of the other segments
(`Unwrapped`), also those beside it, and of every heap.  An alignment is
assumed to be a power of two (`ImagesAssumption`), as ELF has it; of another the
loader's mask would not be a rounding up.  The file a
process is created from is an input of the action; writing it is the file
manager's.

### BPTree
The state is `mem`, the part of the heap that has nodes: a function from
addresses to records with the fields of `bpt_node_t`, in which a leaf's three
parallel arrays are one sequence of entries.  `bpt_insert` and `bpt_delete` are
one action each, including splits of leaves, of inner nodes and of the root,
borrowing from and merging with either neighbour at either level, the collapse
of the root and the recomputing of separators.  A name is a pair of hashes,
`Colliding` names share the first with another.  Addresses are taken first fit
from `Pool`, and an allocation fails when it is used up; `cut_short` remembers
that an insertion that reported failure had changed the tree.

What is recursive in the code goes in rounds here: `AddToParent` and `Balance`
are one call of `add_parent` and `balance_inner` each, which says what the next
call is for or that there is none, and they, like the steps down to a leaf
(`Toward`) and up to the root, are repeated as often as there are nodes
(`Rounds`), which is more than any path is long; the rounds too many change
nothing.  The tree itself is read level by level from the root (`InTree`).
Nodes that a failed insertion lost keep pointers to nodes that may be freed
later, so that `TypeOK` speaks of the nodes in the tree.

### FileStore and Files
A system call is an action.  A file's control block has the two fields that
matter, its length in KB and five bits of its number (`fid`), and `data` is the
memory the kernel has for contents, byte by byte.  A descriptor is a `ctrl_t`.
The index of names is a map: `BPTree` shows that it is one, for names whose
first hashes differ and while nodes can be allocated.  Opening a device always
fails, because nothing registers one.  `write_call` and `close_call` do not
check the descriptor they are given; here it is always in the table.
`FileStore` knows files by number, since a name can be deleted and given to
another file while the first is still open; `Contents` maps the memory to it.

### Directories
The commands of the kernel's shell on files and directories, each with its
lookups, and the calls of processes; the shell runs only when `B_MAIN_FLAG` is
6, when there are no other processes, so that `shell` is fixed at the start.
`list` is the two arrays `files` and `dirs` of a control block, which lie one
after the other, because `fm_dir_in` writes past the end of the first.  The
shell's stack of directories is `dir_path`.  `mv` and `dmv` do not ask whether
what they looked up was found: what they read then is any value (`Garbage` for
an id that nothing has).  `fm_dir_create` is in the order of the source: the name
goes into the index, the slot's list is cleared, and only then is the depth
looked at; the new directory is listed in its parent before its own counts are
reset.  Nothing looks at the parent's number, which a process may choose to be
any slot of the table, that of the new directory and later ones too.  The
table has `MAX_DIR_NUM` entries (256), while `fm.c:100` compares with
`MAX_FILE_NUM` (4096): the model has both, `MaxDirs` and `MaxFiles`, and stops at
the end of the table (`InTable`).  `refused` and `astray` are history variables:
names that were refused, and directories made below a number that was none.  The calls
`dir_in_call` and `dir_out_call` are not in the table of calls
(`syscall.c:718`) and not modelled.

### Display
An operation is a list of commands (`todo`), each submitted, polled for and
checked in steps of its own (`phase`), and the device executes the oldest
command it has not executed (`DeviceExecutes`) whenever it likes: during the
poll, or after the driver gave up.  A command lies in one of `CommandSlots`
slots, used in turn, and in a pair of descriptors, used in turn too: one given
up is executed with what its slot holds by then.  The driver never looks at
more than the newest used entry (`LastUsed`), as in the code.  `vq_setup_v1` is
the set of sizes the transport can come to.  A picture is the set of drawings
in it; `storage` is the memory of the two frame buffers, `host` what the device
has copied of it.  Of the drawing operations only `gm_rect`, from scrolling and
erasing, and `ltrs_color` are reached in this build.  The interrupt of the
display is never enabled and the driver asks for none; `virtio_gpu_irq_handle`
is an action nevertheless, since the handler is there, and changes nothing the
driver waits for.  Of the device it is assumed that it reads a command's slot
and descriptors and writes its answer and the used entry in one step: the driver
touches none of these between submitting a command and giving it up, so that
only a device that is in the middle of an old command while its slot is written
anew would do otherwise.

### Input
A device takes a buffer, writes an event and adds the entry (`DeviceEvent`),
and raises its interrupt some time later (`DeviceRaises`), so that entries can
arrive before, within and after every step of the handler.  The handler is one
action per access it shares with the devices: take an entry and copy the event,
give the buffer back, process the key, read the status, acknowledge, look
again.  `getchar` is one action per access to the ring and per wait; an
interrupt can come between any two of them, unless `masked`.  A key is the
character it makes with or without shift and caps lock: which key makes which
character is a table without state, and left out.  The two shift keys are told
apart, and go down and up; short events and entries that name no buffer are
kinds of events too.  `meant`, `held` and
`locked` are what the typist sees, computed where the event happens.

### Console
A cell of the screen is the set of letters drawn into it, since a glyph sets
pixels and clears none, so that drawing over an older letter shows.
`io_puts_color` puts one character after the other (`Printed`, a recursive
function): it collects runs of letters, draws a run when it is full or at a
line's end, wraps and scrolls.  `gets` appends, erases and ends; a key is an
action.

### DeviceTree
The tree is whatever sequence of tokens the actions take, with properties
before inner nodes as the format demands.  `listed` is what the tree says of
each kind, node by node; `base`, `irq` and `inputs` what the walk made of it.  Addresses are
numbers of nodes.  Names of properties are compared in the code and are action
names here; the big-endian words are abstracted.

### Devices
The four share no variable.  `driver` is the one that runs, with the others at
rest, so that the states of one run add up and do not multiply.

## 3. What the runs check

| Run | Instance | Shows |
|---|---|---|
| `heap` | 16 units, headers of 2, requests 1, 2, 4 | `WellFormed`, `PayloadsDisjoint`, `AllFreedIsOneBlock`, `WalkOK`; under fairness of the walk `AllocTerminates` |
| `ring` | 3 slots, 3 byte values | the ring implements `Fifo` |
| `scheduler` | each `B_MAIN_FLAG`, 3 messages, one too long | `EveryProcPlaced`, `EntriesBounded`, `MailGenuine`, `ReceiverRunsNext`, and `EveryoneRuns` under fairness of the tick |
| `self_send` | flag 5, a process may send to itself | **violated:** `OnlyReceiverTakenOut` |
| `context` | 2 processes, both levels, stack of 4 frames | `OwnRegistersOnly`, `ResumesWhereStopped` |
| `registers` | the same at EL0 | **violated:** `AllRestored` |
| `processes` | 10 map entries in words of 4, 4 page tables, 6 slots, addresses of 10 bits, 10 images | `RegionsDisjoint`, `NothingHalfMade`, `HeapInRegion`, `EarlierKept` |
| `bptree` | from the empty root, 6 names, one FNV collision, 2 values | the tree implements `KeyedStore` |
| `bptree_deep` | from two trees of three levels, with 10 nodes to allocate | `Balanced`, `SearchFinds`, `NoNodeLost`, `ChainOrdered`, `OperationsExact`, also where nodes run out |
| `files` | 3 descriptors, 2 names, up to 3 files of up to 2 bytes, data for 2 | `OpenMeansFile`; the calls implement `FileStore` |
| `dirs` | 2 names of directories, up to 3 directories and 3 files, lists of 2 | `PathDepths`, `ListedByParent`, `NamesApart` |
| `devices` | display: queues of up to 4, 2 slots, 12 commands, 3 drawings, 3 time-outs | `StaysInStep`, `ShowsAllDrawn`, `OldPictureStays` |
| | input: 2 devices with 2 buffers each, ring of 2 with indices to 4, 3 events | `KeysAsTyped`, `NoEventStranded`, `RingIsFifo`, and `KeysGetRead` under fairness |
| | console: 3 lines of 2, runs of 4, a buffer of 9 | `ScreenShowsLine` |
| | device tree: 3 nodes, 2 input devices | `FoundAsListed` |

`Processes`, `Directories` and the drivers have a type invariant that is
checked in their runs and proved; those of `Heap`, `RingQueue`, `Scheduler`,
`ContextSwitch` and `Files` are proved only (section 4), and that of `BPTree` is
the first part of `Balanced`.

**Bounds, and why they are enough.**
In `heap` the array has room for five of the smallest blocks; every split and
merge, with one neighbour, both or none, happens, as do a request that fits
exactly, one with a rest too small for a header, and one that fails.
In `ring` three slots wrap around, fill and empty at every position.
In `scheduler` nothing is bounded: `kernel_main` makes at most two processes,
and the sends remembered are a set.  The queues have their real size of 255.
In `context` a register shifted by one place needs one interrupt to show, and a
stale slot two with a system call between; four interrupts give every
combination of those.  At EL1 interrupts are unlimited.
In `processes` a process takes three map entries (3, 3 and 2), so that with
words of four the boundary of a word falls at every place within a process; the
three limits are hit in different states: page tables, map, and the heap's own
refusal.  Slots cannot run out before page tables do (`ProcessesAssumption`):
the table has 255 slots, while a page table takes more than 4 KB of a heap of
100 KB (`alloc.c:13`) that also serves the name index; if they could, the last
slot would get an id beyond the table (`pm.c:47`).
Addresses wrap at 1024 there, which is twice what the processes take.  The ten
images have segments that end in the lower addresses, at the last one and beyond
it, alone and beside a sound one, and alignments that push an image up to and
over the stack's reserve; what is asked of `brk` is nothing, less than, and more
than what remains (45,553 states).
In `bptree` six names force two leaves to split, an inner root and back; the
deeper cases start, in `bptree_deep`, from trees grown by twelve and by
fourteen insertions.  From the first, every branch of borrowing, merging and
collapsing at the inner level is taken; the second has used all nodes but
few, so that an insertion that splits a leaf and its parent finds none halfway.
In `files` one process has two descriptors besides the console: descriptors of
different processes are as independent as those of one, so that one file opened
twice, deleted and made anew while open, and two files open at once all occur;
the proof has any number of processes.  A file has 2 bytes at most because KB is
2; sizes below, at and above the limit are asked for, and a third file, which
shares the data of another (`fid` has two values here), is created too.
In `dirs` a directory's arrays have two entries, so that a third file runs over
into `dirs`; numbers of files outgrow `fid`; the path reaches its three levels.
The lists of a directory end where the record does (`RoomForFile`,
`RoomForDir`), and `MaxListed` keeps their sum small: the code goes on writing
into the fields that follow.

In `devices`, three time-outs with two slots let a command be executed after its
slot was given to a newer one and to a third; twelve commands are an
initialisation of four, two whole flushes and two commands more, so that a
flush follows flushes given up at each of their commands; queues of 2 and 4
have one and two pairs of descriptors, and the device's limits 0, 1, 3 and 5
lead to no queue, one too small, a halved one and the whole one.  Three events,
of which one device may give a malformed one or press and release a shift key, come at
every point of the handler; two buffers let a buffer be written again while its
event is processed; a ring of two is full, empty and wraps, with keys dropped,
and its indices wrap at 4 as they do at 2^32, which 256 divides as well.  A
line of eight characters fills the screen of six cells and scrolls, and can be
erased back over both edges; outputs before it leave the cursor at every
column, on a tab too, and beyond the edge.  Three nodes nest in each other,
follow each other, and mix both; two of a kind, or three input devices where two
are kept, occur.

**Fairness.**  `scheduler` assumes strong fairness of `Tick`: the timer's
interrupt line stays asserted until it is taken, and every return to EL0
unmasks it, so a process that makes one system call after the other cannot hold
it off; but weak fairness would not do, because a read of the console disables
it again and again.  Nothing is assumed of processes, of the console (hence
`<>[]reading` in `EveryoneRuns`) or of `full_stop`: a read that never ends,
spinning with the timer masked while no key arrives, is let through by that
exception, and `EveryoneRuns` says nothing of it.  `heap` assumes weak
fairness of the walk, which is a loop of the kernel.  `devices` assumes weak
fairness of the handler's and of `getchar`'s steps, since the kernel goes on
where it is, and of `DeviceRaises`: an event that was written is announced.  It
assumes strong fairness of `vhid_irq_handle` for each device, whose line stays
asserted until it is acknowledged, while interrupts are closed during other
handlers only; and of `timer_tick` during a wait, since the timer comes again
and again.  Nothing is assumed of events or of the UART, and all of it only
where the keyboard driver is the one that runs.  With interrupts masked, as in
a system call, no key would ever arrive, so `KeysGetRead` is about the others.

## 4. What is proved

TLAPS checks these for every value of the constants, from the modules' named
assumptions.

**Heap** (`HeapProofs`).  `HeapInvariant` is the induction.  Its invariant says
that the set of headers is linked in order of address, each next header at the
end of its block, `prev` the inverse of `next`; that no two free blocks are
neighbours; that what callers hold are payloads of allocated blocks; and that
during a walk every block before the current one is allocated or too small.
Without the link between neighbours and ends the merge of a block with
its predecessor could not be shown to keep the tiling, and without "no two free
neighbours" `AllFreedIsOneBlock` is not inductive.  `ListWellFormed`,
`AllocationsDisjoint`, `NoFragmentation` and `FirstFit` follow.

**Ring** (`SchedulerProofs`, as are the next two).  `RingTypeCorrect` ties write
index, read index and count together; `RingImplementsFifo` maps the ring to the
sequence of its `count` bytes from the read index on and shows that every step
is one of `Fifo`.

**Scheduler.**  `TypeCorrect` holds whatever is sent.
`NoProcLost`, `QueuesBounded`, `MailRunsReceiver` assume that no process sends
to itself (`~SelfSend`); the run `self_send` shows that they need to.  Their
invariant lists where two processes can be: the one that does not run is alone
in the low queue (`Waiting`), or alone in the high one after a delivery
(`Raised`), which is the only time `woken` is set.  `ReadIsSent` needs that a box that is full holds
something sent, from whom it says.

**Context switch.**  For any set of processes and any size of the stack.
`ContextTypeCorrect` has the types.  The invariant adds to the properties that every slot of a pcb holds
only values of its own process, the stale ones too (`OwnSlots`), and that the
pcb of a waiting process has what it was interrupted with, where slots are right
(`Preserved`).  `ProcessesApart` and `ResumesExactly` follow.

**B+ tree** (`BPTreeLemmas`, `BPTreeProofs`).  For any names, with any hashes in
common, any values, and any addresses for nodes (`BPTreeAssumption`); the number
of entries in a node is the code's.  The invariant (`IInv`) says that there are
a set of nodes *T* with the root in it, a height for each of them, and for each
the set of entries below it, such that:
- a leaf is at height 0, an inner node's children are in *T*, one lower, and
  have it as their parent, and each node but the root is such a child
  (`Downward`, `Upward`);
- what is below a node are its items, or what is below its children, each of
  these less than the next (`Ordered`); that also makes the children of all
  nodes different ones;
- the i-th key of an inner node separates its child i from child i + 1
  (`Keyed`), and every node is filled within its bounds (`Sized`);
- a leaf whose `next` is in *T* is chained to the one that follows it in this
  order, and one without a `next` is the last (`Chained`);
- *T* is all of `mem`, unless an insertion was cut short.

None of this mentions levels or paths: heights and entries make every condition
one about a node and its children, so that an operation has to be looked at only
where it changes something.  `BPTreeLemmas` has these changes: an entry more or
less on the path to a leaf (`Adding`, `Removing`), neighbours regrouped below
their parent (`Regrouping`), a root that gets or loses a level (`Growing`,
`Collapsing`), a subtree no longer listed (`Losing`); and that a tree in this
sense is the one read off by levels (`InTreeOf`), and a search ends in the leaf
that has the entry if any has (`Path`).  `BPTreeProofs` follows the code, whose
checks for nodes without a parent or not found below it never apply.  An
insertion is followed call by call of `add_parent`: before each, the tree
with the new right half listed next to the left one would be a good one
(`Pending`), and the call is for a node higher than the last (`Awaits`), so that
there are no more calls than nodes; if no node is left the half stays unlisted, and
what remains is a good tree again.  In a deletion exactly one node may be too
small, with a key that is the old least of its child still separating
(`Slim`); each of the cases of `balance_leaf` and `balance_inner` either repairs
it (`Ended`) or merges it and hands on its parent.  That a borrow leaves keys
that separate needs the least hash below a child, which `min_key` finds by going
down first children (`Least`, `Read`).

`TreeCorrect` is the induction.  `TreeBalanced`, `TreeSearchFinds`,
`TreeNoNodeLost` and `TreeChainOrdered` follow from the invariant, and
`TreeOperationsExact`, an action property, from the step lemmas `DeleteType` and
`InsertType`.  `TreeImplementsStore` says that the tree implements `KeyedStore`
as long as the heap has a node free after every step,
`[](Available(mem) # {})`: without it an insertion may fail for lack of a node,
which the store does not know.  In the run `bptree` there are nodes enough, and
`ImplementsStore` is checked without that condition.

**Files** (`FilesProofs`).  For any processes, descriptors, names and sizes.
The invariant adds to `TypeOK` and `OpenMeansFile` that the control block with
number n has the data place n modulo 32 (`NumberedData`): two files whose
numbers are within 32 of each other then have different places, and a read or
write that stops at the end of the file, which is at most `MAX_FILE_SIZE` long,
stays inside its place.  That the first free descriptor exists is a fact about
numbers, so the model lets `open_call` choose a free one that has none below.
`FilesImplementStore` shows step by step that each call is one of
`FileStore`, or changes nothing in it.

**Processes** (`ProcessesProofs`).  For any sizes of a process, of the map and
of its words, any images and any limits.  The inductive invariant (`Laid`) says
that what creation takes goes together: the first *n* slots are taken, with *n*
page tables and *n* times the entries of one process in the map; the entries of
the first *j* processes add up to *j* times its size; and process *k* has the
place in the map and the addresses that follow (`InPlace`).  What `mm_find`
computes from words of 2-bit entries is shown to be the sum of the entries
before (`SumsPiece`, `SumsAppend`), so that it finds the end of the process
before.  `AllOrNothing` and `Disjoint` follow, `HeapsApart` from what
`elf_load_image` does (`Loaded`): an image is refused unless its extent, rounded,
ends below the reserve, and a segment that ends within 64 bits ends within the
extent.  `Kept`, an action property, follows from the steps.  `UnitsAssumption`: the units of all processes fit a
`uint16_t`, which `mm_find` returns; the code has 256 processes of 8 units.
`WideAssumption`: the memory of all processes is in the lower half of the
addresses (the code's 256 MiB follow the kernel, which begins at `0x40000000`,
`_sect.h:8`) and the number of addresses is a multiple of 16.  `ImagesAssumption`: an image has finitely many segments, whose
addresses and sizes are any 64 bits, and its alignment is a power of two; the
proof uses only that it divides the number of addresses.

**Directories** (`DirectoriesProofs`).  For any names, any number of directories
and files and any length of their lists.  The invariant adds to the properties
that a directory that was made carries its own number, as much of it as `fid`
holds (`OwnNumbers`), that no name is refused while the shell runs, which makes
none below the second level (`ShellUnrefused`), and that names that were not
refused lead to numbers given out (`Unrefused`).  Hence, while numbers fit,
`scp in` pushes the place in the table of the directory whose depth it compared
(`PathGoesDown`), and names stay apart (`NamesStayApart`).  `ParentLists` needs
that the parent of a directory is one that exists and lists it (`Parented`).
That is kept because no step takes a directory off a list: `Grown` says that
each directory keeps its number and depth, and its list of directories grows
only, as long as `files` holds every file (`Few`).  `mv` works on the wrong
positions, but stays within `files` then.  That `Few` held before a step if it
holds after it is a lemma of its own (`StillFew`).

**Display** (`DevicesProofs`, as are the next four).  For every size of the
queue and any number of slots, commands and time-outs.  `NeverOutOfStep`: a
mismatch is only ever reported while the device is behind.  Its invariant says
that the queue is set up before the first command and has one size from then on
(`SetUpFirst`), and that the newest used entry is the head of the command the
device executed last (`InStep`).  At a check with the device caught up that
command is the newest, which is the one awaited.
`AllOnScreen` and `OldPictureKept` need to know what a late command can do.
Their invariant (`Pictured`) says that the buffer drawn into has every drawing
(`Buffered`), which part of an operation is left and what the resource has by
then (`Stage`), that an answer found in the slot awaited was given to the
command awaited, whatever was executed before (`Answered`), that the device is
never behind while nothing was given up (`Lockstep`), and that the screen shows
the last picture that was flushed with success or is about to be replaced by the
next (`OnScreen`).  A flush that is given up and executed late copies a newer
picture and never an older one, since it is copied from memory when executed.

**Input.**  For every number of devices and buffers, and whatever the devices
write.  `NothingStranded` is inductive with the types: the cases that matter are
that the handler acknowledges and then looks again at the queue of its device,
and that it takes entries from other queues without touching their interrupts.
`RingImplementsFifo` is about any ring whose indices wrap around at a multiple
of its size.  Its invariant (`RingInv`) says that from the comparison on until
the place is given back the ring is not empty, and that the character `getchar`
holds is still the first: the handler, which can run in between, writes only the
place after the last one (`FreePlace`, `Written`).
`Typing` is about what is still to be made: the events pending at a device, the
one in the handler's hand first, processed from the state its keys are in, end
in what the typist meant (`InTheEnd`).  A step takes the first event off and
processes it, or appends one; both are shown by induction over the events
(`FewerEvents`, `KeyedText`).  It needs that a buffer is in one place only: in
one of the two queues, once, or in the handler's hand (`Alone`); else the
device could write an event over one that was not read.

**Console.**  `LineOnScreen`, for any size of the display and of a run, any
letters, and any text that is printed before.  The invariant says that the
letters typed are in the cells before the cursor, each alone in its cell, that
nothing is drawn from the cursor on (`BlankFrom`), and that the cursor is at
most at the edge of its line (`ConsoleInv`).  A letter more
(`TypeOne`, `ShownMore`) may wrap or scroll, which moves all cells of the line
by as much as the cursor; one less (`ShownLess`) may lead back to the line
before.  Texts are any sequences, and what printing them keeps is shown by
induction over their length (`PrintConsole`).  A letter is none of the two line
ends, which `ConsoleAssumption` says because `gets` takes the codes 32 to 126
only (`io.c:195`).

**Device tree.**  `TreeAsListed`, for any tree.  The invariant adds that the
addresses, interrupts and kinds collected so far are those of the innermost
node, unless it took them over from an inner one (`Collected`), and that no more
input devices are kept than are listed.

**Composition.**  `EachDriver` has all of these as theorems of `DevicesSpec`: a
step of one driver is a stutter of the others.  `TypeCorrect` has the types.

**Model-checked only.**  `AllocTerminates`, `EveryoneRuns` and `KeysGetRead`:
liveness under fairness, which the prover does not reach.

**Induction.**  The library's induction theorems take an operator and cannot be
used.  Where data of any length matters (sums of a map, events, texts, rounds through a
tree) the modules have recursive functions, and the lemmas use induction on a *set* of
numbers (`SetInduction`), which follows from every set of numbers having a least
one (`LeastOf`), which in turn follows from a theorem on well-founded relations.

## 5. What the checks found

**A context switch does not restore the registers** (run `registers`).
`include/manage/_pm.h:9` has slots for x0 to x30 and `boot/proc.S:26` says that
x1 to x30 are restored.  `el0_a64_irq` (`boot/IRV/el0_a64.S:99-113`) saves x10
to slot 9 and x13 to x30 each one slot below its own, and does not save x9, x11
and x12; `_proc` loads each register from its own slot.  Slots 10, 11 and 30
come from the last system call.  `_proc` also leaves x0 in x1 (`proc.S:44-45`).
What does hold is proved: x0, x2 to x8, stack pointer, flags and program counter
come back, and in these and the other general registers nothing ever comes from
another process.  The entries for system calls and for interrupts from EL1 use
the right slots.  The vector registers are left to whoever runs next: with `v`
beside `x` in `OwnRegistersOnly` one switch violates it.

**A process that sends to itself loses the other one** (run `self_send`).
`ptp` means to take the receiver out of the low queue (`expm.c:135`) and takes
out whoever is first.  With one other process that is the receiver, unless the
sender names itself.

**Names lost when a node cannot be allocated.**  `bpt_insert` splits a leaf and
then calls `add_parent`, which may need a node for itself; when there is none it
returns (`fs.c:199`) with the upper half of the entries in a leaf no search
reaches.  `NoNodeLost` and `ChainOrdered` of `bptree_deep` hold as long as that
has not happened, and `OperationsExact` where the operation reports success or
leaves a node free.  The nodes lost keep pointers to nodes that are freed later;
nothing in the tree leads to them but `next`, which no operation follows.
What holds in any case is that the tree stays balanced and
searchable, and that an operation that reports success did exactly what it says.

**Directories.**  A name refused for its depth stays in the index, with the
number of the next directory (`fm.c:109`, `fm.c:142`): `NamesApart` excepts it.
`fm_dir_out` takes a file's id for its position (`fm.c:302`), so that `mv` takes
another file out of the listing, or none.  `fm_dir_in` does not check the length
of `files` (`fm.c:281`); every file is listed in `root` too, and the seventeenth
overwrites its list of directories: `ListedByParent` does not hold without its
first two conditions.  Nor does it hold without `astray`: a process may name the
number its new directory is about to get as the parent, or a later one, and the
entry is lost when that directory's counts are reset (`fm.c:162`).
All this contradicts no text in the repository.

**Files.**  A file opened for appending cannot be appended to, since its offset
is its fixed length, where `fm_write` moves nothing (`syscall.c:318`).
`read_call` at an earlier place still moves the descriptor on (`syscall.c:237`),
possibly beyond the end.  The 33rd file shares the data of the first
(`fm.c:342`), deleted or not.

**Display.**  `gpu_wait_used` counts everything used so far as seen and
compares the newest entry only, so that a command given up makes at most the
commands up to the next catching up fail: `StaysInStep`.  If, after one
time-out, the device is each time slower than the first look of the poll, every
following command finds the entry of the one before and is reported as a
mismatch, though it is executed.  A late command executes what its slot holds
by then, that is, a newer command twice; `ShowsAllDrawn` says that a flush that
succeeds is right all the same.  `OldPictureStays` does not hold after a
time-out, since a late scan-out shows the back buffer while it is drawn into.

**Keyboard.**  The handler looks again only at the queue of the device it was
called for (`vhid.c:508`).  That is enough for `NoEventStranded`, since an event
of another device has its own interrupt.  Keys beyond the 256 of the ring are
counted and dropped.  An input device registered twice (see below) has two
driver records, of which the second's set-up replaces the first's, while the
handler looks again at the first's queue.

**Console.**  Whether a line is full is asked with a cursor that stays where it
was while a run of letters is collected (`io.c:249`), so that a string longer
than the rest of its line is cut off at the edge and not wrapped, and the flush
of its rectangle is refused (`ScreenShowsLine` holds for what `gets` echoes, one
character at a time).

**Device tree.**  What the walk collects is cleared where a node begins
(`dtb.c:145`).  A node with a device of its own and inner nodes loses it; one
that ends right after an inner node with an input device registers that device
again; and of a kind kept once, the interrupt may be that of an earlier device
if the last has none.  `FoundAsListed` says so exactly; the trees of virtual
machines have no inner nodes there.

**Also seen.**  An exception class without an entry in `ec_table` makes the
kernel call address 0.  A process whose image does not load stays allocated
(`meta.c:299`).  A message box, once filled, is never emptied, so that each
process receives one message ever (`expm.c:123`; only a test task that is never run
sets it back), though `ipc_send_call`
reports success for all.  A name whose first hash is taken is refused even if
it is another name, while a deletion compares both (`fs.c:223`, `fs.c:633`).
The frames of `irq_handler_main` fill the 0x8000 bytes of the kernel's stack
after some hundreds of interrupts from EL0.

## 6. Not modelled yet, and the plan

`B_MASTER_FLAG` is 1 and `B_MAIN_FLAG` 6: the build starts `kernel_main`, which
runs the shell.  Code that this build cannot reach, or that cannot work when it
is reached, has no behaviour to be faithful to:

- Network.  `nm_init` sets up only the receive queue and offers it no buffer;
  the transmit queue is never set up, so that an L2 send would write through
  null pointers; `l2_rece` always answers slot 0, and slots are never given
  back.  The loops of `net.c` belong to other builds.
- Block and sound.  `blk_init` and `vsnd_init` are called nowhere, and nothing
  else calls the drivers; with them goes the transport's set-up of version 2.
- Device manager.  Nothing registers a device, so that a search finds none;
  `Files` has that as the failing open.
- The other operations of `gm.c`, its clipboard, and `ltr`: called nowhere.

What could come next is the editor's buffer (`kedt.c`), when the shell's call of
it, now in comments, is back.

Left out for good: register set-up of the interrupt controller and the timer,
reading an input device's identity, the UART's output, pixels and glyphs,
debugging output and the endless test tasks: they keep no state a property could
be about.  The user programs (`usr/`) are submodules
without contents here; what they do is any sequence of system calls.
