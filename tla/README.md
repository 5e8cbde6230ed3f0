# Verification of the xv6 network driver

TLA+ models of the kernel, the shell and some programs under `src/xv6-public`,
runs that model-check small instances of them (TLC), and machine-checked proofs
for all instances (TLAPS). The repository is xv6 for x86-64 with a driver for the
Intel e1000 card and an Ethernet/IP/UDP stack. Driver and stack are the core of
this development; the rest of the kernel, and the programs that keep state that
is hard to test, follow.

Contents: 1 the system, 2 modules, 3 runs and properties, 4 bounds and fairness,
5 findings, 6 known behaviours, 7 proofs, 8 what is only model-checked, 9 not
modelled.

## 1. The system

| Part | Source | State | Operations |
|---|---|---|---|
| e1000 driver | `e1000.c` | two descriptor rings, `tx_bufs`, `rx_bufs`, `e1000_lock`; the card's TDH/TDT/RDH/RDT/ICR | `e1000_init`, `e1000_transmit`, `e1000_intr`, `e1000_recv` |
| network stack | `net.c` | ports and their queues of pages, `netlock`, `seen_arp` | `sys_bind`, `sys_recv`, `sys_send`, `net_rx`, `ip_rx`, `arp_rx` |
| page allocator | `kalloc.c` | `kmem.freelist`, `kmem.use_lock` | `kalloc`, `kfree` |
| spin locks | `spinlock.c`, `trapasm.S` | `locked`, `cpu`, `ncli`, `intena`, the interrupt flag | `acquire`, `release`, `pushcli`, `popcli` |
| processes | `proc.c`, `sysproc.c`, `trap.c` | the process table, `ticks` | `fork`, `exit`, `wait`, `kill`, `sleep`, `wakeup`, `scheduler`, `sys_sleep` |
| log, buffers, disk | `log.c`, `bio.c`, `ide.c`, `sleeplock.c` | log header in memory and on disk, cached blocks, request queue | `begin_op`, `log_write`, `end_op`, recovery, `bget`, `iderw`, `ideintr` |
| inodes and names | `fs.c`, `sysfile.c` | inode cache, bitmap, block lists, directories | `iget`, `iput`, `ialloc`, `bmap`, `writei`, `namex`, `create`, `unlink`, `chdir` |
| files and pipes | `file.c`, `pipe.c`, `sysfile.c` | `ftable`, descriptors, ring of bytes | `open`, `dup`, `close`, `pipe`, `fileread`, `filewrite`, `pipewrite`, `piperead` |
| memory, exec | `vm.c`, `exec.c`, `proc.c` | page tables | `allocuvm`, `deallocuvm`, `copyuvm`, `growproc`, `exec` |
| terminal | `console.c`, `kbd.c`, `printf.c` | edit buffer, history, modifiers, `cons.lock` | `consoleintr`, `consoleread`, `cprintf`, `panic`, `kbdgetc` |
| start of the CPUs | `main.c`, `kalloc.c`, `vm.c`, `lapic.c`, `entry.S` | the page for a stack, `cpu`, `started` | `main`, `startothers`, `mpenter` |
| programs | `sh.c`, `grep.c`, `wc.c`, `umalloc.c`, `mkfs.c` | descriptors, the line, the heap, the image | `runcmd`, the parser, `malloc`, `free` |

How the core interacts. A process calls `send`: the stack allocates a page,
builds the frame and calls `e1000_transmit`, which puts the page in the transmit
ring and frees it on a later call, when the card has set DD. The card writes
received frames into the receive ring and interrupts CPU 0; `e1000_intr`
acknowledges the interrupt and `e1000_recv` copies each frame into a fresh page
and passes it to `net_rx`, which queues it on a port (waking the sleepers in
`recv`), answers it (ARP) or drops it. `recv` takes a frame off its port's queue
under `netlock` and copies it out after releasing the lock. Pages thus travel
through six owners, under three locks and the card's registers, and the owner
changes on every error path.

What is hard about it: the card runs concurrently and shares no lock with the
driver; full and empty rings have the same registers; a frame can arrive between
the last look at the ring and the return from the interrupt, or between a
receiver's test and its sleep; memory runs out at any allocation; a call fails
after its page was handed over. The same shapes come back in the rest: tests and
sleeps that a wakeup, a kill or a commit may fall between, counters that wrap,
reference counts over error paths, a crash between two disk writes.
`PROJECT.json` lists the hazards at their lines with the properties that would
catch them.

## 2. Modules

One module per component; a definition's name is the function's where it can be.
`PROJECT.json` ("map") gives the lines of each definition.

Network.

- `Kmem`: `kalloc` and `kfree`. The free list is a set, since no caller can tell
  free pages apart; each call is one step because of `kmem.lock`. A freed page's
  content becomes `Junk`, as `kfree` fills it.
- `E1000`: driver and card. Every store of the driver that the card can see is a
  step of its own (test of DD, program the descriptor, write TDT; test, copy,
  clear DD, write RDT, deliver). The build is `-O0`, so stores happen in program
  order. Any number of callers run `e1000_transmit`; there is one interrupt
  context because `pci.c` routes the card's interrupt to CPU 0 and handlers run
  with interrupts off. The card (external) owns descriptors from head up to and
  not including tail, equal registers meaning none; it latches an interrupt on
  the rising edge of its cause. The stack above is an environment that owns
  pages, writes them, frees them and passes them down.
- `NetStack`: `net.c` with `sleep`, `wakeup` and `kill`, in steps of the two
  locks `netlock` and `ptable.lock`. Queues are kept as the code keeps them
  (nodes linked through pages). The driver is an environment that hands over
  received pages and accepts or refuses sent ones.
- `PortQueues`: what bind, recv and ip_rx promise: a bounded FIFO per bound port.
- `NetDriver`: `NetStack` over `E1000`, one allocator. Calls across the boundary
  are joint steps; each side's other steps are steps of the other's environment.

Storage.

- `Log`: transactions, group commit and recovery; a crash is possible between any
  two disk writes, also of recovery. Operations log any number of blocks; the
  history variable `oversize` notes one that exceeds its share of the reservation
  (`MAXOPBLOCKS - 2`, see finding 3), after which `log_write` may panic, or overrun
  the log since it tests its length without the lock. `AtomicDisk` is its promise:
  an operation is on the disk whole or not at all.
- `FileWrite`: `fileread` and `filewrite` over a shared `f->off`, with the blocks
  that `writei`, `bmap` and `balloc` log for each of a write's transactions.
- `Bcache`: buffers, sleep locks, the IDE queue, its interrupt and the disk.
- `FileData`: block bitmap, `bmap`, `itrunc`, `readi`, `writei`; `ByteFiles` is
  its promise, a sequence of bytes per file.
- `Icache`: inode numbers, entries, references and link counts under create,
  open, link, unlink and close. `Namespace`: paths, `namex`'s order of locks, and
  the tree that mkdir, unlink and chdir make.

Kernel.

- `Spinlock`: the instructions of `acquire` and `release` with the interrupt
  flag, interrupts that come between them, and frames of nested handlers.
- `Proc`: the process table, in steps of `ptable.lock`. `Ticks`: `sys_sleep`, the
  clock and the tests of `killed` on the way to user space.
- `Files`: descriptors, `ftable` and the ends of pipes. `Pipe`: the ring, with
  `BytePipe` as its promise, a FIFO of bytes.
- `Vm`: the page tables of processes, level by level, over a set of physical
  pages; every `kalloc` may fail because pages run out. `sbrk` shrinks by any
  amount, also to nothing; the history variable `emptied` notes a process that has
  done so and, as `growproc` has it, keeps its size (section 6).
- `Boot`: `main` on the first CPU and `mpenter` on the others, as the sequence of
  what each does that another can see; `kalloc` access by access, because until
  `kinit2` it takes no lock.

Terminal and programs.

- `Console`: the ring `r`, `w`, `e`, line editing, history and readers;
  `LineInput` is its promise. `Kbd`: scan codes and modifiers. `Printing`:
  `cprintf`, `printf` and `panic` with `cons.lock`.
- `Shell`: `main`'s and `runcmd`'s forks, waits and descriptors, with every `fork`
  and `pipe` that may fail and the panic of `fork1` wherever it is called.
  `ShellParse`: the parser,
  against a grammar written as a relation. `ReadLine`: the line editor with
  completion, and `cd`. `Filters`: grep and wc. `Umalloc`: `malloc` and `free`.
  `Mkfs`: the image.

`MC*` modules are the instances TLC checks; those of `NetStack`, `NetDriver`,
`FileWrite` and `Console` by itself are at the end of these modules or in their
cfg. `E1000Proofs`, `NetStackInv`,
`NetStackProofs`, `SpinlockProofs`, `LogProofs`, `IcacheProofs`, `PipeProofs` and
`ProcProofs` hold the theorems.

Data are abstracted to what properties tell apart. Frames, payloads and blocks
are numbers or model values; a received frame's number is its order of arrival; a
path is its elements; a block is a few cells. A conversion a property is about
(numbers printed, scan codes, patterns, command lines, block numbers in an
indirect block) is computed as the code computes it.

Operators introduced as faults in their comments are wrong variants of the
definition that follows them. No specification uses them; they exist so that each
property can be seen to fail when the code has that fault.

## 3. Runs and properties

A run checks one instance. Components that share no variable are grouped in one
run: `MCInodes`, `MCStorage`, `MCKernel`, `MCTerminal` and `MCPrograms` add a variable `part` that says of which component a behaviour is;
the others stay as they start. A property of a component is guarded by
`part = ...`. Each property is the conjunction of the invariants of one idea;
they are stated one by one, with comments, in the component's module.

| Run | Instance | Property | What it says |
|---|---|---|---|
| `e1000` | rings of 2, 2 callers, 5 pages, 2 payloads, 3 frames sent and received together, one of them bad | `DriverSafe` | every page has one owner, and the card only reads programmed descriptors whose page is kept for it |
| | | `TxFaithful` | the wire shows what `e1000_transmit` accepted, in order; DD tells whose a descriptor is, unless the ring has stalled full |
| | | `RxSafe` | card and driver never own the same descriptor; `net_rx` gets frames whole and in order; no interrupt is lost |
| | | `Progress` | an accepted frame is taken, a sent one goes out (unless stalled) |
| `e1000_tx_full` | transmit ring of 4, 4 sends | `NotDoneMeansInUse` | violated, see Findings |
| `netstack` | 2 receivers, one of them a sender, the other killed at any time, 1 port, limit 1, 4 pages | `StackSafe` | pages have one holder, what `recv` copies is the frame it took, nobody sleeps on a non-empty queue unwoken |
| | | `RecvProgress` | who waits on a port that has a datagram goes on, or another receiver has taken it |
| `netdriver` | rings of 2, 1 process, 7 pages, 2 frames, 2 sends | `EndToEndOrder` | frames reach the receivers of a port in the order the card accepted them, through well-formed lists |
| | | `Contracts` | each of stack and driver is the environment the other assumes |
| | | `ImplementsFifo` | the lists implement `PortQueues` |
| `storage` | log of 6 blocks, shares of 3, 2 processes, 2 operations of up to 2 blocks, 2 crashes; 3 readers and writers of 2 files; 2 buffers for 2 processes; 2 sleepers, a clock of 4; 3 slots, 1 CPU; 3 CPUs starting, 13 pages | `LogSafe` | one commit at a time, alone; what returned is durable; a sleeper has a waker; while operations keep to their share there is room for them and no panic |
| | | `ImplementsAtomicDisk` | an operation is on the disk whole or not at all, over crashes |
| | | `ChunksAdjoin` | reads and writes through one file neither overlap nor leave gaps, also when one fails |
| | | `SleepRight` | `sleep(n)` lasts n ticks also when `ticks` wraps |
| | | `BootRight` | no page or stack is given twice during start-up, no lock is used before it works |
| | | `WaitersGoOn` | whoever waits for the log, an inode, a buffer, the disk, ticks or another CPU's start goes on, or the machine has panicked |
| | | `ProcessesEnd` | killed processes exit, from a `sleep` too; init reaps what it inherits |
| `filewrite_log` | the code's sizes: 2 writers of 13 blocks, log of 30, shares of 10 | `FitsLog` | violated, see Findings |
| `inodes` | 3 inodes, 2 entries, 2 processes; 4 blocks of 2 cells; 12 calls on 2 names, `..` and the root, 3 inodes; 3 blocks in 2 buffers | `InodesSafe` | references and links are counted right, and an inode is freed by one process alone |
| | | `BlocksSafe` | the bitmap marks exactly the blocks of inodes, each once; an unlocked inode is on disk as in memory |
| | | `TreeSafe` | what has a path from the root is a tree with right link counts and `..` |
| | | `NoCircularWait` | no processes wait for each other's inode locks in a circle |
| | | `BuffersSafe` | a block has one buffer and `bread` returns its last content; no request is lost |
| | | `ImplementsByteFiles` | `readi` returns what `writei` wrote; only a full disk stops them |
| `icache_reuse` | as `inodes`, the inode cache alone, 2 inodes, 3 entries | `LinkedIsAllocated` | violated, see Findings |
| `kernel` | 2 CPUs, 2 locks, 2 levels of interrupts; 4 slots; 3 files, 2 descriptors, 1 pipe page; 13 pages, tables of 3 levels | `LocksSafe` | mutual exclusion, interrupts off while holding, the flag restored, no panic |
| | | `ProcsSafe` | a process runs on one CPU, has a live parent and a pid of its own; `wait` is not slept through |
| | | `FilesSafe` | `ref`, inode references and the ends of pipes agree with who refers to them, over all error paths |
| | | `SpacesSafe` | a page has one owner and the guard page stays hidden, over all failures; a process that has not given back all its memory has the pages of its size |
| `terminal` | rings of 2 with 8 keys, of 3 with 7 keys, of 2 for two readers; 7 keyboard keys, 3 messages by 2 CPUs, 4-bit numbers | `InputSafe` | what is edited is not what may still be read, up to the key of finding 4; no reader sleeps through a line |
| | | `KeysAndLines` | readers get the lines as edited, and history has the lines committed whole, up to that key |
| | | `CommittedIsTaken` | what is committed is read |
| | | `KeysRight` | modifiers follow the keys that are down; a key gives the character it is marked with |
| | | `OutputRight` | messages stay whole, numbers read back, a panic comes to its end and silences the rest |
| `console_recall` | ring of 4, 8 keys, 1 reader | `CommittedNotEdited` | violated, see Findings |
| `programs` | a ring of 2 for requests of 3, one of 2 processes killed; for the programs see `MCPrograms` | `PipeSafe` | no lost wakeup; the page is freed once, after both ends |
| | | `ImplementsBytePipe` | bytes come out as they went in, over wrapping counters |
| | | `PipesRelease` | closing an end lets whoever waits at the other go on; a command line ends, whatever of it fails, with no process left, and the prompt comes back or, if `main`'s own fork failed, the shell is gone |
| | | `ShellRuns` | programs are wired as the line says, also when forks fail; `;` orders |
| | | `ParsesGrammar` | the parser gives the command of the grammar, for lines up to 5 characters |
| | | `LineRight` | the line is what was typed, completed and erased; cd gets its argument, if the line left room for its newline |
| | | `FiltersRight` | the matcher agrees with the meaning of patterns; grep prints the lines that match of what it has not dropped, and drops nothing of a file whose lines fit its buffer; wc does not depend on how read cuts the input |
| | | `ImageRight` | the image holds the files, and the bitmap covers what is used |
| | | `HeapRight` | heap blocks tile the heap; the free list is ordered and joined |

## 4. Bounds and fairness

Bounds. A ring of 2 wraps, fills and empties within a few frames, bytes or keys.
Pages, slots, descriptors, buffers, inodes and blocks are so few that every
allocation fails somewhere. Counters that wrap (`ticks`, `r`/`w`/`e`, `nread` and
`nwrite`, numbers in `Printing`) have a modulus of 4 to 16 instead of 2^32; the
modulus is larger than the ring, as in the code. `MaxSends`, `MaxFrames`,
`MaxOps`, `MaxCrashes`, `MaxPid`, `MaxMessages` and the like only end histories;
two or three of each are enough for one operation to overtake another. The proofs
remove the bounds for the driver, the network stack, spin locks, the log, the
inode cache, pipes and processes.

Reductions. In the network runs an allocation takes the lowest free page
(`LowestFirst`), since free pages cannot be told apart. `WithinBudget` and
`OnePageSent` hold back new calls and arrivals only. Run `netdriver` has one
process, so that its frames are received by one; several receivers are in
`netstack` and in the theorems. Processes, CPUs and inodes are symmetric where a
run has no liveness property. Two runs have a VIEW: in `inodes` the content of free
blocks is left out (`balloc` clears the block it takes), in `kernel` states that
differ in which page is where are one, with `OneOwner` part of the view.
`UntilReuse` ends a behaviour of the inode cache at the race the run
`icache_reuse` is about. In the same way `Press` of `Console` takes any keys in any order up to a history key on a
line that is committed in part (`TakesBack`), which the run `console_recall` is
about; `TooLong` bounds a line to a lap of the counters. `Log` has no such end: an
operation may log more than its share, and what is said of the time after is said
under `oversize`. A sleeper in `Ticks` is not overtaken by a whole lap of the
clock. The disk of `Bcache` does not fail in the runs (`DiskFails`).

Sizes that matter. In `storage` the log has 6 blocks with its header and reserves 3
for an operation, of which 1 is its share; operations log up to 2 blocks, so that
two of them run at a time, reservations are used up to the last block, and a share
can be exceeded. With 2 blocks in all this log does not fill up: that it does so
only after a share was exceeded, and what then becomes of the disk, is proved for
all sizes (section 7). `FileWrite` does meet a full log. Its writes take several
transactions, cross from direct to indirect blocks and run into the largest file;
`filewrite_log` has the sizes of the code. `FileData` reads and writes across the
end of a block and of the file. In `kernel` 13 pages are the fewest with which an
exec can succeed, so that every allocation of fork, exec and sbrk fails in some
behaviour and succeeds in another; sizes of processes go from 0 to `KERNBASE`.

Deadlock is checked in `kernel` and `terminal`. In the other runs a system whose
bounded work is done, or that a panic has stopped, has nothing left to do.

Fairness. Code that runs goes on (weak fairness of its steps): the scheduler goes
round the table, and handlers and critical sections are straight-line. Strong
fairness is used where a step competes: for a lock or buffer that others take and
release again and again (`acquire`'s xchg loop is not fair by itself, so this is
an assumption about the hardware), for being scheduled among processes that are
RUNNABLE again and again, and for interrupts, which wait until they are enabled.
The card and the disk answer. New calls, kills, crashes and arrivals are never
fair. The comments at `Fairness` in each module give the reason for each conjunct.
Conjuncts of different components are merged into one fairness condition of a
disjunction: in a behaviour only one of the components ever moves.

## 5. Findings

Four runs refute what the code's own comments say.

1. `e1000_tx_full`. `e1000_transmit` tests only the descriptor at the tail. When
   all `TX_RING_SIZE` descriptors are waiting, TDT comes round to TDH, the card
   sees an empty ring, DD is never set, and every later call returns -1, where
   the comment (`e1000.c:143-148`) takes a clear DD for a descriptor in use and
   tells the caller to retry. `TxFaithful` (checked and proved) says that this is
   the only such state.
2. `icache_reuse`. `iput` frees the inode on disk holding neither `icache.lock`
   nor the inode's lock, and invalidates the cached entry afterwards; in between
   `ialloc` may allocate the same number and find the entry with type 0, so that
   a directory ends up naming a free inode. The comments say that an inode is
   allocated if its type on disk is non-zero (`fs.c:113-115`) and that it is only
   modified by code that has locked it (`fs.c:130-132`).
3. `filewrite_log`. `filewrite` computes its chunks from `LOGSIZE` where
   `param.h:10` speaks of `MAXOPBLOCKS`: 13 blocks of data with bitmap, inode and
   indirect block in one operation that has reserved 10. Two processes that write
   6656 bytes each to new files fill the log, and `log_write` panics, where the
   comment (`file.c:127-130`) says that chunks are small "to avoid exceeding the
   maximum log transaction size". The room is less than the reservations by two
   more: mkfs gives the log `LOGSIZE` blocks with the header, one less than
   `begin_op` counts on, and `log_write` tests for room also when the block is in
   the log already (`log.c:216`). `LogSafe` (checked and proved) says that
   operations of at most `MAXOPBLOCKS - 2` blocks never meet the panic.
4. `console_recall`. `clear_line` takes `input.e` back to `line_start`, which only
   a newline moves (`console.c:207`), while control-D and a full ring commit too.
   A history key on such a line edits what readers have been promised, where the
   comments (`console.c:198, 204, 214`) speak of the line being edited.
   `KeysAndLines` and `InputSafe` say that this is the only way to it.

## 6. Known behaviours

What the models show of the code beyond its comments. Properties are stated so
that they hold with these; each says where.

- `net.c:171`: `recv` does not look at `killed`: a killed receiver leaves with the
  next datagram. `RecvProgress` is about ports that have a datagram.
- `net.c:482`: the page of an ARP reply that `e1000_transmit` refuses is lost;
  ownership counts lost pages as an owner (`leaked`).
- `ide.c:120`: after a disk error `ideintr` marks the buffer valid without data.
  `BuffersSafe` is checked of a disk that does not fail.
- `pipe.c:86`: a kill between the test of `killed` and the sleep is noticed only
  when the other end is used or closed. `pipe.c:88`: a killed writer returns
  without waking the reader of what it wrote. `PipeSafe` allows the latter once
  some process has been killed; `PipesRelease` says that closing is enough.
- `proc.c:445`: `kill(0)`, or a kill of a slot whose fork failed, marks a slot
  that is not in use, and `allocproc` does not clear `killed`.
- `sysfile.c:268`, `fs.c:621`: a directory removed while it is somebody's current
  one still takes new entries, and its `..` may name a directory that has been
  freed meanwhile. `TreeSafe` is about what has a path from the root.
- `vm.c:384`: `copyuvm` loses a page when `mappages` fails (`lost`). `vm.c:100`:
  `setupkvm` uses what `kalloc` returned untested; the model stops there.
- `proc.c:129`: `growproc` takes `deallocuvm`'s result 0 for a failure. `sbrk(-sz)`
  thus frees all pages and returns -1 with `sz` as it was; a later fork of the
  process ends in `copyuvm`'s panic. `SpacesSafe` says that only processes that
  have done so (`emptied`) lack pages of their size, and only their fork panics.
- Where the machine panics there is nobody left to go on: `WaitersGoOn` takes a
  panic of the log or of `filewrite` for an outcome. `LogSafe` and finding 3 say
  when there is one.
- `sh.c:324, 338-347`: when the fork of `main` itself fails, `fork1`'s panic ends
  the shell (and init tries to start another). When a fork in a pipeline fails, the part
  that has been started runs on. `PipesRelease` has both.
- `sh.c:318`: cd drops the line's last character for its newline; on a line that
  filled the buffer it was none. `LineRight` is about lines that end in one.
- `grep.c:29`: a read that ends before any newline drops the beginning of the
  line; with a pipe that may be a short line, so that what grep prints depends on
  how read cuts the input. `FiltersRight` has that nothing is dropped for files
  only. For what was not dropped, and for wc, the cuts make no difference.
- `mkfs.c:161`: the root directory's size is rounded up to the next block even when
  its entries fill blocks exactly, which leaves a hole `readi` fills with zeroes.
  mkfs does not compare what it allocates with `FSSIZE`; files of the instance fit.
- The keyboard's echo goes to the screen without `cons.lock`; `OutputRight` is
  about messages. The user's `printf` writes each character by itself.

## 7. Proofs

`E1000Proofs`: for every ring size of at least 2 and every set of callers, pages
and payloads.

- `Base` = types, `LockHeld` (who is between acquire and release holds the lock),
  `Locals` (which locals hold a page where), `TxDmaSafe` and `TailReady` (a
  programmed descriptor is ready before the tail moves) is inductive. It has to
  be proved at once: that the card's next read is of a page (so that `wire` is
  well typed) needs `TxDmaSafe`, which needs the lock. From it: `TypeCorrect`,
  `LockExcludes`, `TxDmaIsSafe`. With `Base`, `PageOwnership` is inductive:
  `PagesHaveOneOwner`, `CardReadsOwnPages`, and together `DriverIsSafe`.
- `RxRing` is inductive over `Base` (`RxRingDiscipline`). With `CauseLatched`
  (cause set implies interrupt latched) it gives `InterruptNotLost`: when the
  loop's test fails the range is empty. With page ownership, the copy keeps its
  content until `net_rx` has it: `FramesInOrder`. Together: `RxIsSafe`.
- The transmit ring is `Flowing` (the frames from head to tail are the last ones
  submitted, in order) or `Stalled` (full to the last descriptor);
  `WireIsFaithful` and `StallsOnlyWhenFull` follow, together `TxIsFaithful`.

Assumptions: NULL is no page and no context, rings have at least 2 entries,
payloads are numbers.

`NetStackInv`, `NetStackProofs`: for any set of processes, ports and pages, any
limit of a queue and any frames and payloads.

- Lists. `Nodes(q)` follows `next` from a port's head by a recursive function on
  the numbers. That it is a function at all (`WalkSteps`) is induction over
  numbers, done through a least counterexample instead of the library's induction
  theorems: of two paths from one head the first difference is impossible, and
  paths of every length exist. `WalkUnique` then says that a sequence that begins at
  the head and goes on with `next` is the list. That is all that the steps need:
  `NodesUnlink` and `NodesLink` write down the list after `recv` takes the first
  node or `ip_rx` appends one, and `NodesSame` keeps the list when links of other
  pages change.
- `IInv` = `TypeOK`, `LockInv` (one context is between acquire and release of
  `netlock`, and of `ptable.lock`), `CallInv` (what the locals of a call hold at
  each place), `ListInv` (a list has as many nodes as its count, all different; tail
  and head are its ends), `CopyIntact`, `NoLostWakeup`, and that some pair of
  functions `kind` and `who` is `Owned`: it labels every page with the one
  variable that holds it and the process, port or node whose it is.
  `StackOwnership` alone is not inductive, and is a statement about all pairs of
  holders: with the labels, "no other holder has this page" is that a page has
  one label, and a step is the relabelling of the one page that changes hands
  (`Relabelled`, `AloneMoved`, `ProcMoved`). A frame's page is labelled with its
  node, so that it goes with the node from the queue to the call that copies it.
  `NetStackInv` has the lists, the invariant and the steps that leave the queues
  alone; `NetStackProofs` bind, receive and `ip_rx`, and the theorem `StackSafety`.
- `StackImplementsFifo`: under `IInv` every step is one of `PortQueues` or a
  stutter, where a port's queue is the sequence of contents of its nodes' frames.
  A step that writes or frees a page changes no queue, because the page's label is
  not that of a queued frame.

Assumptions: `NullNotPage`, `RxPagesFixed`, `QueueLimit` (at least 1),
`ContentsNat` (frames and payloads are numbers other than the junk that `kfree`
writes) and `ContextsApart` (processes, the interrupt context and NULL differ).

`SpinlockProofs`: for any set of CPUs and any number of locks.

- `IInv` = `TypeOK`, `FramesInv` (a handler runs above at most one interrupted
  frame, which has no lock and is outside the locks or about to turn interrupts
  off), `OwnerInv` (a lock a frame has is locked, by it alone, and recorded in
  `lk->cpu` but at the two ends), `CountInv` (`ncli` counts the locks held and the
  acquire or release under way), `FlagInv` (the interrupt flag, and what `popcli`
  will make of it) and no panic. `MutualExclusion` alone is not inductive: that
  nobody releases a lock it does not have rests on `lk->cpu`, that a CPU does not
  wait for itself rests on the flag, and the flag rests on `ncli`. From it:
  `LocksExclude`, `InterruptsOff`, `InterruptsRestored`, `LockPanicsUnreached` and,
  together, `LocksAreSafe`.

Assumptions: NONE is no CPU, there is a lock, and locks are taken in order (a
CPU acquires a lock above those it has), which is the guard of `AcquireReads`.

`LogProofs`: for a log of any size, operations of any size, and any number of
blocks, processes, operations and crashes.

- `IInv` = `TypeOK`, `ControlInv` (outstanding operations are counted, one process
  commits and then none is under way), `BufferInv` (a locked buffer belongs to the
  process that logs it; one that is neither locked nor dirty is as on disk; the
  dirty ones are those logged and not yet installed), `RoomInv` (what the
  operations under way have logged is in the header, once, and they leave room
  for the rest) and `PhaseInv` (how far commit or recovery has come, and what the
  log, the header and the home blocks hold then). `RoomReserved` is not inductive
  alone: it needs that each operation's blocks are in the header and few, and
  `end_op` uses that a union has at most the sum of the sizes (`UnionBound`).
  `RoomInv` is about transactions in which no operation has exceeded its share
  (`~oversize`). After one has, either the machine runs on and the rest of `IInv`
  holds as before, since a block that is appended has passed the test for room;
  or it has stopped, by `log_write`'s panic or by running over the log's end
  (`HaltInv`), and all that is left to know is that the header on disk is one that
  recovery can use. `LogInv` = `IInv \/ HaltInv` is inductive. From it:
  `LogSafety`.
- `LogImplementsAtomicDisk`: under `LogInv` every step is one of `AtomicDisk` or a
  stutter. Only writing the header changes what recovery would make of the disk
  (`Recovered`), and it changes it to what the cache holds; installing and
  clearing leave it (`InstallRecovered`, `ClearRecovered`), in commit and in
  recovery alike, so that a crash is a crash of the abstract disk wherever it
  comes.

Assumptions: `LogSizes`, `LogProcs` (finitely many processes), `LogBounds` and
`LogRoom`: `MAXOPBLOCKS <= LOGSIZE <= nlog`, as `param.h` and `mkfs.c` have it.
Nothing is assumed of how much an operation logs.

`IcacheProofs`: for any finite sets of processes and names, and any number of
inodes and cache entries.

- `IInv` = `TypeOK`, `RefsCounted` (an entry's `ref` is the number of calls and
  open files that have it; an inode has one entry), `EntryInv` (an entry in use has
  a number), `LockInv` and `CallInv` (who has which entry and which lock at each
  place), `NameInv` (the directory's entry a call works on), `ValidInv` and
  `CopyInv` (an entry that has been locked is valid, and a valid one is the inode
  on disk), `AloneInv` and `NewInv` (who frees or makes an inode has its entry
  alone, and the inode has no link) and `LinksCounted` (the link count is the
  number of names plus the number of calls between the count and the entry;
  allocated is being in use). `FreedAlone` follows, and with it `InodesSafety`.
  The parts need each other: that `iput` finds `ref` 1 and `nlink` 0 means
  that nobody else can reach the inode only because both numbers are exact, and
  they stay exact because nobody else can reach it.
- The counts are cardinalities. A step moves one call, file or name, so that it
  changes each set by at most one member; no induction over sets is needed.
- `ValidInv`, `CopyInv`, `AloneInv`, `NewInv` and `LinksCounted` are about
  behaviours in which no `iget` has found the entry of an inode that `iput` is
  freeing (`~raced`); after that they fail, which is finding 2. `RefsCounted`,
  the locks and the types hold with it. So the race of the finding is the only
  way in which these calls can lose an inode.

Assumptions: `IcacheSizes` (there is an inode and an entry), `NullNotProc` and
`FiniteSystem` (finitely many processes and names, so that the counts are
numbers).

`PipeProofs`: for a ring of any size, counters of any larger width, and any
processes and requests.

- `IInv` = `TypeOK`, `LockInv` (one process is between acquire and release),
  `EndsInv` (the page is freed after both ends were closed, each by the last
  process that had it), `SleepInv` (who sleeps at an empty or full ring with
  the other end open, or was killed) and `TodoInv` (where a writer or reader is
  in its request). `PipeSafety` follows.
- `PipeImplementsQueue`: the bytes between `nread` and `nwrite`, modulo the width
  and the ring size, are the queue of `BytePipe`. The lemmas about remainders
  say that the ring size divides the width, so that the place of a byte does not
  jump when the counters wrap, and that a store at `nwrite` changes no byte that
  is still to be read.

Assumptions: `PipeSizes` (the ring size divides the width of the counters),
`PipeProcs`, and `PipeRequests` (requests are sequences of bytes).

`ProcProofs`: for any number of CPUs and slots.

- `IInv` = `TypeInv`, `CpuInv` (running and on a CPU are the same, one CPU each),
  `ForkInv` (whoever is in fork has a slot of its own that is EMBRYO, with the
  parent it should have), `FamilyInv` (a parent can still wait; init does not
  end; unused slots have no parent), `PidInv` (pids of slots in use are different
  and below `nextpid`) and `WaitNotLost`. `NoOrphans` needs `ForkInv`: a slot
  handed out by `allocproc` gets its parent outside `ptable.lock`, and is not
  the child of a process that exits meanwhile, because the parent is the one in
  fork. `WaitNotLost` needs that a parent is never its own child and that a
  zombie is nobody's parent. From it: `ProcSafety`.

Assumptions: `ProcConstants` (there are slots and pids, `IO` is not a slot). `Proc`
is only instantiated, so they are a hypothesis of the theorem and an assumption of
`MCKernel`.

Finite sets. The induction theorems of the library cannot be used; what needs
induction over a finite set (`UnionBound`, and `FirstSlot`: the smallest of a set
of slots is one of them) is proved from a minimal counterexample
(`MinimalSubset`), which exists because strict inclusion of finite sets is well
founded.

## 8. Only model-checked

- Liveness under fairness, which the prover does not handle: `Progress`,
  `RecvProgress`, `WaitersGoOn`, `ProcessesEnd`, `CommittedIsTaken`,
  `PipesRelease`, and the end of a panic in `OutputRight`.
- What needs induction over data: the parser, matcher, number conversion, image
  and line editor are recursive operators, compared with reference definitions
  over all inputs up to a bound (`ParsesGrammar`, `FiltersRight`, `OutputRight`,
  `ImageRight`, `LineRight`); paths, page tables and block lists are followed to
  any depth (`TreeSafe`, `SpacesSafe`, `BlocksSafe`, `ImplementsByteFiles`).
- The stack over the driver (`EndToEndOrder`, `Contracts`): what is proved of each
  side is proved against an environment that may do anything the other side does;
  that the two fit is checked on the instance.
- Not proved: `FilesSafe`, `ChunksAdjoin`, `BuffersSafe`, `NoCircularWait`,
  `SleepRight`, `BootRight`, `InputSafe`, `KeysAndLines`, `KeysRight`, `ShellRuns`,
  `HeapRight`.

## 9. Not modelled

- The boot loader and the kernel's own page tables: sequential machine code that
  runs once, on one CPU, before there is state to share. `Boot` starts at `main`.
- Programming of interrupt controllers, PCI and the processor table: parsing and
  register writes; what they establish (the card's interrupt goes to CPU 0, edge
  triggered) is in `E1000`'s initial state and `irq`.
- Dispatch and fetching of system call arguments, string routines, the cells of
  the screen, the serial port's polling: no state that two steps could disagree
  about.
- `memide.c` (an alternative to `ide.c` without a queue); byte order in mkfs;
  header fields and checksums of packets, which the code fills in or ignores but
  never decides on beyond well-formed or not.
- `cpu->intena` across `swtch`, `procdump`, device files in `fs.c`.
- User programs other than the shell, grep, wc and mkfs: straight-line clients
  and tests of the calls.

Parts that share no variable in the code (or only through a lock whose steps the
models keep) are checked side by side, not composed; the one composition is the
stack over the driver. The file system's modules assume of each other what their
interfaces say: `Namespace` and `Icache` take an inode's content as given, and
`FileData` and `Log` take a block as given, where `Bcache` shows that a buffer has
it.
