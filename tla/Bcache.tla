------------------------------- MODULE Bcache -------------------------------
(***************************************************************************)
(* The buffer cache (bio.c) with its sleep locks (sleeplock.c) over the    *)
(* IDE driver (ide.c) and the disk.                                        *)
(*                                                                         *)
(* What happens under bcache.lock, a sleep lock's spinlock or idelock is   *)
(* one step.  A process uses one buffer at a time, as bread ... brelse: it *)
(* looks, changes the buffer and leaves it to the log (log_write, which    *)
(* sets B_DIRTY), or writes it (bwrite).                                   *)
(***************************************************************************)
EXTENDS Integers, Sequences, SequencesExt, FiniteSets

CONSTANTS
  Procs, NULL,
  Blocks,        \* block numbers
  Vals,          \* contents of a block
  Zero,          \* the contents of every block, and buffer, at first
  NBUF,
  DiskFails      \* may idewait(1) find an error?

\* What the constants are assumed to be.
BcacheConstants ==
  /\ NBUF \in Nat \ {0} /\ DiskFails \in BOOLEAN
  /\ NULL \notin Procs /\ NULL \notin Blocks /\ Zero \in Vals

VARIABLES
  blockno, refcnt, valid, dirty, data, lock,   \* struct buf
  mru,           \* the list from head.next to head.prev
  idequeue,
  disk,          \* the contents of the disk
  cmd,           \* the command the disk works on: its block and data, or NULL
  irq,           \* the disk's interrupt
  pc, want, buf, \* each process: where it is, the block it wants, its buffer
  current,       \* history: the last contents given to each block
  panicked

bufVars == <<blockno, refcnt, valid, dirty, data, lock>>
ideVars == <<idequeue, disk, cmd, irq>>
vars == <<bufVars, mru, ideVars, pc, want, buf, current, panicked>>

Bufs == 1 .. NBUF

Init ==
  /\ blockno = [b \in Bufs |-> NULL] /\ refcnt = [b \in Bufs |-> 0]
  /\ valid = [b \in Bufs |-> FALSE] /\ dirty = [b \in Bufs |-> FALSE]
  /\ data = [b \in Bufs |-> Zero] /\ lock = [b \in Bufs |-> NULL]
  /\ mru = [i \in Bufs |-> NBUF + 1 - i]
  /\ idequeue = <<>> /\ disk = [k \in Blocks |-> Zero] /\ cmd = NULL /\ irq = FALSE
  /\ pc = [p \in Procs |-> "idle"] /\ want = [p \in Procs |-> NULL]
  /\ buf = [p \in Procs |-> 0]
  /\ current = [k \in Blocks |-> Zero] /\ panicked = FALSE

Goto(p, l) == pc' = [pc EXCEPT ![p] = l]

-----------------------------------------------------------------------------
(* bget *)

Hit(k) == {b \in Bufs : blockno[b] = k}

\* Fault: a dirty buffer is taken too.
FreeFault(b) == refcnt[b] = 0

Free(b) == refcnt[b] = 0 /\ ~dirty[b]

\* bget(k) under bcache.lock: the buffer of block k, or the least recently used
\* one that is clean and not in use.
bget(p, k) ==
  /\ pc[p] = "idle"
  /\ want' = [want EXCEPT ![p] = k]
  /\ \/ \E b \in Hit(k) :
          /\ refcnt' = [refcnt EXCEPT ![b] = @ + 1]
          /\ buf' = [buf EXCEPT ![p] = b]
          /\ Goto(p, "lock")
          /\ UNCHANGED <<blockno, valid, dirty, panicked>>
     \/ /\ Hit(k) = {}
        /\ LET lru == SelectSeq(mru, Free) IN
           \/ /\ lru # <<>>
              /\ LET b == Last(lru) IN
                 /\ blockno' = [blockno EXCEPT ![b] = k]
                 /\ valid' = [valid EXCEPT ![b] = FALSE]
                 /\ dirty' = [dirty EXCEPT ![b] = FALSE]
                 /\ refcnt' = [refcnt EXCEPT ![b] = 1]
                 /\ buf' = [buf EXCEPT ![p] = b]
              /\ Goto(p, "lock") /\ UNCHANGED panicked
           \/ /\ lru = <<>> /\ panicked' = TRUE
              /\ UNCHANGED <<blockno, valid, dirty, refcnt, buf, pc>>
  /\ UNCHANGED <<data, lock, mru, ideVars, current>>

\* acquiresleep: the lock, or sleep until its release.
acquiresleep(p) ==
  /\ pc[p] = "lock"
  /\ IF lock[buf[p]] = NULL
     THEN lock' = [lock EXCEPT ![buf[p]] = p] /\ Goto(p, "locked")
     ELSE Goto(p, "asleep") /\ UNCHANGED lock
  /\ UNCHANGED <<blockno, refcnt, valid, dirty, data, mru, ideVars, want, buf, current, panicked>>

-----------------------------------------------------------------------------
(* ide.c *)

\* idestart: a write's data goes to the disk with the command.
idestart(b) ==
  cmd' = [blk |-> blockno[b], write |-> dirty'[b], val |-> data'[b]]

\* iderw: append, start the disk if it is idle, sleep.
iderw(p) ==
  LET b == buf[p] IN
  /\ idequeue' = Append(idequeue, b)
  /\ IF idequeue = <<>> THEN idestart(b) ELSE UNCHANGED cmd
  /\ Goto(p, "io")
  /\ UNCHANGED <<disk, irq>>

\* The disk carries out its command and interrupts.
DiskDone ==
  /\ cmd # NULL /\ ~irq
  /\ disk' = IF cmd.write THEN [disk EXCEPT ![cmd.blk] = cmd.val] ELSE disk
  /\ irq' = TRUE
  /\ UNCHANGED <<bufVars, mru, idequeue, cmd, pc, want, buf, current, panicked>>

\* Start disk on next buf in queue.
StartNext(q) == IF q = <<>> THEN cmd' = NULL ELSE idestart(Head(q))

\* ideintr; a read that fails leaves the data alone.
ideintr ==
  LET b == Head(idequeue) IN
  /\ irq /\ irq' = FALSE
  /\ idequeue' = Tail(idequeue)
  /\ \/ data' = IF dirty[b] THEN data ELSE [data EXCEPT ![b] = disk[cmd.blk]]
     \/ DiskFails /\ ~dirty[b] /\ UNCHANGED data
  /\ valid' = [valid EXCEPT ![b] = TRUE] /\ dirty' = [dirty EXCEPT ![b] = FALSE]
  /\ pc' = [p \in Procs |-> IF pc[p] = "io" /\ buf[p] = b THEN "holding" ELSE pc[p]]
  /\ StartNext(Tail(idequeue))
  /\ UNCHANGED <<blockno, refcnt, lock, mru, disk, want, buf, current, panicked>>

-----------------------------------------------------------------------------
(* bread, log_write, bwrite, brelse *)

\* bread, once it has the lock: read the block unless it is valid.
bread(p) ==
  /\ pc[p] = "locked"
  /\ IF valid[buf[p]] THEN Goto(p, "holding") /\ UNCHANGED <<dirty, data, ideVars>>
     ELSE UNCHANGED <<dirty, data>> /\ iderw(p)
  /\ UNCHANGED <<blockno, refcnt, valid, lock, mru, want, buf, current, panicked>>

\* New contents, left to the log.
log_write(p, v) ==
  /\ pc[p] = "holding"
  /\ data' = [data EXCEPT ![buf[p]] = v] /\ dirty' = [dirty EXCEPT ![buf[p]] = TRUE]
  /\ current' = [current EXCEPT ![want[p]] = v]
  /\ UNCHANGED <<blockno, refcnt, valid, lock, mru, ideVars, pc, want, buf, panicked>>

\* New contents, or the log's, written to disk.
bwrite(p, v) ==
  /\ pc[p] = "holding"
  /\ data' = [data EXCEPT ![buf[p]] = v] /\ dirty' = [dirty EXCEPT ![buf[p]] = TRUE]
  /\ current' = [current EXCEPT ![want[p]] = v]
  /\ iderw(p)
  /\ UNCHANGED <<blockno, refcnt, valid, lock, mru, want, buf, panicked>>

\* brelse: releasesleep ...
releasesleep(p) ==
  /\ pc[p] = "holding"
  /\ lock' = [lock EXCEPT ![buf[p]] = NULL]
  /\ pc' = [q \in Procs |-> CASE q = p -> "release"
                              [] pc[q] = "asleep" /\ buf[q] = buf[p] -> "lock"
                              [] OTHER -> pc[q]]
  /\ UNCHANGED <<blockno, refcnt, valid, dirty, data, mru, ideVars, want, buf, current, panicked>>

\* ... then, under bcache.lock, to the head of the list if nobody waits for it.
brelse(p) ==
  LET b == buf[p] IN
  /\ pc[p] = "release"
  /\ refcnt' = [refcnt EXCEPT ![b] = @ - 1]
  /\ mru' = IF refcnt[b] = 1 THEN <<b>> \o Remove(mru, b) ELSE mru
  /\ Goto(p, "idle") /\ want' = [want EXCEPT ![p] = NULL] /\ buf' = [buf EXCEPT ![p] = 0]
  /\ UNCHANGED <<blockno, valid, dirty, data, lock, ideVars, current, panicked>>

Step(p) == acquiresleep(p) \/ bread(p) \/ releasesleep(p) \/ brelse(p)

Next ==
  /\ ~panicked
  /\ \/ \E p \in Procs : Step(p) \/ \E k \in Blocks : bget(p, k)
     \/ \E p \in Procs, v \in Vals : log_write(p, v) \/ bwrite(p, v)
     \/ DiskDone \/ ideintr

Spec == Init /\ [][Next]_vars

-----------------------------------------------------------------------------
(* Properties *)

TypeOK ==
  /\ blockno \in [Bufs -> Blocks \cup {NULL}] /\ refcnt \in [Bufs -> 0 .. Cardinality(Procs)]
  /\ valid \in [Bufs -> BOOLEAN] /\ dirty \in [Bufs -> BOOLEAN] /\ data \in [Bufs -> Vals]
  /\ lock \in [Bufs -> Procs \cup {NULL}]
  /\ IsInjective(mru) /\ ToSet(mru) = Bufs
  /\ ToSet(idequeue) \subseteq Bufs /\ irq \in BOOLEAN
  /\ pc \in [Procs -> {"idle", "lock", "asleep", "locked", "io", "holding", "release"}]
  /\ buf \in [Procs -> 0 .. NBUF] /\ panicked \in BOOLEAN

\* A block has at most one buffer, and a process that has been given a buffer --
\* though it may have slept for it after bcache.lock was released -- keeps it for
\* the block it asked for: no recycling under a waiting process.
OneBuffer ==
  /\ \A b, c \in Bufs : blockno[b] = blockno[c] /\ blockno[b] # NULL => b = c
  /\ \A p \in Procs : buf[p] # 0 => blockno[buf[p]] = want[p] /\ refcnt[buf[p]] > 0

\* "Only one process at a time can use a buffer", and what bread returns is what
\* the block was last given, by whatever process, whether it reached the disk or
\* waits for the log, and though the buffer was recycled in between.
Coherent ==
  ~DiskFails => \A p \in Procs : pc[p] = "holding" =>
    /\ data[buf[p]] = current[want[p]]
    /\ \A q \in Procs : q # p /\ buf[q] = buf[p] => pc[q] \in {"lock", "asleep", "release"}

\* The queue is in step with the disk: a command is under way exactly when a
\* buffer is queued, it is the first one's, and every process that waits for the
\* disk has its buffer in the queue once: no request is lost or served twice.
QueueServed ==
  /\ IsInjective(idequeue)
  /\ cmd # NULL <=> idequeue # <<>>
  /\ cmd # NULL => cmd.blk = blockno[Head(idequeue)] /\ cmd.write = dirty[Head(idequeue)]
  /\ \A p \in Procs : pc[p] = "io" => lock[buf[p]] = p /\ buf[p] \in ToSet(idequeue)
  /\ \A i \in DOMAIN idequeue : \E p \in Procs : pc[p] = "io" /\ buf[p] = idequeue[i]

\* Whoever sleeps for a buffer sleeps while another process has it.
AsleepMeansLocked == \A p \in Procs : pc[p] = "asleep" => lock[buf[p]] # NULL

\* p is in bread or bwrite.
InBread(p) == pc[p] \in {"lock", "asleep", "locked", "io"}
=============================================================================
