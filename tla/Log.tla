-------------------------------- MODULE Log ---------------------------------
(***************************************************************************)
(* The file system log of log.c, over a buffer cache (bio.c) and a disk    *)
(* that writes one block at a time and survives a crash.                   *)
(*                                                                         *)
(* A file system call of process p is begin_op, any number of blocks       *)
(* changed with bread, log_write and brelse, and end_op.  begin_op and     *)
(* end_op are one step each, under log.lock; log_write is two, because it  *)
(* tests the log's length before it takes the lock.  Every disk write of   *)
(* commit and of recovery is a step, with a crash possible between any     *)
(* two.  A block is one sector (BSIZE 512), so its write is atomic.        *)
(***************************************************************************)
EXTENDS Integers, Sequences, FiniteSets

CONSTANTS
  Blocks,               \* the blocks outside the log
  Procs, NULL,
  LOGSIZE, MAXOPBLOCKS,
  nlog,                 \* blocks of the log on disk, the header's included
  OpBlocks,             \* bound: different blocks an operation logs
  MaxOps, MaxCrashes    \* bounds

ASSUME LogSizes ==
  /\ LOGSIZE \in Nat /\ MAXOPBLOCKS \in Nat /\ nlog \in Nat /\ OpBlocks \in Nat
  /\ MAXOPBLOCKS >= 2

\* An operation's share fits into the log (param.h:11), and the log is on disk,
\* except for the header's block (mkfs.c:25).
ASSUME LogRoom == MAXOPBLOCKS <= LOGSIZE /\ LOGSIZE <= nlog
ASSUME LogBounds == MaxOps \in Nat /\ MaxCrashes \in Nat
ASSUME LogProcs == NULL \notin Procs /\ IsFiniteSet(Procs)

VARIABLES
  disk, dlog, dhead,    \* on disk: home blocks, log blocks, header
  cache, dirty,         \* every block's buffer: contents and B_DIRTY
  holder,               \* who has the buffer's sleep lock
  lh,                   \* log.lh, the block numbers
  outstanding, committing,
  boot,                 \* where initlog is, "up" after it; "panic", "overrun"
  pc,                   \* each process: where it is in a file system call
  cur,                  \* the block it is logging
  wrote,                \* the blocks it has logged in this operation
  stamp,                \* what it writes: its operation's number
  tail,                 \* the loops' index in commit and recovery
  ops, crashes,         \* how many so far
  oversize              \* history: an operation of this transaction has logged
                        \* more than its share

diskVars == <<disk, dlog, dhead>>
bufVars == <<cache, dirty, holder>>
logVars == <<lh, outstanding, committing>>
procVars == <<pc, cur, wrote, stamp, ops>>
vars == <<diskVars, bufVars, logVars, procVars, boot, tail, crashes, oversize>>

Data == 0 .. MaxOps
Goto(p, l) == pc' = [pc EXCEPT ![p] = l]

\* wakeup(&log), and the caller p goes on at l.
WakeupAndGoto(p, l) ==
  pc' = [q \in Procs |-> IF q = p THEN l
                         ELSE IF pc[q] = "asleep" THEN "retry" ELSE pc[q]]

\* A disk from mkfs, and the kernel about to call initlog.
Init ==
  /\ disk = [b \in Blocks |-> 0]
  /\ dlog = [i \in 1 .. nlog - 1 |-> 0] /\ dhead = <<>>
  /\ cache = disk /\ dirty = [b \in Blocks |-> FALSE]
  /\ holder = [b \in Blocks |-> NULL]
  /\ lh = <<>> /\ outstanding = 0 /\ committing = FALSE
  /\ boot = "read_head"
  /\ pc = [p \in Procs |-> "idle"] /\ cur = [p \in Procs |-> NULL]
  /\ wrote = [p \in Procs |-> {}] /\ stamp = [p \in Procs |-> 0]
  /\ tail = 0 /\ ops = 0 /\ crashes = 0 /\ oversize = FALSE

-----------------------------------------------------------------------------
(* Operations *)

\* The operation that begins might exhaust log space.
NoRoom == Len(lh) + (outstanding + 1) * MAXOPBLOCKS > LOGSIZE

\* begin_op, under log.lock: sleeps on &log while a commit runs or the log
\* might not have room for another operation.
begin_op(p) ==
  /\ boot = "up" /\ pc[p] \in {"idle", "retry"}
  /\ pc[p] = "idle" => ops < MaxOps
  /\ IF committing \/ NoRoom
     THEN Goto(p, "asleep") /\ UNCHANGED outstanding
     ELSE Goto(p, "op") /\ outstanding' = outstanding + 1
  /\ wrote' = [wrote EXCEPT ![p] = {}]
  /\ IF pc[p] = "idle"
     THEN ops' = ops + 1 /\ stamp' = [stamp EXCEPT ![p] = ops + 1]
     ELSE UNCHANGED <<ops, stamp>>
  /\ UNCHANGED <<diskVars, bufVars, lh, committing, cur, boot, tail, crashes,
                 oversize>>

\* The caller has the buffer of b, changes it and calls log_write.
Modify(p, b) ==
  /\ boot = "up" /\ pc[p] = "op"
  /\ holder[b] = NULL
  /\ b \in wrote[p] \/ Cardinality(wrote[p]) < OpBlocks
  /\ holder' = [holder EXCEPT ![b] = p]
  /\ cache' = [cache EXCEPT ![b] = stamp[p]]
  /\ cur' = [cur EXCEPT ![p] = b]
  /\ Goto(p, "log_write")
  /\ UNCHANGED <<diskVars, dirty, logVars, wrote, stamp, ops, boot, tail,
                 crashes, oversize>>

\* log_write's two tests, made without log.lock.
LogWriteTest(p) ==
  /\ boot = "up" /\ pc[p] = "log_write"
  /\ IF Len(lh) >= LOGSIZE \/ Len(lh) >= nlog - 1 \/ outstanding < 1
     THEN boot' = "panic" /\ UNCHANGED pc
     ELSE Goto(p, "append") /\ UNCHANGED boot
  /\ UNCHANGED <<diskVars, bufVars, logVars, cur, wrote, stamp, ops, tail,
                 crashes, oversize>>

\* Log absorption: the block is in the header already.
Absorbed(b) == \E i \in 1 .. Len(lh) : lh[i] = b

\* begin_op reserved MAXOPBLOCKS blocks for an operation.  Two of them are not
\* for it to use: log_write's limit is a block less than the log's size, and its
\* test fails when the log is full, also for a block that is in it already.
WithinShare(s) == Cardinality(s) + 2 <= MAXOPBLOCKS

\* Fault: the buffer is not pinned in the cache.
AddBlockFault(p) ==
  LET b == cur[p] IN
  /\ lh' = IF Absorbed(b) THEN lh ELSE Append(lh, b)
  /\ holder' = [holder EXCEPT ![b] = NULL]
  /\ wrote' = [wrote EXCEPT ![p] = @ \cup {b}]
  /\ oversize' = (oversize \/ ~WithinShare(wrote[p] \cup {b}))
  /\ cur' = [cur EXCEPT ![p] = NULL]
  /\ Goto(p, "op")
  /\ UNCHANGED <<diskVars, cache, dirty, outstanding, committing, stamp, ops, boot,
                 tail, crashes>>

\* The block number is added unless it is there already, the buffer is marked
\* dirty; then the caller's brelse.
AddBlock(p) ==
  LET b == cur[p] IN
  /\ lh' = IF Absorbed(b) THEN lh ELSE Append(lh, b)
  /\ dirty' = [dirty EXCEPT ![b] = TRUE]
  /\ holder' = [holder EXCEPT ![b] = NULL]
  /\ wrote' = [wrote EXCEPT ![p] = @ \cup {b}]
  /\ oversize' = (oversize \/ ~WithinShare(wrote[p] \cup {b}))
  /\ cur' = [cur EXCEPT ![p] = NULL]
  /\ Goto(p, "op")
  /\ UNCHANGED <<diskVars, cache, outstanding, committing, stamp, ops, boot, tail,
                 crashes>>

\* Others have filled the log since the test: the block number or, in commit, the
\* block itself is written behind its end.
Overruns(p) == ~Absorbed(cur[p]) /\ (Len(lh) >= LOGSIZE \/ Len(lh) >= nlog - 1)

\* The rest of log_write, under log.lock.  Nothing is said of what a machine does
\* that has overrun the log, but that it may be stopped.
LogWriteAppend(p) ==
  /\ boot = "up" /\ pc[p] = "append"
  /\ IF Overruns(p)
     THEN boot' = "overrun" /\ UNCHANGED <<diskVars, bufVars, logVars,
                                           procVars, tail,
                                           crashes, oversize>>
     ELSE AddBlock(p)

\* Fault: commits with operations outstanding.
EndOpCommits(p) ==
  /\ boot = "up" /\ pc[p] = "op" /\ ~committing
  /\ outstanding' = outstanding - 1
  /\ committing' = TRUE
  /\ Goto(p, IF lh = <<>> THEN "done" ELSE "write_log")
  /\ tail' = 0
  /\ UNCHANGED <<diskVars, bufVars, lh, cur, wrote, stamp, ops, boot, crashes,
                 oversize>>

\* end_op, under log.lock: the last operation commits, any other wakes those
\* waiting for room.
end_op(p) ==
  /\ boot = "up" /\ pc[p] = "op"
  /\ outstanding' = outstanding - 1
  /\ boot' = IF committing THEN "panic" ELSE boot
  /\ IF outstanding = 1
     THEN committing' = TRUE /\ tail' = 0
          /\ Goto(p, IF lh = <<>> THEN "done" ELSE "write_log")
     ELSE WakeupAndGoto(p, "idle") /\ UNCHANGED <<committing, tail>>
  /\ UNCHANGED <<diskVars, bufVars, lh, cur, wrote, stamp, ops, crashes, oversize>>

-----------------------------------------------------------------------------
(* commit, by the process whose end_op was the last *)

\* write_log: one block from the cache to the log.
WriteLog(p) ==
  /\ boot = "up" /\ pc[p] = "write_log"
  /\ holder[lh[tail + 1]] = NULL
  /\ dlog' = [dlog EXCEPT ![tail + 1] = cache[lh[tail + 1]]]
  /\ IF tail + 1 = Len(lh)
     THEN Goto(p, "write_head") /\ tail' = 0
     ELSE tail' = tail + 1 /\ UNCHANGED pc
  /\ UNCHANGED <<disk, dhead, bufVars, logVars, cur, wrote, stamp, ops, boot,
                 crashes, oversize>>

\* write_head: the transaction is committed.
WriteHead(p) ==
  /\ boot = "up" /\ pc[p] = "write_head"
  /\ dhead' = lh
  /\ Goto(p, "install")
  /\ UNCHANGED <<disk, dlog, bufVars, logVars, cur, wrote, stamp, ops, boot,
                 tail, crashes, oversize>>

\* install_trans: one block from the log to its home, through its buffer.
Install(b) ==
  /\ holder[b] = NULL
  /\ disk' = [disk EXCEPT ![b] = dlog[tail + 1]]
  /\ cache' = [cache EXCEPT ![b] = dlog[tail + 1]]
  /\ dirty' = [dirty EXCEPT ![b] = FALSE]
  /\ UNCHANGED <<dlog, dhead, holder, outstanding, committing, cur, wrote, stamp,
                 ops, crashes, oversize>>

\* The next block, and lh.n = 0 after the last.
InstallTrans(p) ==
  /\ boot = "up" /\ pc[p] = "install"
  /\ Install(lh[tail + 1])
  /\ IF tail + 1 = Len(lh)
     THEN Goto(p, "clear") /\ tail' = 0 /\ lh' = <<>>
     ELSE tail' = tail + 1 /\ UNCHANGED <<pc, lh>>
  /\ UNCHANGED boot

\* write_head again: the transaction is erased from the log.
ClearHead(p) ==
  /\ boot = "up" /\ pc[p] = "clear"
  /\ dhead' = lh
  /\ Goto(p, "done")
  /\ UNCHANGED <<disk, dlog, bufVars, logVars, cur, wrote, stamp, ops, boot,
                 tail, crashes, oversize>>

\* Fault: nobody is woken.
CommitDoneFault(p) ==
  /\ boot = "up" /\ pc[p] = "done"
  /\ committing' = FALSE /\ oversize' = FALSE
  /\ Goto(p, "idle")
  /\ UNCHANGED <<diskVars, bufVars, lh, outstanding, cur, wrote, stamp, ops,
                 boot, tail, crashes>>

\* The end of end_op, under log.lock.
CommitDone(p) ==
  /\ boot = "up" /\ pc[p] = "done"
  /\ committing' = FALSE /\ oversize' = FALSE
  /\ WakeupAndGoto(p, "idle")
  /\ UNCHANGED <<diskVars, bufVars, lh, outstanding, cur, wrote, stamp, ops,
                 boot, tail, crashes>>

-----------------------------------------------------------------------------
(* The buffer cache, crashes and recovery *)

\* bget recycles the buffer of b, unless it is in use or dirty, and a later
\* bread reads the block from disk.
Recycle(b) ==
  /\ boot = "up" /\ holder[b] = NULL /\ ~dirty[b]
  /\ cache' = [cache EXCEPT ![b] = disk[b]]
  /\ UNCHANGED <<diskVars, dirty, holder, logVars, procVars, boot, tail,
                 crashes, oversize>>

\* The machine stops and boots again: only the disk is left.
Crash ==
  /\ crashes < MaxCrashes
  /\ crashes' = crashes + 1
  /\ boot' = "read_head"
  /\ cache' = disk /\ dirty' = [b \in Blocks |-> FALSE]
  /\ holder' = [b \in Blocks |-> NULL]
  /\ lh' = <<>> /\ outstanding' = 0 /\ committing' = FALSE
  /\ pc' = [p \in Procs |-> "idle"] /\ cur' = [p \in Procs |-> NULL]
  /\ wrote' = [p \in Procs |-> {}] /\ tail' = 0 /\ oversize' = FALSE
  /\ UNCHANGED <<diskVars, stamp, ops>>

\* recover_from_log: read_head ...
ReadHead ==
  /\ boot = "read_head"
  /\ lh' = dhead /\ tail' = 0
  /\ boot' = IF dhead = <<>> THEN "clear" ELSE "install"
  /\ UNCHANGED <<diskVars, bufVars, outstanding, committing, procVars, crashes,
                 oversize>>

\* ... install_trans ...
RecoverInstall ==
  /\ boot = "install"
  /\ Install(lh[tail + 1])
  /\ IF tail + 1 = Len(lh)
     THEN boot' = "clear" /\ tail' = 0 /\ lh' = <<>>
     ELSE tail' = tail + 1 /\ UNCHANGED <<boot, lh>>
  /\ UNCHANGED pc

\* ... and write_head of the empty header.
RecoverClear ==
  /\ boot = "clear"
  /\ dhead' = lh
  /\ boot' = "up"
  /\ UNCHANGED <<disk, dlog, bufVars, logVars, procVars, tail, crashes, oversize>>

-----------------------------------------------------------------------------
commit(p) == WriteLog(p) \/ WriteHead(p) \/ InstallTrans(p) \/ ClearHead(p) \/ CommitDone(p)
log_write(p) == LogWriteTest(p) \/ LogWriteAppend(p)
recover_from_log == ReadHead \/ RecoverInstall \/ RecoverClear

Next ==
  \/ \E p \in Procs : begin_op(p) \/ log_write(p) \/ end_op(p) \/ commit(p)
  \/ \E p \in Procs, b \in Blocks : Modify(p, b)
  \/ \E b \in Blocks : Recycle(b)
  \/ recover_from_log
  \/ Crash

Spec == Init /\ [][Next]_vars

-----------------------------------------------------------------------------
(* Properties *)

\* The type of the state.
TypeOK ==
  /\ disk \in [Blocks -> Data] /\ cache \in [Blocks -> Data]
  /\ dlog \in [1 .. nlog - 1 -> Data]
  /\ dhead \in Seq(Blocks) /\ lh \in Seq(Blocks)
  /\ dirty \in [Blocks -> BOOLEAN] /\ holder \in [Blocks -> Procs \cup {NULL}]
  /\ outstanding \in 0 .. Cardinality(Procs) /\ committing \in BOOLEAN
  /\ boot \in {"read_head", "install", "clear", "up", "panic", "overrun"}
  /\ oversize \in BOOLEAN
  /\ pc \in [Procs -> {"idle", "asleep", "retry", "op", "log_write", "append",
                       "write_log", "write_head", "install", "clear", "done"}]
  /\ cur \in [Procs -> Blocks \cup {NULL}] /\ wrote \in [Procs -> SUBSET Blocks]
  /\ stamp \in [Procs -> Data] /\ ops \in Data /\ crashes \in 0 .. MaxCrashes
  /\ tail \in 0 .. nlog - 1

\* What recovery makes of the disk if the machine stops now.
Recovered ==
  [b \in Blocks |-> IF \E i \in 1 .. Len(dhead) : dhead[i] = b
                    THEN dlog[CHOOSE i \in 1 .. Len(dhead) : dhead[i] = b]
                    ELSE disk[b]]

\* Whenever the machine stops, also in commit or in recovery, what comes back
\* is a disk as it was at some moment with no operation under way: the effects
\* of whole operations and of all that were committed before.
Atomic == INSTANCE AtomicDisk WITH
  durable <- Recovered,
  current <- IF boot \in {"up", "panic", "overrun"} THEN cache ELSE Recovered,
  active <- outstanding

ImplementsAtomicDisk == Atomic!Spec

\* A panic, or nothing is known.
Stopped == boot \in {"panic", "overrun"}

InOp == {p \in Procs : pc[p] \in {"op", "log_write", "append"}}
Committer == {p \in Procs : pc[p] \in {"write_log", "write_head", "install", "clear", "done"}}

\* "The logging system only commits when there are no FS system calls active"
\* (log.c:12-13): outstanding counts the operations under way, and there is a
\* committing process exactly when committing is set, and then none of them.
CommitAlone ==
  boot = "up" =>
    /\ outstanding = Cardinality(InOp)
    /\ Cardinality(Committer) = IF committing THEN 1 ELSE 0
    /\ committing => outstanding = 0

\* With nothing under way, everything done so far is durable (log.c:163-171).
DurableWhenIdle == boot = "up" /\ outstanding = 0 /\ ~committing => Recovered = cache

\* The blocks that the operations under way have logged.
Logged == UNION {wrote[p] : p \in InOp}

\* begin_op's reservation holds for operations that keep to their share: the
\* room left is enough for what those under way may still log (log.c:132, 216-230).
RoomReserved ==
  boot = "up" /\ ~committing /\ ~oversize =>
    Len(lh) + outstanding * MAXOPBLOCKS
      <= LOGSIZE + Cardinality(Logged)

\* Nobody sleeps in begin_op with nobody left to wake it (log.c:155-158, 169).
SleeperHasWaker ==
  \A p \in Procs : boot = "up" /\ pc[p] = "asleep" => committing \/ outstanding > 0

\* While operations keep to their share, log_write finds room in the log, and
\* never overruns it though it tests its length without the lock; it finds an
\* operation under way, and end_op no commit (log.c:150, 216-219).
NoPanic == Stopped => oversize

\* Commits are alone, cover all that ended before them, have room, unless one of
\* their operations logs more than its share, and leave nobody asleep behind them
\* (log.c:124-171).
LogSafe ==
  /\ TypeOK /\ CommitAlone /\ DurableWhenIdle /\ RoomReserved /\ SleeperHasWaker /\ NoPanic
=============================================================================
