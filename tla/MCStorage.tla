------------------------------ MODULE MCStorage -----------------------------
(***************************************************************************)
(* The log and the writes that are cut into its transactions, and what     *)
(* must come about elsewhere in the kernel: the buffer cache (module       *)
(* MCInodes has it for safety), sleeps and ticks, the process table        *)
(* (module MCKernel has it for safety) and the start of the CPUs, for TLC. *)
(* They share no variable: each behaviour is one of a component, and the   *)
(* others stay as they start.                                              *)
(***************************************************************************)
EXTENDS Log, TLC

CONSTANTS f1, f2, p1, p2, p3, c1, IO

VARIABLES
  part,               \* the component this behaviour is of
  wlh, woutstanding, lock, off, size, wpc, i, n1, r, from, todo, chunks, panicked,
  blockno, refcnt, valid, bdirty, data, block, mru, idequeue, bdisk, cmd, irq,
  bpc, want, buf, current, bpanicked,
  ticks, tickslock, tpc, killed, ticks0, n, seen,
  state, pid, parent, pkilled, chan, nextpid, cpu, ppc, np, ppanicked,
  use_lock, klock, freelist, locking, conslock, code16, sn, runnable, power,
  scpu, stack, started, spc, sub, sr, given

\* Readers and writers: p1 and p2 share an open file, p3 has another.
SharedFile == (p1 :> f1) @@ (p2 :> f1) @@ (p3 :> f2)

W == INSTANCE FileWrite WITH
  Procs <- {p1, p2, p3}, Files <- {f1, f2}, FileOf <- SharedFile,
  Old <- 6, Wanted <- 4, Bytes <- 24, BSIZE <- 4, NDIRECT <- 5, MAXFILE <- 11,
  LOGSIZE <- 14, MAXOPBLOCKS <- 7, nlog <- 14,
  lh <- wlh, outstanding <- woutstanding, pc <- wpc

B == INSTANCE Bcache WITH
  Vals <- {0}, Zero <- 0, NBUF <- 2, DiskFails <- FALSE,
  dirty <- bdirty, lock <- block, disk <- bdisk, pc <- bpc, panicked <- bpanicked

T == INSTANCE Ticks WITH
  Procs <- {p1, p2}, NoOne <- NULL, Mod <- 4, Lengths <- {0, 2}, pc <- tpc

P == INSTANCE Proc WITH
  CPUs <- {c1}, NPROC <- 3, MaxPid <- 3, NoOne <- 0,
  killed <- pkilled, pc <- ppc, panicked <- ppanicked

\* Three CPUs; the start takes 10 pages, so the processes get 3.
S == INSTANCE Boot WITH
  ncpu <- 3, NoOne <- 3, MaxPages <- 13, n <- sn, cpu <- scpu, pc <- spc, r <- sr

ASSUME W!FileWriteConstants
ASSUME B!BcacheConstants
ASSUME T!TickConstants
ASSUME P!ProcConstants
ASSUME S!BootConstants

wvars == <<wlh, woutstanding, lock, off, size, wpc, i, n1, r, from, todo, chunks,
           panicked>>
bvars == <<blockno, refcnt, valid, bdirty, data, block, mru, idequeue, bdisk,
           cmd, irq, bpc, want, buf, current, bpanicked>>
tvars == <<ticks, tickslock, tpc, killed, ticks0, n, seen>>
pvars == <<state, pid, parent, pkilled, chan, nextpid, cpu, ppc, np, ppanicked>>
svars == <<use_lock, klock, freelist, locking, conslock, code16, sn, runnable, power,
           scpu, stack, started, spc, sub, sr, given>>
all == <<part, vars, wvars, bvars, tvars, pvars, svars>>

OfLog(A) == part = "log" /\ A /\ UNCHANGED <<part, wvars, bvars, tvars, pvars, svars>>
OfWrite(A) == part = "filewrite" /\ A /\ UNCHANGED <<part, vars, bvars, tvars, pvars, svars>>
OfCache(A) == part = "bcache" /\ A /\ UNCHANGED <<part, vars, wvars, tvars, pvars, svars>>
OfTicks(A) == part = "ticks" /\ A /\ UNCHANGED <<part, vars, wvars, bvars, pvars, svars>>
OfProc(A) == part = "proc" /\ A /\ UNCHANGED <<part, vars, wvars, bvars, tvars, svars>>
OfBoot(A) == part = "boot" /\ A /\ UNCHANGED <<part, vars, wvars, bvars, tvars, pvars>>

MCInit ==
  /\ part \in {"log", "filewrite", "bcache", "ticks", "proc", "boot"}
  /\ Init /\ W!Init /\ B!Init /\ T!Init /\ P!Init /\ S!Init
MCNext ==
  \/ OfLog(Next) \/ OfWrite(W!Next) \/ OfCache(B!Next) \/ OfTicks(T!Next)
  \/ OfProc(P!Next) \/ OfBoot(S!Next)

\* Processes go on.  Log: in a file system call, which changes finitely many
\* blocks and then ends.  Writers: one waiting in begin_op or ilock is woken when
\* it may go on; another may get in first, but each write takes finitely many
\* rounds.  Cache: a process releases its buffers, one that sleeps for a buffer
\* gets it if it is released again and again.  Recovery runs, and the disk and
\* its interrupt answer.  Ticks: the clock ticks and interrupts every process, and
\* acquire gets a lock that is released again and again.
\* Processes of the table: every CPU scans the whole table, so a process that is
\* RUNNABLE again and again is run; a process in the kernel goes on; the timer's
\* interrupt, held back in system calls, comes in user space; a killed process is
\* made to exit; what processes wait for comes; and init waits for its children
\* for ever.  Start: every CPU goes on, and what it waits for is not taken again
\* and again.
\* (In one behaviour only one of the components moves, so fairness of a
\* disjunction of theirs is fairness of each; a process is either RUNNABLE or
\* RUNNING, so fairness of Schedule or yield lets neither state last; the disk's
\* interrupt waits until it is taken.)
Fairness ==
  /\ \A p \in Procs :
       LET k == IF p = p1 THEN 1 ELSE 2 IN
       /\ WF_all(\/ OfLog(log_write(p) \/ commit(p)) \/ OfCache(B!Step(p))
                 \/ OfTicks(T!Kernel(p) \/ T!trap(p, "timer"))
                 \/ OfProc(P!KernelStep(k)))
       /\ SF_all(\/ OfLog(end_op(p))
                 \/ OfCache(B!acquiresleep(p) /\ bpc'[p] = "locked")
                 \/ OfCache(B!releasesleep(p)) \/ OfTicks(T!Acquire(p))
                 \/ OfProc(P!Schedule(k) \/ P!yield(k)))
  /\ WF_all(OfProc(P!KernelStep(3))) /\ SF_all(OfProc(P!Schedule(3) \/ P!yield(3)))
  /\ \A k \in 1 .. 3 :
       LET p == CASE k = 1 -> p1 [] k = 2 -> p2 [] k = 3 -> p3 IN
       WF_all(\/ OfWrite(W!Step(p)) \/ OfBoot(S!Step(k - 1))
              \/ OfProc(pkilled[k] /\ (P!exit(k) \/ P!InitExits(k))))
  /\ WF_all(OfLog(recover_from_log) \/ OfCache(B!DiskDone) \/ OfProc(P!wakeup(IO)))
  /\ SF_all(OfCache(B!ideintr) \/ OfTicks(T!Tick) \/ OfProc(P!CallWait(P!initproc)))

MCSpec == MCInit /\ [][MCNext]_all /\ Fairness

\* Processes reading and writing through one open file neither overlap nor leave
\* gaps, also when a write fails (file.c:103-107, 141-150).
ChunksAdjoin == W!TypeOK /\ W!ChunksAdjoin

\* Whoever waits goes on, or the machine panics: in begin_op for the commit
\* (log.c:124-171), in a write for space and for the inode (file.c:140-145), in
\* bread and bwrite for the buffer and the disk (bio.c:95-116, ide.c:100-165), in
\* sleep(n) for the ticks, however kill and the clock interleave with it
\* (sysproc.c:70-80, trap.c:46-54), and at the start of the CPUs for the others,
\* until all are in the scheduler (main.c:58-65, 92-101).  Of p1: nothing tells
\* the processes apart.
WaitersGoOn ==
  \/ part = "log" /\ pc[p1] = "asleep"
  \/ part = "filewrite" /\ wpc[p1] # "done"
  \/ part = "bcache" /\ B!InBread(p1)
  \/ part = "ticks" /\ T!InSleep(p1)
  \/ part = "boot"
  ~>
  \/ part = "log" /\ (pc[p1] # "asleep" \/ Stopped)
  \/ part = "filewrite" /\ (wpc[p1] = "done" \/ panicked # "no")
  \/ part = "bcache" /\ (bpc[p1] = "holding" \/ bpanicked)
  \/ part = "ticks" /\ ~T!InSleep(p1)
  \/ part = "boot" /\ S!AllStarted

\* sleep(n) succeeds only after n ticks, also when ticks wraps (sysproc.c:70-80).
SleepRight == part = "ticks" => T!SleptEnough

\* A process that has been killed exits, wherever in the kernel it sleeps and also
\* in a sleep of any length, and a zombie that init has inherited, or that is its
\* own, is reaped (proc.c:208-257, 435-456, sysproc.c:73-76, trap.c:103-114,
\* syscall.c:184).
ProcessesEnd ==
  \A k \in {2, 3} :
    /\ (part = "proc" /\ P!MustExit(k)) \/ (part = "ticks" /\ killed[p1])
       ~> (part = "proc" /\ P!Ended(k)) \/ (part = "ticks" /\ tpc[p1] = "dead")
    /\ part = "proc" /\ P!MustBeReaped(k) ~> P!Reaped(k)

\* The CPUs start without being given a page or a stack twice, though kalloc
\* takes no lock until kinit2, and without a lock that is not usable yet
\* (main.c:39-40, 58-65, 92-101; kalloc.c:34-37, 73-78; vm.c:52-55;
\* entry.S:151-155).
BootRight == S!PagesApart /\ S!OwnStacks /\ S!LocksUsable
=============================================================================
