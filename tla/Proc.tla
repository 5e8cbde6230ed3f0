-------------------------------- MODULE Proc --------------------------------
(***************************************************************************)
(* The process table (proc.c): allocproc, fork, exit, wait, kill, sleep,   *)
(* wakeup and the scheduler, on several CPUs.                              *)
(*                                                                         *)
(* What happens under ptable.lock is one step; the stores that fork and    *)
(* allocproc make without it are steps of their own.  System calls run     *)
(* with interrupts off, so the timer takes the CPU away in user space only *)
(* (and between, where the process sleeps).                                *)
(***************************************************************************)
EXTENDS Integers, FiniteSets, FiniteSetsExt

CONSTANTS
  CPUs,
  NPROC,
  MaxPid,        \* bound: no fork once nextpid has passed this
  IO,            \* a channel processes sleep on other than in wait
  NoOne          \* a CPU's proc = 0

\* What the constants are assumed to be.
ProcConstants ==
  NPROC \in Nat \ {0} /\ MaxPid \in Nat \ {0} /\ IO \notin 0 .. NPROC /\ NoOne = 0

VARIABLES
  state, pid, parent, killed, chan,     \* struct proc
  nextpid,
  cpu,           \* each CPU's current process
  pc,            \* where each process's kernel thread is
  np,            \* fork's new process
  panicked

slotVars == <<state, pid, parent, killed, chan>>
vars == <<slotVars, nextpid, cpu, pc, np, panicked>>

Slots == 1 .. NPROC
initproc == 1
Live(p) == state[p] # "UNUSED"
Children(p) == {q \in Slots : parent[q] = p}

\* userinit has made the first process, in the first slot.
Init ==
  /\ state = [p \in Slots |-> IF p = initproc THEN "RUNNABLE" ELSE "UNUSED"]
  /\ pid = [p \in Slots |-> IF p = initproc THEN 1 ELSE 0]
  /\ parent = [p \in Slots |-> 0] /\ killed = [p \in Slots |-> FALSE]
  /\ chan = [p \in Slots |-> 0]
  /\ nextpid = 2
  /\ cpu = [c \in CPUs |-> NoOne]
  /\ pc = [p \in Slots |-> "user"] /\ np = [p \in Slots |-> 0]
  /\ panicked = FALSE

Runs(p) == state[p] = "RUNNING"
At(p, l) == Runs(p) /\ pc[p] = l
Goto(p, l) == pc' = [pc EXCEPT ![p] = l]

\* wakeup1(c) on a table whose states are s.
wakeup1(s, c) == [p \in Slots |-> IF s[p] = "SLEEPING" /\ chan[p] = c THEN "RUNNABLE" ELSE s[p]]

\* sched: back to the scheduler of this CPU, which forgets the process.
sched(p) == cpu' = [c \in CPUs |-> IF cpu[c] = p THEN NoOne ELSE cpu[c]]

-----------------------------------------------------------------------------
(* scheduler, yield, sleep, wakeup *)

\* An idle CPU finds p RUNNABLE; back in sleep, chan is cleared.
Schedule(p) ==
  \E c \in CPUs :
    /\ cpu[c] = NoOne /\ state[p] = "RUNNABLE"
    /\ cpu' = [cpu EXCEPT ![c] = p]
    /\ state' = [state EXCEPT ![p] = "RUNNING"]
    /\ chan' = [chan EXCEPT ![p] = 0]
    /\ UNCHANGED <<pid, parent, killed, nextpid, pc, np, panicked>>

\* The timer: trap tests killed first.
yield(p) ==
  /\ At(p, "user") /\ ~killed[p]
  /\ state' = [state EXCEPT ![p] = "RUNNABLE"]
  /\ sched(p)
  /\ UNCHANGED <<pid, parent, killed, chan, nextpid, pc, np, panicked>>

\* A system call that waits for something else.
SleepIO(p) ==
  /\ At(p, "user") /\ ~killed[p]
  /\ state' = [state EXCEPT ![p] = "SLEEPING"]
  /\ chan' = [chan EXCEPT ![p] = IO]
  /\ sched(p)
  /\ UNCHANGED <<pid, parent, killed, nextpid, pc, np, panicked>>

wakeup(c) ==
  /\ \E p \in Slots : state[p] = "SLEEPING" /\ chan[p] = c
  /\ state' = wakeup1(state, c)
  /\ UNCHANGED <<pid, parent, killed, chan, nextpid, cpu, pc, np, panicked>>

-----------------------------------------------------------------------------
(* fork *)

\* allocproc under ptable.lock: the first UNUSED slot.
allocproc(p) ==
  LET free == {q \in Slots : state[q] = "UNUSED"} IN
  /\ At(p, "user") /\ ~killed[p] /\ free # {} /\ nextpid <= MaxPid
  /\ state' = [state EXCEPT ![Min(free)] = "EMBRYO"]
  /\ pid' = [pid EXCEPT ![Min(free)] = nextpid]
  /\ nextpid' = nextpid + 1
  /\ np' = [np EXCEPT ![p] = Min(free)]
  /\ Goto(p, "fork")
  /\ UNCHANGED <<parent, killed, chan, cpu, panicked>>

\* No page for the kernel stack, or copyuvm fails: np->state = UNUSED, no more.
ForkFails(p) ==
  /\ At(p, "fork")
  /\ state' = [state EXCEPT ![np[p]] = "UNUSED"]
  /\ np' = [np EXCEPT ![p] = 0]
  /\ Goto(p, "user")
  /\ UNCHANGED <<pid, parent, killed, chan, nextpid, cpu, panicked>>

\* np->parent = proc, and the rest of the child.
ForkParent(p) ==
  /\ At(p, "fork")
  /\ parent' = [parent EXCEPT ![np[p]] = p]
  /\ Goto(p, "forked")
  /\ UNCHANGED <<state, pid, killed, chan, nextpid, cpu, np, panicked>>

\* np->state = RUNNABLE.
ForkRunnable(p) ==
  /\ At(p, "forked")
  /\ state' = [state EXCEPT ![np[p]] = "RUNNABLE"]
  /\ np' = [np EXCEPT ![p] = 0]
  /\ pc' = [pc EXCEPT ![p] = "user", ![np[p]] = "user"]
  /\ UNCHANGED <<pid, parent, killed, chan, nextpid, cpu, panicked>>

fork(p) == ForkFails(p) \/ ForkParent(p) \/ ForkRunnable(p)

-----------------------------------------------------------------------------
(* exit, wait, kill *)

\* Fault: init is not told of the zombies it inherits.
WokenByFault(p) == wakeup1(state, parent[p])

\* The sleepers an exit of p wakes: its parent, and init if it inherits a zombie.
WokenBy(p) ==
  LET s == wakeup1(state, parent[p]) IN
  IF \E q \in Children(p) : state[q] = "ZOMBIE" THEN wakeup1(s, initproc) ELSE s

\* The part of exit under ptable.lock; the files are closed before.
exit(p) ==
  /\ At(p, "user") /\ p # initproc
  /\ parent' = [q \in Slots |-> IF parent[q] = p THEN initproc ELSE parent[q]]
  /\ state' = [WokenBy(p) EXCEPT ![p] = "ZOMBIE"]
  /\ sched(p)
  /\ UNCHANGED <<pid, killed, chan, nextpid, pc, np, panicked>>

\* panic("init exiting")
InitExits(p) ==
  /\ At(p, "user") /\ p = initproc /\ killed[p]
  /\ panicked' = TRUE
  /\ UNCHANGED <<slotVars, nextpid, cpu, pc, np>>

CallWait(p) ==
  /\ At(p, "user") /\ ~killed[p]
  /\ Goto(p, "wait")
  /\ UNCHANGED <<slotVars, nextpid, cpu, np, panicked>>

\* wait's scan finds a zombie: the slot is cleared ...
WaitReaps(p) ==
  LET dead == {q \in Children(p) : state[q] = "ZOMBIE"}
      q == Min(dead) IN
  /\ At(p, "wait") /\ dead # {}
  /\ pid' = [pid EXCEPT ![q] = 0] /\ parent' = [parent EXCEPT ![q] = 0]
  /\ killed' = [killed EXCEPT ![q] = FALSE]
  /\ state' = [state EXCEPT ![q] = "UNUSED"]
  /\ Goto(p, "user")
  /\ UNCHANGED <<chan, nextpid, cpu, np, panicked>>

\* ... or wait returns -1 ...
WaitFails(p) ==
  /\ At(p, "wait") /\ \A q \in Children(p) : state[q] # "ZOMBIE"
  /\ Children(p) = {} \/ killed[p]
  /\ Goto(p, "user")
  /\ UNCHANGED <<slotVars, nextpid, cpu, np, panicked>>

\* ... or sleeps on its own slot, still under ptable.lock.
WaitSleeps(p) ==
  /\ At(p, "wait") /\ \A q \in Children(p) : state[q] # "ZOMBIE"
  /\ Children(p) # {} /\ ~killed[p]
  /\ state' = [state EXCEPT ![p] = "SLEEPING"]
  /\ chan' = [chan EXCEPT ![p] = p]
  /\ sched(p)
  /\ UNCHANGED <<pid, parent, killed, nextpid, pc, np, panicked>>

wait(p) == WaitReaps(p) \/ WaitFails(p) \/ WaitSleeps(p)

\* Fault: a sleeper is not woken.
KillStateFault(q) == state

KillState(q) == IF state[q] = "SLEEPING" THEN [state EXCEPT ![q] = "RUNNABLE"] ELSE state

\* kill(n): the first slot whose pid is n.
kill(p, n) ==
  LET found == {q \in Slots : pid[q] = n} IN
  /\ At(p, "user") /\ ~killed[p] /\ found # {}
  /\ killed' = [killed EXCEPT ![Min(found)] = TRUE]
  /\ state' = KillState(Min(found))
  /\ UNCHANGED <<pid, parent, chan, nextpid, cpu, pc, np, panicked>>

-----------------------------------------------------------------------------
KernelStep(p) == fork(p) \/ wait(p)

Next ==
  /\ ~panicked
  /\ \/ \E p \in Slots :
          \/ Schedule(p) \/ yield(p) \/ SleepIO(p) \/ allocproc(p) \/ KernelStep(p)
          \/ exit(p) \/ InitExits(p) \/ CallWait(p)
          \/ \E n \in 0 .. MaxPid : kill(p, n)
     \/ wakeup(IO)

Spec == Init /\ [][Next]_vars

-----------------------------------------------------------------------------
(* Properties *)

States == {"UNUSED", "EMBRYO", "SLEEPING", "RUNNABLE", "RUNNING", "ZOMBIE"}

TypeOK ==
  /\ state \in [Slots -> States] /\ pid \in [Slots -> 0 .. MaxPid]
  /\ parent \in [Slots -> 0 .. NPROC] /\ killed \in [Slots -> BOOLEAN]
  /\ chan \in [Slots -> 0 .. NPROC \cup {IO}]
  /\ nextpid \in 1 .. MaxPid + 1
  /\ cpu \in [CPUs -> 0 .. NPROC]
  /\ pc \in [Slots -> {"user", "fork", "forked", "wait"}]
  /\ np \in [Slots -> 0 .. NPROC]
  /\ panicked \in BOOLEAN

\* A process is RUNNING exactly when one CPU runs it: no two CPUs on one kernel
\* stack, whatever wakeup, kill and fork's unlocked stores do to the state.
OneCpu ==
  \A p \in Slots : Cardinality({c \in CPUs : cpu[c] = p}) = IF Runs(p) THEN 1 ELSE 0

\* Processes have parents that can still wait for them: when a parent exits its
\* children pass to init, also those it was just given, and a slot is reused
\* only when nobody refers to it any more.
NoOrphans ==
  \A p \in Slots \ {initproc} :
    Live(p) /\ state[p] # "EMBRYO" => parent[p] # 0 /\ state[parent[p]] \notin {"UNUSED", "EMBRYO", "ZOMBIE"}

\* Live processes have different pids, never 0.
UniquePids ==
  \A p, q \in Slots : Live(p) /\ Live(q) => pid[p] # 0 /\ (pid[p] = pid[q] => p = q)

\* A parent asleep in wait has a child to wait for, no zombie among its children
\* and has not been killed: exit's wakeup, the hand-over to init and kill do not
\* slip between wait's scan and its sleep.
WaitNotLost ==
  \A p \in Slots : state[p] = "SLEEPING" /\ chan[p] = p =>
    /\ Children(p) # {} /\ ~killed[p]
    /\ \A q \in Children(p) : state[q] # "ZOMBIE"

\* A process is RUNNING exactly when one CPU runs it, has a parent that can still
\* wait for it and a pid of its own, and wait sleeps through neither the exit of
\* a child nor kill (proc.c:46-62, 208-316, 446-449).
ProcsSafe == TypeOK /\ OneCpu /\ NoOrphans /\ UniquePids /\ WaitNotLost

\* A zombie of init's, its own child or inherited, which init is to reap.
MustBeReaped(p) == p # initproc /\ state[p] = "ZOMBIE" /\ parent[p] = initproc
Reaped(p) == state[p] = "UNUSED" \/ panicked

\* A killed process, which is to exit ("Process won't exit until it returns to
\* user space").
MustExit(p) ==
  p # initproc /\ killed[p] /\ state[p] \in {"SLEEPING", "RUNNABLE", "RUNNING"}
Ended(p) == state[p] \in {"ZOMBIE", "UNUSED"} \/ panicked
=============================================================================
