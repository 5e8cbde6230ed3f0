------------------------------ MODULE Spinlock ------------------------------
(***************************************************************************)
(* Spin locks and interrupts (spinlock.c): acquire, release, pushcli and   *)
(* popcli, instruction by instruction where another CPU or an interrupt of *)
(* the same CPU can come between.                                          *)
(*                                                                         *)
(* A CPU runs frames: level 0 is the process or the scheduler, and each    *)
(* interrupt adds one.  The gates of the interrupt table (mkgate, trap.c)  *)
(* turn interrupts off on entry; nothing in the model keeps a handler from *)
(* being interrupted but the IF flag.  Frames nest locks in one order.     *)
(***************************************************************************)
EXTENDS Integers, FiniteSets

CONSTANTS
  CPUs, NONE,
  NLOCK,                 \* locks, numbered in the order they nest
  MaxLevel               \* frames above the first

Locks == 1 .. NLOCK
Levels == 0 .. MaxLevel

ASSUME SpinlockSizes ==
  /\ NONE \notin CPUs /\ NLOCK \in Nat \ {0} /\ MaxLevel \in Nat /\ MaxLevel > 1

VARIABLES
  locked, lkcpu,         \* each lock: locked, cpu
  IF_,                   \* each CPU's interrupt flag
  base,                  \* what the flag was last set to outside the locks
  ncli, intena,
  level,                 \* the frame each CPU runs
  pc, want, held,        \* each frame: where, which lock, the locks it has
  eflags,                \* each frame: pushcli's local
  panicked

lockVars == <<locked, lkcpu>>
cpuVars == <<IF_, base, ncli, intena, level>>
frameVars == <<pc, want, held, eflags>>
vars == <<lockVars, cpuVars, frameVars, panicked>>

Each(x) == [c \in CPUs |-> [v \in Levels |-> x]]

Init ==
  /\ locked = [l \in Locks |-> FALSE] /\ lkcpu = [l \in Locks |-> NONE]
  /\ IF_ \in [CPUs -> BOOLEAN] /\ base = IF_
  /\ ncli = [c \in CPUs |-> 0] /\ intena = [c \in CPUs |-> FALSE]
  /\ level = [c \in CPUs |-> 0]
  /\ pc = Each("run") /\ want = Each(1) /\ held = Each({}) /\ eflags = Each(FALSE)
  /\ panicked = FALSE

At(c, l) == ~panicked /\ pc[c][level[c]] = l
Goto(c, l) == pc' = [pc EXCEPT ![c][level[c]] = l]

\* The lock c's frame is acquiring or releasing.
lk(c) == want[c][level[c]]

holding(c, l) == locked[l] /\ lkcpu[l] = c

Holds(c) == UNION {held[c][v] : v \in Levels}

-----------------------------------------------------------------------------
(* acquire *)

\* pushcli reads eflags; an interrupt may come before cli.
AcquireReads(c, l) ==
  /\ At(c, "run") /\ \A k \in Holds(c) : k < l
  /\ want' = [want EXCEPT ![c][level[c]] = l]
  /\ eflags' = [eflags EXCEPT ![c][level[c]] = IF_[c]] /\ Goto(c, "cli")
  /\ UNCHANGED <<lockVars, cpuVars, held, panicked>>

\* Fault: intena is saved at every level of nesting.
SavedIntenaFault(c) == eflags[c][level[c]]

SavedIntena(c) == IF ncli[c] = 0 THEN eflags[c][level[c]] ELSE intena[c]

Cli(c) == [IF_ EXCEPT ![c] = FALSE]

Pushed(c) == [ncli EXCEPT ![c] = @ + 1]

\* The rest of pushcli, and acquire's test.
AcquireCli(c) ==
  /\ At(c, "cli") /\ IF_' = Cli(c)
  /\ intena' = [intena EXCEPT ![c] = SavedIntena(c)] /\ ncli' = Pushed(c)
  /\ panicked' = holding(c, lk(c)) /\ Goto(c, "spin")
  /\ UNCHANGED <<lockVars, base, level, want, held, eflags>>

Free(l) == ~locked[l]

\* xchg finds 0; while it finds 1 it changes nothing.
AcquireXchg(c) ==
  /\ At(c, "spin") /\ Free(lk(c))
  /\ locked' = [locked EXCEPT ![lk(c)] = TRUE] /\ Goto(c, "record")
  /\ held' = [held EXCEPT ![c][level[c]] = @ \cup {lk(c)}]
  /\ UNCHANGED <<lkcpu, cpuVars, want, eflags, panicked>>

Recorded(c) == [lkcpu EXCEPT ![lk(c)] = c]

AcquireRecord(c) ==
  /\ At(c, "record") /\ lkcpu' = Recorded(c) /\ Goto(c, "run")
  /\ UNCHANGED <<locked, cpuVars, want, held, eflags, panicked>>

-----------------------------------------------------------------------------
(* release *)

ReleaseRecord(c, l) ==
  /\ At(c, "run") /\ l \in held[c][level[c]]
  /\ panicked' = ~holding(c, l)
  /\ lkcpu' = [lkcpu EXCEPT ![l] = NONE] /\ want' = [want EXCEPT ![c][level[c]] = l]
  /\ Goto(c, "unlock")
  /\ UNCHANGED <<locked, cpuVars, held, eflags>>

ReleaseUnlock(c) ==
  /\ At(c, "unlock") /\ locked' = [locked EXCEPT ![lk(c)] = FALSE]
  /\ held' = [held EXCEPT ![c][level[c]] = @ \ {lk(c)}] /\ Goto(c, "pop")
  /\ UNCHANGED <<lkcpu, cpuVars, want, eflags, panicked>>

Sti(c) == ncli[c] = 1 /\ intena[c]

popcli(c) ==
  /\ At(c, "pop") /\ panicked' = (IF_[c] \/ ncli[c] < 1)
  /\ ncli' = [ncli EXCEPT ![c] = @ - 1]
  /\ IF_' = [IF_ EXCEPT ![c] = @ \/ Sti(c)] /\ Goto(c, "run")
  /\ UNCHANGED <<lockVars, base, intena, level, want, held, eflags>>

-----------------------------------------------------------------------------
(* interrupts *)

\* Interrupt gates clear IF.
Gate(c) == [IF_ EXCEPT ![c] = FALSE]

Interrupt(c) ==
  /\ ~panicked /\ IF_[c] /\ level[c] < MaxLevel
  /\ level' = [level EXCEPT ![c] = @ + 1] /\ IF_' = Gate(c)
  /\ UNCHANGED <<lockVars, base, ncli, intena, frameVars, panicked>>

\* iretq restores the flags of the interrupted frame.
Iret(c) ==
  /\ At(c, "run") /\ level[c] > 0 /\ held[c][level[c]] = {}
  /\ level' = [level EXCEPT ![c] = @ - 1] /\ IF_' = [IF_ EXCEPT ![c] = TRUE]
  /\ UNCHANGED <<lockVars, base, ncli, intena, frameVars, panicked>>

\* The scheduler's sti, and system call entry and return, set the flag where
\* no lock is held.
SetIF(c, on) ==
  /\ At(c, "run") /\ level[c] = 0 /\ held[c][0] = {}
  /\ IF_' = [IF_ EXCEPT ![c] = on] /\ base' = [base EXCEPT ![c] = on]
  /\ UNCHANGED <<lockVars, ncli, intena, level, frameVars, panicked>>

Next ==
  \E c \in CPUs :
    \/ \E l \in Locks : AcquireReads(c, l) \/ ReleaseRecord(c, l)
    \/ AcquireCli(c) \/ AcquireXchg(c) \/ AcquireRecord(c)
    \/ ReleaseUnlock(c) \/ popcli(c)
    \/ Interrupt(c) \/ Iret(c)
    \/ \E on \in BOOLEAN : SetIF(c, on)

Spec == Init /\ [][Next]_vars

-----------------------------------------------------------------------------
(* Properties *)

TypeOK ==
  /\ locked \in [Locks -> BOOLEAN] /\ lkcpu \in [Locks -> CPUs \cup {NONE}]
  /\ IF_ \in [CPUs -> BOOLEAN] /\ base \in [CPUs -> BOOLEAN]
  /\ ncli \in [CPUs -> Nat] /\ intena \in [CPUs -> BOOLEAN] /\ level \in [CPUs -> Levels]
  /\ pc \in [CPUs -> [Levels -> {"run", "cli", "spin", "record", "unlock", "pop"}]]
  /\ want \in [CPUs -> [Levels -> Locks]] /\ held \in [CPUs -> [Levels -> SUBSET Locks]]
  /\ eflags \in [CPUs -> [Levels -> BOOLEAN]] /\ panicked \in BOOLEAN

\* Between acquire's xchg and release's store no other frame, of this or of
\* another CPU, has the lock.
MutualExclusion ==
  \A c, d \in CPUs : \A v, w \in Levels :
    held[c][v] \cap held[d][w] # {} => c = d /\ v = w

\* A CPU with a lock, or spinning for one, takes no interrupt, so a handler
\* never spins for a lock of the frame it interrupted ("disable interrupts to
\* avoid deadlock").
OffWhileHolding ==
  \A c \in CPUs :
    Holds(c) # {} \/ pc[c][level[c]] \in {"spin", "pop"} => ~IF_[c]

\* When a CPU's first frame has let go of all its locks the interrupt flag is
\* what it was before, however the acquires nested ("it takes two popcli to
\* undo two pushcli") and whatever interrupts came in between.
FlagRestored ==
  \A c \in CPUs :
    level[c] = 0 /\ pc[c][0] = "run" /\ held[c][0] = {} => IF_[c] = base[c] /\ ncli[c] = 0

\* None of panic("acquire"), panic("release"), panic("popcli - interruptible")
\* and panic("popcli"), for locks that nest in one order.
NoLockPanic == ~panicked

\* A handler is not interrupted: its own locks do not turn interrupts on.
HandlersDoNotNest == \A c \in CPUs : level[c] < 2

\* acquire and release exclude other CPUs and this CPU's handlers, and pushcli
\* and popcli give the interrupt flag back, without a panic (spinlock.c:25-115).
LocksSafe ==
  /\ TypeOK /\ MutualExclusion /\ OffWhileHolding /\ FlagRestored
  /\ NoLockPanic /\ HandlersDoNotNest
=============================================================================
