------------------------------- MODULE Ticks --------------------------------
(***************************************************************************)
(* Clock ticks and traps (trap.c), the end of a system call (syscall.c),   *)
(* sys_sleep and sys_uptime (sysproc.c), against kill (proc.c).            *)
(*                                                                         *)
(* tickslock is a spin lock: from acquire to release interrupts are off on *)
(* that CPU, and CPU 0's clock interrupt waits for the lock.  sleep takes  *)
(* ptable.lock before it releases tickslock, so it is one step; kill takes *)
(* ptable.lock only, and may come between the test of killed and the       *)
(* sleep.  exit is the end of the process (Proc has the rest of it).       *)
(***************************************************************************)
EXTENDS Integers

CONSTANTS
  Procs, NoOne,
  Mod,           \* ticks counts modulo this (2^32 in the code)
  Lengths        \* the n of sleep

TickConstants == Mod \in Nat \ {0} /\ Lengths \subseteq 0 .. Mod - 2 /\ NoOne \notin Procs

VARIABLES
  ticks, tickslock,
  pc, killed, ticks0, n, \* each process
  seen                   \* ticks since its sleep began, as the wall clock counts

vars == <<ticks, tickslock, pc, killed, ticks0, n, seen>>
callVars == <<ticks0, n, seen>>

Init ==
  /\ ticks = 0 /\ tickslock = NoOne
  /\ pc = [p \in Procs |-> "user"] /\ killed = [p \in Procs |-> FALSE]
  /\ ticks0 = [p \in Procs |-> 0] /\ n = [p \in Procs |-> 0] /\ seen = [p \in Procs |-> 0]

Goto(p, l) == pc' = [pc EXCEPT ![p] = l]
InSleep(p) == pc[p] \in {"loop", "sleepy", "asleep", "woken"}

-----------------------------------------------------------------------------
(* trap *)

\* wakeup(&ticks)
Wake == [p \in Procs |-> IF pc[p] = "asleep" THEN "woken" ELSE pc[p]]

\* The clock does not go round while a process that it woke waits for a CPU.
NotLapped == \A p \in Procs : InSleep(p) => seen[p] < Mod - 1

\* CPU 0's clock interrupt, in which acquire has to wait for the lock.
Tick ==
  /\ tickslock = NoOne /\ NotLapped
  /\ ticks' = (ticks + 1) % Mod /\ pc' = Wake
  /\ seen' = [p \in Procs |-> IF InSleep(p) THEN seen[p] + 1 ELSE seen[p]]
  /\ UNCHANGED <<tickslock, killed, ticks0, n>>

\* A trap out of user space: a clock interrupt, another one, or a fault, for
\* which the process is killed.
trap(p, why) ==
  /\ pc[p] = "user" /\ Goto(p, IF why = "timer" THEN "timer" ELSE "trap")
  /\ killed' = [killed EXCEPT ![p] = @ \/ why = "fault"]
  /\ UNCHANGED <<ticks, tickslock, callVars>>

\* proc->killed, for a trap out of user space.
MustExit(p) == killed[p]

\* The first test of killed; yield, for a clock interrupt; the second test.
TrapCheck(p) ==
  /\ \/ pc[p] = "timer" /\ Goto(p, IF MustExit(p) THEN "dead" ELSE "yield")
     \/ pc[p] = "trap" /\ Goto(p, IF MustExit(p) THEN "dead" ELSE "back")
     \/ pc[p] = "yield" /\ Goto(p, "back")
     \/ pc[p] = "back" /\ Goto(p, IF MustExit(p) THEN "dead" ELSE "user")
  /\ UNCHANGED <<ticks, tickslock, killed, callVars>>

-----------------------------------------------------------------------------
(* System calls *)

Call(p, where, k) ==
  /\ pc[p] = "user" /\ Goto(p, where) /\ n' = [n EXCEPT ![p] = k]
  /\ UNCHANGED <<ticks, tickslock, killed, ticks0, seen>>

\* acquire(&tickslock), in sys_sleep, in sys_uptime and at the end of sleep.
Acquire(p) ==
  /\ pc[p] \in {"sleep", "uptime", "woken"} /\ tickslock = NoOne
  /\ tickslock' = p /\ Goto(p, IF pc[p] = "uptime" THEN "read" ELSE "loop")
  /\ ticks0' = [ticks0 EXCEPT ![p] = IF pc[p] = "sleep" THEN ticks ELSE @]
  /\ UNCHANGED <<ticks, killed, n, seen>>

Release(p, l) ==
  /\ tickslock' = NoOne /\ Goto(p, l) /\ UNCHANGED <<ticks, killed, callVars>>

\* Fault: the end of the sleep is computed and compared.
NotYetFault(p) == ticks < (ticks0[p] + n[p]) % Mod

\* ticks - ticks0 < n, in unsigned arithmetic.
NotYet(p) == (ticks - ticks0[p]) % Mod < n[p]

\* sys_sleep's loop, sleep, and sys_uptime.
SleepTest(p) ==
  /\ pc[p] = "loop"
  /\ IF ~NotYet(p) THEN Release(p, "slept")
     ELSE IF killed[p] THEN Release(p, "gaveup")
     ELSE Goto(p, "sleepy") /\ UNCHANGED <<ticks, tickslock, killed, callVars>>
SleepSleep(p) == pc[p] = "sleepy" /\ Release(p, "asleep")
sys_uptime(p) == pc[p] = "read" /\ Release(p, "ret")

\* The end of syscall: if(proc->killed) exit(); the call's variables are gone.
SyscallEnd(p) ==
  /\ pc[p] \in {"slept", "gaveup", "ret"} /\ Goto(p, IF killed[p] THEN "dead" ELSE "user")
  /\ ticks0' = [ticks0 EXCEPT ![p] = 0] /\ n' = [n EXCEPT ![p] = 0] /\ seen' = [seen EXCEPT ![p] = 0]
  /\ UNCHANGED <<ticks, tickslock, killed>>

kill(p) ==
  /\ pc[p] # "dead" /\ ~killed[p] /\ killed' = [killed EXCEPT ![p] = TRUE]
  /\ pc' = [pc EXCEPT ![p] = IF @ = "asleep" THEN "woken" ELSE @]
  /\ UNCHANGED <<ticks, tickslock, callVars>>

Kernel(p) == TrapCheck(p) \/ SleepTest(p) \/ SleepSleep(p) \/ sys_uptime(p) \/ SyscallEnd(p)

Next ==
  \/ Tick
  \/ \E p \in Procs :
       \/ \E why \in {"timer", "irq", "fault"} : trap(p, why)
       \/ \E k \in Lengths : Call(p, "sleep", k)
       \/ Call(p, "uptime", 0) \/ Acquire(p) \/ Kernel(p) \/ kill(p)

Spec == Init /\ [][Next]_vars

-----------------------------------------------------------------------------
(* Properties *)

\* sleep(n) succeeds only when n ticks have gone by, also when ticks wraps on
\* the way (sysproc.c:72).
SleptEnough == \A p \in Procs : pc[p] = "slept" => seen[p] >= n[p]
=============================================================================
