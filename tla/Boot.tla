-------------------------------- MODULE Boot --------------------------------
(***************************************************************************)
(* The start of the CPUs: main, startothers, mpenter and mpmain (main.c),  *)
(* seginit (vm.c), lapicstartap (lapic.c) and the entry code of the other  *)
(* CPUs (entryother.S, entry.S), with the use of kmem.lock and cons.lock   *)
(* that the boot CPU switches on along the way (kalloc.c, console.c).      *)
(*                                                                         *)
(* Nothing is freed during the start, so a page is its place on the free   *)
(* list.  What a step does to no other CPU is left out.                    *)
(***************************************************************************)
EXTENDS Integers, Sequences, Functions

CONSTANTS
  ncpu, NoOne,
  MaxPages       \* bound: processes allocate while fewer are given out

Cpus == 0 .. ncpu - 1
BootConstants == ncpu \in Nat \ {0} /\ NoOne \notin Cpus

VARIABLES
  use_lock, klock, freelist,      \* kmem
  locking, conslock,              \* cons
  code16,                         \* the stack for the CPU that starts, at code-16
  n,                              \* startothers' c
  runnable,                       \* the first process may run
  power, cpu, stack, started,     \* each CPU: its mode, whether cpu is set
  pc, sub, r,                     \* its place in main or mpenter, in a call
  given                           \* all pages kalloc has returned

vars == <<use_lock, klock, freelist, locking, conslock, code16, n, runnable, power,
          cpu, stack, started, pc, sub, r, given>>

mpmain == <<"print", "started", "scheduler">>
mpenter == <<"entry", "seginit">> \o mpmain

\* kvmalloc, mpinit, tvinit, seginit, consoleinit, pci_init, startothers, kinit2
\* and userinit; one page stands for all that a call takes.
main ==
  <<"page", "page", "print", "page", "seginit", "print", "consoleinit", "page",
    "startothers", "kinit2", "page", "userinit">> \o mpmain

Op(c) == IF c = 0 THEN main[pc[c]] ELSE mpenter[pc[c]]

Init ==
  /\ use_lock = FALSE /\ klock = NoOne /\ freelist = 1
  /\ locking = FALSE /\ conslock = NoOne /\ code16 = 0 /\ n = 1 /\ runnable = FALSE
  /\ power = [c \in Cpus |-> IF c = 0 THEN "running" ELSE "off"]
  /\ cpu = [c \in Cpus |-> FALSE] /\ stack = [c \in Cpus |-> 0]
  /\ started = [c \in Cpus |-> FALSE]
  /\ pc = [c \in Cpus |-> 1] /\ sub = [c \in Cpus |-> "go"] /\ r = [c \in Cpus |-> 0]
  /\ given = <<>>

At(c, op, s) == power[c] = "running" /\ Op(c) = op /\ sub[c] = s
Goto(c, s) == sub' = [sub EXCEPT ![c] = s] /\ UNCHANGED pc
Return(c) == pc' = [pc EXCEPT ![c] = @ + 1] /\ sub' = [sub EXCEPT ![c] = "go"]

kmem == <<use_lock, klock, freelist, given>>
cons == <<locking, conslock>>
others == <<code16, n, runnable, power, cpu, stack, started>>

-----------------------------------------------------------------------------
(* kalloc, which tests use_lock twice; kmem.freelist is read, then written *)

NeedsPage(c) ==
  /\ power[c] = "running" /\ sub[c] = "go"
  /\ \/ Op(c) \in {"page", "seginit"}
     \/ Op(c) = "startothers" /\ n < ncpu
     \/ Op(c) = "scheduler" /\ runnable /\ Len(given) < MaxPages

KallocTest(c) ==
  NeedsPage(c) /\ Goto(c, IF use_lock THEN "acquire" ELSE "take")
  /\ UNCHANGED <<kmem, cons, others, r>>

KallocAcquire(c) ==
  /\ sub[c] = "acquire" /\ klock = NoOne /\ klock' = c /\ Goto(c, "take")
  /\ UNCHANGED <<use_lock, freelist, given, cons, others, r>>

KallocRead(c) ==
  /\ sub[c] = "take" /\ r' = [r EXCEPT ![c] = freelist] /\ Goto(c, "unlink")
  /\ UNCHANGED <<kmem, cons, others>>

KallocUnlink(c) ==
  /\ sub[c] = "unlink" /\ freelist' = r[c] + 1 /\ given' = Append(given, r[c])
  /\ Goto(c, "unlinked") /\ UNCHANGED <<use_lock, klock, cons, others, r>>

KallocTestAgain(c) ==
  /\ sub[c] = "unlinked" /\ Goto(c, IF use_lock THEN "release" ELSE "got")
  /\ UNCHANGED <<kmem, cons, others, r>>

KallocRelease(c) ==
  /\ sub[c] = "release" /\ klock' = NoOne /\ Goto(c, "got")
  /\ UNCHANGED <<use_lock, freelist, given, cons, others, r>>

kalloc(c) ==
  \/ KallocTest(c) \/ KallocAcquire(c) \/ KallocRead(c) \/ KallocUnlink(c)
  \/ KallocTestAgain(c) \/ KallocRelease(c)

-----------------------------------------------------------------------------
(* The other calls of main and mpenter *)

Page(c) == At(c, "page", "got") /\ Return(c) /\ UNCHANGED <<kmem, cons, others, r>>

\* The page is the CPU's own, and cpu, which acquire uses, is in it.
seginit(c) ==
  /\ At(c, "seginit", "got") /\ Return(c) /\ cpu' = [cpu EXCEPT ![c] = TRUE]
  /\ UNCHANGED <<kmem, cons, code16, n, runnable, power, stack, started, r>>

\* cprintf
PrintTest(c) ==
  /\ At(c, "print", "go") /\ IF locking THEN Goto(c, "lockcons") ELSE Return(c)
  /\ UNCHANGED <<kmem, cons, others, r>>
PrintAcquire(c) ==
  /\ sub[c] = "lockcons" /\ conslock = NoOne /\ conslock' = c /\ Goto(c, "printing")
  /\ UNCHANGED <<kmem, locking, others, r>>
PrintRelease(c) ==
  /\ sub[c] = "printing" /\ conslock' = NoOne /\ Return(c)
  /\ UNCHANGED <<kmem, locking, others, r>>

consoleinit(c) ==
  /\ At(c, "consoleinit", "go") /\ locking' = TRUE /\ Return(c)
  /\ UNCHANGED <<kmem, conslock, others, r>>

kinit2(c) ==
  /\ At(c, "kinit2", "go") /\ use_lock' = TRUE /\ Return(c)
  /\ UNCHANGED <<klock, freelist, given, cons, others, r>>

userinit(c) ==
  /\ At(c, "userinit", "go") /\ runnable' = TRUE /\ Return(c)
  /\ UNCHANGED <<kmem, cons, code16, n, power, cpu, stack, started, r>>

\* xchg(&cpu->started, 1)
Started(c) == [started EXCEPT ![c] = TRUE]

MpmainStarted(c) ==
  /\ At(c, "started", "go") /\ started' = Started(c) /\ Return(c)
  /\ UNCHANGED <<kmem, cons, code16, n, runnable, power, cpu, stack, r>>

\* A process that this CPU runs, or on CPU 0 an interrupt, has got its page.
scheduler(c) == At(c, "scheduler", "got") /\ Goto(c, "go") /\ UNCHANGED <<kmem, cons, others, r>>

-----------------------------------------------------------------------------
(* startothers *)

\* *(uint64*)(code-16) = stack + KSTACKSIZE
Tell(c) == r[c]

\* Fault: the CPU is taken to be up once it has been sent for.
IsUpFault == TRUE

\* while(c->started == 0)
IsUp == started[n]

StartTell(c) ==
  /\ At(c, "startothers", "got") /\ code16' = Tell(c) /\ Goto(c, "init")
  /\ UNCHANGED <<kmem, cons, n, runnable, power, cpu, stack, started, r>>

\* lapicstartap: an INIT, and two STARTUPs, of which a CPU in the mode that INIT
\* leaves it in takes one.
lapicstartap(c) ==
  /\ \/ At(c, "startothers", "init") /\ power' = [power EXCEPT ![n] = "wait"] /\ Goto(c, "sipi")
     \/ /\ sub[c] \in {"sipi", "sipi2"}
        /\ power' = [power EXCEPT ![n] = IF @ = "wait" THEN "running" ELSE @]
        /\ Goto(c, IF sub[c] = "sipi" THEN "sipi2" ELSE "up")
  /\ UNCHANGED <<kmem, cons, code16, n, runnable, cpu, stack, started, r>>

StartNext(c) ==
  /\ At(c, "startothers", "up") /\ IsUp /\ n' = n + 1 /\ Goto(c, "go")
  /\ UNCHANGED <<kmem, cons, code16, runnable, power, cpu, stack, started, r>>

StartDone(c) ==
  /\ At(c, "startothers", "go") /\ n = ncpu /\ Return(c) /\ UNCHANGED <<kmem, cons, others, r>>

\* entryother.S, and entry64mp: mov -16(%rax), %rsp
Entry(c) ==
  /\ At(c, "entry", "go") /\ stack' = [stack EXCEPT ![c] = code16] /\ Return(c)
  /\ UNCHANGED <<kmem, cons, code16, n, runnable, power, cpu, started, r>>

Step(c) ==
  \/ kalloc(c) \/ Page(c) \/ seginit(c) \/ PrintTest(c) \/ PrintAcquire(c) \/ PrintRelease(c)
  \/ consoleinit(c) \/ kinit2(c) \/ userinit(c) \/ MpmainStarted(c) \/ scheduler(c)
  \/ StartTell(c) \/ lapicstartap(c) \/ StartNext(c) \/ StartDone(c) \/ Entry(c)

Next == \E c \in Cpus : Step(c)

Spec == Init /\ [][Next]_vars

-----------------------------------------------------------------------------
(* Properties *)

\* No page is given out twice, although kalloc takes no lock until kinit2
\* (kalloc.c:34-37, 73; main.c:39-40, 100-101).
PagesApart == IsInjective(given)

\* Each CPU that has started runs on a stack of its own, although all of them
\* find it at one address (main.c:92-101, entry.S:151-155).
OwnStacks ==
  \A c, d \in Cpus \ {0} : c # d /\ stack[c] # 0 => stack[c] # stack[d]

\* No CPU takes a lock before seginit has set the cpu that acquire uses, and
\* none gives back one that it did not take (kalloc.c:73-78, vm.c:52-55).
LocksUsable ==
  \A c \in Cpus :
    /\ sub[c] \in {"acquire", "lockcons"} => cpu[c]
    /\ sub[c] = "release" => klock = c

\* All CPUs have come to the scheduler (main.c:58-65, 99-101).
AllStarted == \A c \in Cpus : power[c] = "running" /\ Op(c) = "scheduler"
=============================================================================
