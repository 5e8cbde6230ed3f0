----------------------------- MODULE ProcProofs -----------------------------
(***************************************************************************)
(* For any number of CPUs, slots and processes: a process runs on one CPU, *)
(* has a parent that can wait for it and a pid of its own, and no parent   *)
(* sleeps in wait through the exit of a child or its own kill.             *)
(***************************************************************************)
EXTENDS Proc, FiniteSetTheorems, WellFoundedInduction, TLAPS

-----------------------------------------------------------------------------
(* The first slot of a scan *)

\* A family of subsets of a finite set has a minimal one: induction over sets.
LEMMA MinimalSubset ==
  ASSUME NEW S, IsFiniteSet(S), NEW F \in SUBSET SUBSET S, F # {}
  PROVE  \E R \in F : \A Q \in F : Q \subseteq R => Q = R
<1>1. IsWellFoundedOn(StrictSubsetOrdering(S), SUBSET S)
  BY FS_StrictSubsetOrderingWellFounded, FS_FiniteSubsetsOfFinite, Zenon
<1>2. PICK R \in F : \A Q \in F : ~(<<Q, R>> \in StrictSubsetOrdering(S))
  BY <1>1, WFMin, Zenon
<1>3. ASSUME NEW Q \in F, Q \subseteq R PROVE Q = R
  BY <1>2, <1>3, Zenon DEF StrictSubsetOrdering
<1>q. QED BY <1>3, Zenon

LEMMA FirstSlot ==
  ASSUME ProcConstants, NEW S \in SUBSET Slots, S # {}
  PROVE  Min(S) \in S /\ \A q \in S : Min(S) <= q
<1> DEFINE F == {1 .. k : k \in S}
<1>1. IsFiniteSet(Slots)
  BY FS_Interval DEF ProcConstants, Slots
<1>2. F \in SUBSET SUBSET Slots /\ F # {}
  <2>1. \A k \in S : 1 .. k \subseteq Slots
    BY DEF ProcConstants, Slots
  <2>q. QED BY <2>1, Zenon
<1>3. PICK R \in F : \A Q \in F : Q \subseteq R => Q = R
  <2> HIDE DEF F
  <2>q. QED BY <1>1, <1>2, MinimalSubset
<1>4. PICK k \in S : R = 1 .. k
  OBVIOUS
<1>5. ASSUME NEW j \in S PROVE k <= j
  <2>1. SUFFICES ASSUME j < k PROVE FALSE
    BY DEF ProcConstants, Slots
  <2>2. 1 .. j \subseteq 1 .. k /\ k \in 1 .. k /\ ~(k \in 1 .. j)
    BY <2>1 DEF ProcConstants, Slots
  <2>q. QED BY <1>3, <1>4, <2>2, Zenon
<1>q. QED BY <1>5, Zenon DEF Min

-----------------------------------------------------------------------------
(* The inductive invariant *)

Working == {"SLEEPING", "RUNNABLE", "RUNNING"}
Forking(p) == pc[p] \in {"fork", "forked"}

\* The type of the state but for the pids, with slots as names.
TypeInv ==
  /\ state \in [Slots -> States] /\ parent \in [Slots -> Slots \cup {0}]
  /\ killed \in [Slots -> BOOLEAN] /\ chan \in [Slots -> Slots \cup {0, IO}]
  /\ cpu \in [CPUs -> Slots \cup {0}] /\ np \in [Slots -> Slots \cup {0}]
  /\ pc \in [Slots -> {"user", "fork", "forked", "wait"}] /\ panicked \in BOOLEAN

\* The processes of the CPUs are the RUNNING ones, each on one CPU.
CpuInv ==
  /\ \A c \in CPUs : cpu[c] # 0 => Runs(cpu[c])
  /\ \A p \in Slots : Runs(p) => \E c \in CPUs : cpu[c] = p
  /\ \A c, d \in CPUs : cpu[c] = cpu[d] /\ cpu[c] # 0 => c = d

\* A process in fork keeps its CPU and has a slot that no other process has, and
\* that has no parent before fork sets it.
ForkInv ==
  \A p \in Slots : Forking(p) =>
    /\ Runs(p) /\ np[p] \in Slots /\ state[np[p]] = "EMBRYO"
    /\ \A q \in Slots : Forking(q) /\ np[q] = np[p] => q = p
    /\ pc[p] = "fork" => parent[np[p]] = 0
    /\ pc[p] = "forked" => parent[np[p]] = p

\* init never exits; whoever is a parent can still wait, and every process that
\* has started has a parent.
FamilyInv ==
  /\ state[initproc] \in Working /\ parent[initproc] = 0
  /\ \A p \in Slots : state[p] = "UNUSED" => parent[p] = 0
  /\ \A p \in Slots : parent[p] # 0 => parent[p] # p /\ state[parent[p]] \in Working
  /\ \A p \in Slots \ {initproc} : state[p] \in Working \cup {"ZOMBIE"} => parent[p] # 0

\* Pids are given out once, also those left behind by a fork that failed.
PidInv ==
  /\ pid \in [Slots -> 0 .. MaxPid] /\ nextpid \in 1 .. MaxPid + 1
  /\ \A p \in Slots : pid[p] < nextpid /\ (Live(p) => pid[p] # 0)
  /\ \A p, q \in Slots : pid[p] = pid[q] /\ pid[p] # 0 => p = q

IInv == TypeInv /\ CpuInv /\ ForkInv /\ FamilyInv /\ PidInv /\ WaitNotLost

-----------------------------------------------------------------------------
(* What a step leaves alone *)

LEMMA SlotFacts ==
  ASSUME ProcConstants
  PROVE  /\ 0 \notin Slots /\ IO \notin Slots /\ IO # 0 /\ initproc \in Slots /\ NoOne = 0
         /\ 0 .. NPROC = Slots \cup {0} /\ initproc # 0
BY DEF ProcConstants, Slots, initproc

LEMMA CpuFrame ==
  ASSUME IInv, cpu' = cpu, \A q \in Slots : Runs(q)' <=> Runs(q)
  PROVE  CpuInv'
<1>1. \A c \in CPUs : cpu[c] \in Slots \cup {0}
  BY Zenon DEF IInv, TypeInv
<1>q. QED BY <1>1, Zenon DEF IInv, CpuInv

\* p leaves its CPU.
LEMMA CpuLeave ==
  ASSUME ProcConstants, IInv, NEW p \in Slots, sched(p), ~Runs(p)',
         \A q \in Slots \ {p} : Runs(q)' <=> Runs(q)
  PROVE  CpuInv' /\ cpu' \in [CPUs -> Slots \cup {0}]
<1>1. /\ \A c \in CPUs : cpu[c] \in Slots \cup {0}
      /\ \A c \in CPUs : cpu'[c] = IF cpu[c] = p THEN 0 ELSE cpu[c]
      /\ cpu' \in [CPUs -> Slots \cup {0}]
  BY SlotFacts, Zenon DEF IInv, TypeInv, sched
<1>2. \A c \in CPUs : cpu'[c] # 0 => state'[cpu'[c]] = "RUNNING"
  BY <1>1, Zenon DEF IInv, CpuInv, Runs
<1>3. \A q \in Slots : Runs(q)' => \E c \in CPUs : cpu'[c] = q
  BY <1>1, Zenon DEF IInv, CpuInv
<1>4. \A c, d \in CPUs : cpu'[c] = cpu'[d] /\ cpu'[c] # 0 => c = d
  BY <1>1, Zenon DEF IInv, CpuInv
<1>q. QED BY <1>1, <1>2, <1>3, <1>4, Zenon DEF CpuInv, Runs

LEMMA ForkFrame ==
  ASSUME IInv,
         \A q \in Slots : Forking(q)' => pc'[q] = pc[q] /\ np'[q] = np[q],
         \A q \in Slots : Runs(q) /\ Forking(q) => Runs(q)',
         \A q \in Slots : state[q] = "EMBRYO" => state'[q] = "EMBRYO" /\ parent'[q] = parent[q]
  PROVE  ForkInv'
BY DEF IInv, ForkInv, Forking

LEMMA FamilyFrame ==
  ASSUME ProcConstants, IInv, parent' = parent,
         \A q \in Slots : state[q] \in Working => state'[q] \in Working,
         \A q \in Slots : state'[q] = "UNUSED" => state[q] = "UNUSED",
         \A q \in Slots : state'[q] \in Working \cup {"ZOMBIE"} => state[q] \in Working \cup {"ZOMBIE"}
  PROVE  FamilyInv'
<1>1. \A q \in Slots : parent[q] \in Slots \cup {0}
  BY Zenon DEF IInv, TypeInv
<1>q. QED BY <1>1, SlotFacts, Zenon DEF IInv, FamilyInv

LEMMA PidFrame ==
  ASSUME IInv, pid' = pid, nextpid' = nextpid, \A q \in Slots : Live(q)' => Live(q)
  PROVE  PidInv'
BY Zenon DEF IInv, PidInv

LEMMA WaitFrame ==
  ASSUME IInv, parent' = parent,
         \A q \in Slots : state'[q] = "SLEEPING" /\ chan'[q] = q =>
           state[q] = "SLEEPING" /\ chan[q] = q /\ (killed'[q] => killed[q]),
         \A q \in Slots : state'[q] = "ZOMBIE" => state[q] = "ZOMBIE"
  PROVE  WaitNotLost'
BY DEF IInv, WaitNotLost, Children

LEMMA InitInv ==
  ASSUME ProcConstants
  PROVE  Init => IInv
<1> SUFFICES ASSUME Init PROVE IInv
  OBVIOUS
<1> USE SlotFacts DEF Init
<1>1. TypeInv
  BY Zenon DEF TypeInv, States
<1>2. CpuInv
  BY Zenon DEF CpuInv, Runs
<1>3. ForkInv
  BY Zenon DEF ForkInv, Forking
<1>4. FamilyInv
  BY Zenon DEF FamilyInv, Working
<1>5. PidInv
  <2>1. pid \in [Slots -> 0 .. MaxPid] /\ nextpid \in 1 .. MaxPid + 1
    BY DEF ProcConstants
  <2>q. QED BY <2>1 DEF PidInv, Live
<1>6. WaitNotLost
  BY Zenon DEF WaitNotLost
<1>q. QED BY <1>1, <1>2, <1>3, <1>4, <1>5, <1>6, Zenon DEF IInv

-----------------------------------------------------------------------------
(* scheduler, yield, sleep, wakeup *)

LEMMA ScheduleInv ==
  ASSUME ProcConstants, IInv, NEW p \in Slots, Schedule(p)
  PROVE  IInv'
<1>1. PICK c \in CPUs : /\ cpu[c] = 0 /\ state[p] = "RUNNABLE"
                        /\ cpu' = [cpu EXCEPT ![c] = p]
                        /\ state' = [state EXCEPT ![p] = "RUNNING"]
                        /\ chan' = [chan EXCEPT ![p] = 0]
                        /\ UNCHANGED <<pid, parent, killed, nextpid, pc, np, panicked>>
  BY SlotFacts, Zenon DEF Schedule
<1>2. /\ state'[p] = "RUNNING" /\ \A q \in Slots \ {p} : state'[q] = state[q]
      /\ \A q \in Slots \ {p} : chan'[q] = chan[q]
      /\ cpu'[c] = p /\ \A d \in CPUs \ {c} : cpu'[d] = cpu[d]
  BY <1>1, Zenon DEF IInv, TypeInv
<1>3. TypeInv'
  BY <1>1, Zenon DEF IInv, TypeInv, States
<1>4. CpuInv'
  <2>1. \A d \in CPUs : cpu[d] \in Slots \cup {0} /\ cpu[d] # p
    BY <1>1, SlotFacts, Zenon DEF IInv, TypeInv, CpuInv, Runs
  <2>q. QED BY <1>1, <1>2, <2>1, SlotFacts DEF IInv, CpuInv, Runs
<1>5. ForkInv'
  BY <1>1, <1>2, ForkFrame, Zenon DEF Forking, Runs
<1>6. FamilyInv'
  BY <1>1, <1>2, FamilyFrame, Zenon DEF Working
<1>7. PidInv'
  BY <1>1, <1>2, PidFrame, Zenon DEF Live
<1>8. WaitNotLost'
  BY <1>1, <1>2, WaitFrame, Zenon
<1>q. QED BY <1>3, <1>4, <1>5, <1>6, <1>7, <1>8, Zenon DEF IInv

\* The timer takes the CPU away, or a system call waits.
LEMMA LeaveInv ==
  ASSUME ProcConstants, IInv, NEW p \in Slots, yield(p) \/ SleepIO(p)
  PROVE  IInv'
<1>1. /\ state[p] = "RUNNING" /\ pc[p] = "user" /\ sched(p)
      /\ state'[p] \in {"RUNNABLE", "SLEEPING"} /\ \A q \in Slots \ {p} : state'[q] = state[q]
      /\ \A q \in Slots \ {p} : chan'[q] = chan[q]
      /\ state'[p] = "SLEEPING" => chan'[p] = IO
      /\ state' \in [Slots -> States] /\ chan' \in [Slots -> Slots \cup {0, IO}]
      /\ UNCHANGED <<pid, parent, killed, nextpid, pc, np, panicked>>
  <2>1. state \in [Slots -> States] /\ chan \in [Slots -> Slots \cup {0, IO}]
    BY Zenon DEF IInv, TypeInv
  <2>2. CASE yield(p)
    BY <2>1, <2>2, Zenon DEF yield, At, Runs, States
  <2>3. CASE SleepIO(p)
    BY <2>1, <2>3, Zenon DEF SleepIO, At, Runs, States
  <2>q. QED BY <2>2, <2>3, Zenon
<1>2. CpuInv' /\ cpu' \in [CPUs -> Slots \cup {0}]
  BY <1>1, CpuLeave, Zenon DEF Runs
<1>3. TypeInv'
  BY <1>1, <1>2, Zenon DEF IInv, TypeInv
<1>5. ForkInv'
  BY <1>1, ForkFrame, Zenon DEF Forking, Runs
<1>6. FamilyInv'
  BY <1>1, FamilyFrame, Zenon DEF Working
<1>7. PidInv'
  BY <1>1, PidFrame, Zenon DEF Live
<1>8. WaitNotLost'
  BY <1>1, SlotFacts, WaitFrame, Zenon
<1>q. QED BY <1>2, <1>3, <1>5, <1>6, <1>7, <1>8, Zenon DEF IInv

\* Sleepers become RUNNABLE, and processes may be killed that are not asleep then.
LEMMA WakeInv ==
  ASSUME ProcConstants, IInv, UNCHANGED <<pid, parent, chan, nextpid, cpu, pc, np, panicked>>,
         \A q \in Slots : \/ state'[q] = state[q]
                          \/ state[q] = "SLEEPING" /\ state'[q] = "RUNNABLE",
         \A q \in Slots : killed'[q] = killed[q] \/ state'[q] # "SLEEPING",
         state' \in [Slots -> States], killed' \in [Slots -> BOOLEAN]
  PROVE  IInv'
<1>3. TypeInv'
  BY Zenon DEF IInv, TypeInv
<1>4. CpuInv'
  BY CpuFrame, Zenon DEF Runs
<1>5. ForkInv'
  BY ForkFrame, Zenon DEF Forking, Runs
<1>6. FamilyInv'
  BY FamilyFrame, Zenon DEF Working
<1>7. PidInv'
  BY PidFrame, Zenon DEF Live
<1>8. WaitNotLost'
  BY WaitFrame, Zenon
<1>q. QED BY <1>3, <1>4, <1>5, <1>6, <1>7, <1>8, Zenon DEF IInv

LEMMA WakeupInv ==
  ASSUME ProcConstants, IInv, wakeup(IO)
  PROVE  IInv'
<1>1. /\ UNCHANGED <<pid, parent, killed, chan, nextpid, cpu, pc, np, panicked>>
      /\ state' \in [Slots -> States] /\ killed' \in [Slots -> BOOLEAN]
      /\ \A q \in Slots : \/ state'[q] = state[q]
                          \/ state[q] = "SLEEPING" /\ state'[q] = "RUNNABLE"
  BY Zenon DEF wakeup, wakeup1, IInv, TypeInv, States
<1>q. QED BY <1>1, WakeInv, Zenon

LEMMA KillInv ==
  ASSUME ProcConstants, IInv, NEW p \in Slots, NEW n, kill(p, n)
  PROVE  IInv'
<1> DEFINE found == {q \in Slots : pid[q] = n}
           m == Min(found)
<1>1. m \in Slots
  <2>1. found \in SUBSET Slots /\ found # {}
    BY Zenon DEF kill
  <2>q. QED BY <2>1, FirstSlot, Zenon
<1>2. /\ killed' = [killed EXCEPT ![m] = TRUE] /\ state' = KillState(m)
      /\ UNCHANGED <<pid, parent, chan, nextpid, cpu, pc, np, panicked>>
  BY Zenon DEF kill
<1> HIDE DEF m
<1>3. /\ state' \in [Slots -> States] /\ killed' \in [Slots -> BOOLEAN]
      /\ \A q \in Slots : \/ state'[q] = state[q]
                          \/ state[q] = "SLEEPING" /\ state'[q] = "RUNNABLE"
      /\ \A q \in Slots : killed'[q] = killed[q] \/ state'[q] # "SLEEPING"
  BY <1>1, <1>2, Zenon DEF KillState, IInv, TypeInv, States
<1>q. QED BY <1>2, <1>3, WakeInv, Zenon

-----------------------------------------------------------------------------
(* fork *)

LEMMA AllocInv ==
  ASSUME ProcConstants, IInv, NEW p \in Slots, allocproc(p)
  PROVE  IInv'
<1> DEFINE unused == {q \in Slots : state[q] = "UNUSED"}
           m == Min(unused)
<1>1. m \in Slots /\ state[m] = "UNUSED"
  <2>1. unused \in SUBSET Slots /\ unused # {}
    BY Zenon DEF allocproc
  <2>2. m \in unused
    BY <2>1, FirstSlot, Zenon
  <2>q. QED BY <2>2, Zenon
<1>2. /\ state[p] = "RUNNING" /\ pc[p] = "user" /\ nextpid <= MaxPid /\ nextpid' = nextpid + 1
      /\ state' = [state EXCEPT ![m] = "EMBRYO"] /\ pid' = [pid EXCEPT ![m] = nextpid]
      /\ np' = [np EXCEPT ![p] = m] /\ pc' = [pc EXCEPT ![p] = "fork"]
      /\ UNCHANGED <<parent, killed, chan, cpu, panicked>>
  BY Zenon DEF allocproc, At, Runs, Goto
<1> HIDE DEF m
<1>3. /\ state'[m] = "EMBRYO" /\ \A q \in Slots \ {m} : state'[q] = state[q]
      /\ pid'[m] = nextpid /\ \A q \in Slots \ {m} : pid'[q] = pid[q]
      /\ np'[p] = m /\ \A q \in Slots \ {p} : np'[q] = np[q]
      /\ pc'[p] = "fork" /\ \A q \in Slots \ {p} : pc'[q] = pc[q]
  BY <1>1, <1>2, Zenon DEF IInv, TypeInv, PidInv
<1>4. TypeInv'
  BY <1>1, <1>2, Zenon DEF IInv, TypeInv, States
<1>5. CpuInv'
  BY <1>1, <1>2, <1>3, CpuFrame, Zenon DEF Runs
<1>6. ForkInv'
  <2>1. parent[m] = 0
    BY <1>1, Zenon DEF IInv, FamilyInv
  <2>2. \A q \in Slots : Forking(q) => Runs(q) /\ np[q] \in Slots \ {m} /\ q # p /\ q # m
    BY <1>1, <1>2, Zenon DEF IInv, ForkInv, Forking, Runs
  <2>3. \A q \in Slots : Forking(q)' => q = p \/ (Forking(q) /\ q # p)
    BY <1>3, Zenon DEF Forking
  <2>4. ASSUME NEW q \in Slots, Forking(q), q # p
        PROVE  /\ Runs(q)' /\ np'[q] = np[q] /\ np[q] \in Slots \ {m} /\ state'[np[q]] = "EMBRYO"
               /\ pc'[q] = pc[q] /\ parent'[np[q]] = parent[np[q]]
    BY <1>2, <1>3, <2>2, <2>4 DEF IInv, ForkInv, Runs
  <2>5. Runs(p)' /\ np'[p] = m /\ m \in Slots /\ state'[m] = "EMBRYO" /\ pc'[p] = "fork" /\ parent'[m] = 0
    BY <1>1, <1>2, <1>3, <2>1, Zenon DEF Runs
  <2>q. QED BY <2>3, <2>4, <2>5 DEF IInv, ForkInv
<1>7. FamilyInv'
  <2>1. \A q \in Slots : state'[q] = "UNUSED" => state[q] = "UNUSED"
    BY <1>3, Zenon
  <2>q. QED BY <1>1, <1>2, <1>3, <2>1, FamilyFrame, Zenon DEF Working
<1>8. PidInv'
  <2>1. pid \in [Slots -> 0 .. MaxPid] /\ nextpid \in 1 .. MaxPid + 1 /\ MaxPid \in Nat
    BY Zenon DEF IInv, PidInv, ProcConstants
  <2>2. pid' \in [Slots -> 0 .. MaxPid] /\ nextpid' \in 1 .. MaxPid + 1
    BY <1>1, <1>2, <2>1
  <2>3. \A q \in Slots : pid[q] < nextpid /\ pid[q] \in Nat
    BY <2>1 DEF IInv, PidInv
  <2>4. \A q \in Slots : pid'[q] < nextpid' /\ (Live(q)' => pid'[q] # 0)
    BY <1>2, <1>3, <2>1, <2>3 DEF IInv, PidInv, Live
  <2>5. \A q, r \in Slots : pid'[q] = pid'[r] /\ pid'[q] # 0 => q = r
    BY <1>3, <2>1, <2>3 DEF IInv, PidInv
  <2>q. QED BY <2>2, <2>4, <2>5, Zenon DEF PidInv
<1>9. WaitNotLost'
  BY <1>1, <1>2, <1>3, WaitFrame, Zenon
<1>q. QED BY <1>4, <1>5, <1>6, <1>7, <1>8, <1>9, Zenon DEF IInv

\* What is known of a process in fork.
LEMMA InFork ==
  ASSUME ProcConstants, IInv, NEW p \in Slots, Forking(p)
  PROVE  /\ Runs(p) /\ np[p] \in Slots /\ state[np[p]] = "EMBRYO" /\ np[p] # p
         /\ ~Forking(np[p]) /\ np[p] # initproc
         /\ \A q \in Slots : Forking(q) /\ q # p => np[q] # np[p]
BY SlotFacts, Zenon DEF IInv, ForkInv, FamilyInv, Working, Runs

\* Fork ends: the others in fork are as before.
LEMMA ForkEnds ==
  ASSUME IInv, parent' = parent,
         \A q \in Slots : Forking(q)' => /\ Forking(q) /\ np'[q] = np[q] /\ pc'[q] = pc[q]
                                         /\ Runs(q)' /\ state'[np[q]] = "EMBRYO"
  PROVE  ForkInv'
BY DEF IInv, ForkInv

LEMMA ForkFailsInv ==
  ASSUME ProcConstants, IInv, NEW p \in Slots, ForkFails(p)
  PROVE  IInv'
<1> DEFINE m == np[p]
<1>1. /\ pc[p] = "fork" /\ Forking(p) /\ state' = [state EXCEPT ![m] = "UNUSED"]
      /\ np' = [np EXCEPT ![p] = 0] /\ pc' = [pc EXCEPT ![p] = "user"]
      /\ UNCHANGED <<pid, parent, killed, chan, nextpid, cpu, panicked>>
  BY Zenon DEF ForkFails, At, Goto, Forking
<1>2. /\ Runs(p) /\ m \in Slots /\ state[m] = "EMBRYO" /\ m # p /\ m # initproc
      /\ \A q \in Slots : Forking(q) /\ q # p => np[q] # m
  BY <1>1, InFork, Zenon
<1>3. parent[m] = 0
  BY <1>1, Zenon DEF IInv, ForkInv
<1> HIDE DEF m
<1>4. /\ state'[m] = "UNUSED" /\ \A q \in Slots \ {m} : state'[q] = state[q]
      /\ \A q \in Slots \ {p} : np'[q] = np[q] /\ pc'[q] = pc[q]
      /\ pc'[p] = "user"
  BY <1>1, <1>2, Zenon DEF IInv, TypeInv
<1>5. TypeInv'
  BY <1>1, <1>2, Zenon DEF IInv, TypeInv, States
<1>6. CpuInv'
  BY <1>1, <1>2, <1>4, CpuFrame, Zenon DEF Runs
<1>7. ForkInv'
  <2>1. \A q \in Slots : Forking(q)' => Forking(q) /\ q # p /\ np'[q] = np[q] /\ pc'[q] = pc[q]
    BY <1>4, Zenon DEF Forking
  <2>2. ASSUME NEW q \in Slots, Forking(q), q # p
        PROVE  Runs(q)' /\ np[q] \in Slots /\ state'[np[q]] = "EMBRYO"
    BY <1>2, <1>4, <2>2 DEF IInv, ForkInv, Runs
  <2>q. QED BY <1>1, <2>1, <2>2, ForkEnds, Zenon
<1>8. FamilyInv'
  <2>1. \A q \in Slots : parent[q] \in Slots \cup {0}
    BY Zenon DEF IInv, TypeInv
  <2>2. \A q \in Slots : parent[q] # 0 => parent[q] # m
    BY <1>2, <2>1, Zenon DEF IInv, FamilyInv, Working
  <2>q. QED BY <1>1, <1>2, <1>3, <1>4, <2>1, <2>2, SlotFacts DEF IInv, FamilyInv, Working
<1>9. PidInv'
  BY <1>1, <1>2, <1>4, PidFrame, Zenon DEF Live
<1>10. WaitNotLost'
  BY <1>1, <1>2, <1>4, WaitFrame, Zenon
<1>q. QED BY <1>5, <1>6, <1>7, <1>8, <1>9, <1>10, Zenon DEF IInv

LEMMA ForkParentInv ==
  ASSUME ProcConstants, IInv, NEW p \in Slots, ForkParent(p)
  PROVE  IInv'
<1> DEFINE m == np[p]
<1>1. /\ pc[p] = "fork" /\ Forking(p) /\ parent' = [parent EXCEPT ![m] = p]
      /\ pc' = [pc EXCEPT ![p] = "forked"]
      /\ UNCHANGED <<state, pid, killed, chan, nextpid, cpu, np, panicked>>
  BY Zenon DEF ForkParent, At, Goto, Forking
<1>2. /\ Runs(p) /\ m \in Slots /\ state[m] = "EMBRYO" /\ m # p /\ m # initproc
      /\ \A q \in Slots : Forking(q) /\ q # p => np[q] # m
  BY <1>1, InFork, Zenon
<1>3. parent[m] = 0
  BY <1>1, Zenon DEF IInv, ForkInv
<1> HIDE DEF m
<1>4. /\ parent'[m] = p /\ \A q \in Slots \ {m} : parent'[q] = parent[q]
      /\ \A q \in Slots \ {p} : pc'[q] = pc[q]
      /\ pc'[p] = "forked"
  BY <1>1, <1>2, Zenon DEF IInv, TypeInv
<1>5. TypeInv'
  BY <1>1, <1>2, Zenon DEF IInv, TypeInv
<1>6. CpuInv'
  BY <1>1, CpuFrame, Zenon DEF Runs
<1>7. ForkInv'
  <2>1. \A q \in Slots : Forking(q)' <=> Forking(q)
    BY <1>1, <1>4, Zenon DEF Forking
  <2>2. ASSUME NEW q \in Slots, Forking(q), q # p
        PROVE  np[q] \in Slots /\ np[q] # m /\ parent'[np[q]] = parent[np[q]] /\ pc'[q] = pc[q]
    BY <1>2, <1>4, <2>2, Zenon DEF IInv, ForkInv
  <2>q. QED BY <1>1, <1>2, <1>4, <2>1, <2>2 DEF IInv, ForkInv, Runs, m
<1>8. FamilyInv'
  BY <1>1, <1>2, <1>4, SlotFacts DEF IInv, FamilyInv, Working, Runs
<1>9. PidInv'
  BY <1>1, PidFrame, Zenon DEF Live
<1>10. WaitNotLost'
  <2>1. ASSUME NEW q \in Slots, state[q] = "SLEEPING" PROVE Children(q)' = Children(q)
    <3>1. q # p
      BY <1>2, <2>1, Zenon DEF Runs
    <3>2. \A r \in Slots : parent'[r] = q <=> parent[r] = q
      BY <1>3, <1>4, <3>1, SlotFacts, Zenon
    <3>q. QED BY <3>2, Zenon DEF Children
  <2>q. QED BY <1>1, <2>1, Zenon DEF IInv, WaitNotLost
<1>q. QED BY <1>5, <1>6, <1>7, <1>8, <1>9, <1>10, Zenon DEF IInv

LEMMA ForkRunnableInv ==
  ASSUME ProcConstants, IInv, NEW p \in Slots, ForkRunnable(p)
  PROVE  IInv'
<1> DEFINE m == np[p]
<1>1. /\ pc[p] = "forked" /\ Forking(p) /\ state' = [state EXCEPT ![m] = "RUNNABLE"]
      /\ np' = [np EXCEPT ![p] = 0] /\ pc' = [pc EXCEPT ![p] = "user", ![m] = "user"]
      /\ UNCHANGED <<pid, parent, killed, chan, nextpid, cpu, panicked>>
  BY Zenon DEF ForkRunnable, At, Forking
<1>2. /\ Runs(p) /\ m \in Slots /\ state[m] = "EMBRYO" /\ m # p /\ m # initproc
      /\ \A q \in Slots : Forking(q) /\ q # p => np[q] # m
  BY <1>1, InFork, Zenon
<1>3. parent[m] = p
  BY <1>1, Zenon DEF IInv, ForkInv
<1> HIDE DEF m
<1>4. /\ state'[m] = "RUNNABLE" /\ \A q \in Slots \ {m} : state'[q] = state[q]
      /\ \A q \in Slots \ {p} : np'[q] = np[q]
      /\ \A q \in Slots \ {p, m} : pc'[q] = pc[q]
      /\ pc'[p] = "user" /\ pc'[m] = "user"
  BY <1>1, <1>2, Zenon DEF IInv, TypeInv
<1>5. TypeInv'
  BY <1>1, <1>2, Zenon DEF IInv, TypeInv, States
<1>6. CpuInv'
  BY <1>1, <1>2, <1>4, CpuFrame, Zenon DEF Runs
<1>7. ForkInv'
  <2>1. \A q \in Slots : Forking(q)' => Forking(q) /\ q # p /\ np'[q] = np[q] /\ pc'[q] = pc[q]
    BY <1>4, Zenon DEF Forking
  <2>2. ASSUME NEW q \in Slots, Forking(q), q # p
        PROVE  Runs(q)' /\ np[q] \in Slots /\ state'[np[q]] = "EMBRYO"
    BY <1>2, <1>4, <2>2 DEF IInv, ForkInv, Runs
  <2>q. QED BY <1>1, <2>1, <2>2, ForkEnds, Zenon
<1>8. FamilyInv'
  <2>1. \A q \in Slots : parent[q] \in Slots \cup {0}
    BY Zenon DEF IInv, TypeInv
  <2>2. \A q \in Slots : state[q] \in Working => state'[q] \in Working
    BY <1>4, Zenon DEF Working
  <2>q. QED BY <1>1, <1>2, <1>3, <1>4, <2>1, <2>2, SlotFacts DEF IInv, FamilyInv, Working
<1>9. PidInv'
  BY <1>1, <1>2, <1>4, PidFrame, Zenon DEF Live
<1>10. WaitNotLost'
  BY <1>1, <1>2, <1>4, WaitFrame, Zenon
<1>q. QED BY <1>5, <1>6, <1>7, <1>8, <1>9, <1>10, Zenon DEF IInv

-----------------------------------------------------------------------------
(* exit, wait *)

\* exit makes p a zombie, hands its children to init and wakes its parent, and
\* init if one of the children is a zombie already.
LEMMA ExitInv ==
  ASSUME ProcConstants, IInv, NEW p \in Slots, exit(p)
  PROVE  IInv'
<1>1. /\ state[p] = "RUNNING" /\ pc[p] = "user" /\ p # initproc /\ sched(p)
      /\ state' = [WokenBy(p) EXCEPT ![p] = "ZOMBIE"]
      /\ \A q \in Slots : parent'[q] = IF parent[q] = p THEN initproc ELSE parent[q]
      /\ parent' = [q \in Slots |-> IF parent[q] = p THEN initproc ELSE parent[q]]
      /\ UNCHANGED <<pid, killed, chan, nextpid, pc, np, panicked>>
  BY Zenon DEF exit, At, Runs
<1>2. /\ state \in [Slots -> States] /\ \A q \in Slots : parent[q] \in Slots \cup {0}
  BY Zenon DEF IInv, TypeInv
<1>3. /\ WokenBy(p) \in [Slots -> States]
      /\ \A q \in Slots : \/ WokenBy(p)[q] = state[q]
                          \/ state[q] = "SLEEPING" /\ WokenBy(p)[q] = "RUNNABLE"
      /\ \A q \in Slots : state[q] = "SLEEPING" /\ chan[q] = parent[p] => WokenBy(p)[q] = "RUNNABLE"
      /\ (\E q \in Children(p) : state[q] = "ZOMBIE") =>
           \A q \in Slots : state[q] = "SLEEPING" /\ chan[q] = initproc => WokenBy(p)[q] = "RUNNABLE"
  <2> DEFINE s == wakeup1(state, parent[p])
             t == wakeup1(s, initproc)
  <2>1. /\ s \in [Slots -> States]
        /\ \A q \in Slots : s[q] = IF state[q] = "SLEEPING" /\ chan[q] = parent[p] THEN "RUNNABLE" ELSE state[q]
    BY <1>2, Zenon DEF wakeup1, States
  <2>2. WokenBy(p) = IF \E q \in Children(p) : state[q] = "ZOMBIE" THEN t ELSE s
    BY Zenon DEF WokenBy
  <2> HIDE DEF s
  <2>3. /\ t \in [Slots -> States]
        /\ \A q \in Slots : t[q] = IF s[q] = "SLEEPING" /\ chan[q] = initproc THEN "RUNNABLE" ELSE s[q]
    BY <2>1, Zenon DEF wakeup1, States
  <2> HIDE DEF t
  <2>q. QED BY <2>1, <2>2, <2>3, Zenon
<1>4. /\ state' \in [Slots -> States] /\ state'[p] = "ZOMBIE"
      /\ \A q \in Slots \ {p} : state'[q] = WokenBy(p)[q]
  BY <1>1, <1>3, Zenon DEF States
<1>5. \A q \in Slots \ {p} : \/ state'[q] = state[q]
                             \/ state[q] = "SLEEPING" /\ state'[q] = "RUNNABLE"
  BY <1>3, <1>4, Zenon
<1>6. CpuInv' /\ cpu' \in [CPUs -> Slots \cup {0}]
  BY <1>1, <1>4, <1>5, CpuLeave, Zenon DEF Runs
<1>7. TypeInv'
  <2>1. parent' \in [Slots -> Slots \cup {0}]
    BY <1>1, <1>2, SlotFacts, Zenon
  <2>q. QED BY <1>1, <1>4, <1>6, <2>1, Zenon DEF IInv, TypeInv
<1>8. ForkInv'
  <2>1. ASSUME NEW q \in Slots, Forking(q) PROVE parent[np[q]] # p /\ np[q] \in Slots
    BY <1>1, <2>1, SlotFacts DEF IInv, ForkInv, Forking
  <2>2. \A q \in Slots : Forking(q)' <=> Forking(q)
    BY <1>1, Zenon DEF Forking
  <2>3. ASSUME NEW q \in Slots, Forking(q)
        PROVE  Runs(q)' /\ state'[np[q]] = "EMBRYO" /\ parent'[np[q]] = parent[np[q]]
    <3>1. q # p /\ np[q] # p /\ Runs(q) /\ state[np[q]] = "EMBRYO"
      BY <1>1, <2>3, Zenon DEF IInv, ForkInv, Forking
    <3>q. QED BY <1>1, <1>5, <2>1, <2>3, <3>1, Zenon DEF Runs
  <2>q. QED BY <1>1, <2>1, <2>2, <2>3, Zenon DEF IInv, ForkInv
<1>9. FamilyInv'
  <2>1. \A q \in Slots \ {p} : state[q] \in Working <=> state'[q] \in Working
    BY <1>5, Zenon DEF Working
  <2>2. \A q \in Slots \ {p} : state'[q] = state[q] \/ state'[q] \in Working
    BY <1>5, Zenon DEF Working
  <2>3. state'[initproc] \in Working /\ parent'[initproc] = 0
    BY <1>1, <2>1, SlotFacts, Zenon DEF IInv, FamilyInv
  <2>4. ASSUME NEW q \in Slots, state'[q] = "UNUSED" PROVE parent'[q] = 0
    <3>1. q # p /\ state[q] = "UNUSED"
      BY <1>4, <1>5, <2>4, Zenon
    <3>q. QED BY <1>1, <3>1, SlotFacts, Zenon DEF IInv, FamilyInv
  <2>5. ASSUME NEW q \in Slots, parent'[q] # 0 PROVE parent'[q] # q /\ state'[parent'[q]] \in Working
    <3>1. CASE parent[q] = p
      <4>1. q # initproc /\ parent'[q] = initproc
        BY <1>1, <3>1, SlotFacts, Zenon DEF IInv, FamilyInv
      <4>q. QED BY <2>3, <4>1, Zenon
    <3>2. CASE parent[q] # p
      BY <1>1, <1>2, <2>1, <2>5, <3>2, Zenon DEF IInv, FamilyInv
    <3>q. QED BY <3>1, <3>2, Zenon
  <2>6. ASSUME NEW q \in Slots \ {initproc}, state'[q] \in Working \cup {"ZOMBIE"} PROVE parent'[q] # 0
    <3>1. state[q] \in Working \cup {"ZOMBIE"}
      BY <1>1, <1>5, <2>6, Zenon DEF Working
    <3>q. QED BY <1>1, <3>1, SlotFacts, Zenon DEF IInv, FamilyInv
  <2>q. QED BY <2>3, <2>4, <2>5, <2>6, Zenon DEF FamilyInv
<1>10. PidInv'
  BY <1>1, <1>5, PidFrame, Zenon DEF Live
<1>11. WaitNotLost'
  <2>1. SUFFICES ASSUME NEW q \in Slots, state'[q] = "SLEEPING", chan'[q] = q
                 PROVE  /\ Children(q)' # {} /\ ~killed'[q]
                        /\ \A r \in Children(q)' : state'[r] # "ZOMBIE"
    BY Zenon DEF WaitNotLost
  <2>2. q # p /\ state[q] = "SLEEPING" /\ chan[q] = q /\ state'[q] = WokenBy(p)[q]
    BY <1>1, <1>4, <1>5, <2>1, Zenon
  <2>3. Children(q) # {} /\ ~killed[q] /\ \A r \in Children(q) : state[r] # "ZOMBIE"
    BY <2>2, Zenon DEF IInv, WaitNotLost
  <2>4. Children(q) \subseteq Children(q)'
    BY <1>1, <2>2, Zenon DEF Children
  <2>5. q # parent[p]
    BY <1>3, <2>1, <2>2, Zenon
  <2>6. ASSUME NEW r \in Children(q)', state'[r] = "ZOMBIE" PROVE FALSE
    <3>1. r \in Slots /\ parent'[r] = q
      BY Zenon DEF Children
    <3>2. CASE r = p
      <4>1. parent[p] # p
        BY <1>1, SlotFacts, Zenon DEF IInv, FamilyInv
      <4>q. QED BY <1>1, <2>5, <3>1, <3>2, <4>1, Zenon
    <3>3. CASE r # p
      <4>1. state[r] = "ZOMBIE"
        BY <1>5, <2>6, <3>1, <3>3, Zenon
      <4>2. parent[r] = p /\ q = initproc
        BY <1>1, <2>3, <3>1, <4>1, Zenon DEF Children
      <4>3. \E s \in Children(p) : state[s] = "ZOMBIE"
        BY <3>1, <4>1, <4>2, Zenon DEF Children
      <4>q. QED BY <1>3, <2>1, <2>2, <4>2, <4>3, Zenon
    <3>q. QED BY <3>2, <3>3, Zenon
  <2>q. QED BY <1>1, <2>3, <2>4, <2>6, Zenon
<1>q. QED BY <1>6, <1>7, <1>8, <1>9, <1>10, <1>11, Zenon DEF IInv

\* Steps that change no slot and no CPU.
LEMMA CallInv ==
  ASSUME ProcConstants, IInv, NEW p \in Slots,
         CallWait(p) \/ WaitFails(p) \/ InitExits(p) \/ UNCHANGED vars
  PROVE  IInv'
<1>1. /\ UNCHANGED <<state, pid, parent, killed, chan, nextpid, cpu, np>>
      /\ TypeInv'
      /\ \A q \in Slots : Forking(q)' => pc'[q] = pc[q]
  BY Zenon DEF CallWait, WaitFails, InitExits, vars, At, Goto, slotVars, Forking, IInv, TypeInv
<1>2. CpuInv'
  BY <1>1, CpuFrame, Zenon DEF Runs
<1>3. ForkInv'
  BY <1>1, ForkEnds, Zenon DEF IInv, ForkInv, Runs, Forking
<1>4. FamilyInv'
  BY <1>1, FamilyFrame, Zenon
<1>5. PidInv'
  BY <1>1, PidFrame, Zenon DEF Live
<1>6. WaitNotLost'
  BY <1>1, WaitFrame, Zenon
<1>q. QED BY <1>1, <1>2, <1>3, <1>4, <1>5, <1>6, Zenon DEF IInv

LEMMA WaitReapsInv ==
  ASSUME ProcConstants, IInv, NEW p \in Slots, WaitReaps(p)
  PROVE  IInv'
<1> DEFINE dead == {q \in Children(p) : state[q] = "ZOMBIE"}
           m == Min(dead)
<1>1. m \in Slots /\ parent[m] = p /\ state[m] = "ZOMBIE"
  <2>1. dead \in SUBSET Slots /\ dead # {}
    BY Zenon DEF WaitReaps, Children
  <2>2. m \in dead
    BY <2>1, FirstSlot, Zenon
  <2>q. QED BY <2>2, Zenon DEF Children
<1>2. /\ state[p] = "RUNNING" /\ pc[p] = "wait"
      /\ pid' = [pid EXCEPT ![m] = 0] /\ parent' = [parent EXCEPT ![m] = 0]
      /\ killed' = [killed EXCEPT ![m] = FALSE] /\ state' = [state EXCEPT ![m] = "UNUSED"]
      /\ pc' = [pc EXCEPT ![p] = "user"]
      /\ UNCHANGED <<chan, nextpid, cpu, np, panicked>>
  BY Zenon DEF WaitReaps, At, Runs, Goto
<1> HIDE DEF m
<1>3. /\ state'[m] = "UNUSED" /\ parent'[m] = 0 /\ pid'[m] = 0
      /\ \A q \in Slots \ {m} : state'[q] = state[q] /\ parent'[q] = parent[q] /\ pid'[q] = pid[q]
                                /\ killed'[q] = killed[q]
      /\ pc'[p] = "user" /\ \A q \in Slots \ {p} : pc'[q] = pc[q]
  BY <1>1, <1>2, Zenon DEF IInv, TypeInv, PidInv
<1>4. TypeInv'
  BY <1>1, <1>2, Zenon DEF IInv, TypeInv, States
<1>5. CpuInv'
  BY <1>1, <1>2, <1>3, CpuFrame, Zenon DEF Runs
<1>6. ForkInv'
  BY <1>1, <1>2, <1>3, ForkFrame, Zenon DEF Forking, Runs
<1>7. FamilyInv'
  <2>1. \A q \in Slots : parent[q] \in Slots \cup {0}
    BY Zenon DEF IInv, TypeInv
  <2>2. \A q \in Slots : parent[q] # 0 => parent[q] # m
    BY <1>1, <2>1, Zenon DEF IInv, FamilyInv, Working
  <2>3. m # initproc
    BY <1>1, Zenon DEF IInv, FamilyInv, Working
  <2>q. QED BY <1>1, <1>3, <2>1, <2>2, <2>3, SlotFacts DEF IInv, FamilyInv, Working
<1>8. PidInv'
  <2>1. pid' \in [Slots -> 0 .. MaxPid] /\ 0 < nextpid
    BY <1>1, <1>2 DEF IInv, PidInv, ProcConstants
  <2>q. QED BY <1>2, <1>3, <2>1 DEF IInv, PidInv, Live
<1>9. WaitNotLost'
  <2>1. ASSUME NEW q \in Slots, state'[q] = "SLEEPING" PROVE Children(q)' = Children(q) /\ q # m
    <3>1. q # p /\ q # m
      BY <1>2, <1>3, <2>1
    <3>2. \A r \in Slots : parent'[r] = q <=> parent[r] = q
      BY <1>1, <1>3, <3>1, SlotFacts
    <3>q. QED BY <3>1, <3>2, Zenon DEF Children
  <2>2. \A q \in Slots : state'[q] = "ZOMBIE" => state[q] = "ZOMBIE"
    BY <1>3, Zenon
  <2>3. \A q \in Slots : Children(q) \in SUBSET Slots
    BY Zenon DEF Children
  <2>q. QED BY <1>2, <1>3, <2>1, <2>2, <2>3 DEF IInv, WaitNotLost
<1>q. QED BY <1>4, <1>5, <1>6, <1>7, <1>8, <1>9, Zenon DEF IInv

LEMMA WaitSleepsInv ==
  ASSUME ProcConstants, IInv, NEW p \in Slots, WaitSleeps(p)
  PROVE  IInv'
<1>1. /\ state[p] = "RUNNING" /\ pc[p] = "wait" /\ sched(p)
      /\ Children(p) # {} /\ ~killed[p] /\ \A q \in Children(p) : state[q] # "ZOMBIE"
      /\ state' = [state EXCEPT ![p] = "SLEEPING"] /\ chan' = [chan EXCEPT ![p] = p]
      /\ UNCHANGED <<pid, parent, killed, nextpid, pc, np, panicked>>
  BY Zenon DEF WaitSleeps, At, Runs
<1>2. /\ state'[p] = "SLEEPING" /\ \A q \in Slots \ {p} : state'[q] = state[q] /\ chan'[q] = chan[q]
      /\ state' \in [Slots -> States] /\ chan' \in [Slots -> Slots \cup {0, IO}]
  BY <1>1, Zenon DEF IInv, TypeInv, States
<1>3. CpuInv' /\ cpu' \in [CPUs -> Slots \cup {0}]
  BY <1>1, <1>2, CpuLeave, Zenon DEF Runs
<1>4. TypeInv'
  BY <1>1, <1>2, <1>3, Zenon DEF IInv, TypeInv
<1>5. ForkInv'
  BY <1>1, <1>2, ForkFrame, Zenon DEF Forking, Runs
<1>6. FamilyInv'
  BY <1>1, <1>2, FamilyFrame, Zenon DEF Working
<1>7. PidInv'
  BY <1>1, <1>2, PidFrame, Zenon DEF Live
<1>8. WaitNotLost'
  <2>1. \A q \in Slots : Children(q)' = Children(q) /\ Children(q) \in SUBSET Slots
    BY <1>1, Zenon DEF Children
  <2>2. \A q \in Slots : state'[q] = "ZOMBIE" => state[q] = "ZOMBIE"
    BY <1>2, Zenon
  <2>q. QED BY <1>1, <1>2, <2>1, <2>2 DEF IInv, WaitNotLost
<1>q. QED BY <1>3, <1>4, <1>5, <1>6, <1>7, <1>8, Zenon DEF IInv

-----------------------------------------------------------------------------
(* The theorem *)

LEMMA NextInv ==
  ASSUME ProcConstants
  PROVE  IInv /\ [Next]_vars => IInv'
<1> SUFFICES ASSUME IInv, [Next]_vars PROVE IInv'
  OBVIOUS
<1>1. ASSUME NEW p \in Slots, Schedule(p) \/ yield(p) \/ SleepIO(p) \/ allocproc(p) \/ fork(p)
      PROVE  IInv'
  BY <1>1, ScheduleInv, LeaveInv, AllocInv, ForkFailsInv, ForkParentInv, ForkRunnableInv,
     Zenon DEF fork
<1>2. ASSUME NEW p \in Slots, wait(p) \/ exit(p) \/ InitExits(p) \/ CallWait(p)
      PROVE  IInv'
  BY <1>2, WaitReapsInv, CallInv, WaitSleepsInv, ExitInv, Zenon DEF wait
<1>3. ASSUME NEW p \in Slots, NEW n \in 0 .. MaxPid, kill(p, n) PROVE IInv'
  BY <1>3, KillInv, Zenon
<1>4. CASE wakeup(IO)
  BY <1>4, WakeupInv, Zenon
<1>5. CASE UNCHANGED vars
  BY <1>5, SlotFacts, CallInv, Zenon
<1>q. QED BY <1>1, <1>2, <1>3, <1>4, <1>5, Zenon DEF Next, KernelStep

LEMMA InvSafe ==
  ASSUME ProcConstants
  PROVE  IInv => ProcsSafe
<1> SUFFICES ASSUME IInv PROVE ProcsSafe
  OBVIOUS
<1>1. TypeOK
  BY SlotFacts, Zenon DEF IInv, TypeInv, PidInv, TypeOK
<1>2. OneCpu
  <2>1. SUFFICES ASSUME NEW p \in Slots
                 PROVE  Cardinality({c \in CPUs : cpu[c] = p}) = IF Runs(p) THEN 1 ELSE 0
    BY Zenon DEF OneCpu
  <2>2. CASE Runs(p)
    <3>1. PICK c \in CPUs : cpu[c] = p
      BY <2>2, Zenon DEF IInv, CpuInv
    <3>2. {d \in CPUs : cpu[d] = p} = {c}
      BY <3>1, SlotFacts, Zenon DEF IInv, CpuInv
    <3>q. QED BY <2>2, <3>2, FS_Singleton, Zenon
  <2>3. CASE ~Runs(p)
    <3>1. {d \in CPUs : cpu[d] = p} = {}
      BY <2>3, SlotFacts, Zenon DEF IInv, CpuInv
    <3>q. QED BY <2>3, <3>1, FS_EmptySet, Zenon
  <2>q. QED BY <2>2, <2>3, Zenon
<1>3. NoOrphans
  BY DEF IInv, TypeInv, FamilyInv, NoOrphans, Live, Working, States
<1>4. UniquePids
  BY Zenon DEF IInv, PidInv, UniquePids
<1>q. QED BY <1>1, <1>2, <1>3, <1>4, Zenon DEF ProcsSafe, IInv

\* A process is RUNNING exactly when one CPU runs it, has a parent that can still
\* wait for it and a pid of its own, and wait sleeps through neither the exit of a
\* child nor kill (proc.c:46-62, 208-316, 446-449), for any number of CPUs and
\* slots.
THEOREM ProcSafety ==
  ASSUME ProcConstants
  PROVE  Spec => []ProcsSafe
<1>1. Init => IInv
  BY InitInv, Zenon
<1>2. IInv /\ [Next]_vars => IInv'
  BY NextInv, Zenon
<1>3. IInv => ProcsSafe
  BY InvSafe, Zenon
<1>q. QED BY <1>1, <1>2, <1>3, PTL DEF Spec
=============================================================================
