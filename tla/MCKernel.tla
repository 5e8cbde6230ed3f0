------------------------------ MODULE MCKernel ------------------------------
(***************************************************************************)
(* Spin locks, the process table, the table of open files and the address  *)
(* spaces, for TLC.  They share no variable: each behaviour is one of a    *)
(* component, and the others stay as they start.  CPUs are                 *)
(* interchangeable.                                                        *)
(***************************************************************************)
EXTENDS Spinlock, TLC

CONSTANTS IO, Spans, Deltas, Images

VARIABLES
  part,          \* the component this behaviour is of
  state, pid, parent, killed, chan, nextpid, cpu, ppc, np, ppanicked,
  ref, file, ofile, pipe, iref, fpc, fheld, fd, child, ff, after, fpanicked,
  free, vpc, pgdir, sz, kstack, new, call, segs, vchild, guard, emptied, lost, vpanicked

P == INSTANCE Proc WITH
  NPROC <- 4, MaxPid <- 4, NoOne <- 0, pc <- ppc, panicked <- ppanicked

\* NFILE, NOFILE and PageCount are so small that each of the three tables runs
\* full before the others.
F == INSTANCE Files WITH
  Procs <- {1, 2}, First <- 1, NFILE <- 3, NOFILE <- 2, PageCount <- 1,
  pc <- fpc, held <- fheld, np <- child, panicked <- fpanicked

\* Programs of one and of two segments, and tables of which one covers two pages
\* at the lowest level.
MCSpans == <<8, 4, 2>>
MCDeltas == {3, -3}
MCImages == {<<3>>, <<3, 6>>}
V == INSTANCE Vm WITH
  Procs <- {1, 2}, PageCount <- 13, PGSIZE <- 2, KERNBASE <- 12,
  pc <- vpc, child <- vchild, panicked <- vpanicked

ASSUME V!VmSizes
ASSUME P!ProcConstants
ASSUME F!FileSizes

pvars == <<state, pid, parent, killed, chan, nextpid, cpu, ppc, np, ppanicked>>
fvars == <<ref, file, ofile, pipe, iref, fpc, fheld, fd, child, ff, after, fpanicked>>
vvars == <<free, vpc, pgdir, sz, kstack, new, call, segs, vchild, guard, emptied, lost,
           vpanicked>>
all == <<part, vars, pvars, fvars, vvars>>

\* panic's loop, in which init's exit ends and so may a fork without memory; and
\* processes that have all exited.
Halted ==
  /\ \/ part = "proc" /\ ppanicked
     \/ part = "vm" /\ (vpanicked # "no" \/ \A p \in {1, 2} : vpc[p] \in {"zombie", "unused"})
  /\ UNCHANGED all

MCInit ==
  /\ part \in {"lock", "proc", "files", "vm"} /\ Init /\ P!Init /\ F!Init /\ V!Init
  /\ part # "lock" => \A c \in CPUs : IF_[c]
MCNext ==
  \/ part = "lock" /\ Next /\ UNCHANGED <<part, pvars, fvars, vvars>>
  \/ part = "proc" /\ P!Next /\ UNCHANGED <<part, vars, fvars, vvars>>
  \/ part = "files" /\ F!Next /\ UNCHANGED <<part, vars, pvars, vvars>>
  \/ part = "vm" /\ V!Next /\ UNCHANGED <<part, vars, pvars, fvars>>
  \/ Halted

MCSpec == MCInit /\ [][MCNext]_all

Symmetry == Permutations(CPUs)

\* Which page is which makes no difference: two states in which each page has
\* one owner, and which have the same entries in use, differ by a renaming of
\* the pages.  OneOwner is part of the view, so that a state without it is
\* never taken for one that has it.  (all = all makes TLC evaluate the state in
\* full before it stores it.)
Shape(sp) ==
  <<sp.root # V!NoPage, {nd \in V!Nodes : sp.tab[nd] # V!NoPage}, V!Mapped(sp), sp.user>>
UpToRenaming ==
  <<part, vars, pvars, fvars, all = all,
    IF part # "vm" THEN <<>>
    ELSE <<[p \in {1, 2} |-> <<Shape(pgdir[p]), Shape(new[p]), kstack[p] # V!NoPage>>],
           Cardinality(free), Cardinality(lost), V!OneOwner,
           vpc, sz, guard, emptied, call, segs, vchild, vpanicked>>>>

\* A process is RUNNING exactly when one CPU runs it, has a parent that can still
\* wait for it and a pid of its own, and wait sleeps through neither the exit of
\* a child nor kill (proc.c:46-62, 208-316, 446-449).
ProcsSafe == part = "proc" => P!ProcsSafe

\* f->ref is the number of descriptors and calls that refer to f, the inode has a
\* reference for each file and call, an end of a pipe is open exactly while it
\* has a file, and no file is used after its last reference is gone (file.c:25-80,
\* pipe.c:22-75, sysfile.c:283-331).
FilesSafe ==
  part = "files" =>
    F!TypeOK /\ F!RefsCounted /\ F!EndsHaveFiles /\ F!InodeRefsCounted /\ F!NoFilePanic

\* Each page of memory has one owner, a process has the pages of its size, the
\* guard page below the stack stays hidden, and mappages, copyuvm and clearpteu
\* find the entries as they expect; but a process that gives back all its memory
\* keeps its size, and copyuvm's panic ends its fork (vm.c:209, 255-391,
\* exec.c:64-68, proc.c:117-135).
SpacesSafe ==
  part = "vm" => V!TypeOK /\ V!OneOwner /\ V!MappedToSize /\ V!GuardHidden /\ V!NoPagingPanic
=============================================================================
