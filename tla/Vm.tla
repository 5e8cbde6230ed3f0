--------------------------------- MODULE Vm ---------------------------------
(***************************************************************************)
(* User address spaces (vm.c) and the calls that build, change and free    *)
(* them: sbrk (growproc), fork (copyuvm), exec and wait, on CPUs that      *)
(* share the free pages of kalloc.c.                                       *)
(*                                                                         *)
(* A page table has a root (the pml4), three levels of tables below it and *)
(* the entries for pages.  Each iteration of the loops of allocuvm and     *)
(* copyuvm is one step, so memory may run out at each of them.  Sizes are  *)
(* in units of which PGSIZE make a page.  What pages hold is left out, and *)
(* programs are well formed: segments in order, the first at PGSIZE.       *)
(***************************************************************************)
EXTENDS Integers, Sequences, FiniteSets, FiniteSetsExt

CONSTANTS
  Procs,         \* slots of ptable; process 1 is the first one
  PageCount,     \* pages of physical memory, numbered from 1
  PGSIZE, KERNBASE,
  Spans,         \* user pages under one table of each level, top level first
  Deltas,        \* the n of sbrk, besides -sz
  Images         \* programs: where each of their segments ends

Pages == 1 .. PageCount
LastPage == (KERNBASE - 1) \div PGSIZE
Vpns == 0 .. LastPage
Levels == 1 .. Len(Spans)
Nodes == UNION {{l} \X (0 .. LastPage \div Spans[l]) : l \in Levels}

VmSizes ==
  /\ {PageCount, PGSIZE, KERNBASE} \subseteq Nat \ {0} /\ 1 \in Procs
  /\ Deltas \subseteq Int /\ Spans \in Seq(Nat \ {0})
  /\ PageCount >= Len(Spans) + 3

VARIABLES
  free,                  \* kmem.freelist
  pc, pgdir, sz, kstack, \* each process
  new,                   \* the address space a call is building
  call,                  \* its allocuvm: what it is for, oldsz, newsz and a
  segs,                  \* exec's program headers that are left
  child,                 \* fork's np
  guard,                 \* the page clearpteu hid and the process still has
  emptied,               \* history: processes that gave back all their memory
  lost,                  \* pages nothing refers to any more
  panicked

procVars == <<pc, pgdir, sz, kstack, guard, emptied>>
callVars == <<new, call, segs, child>>
vars == <<free, procVars, callVars, lost, panicked>>

NoPage == 0
NoSpace == [root |-> NoPage, tab |-> [nd \in Nodes |-> NoPage],
            pte |-> [v \in Vpns |-> NoPage], user |-> {}]
NoCall == [for |-> "none", old |-> 0, goal |-> 0, a |-> 0]

PgUp(s) == (s + PGSIZE - 1) \div PGSIZE   \* PGROUNDUP(s), as a page number
Nth(S, i) == CHOOSE x \in S : Cardinality({y \in S : y < x}) = i - 1
\* The page the next kalloc returns, if there is one.
Mem == IF free = {} THEN {} ELSE {Nth(free, 1)}
NonZero(S) == S \ {NoPage}
Mapped(sp) == {v \in Vpns : sp.pte[v] # NoPage}

\* Every page of an address space: what freevm frees.
PagesOf(sp) ==
  NonZero({sp.root} \cup {sp.tab[nd] : nd \in Nodes} \cup {sp.pte[v] : v \in Vpns})

\* walkpgdir(pgdir, va, 1): tables missing on the path to v are allocated
\* from the top until there is no page left.
Walk(sp, fr, v) ==
  LET path == [l \in Levels |-> <<l, v \div Spans[l]>>]
      missing == SelectSeq(path, LAMBDA nd : sp.tab[nd] = NoPage)
      k == IF Len(missing) < Cardinality(fr) THEN Len(missing) ELSE Cardinality(fr)
      new1 == [i \in 1 .. k |-> Nth(fr, i)]
  IN [ok |-> k = Len(missing), free |-> fr \ {new1[i] : i \in 1 .. k},
      sp |-> [sp EXCEPT !.tab = [nd \in Nodes |->
        IF \E i \in 1 .. k : missing[i] = nd
        THEN new1[CHOOSE i \in 1 .. k : missing[i] = nd] ELSE sp.tab[nd]]]]

\* The entries deallocuvm(pgdir, oldsz, newsz) clears.
Dealloc(sp, oldsz, newsz) == {v \in Mapped(sp) : v >= PgUp(newsz) /\ v * PGSIZE < oldsz}

\* *pte = 0
Unmap(sp, vs) ==
  [sp EXCEPT !.pte = [v \in Vpns |-> IF v \in vs THEN NoPage ELSE @[v]], !.user = @ \ vs]

-----------------------------------------------------------------------------
\* userinit: one page at PGSIZE, and the kernel stack.
Init ==
  LET sp0 == [NoSpace EXCEPT !.root = 1, !.pte[1] = 2, !.user = {1}]
      w == Walk(sp0, Pages \ 1 .. 3, 1)
  IN /\ free = w.free
     /\ pgdir = [p \in Procs |-> IF p = 1 THEN w.sp ELSE NoSpace]
     /\ pc = [p \in Procs |-> IF p = 1 THEN "user" ELSE "unused"]
     /\ sz = [p \in Procs |-> IF p = 1 THEN 2 * PGSIZE ELSE 0]
     /\ kstack = [p \in Procs |-> IF p = 1 THEN 3 ELSE NoPage]
     /\ new = [p \in Procs |-> NoSpace] /\ call = [p \in Procs |-> NoCall]
     /\ segs = [p \in Procs |-> <<>>] /\ child = [p \in Procs |-> 0]
     /\ guard = [p \in Procs |-> 0] /\ emptied = {} /\ lost = {} /\ panicked = "no"

Runs(p, l) == panicked = "no" /\ pc[p] = l
Goto(p, l) == pc' = [pc EXCEPT ![p] = l]
Panic(s) == panicked' = s /\ UNCHANGED <<free, procVars, callVars, lost>>

-----------------------------------------------------------------------------
(* growproc *)

\* sbrk(n), n > 0: allocuvm from sz to sz + n; nothing at or over KERNBASE.
SbrkGrow(p, n) ==
  /\ Runs(p, "user") /\ n > 0 /\ sz[p] + n < KERNBASE
  /\ call' = [call EXCEPT ![p] =
       [for |-> "grow", old |-> sz[p], goal |-> sz[p] + n, a |-> PgUp(sz[p])]]
  /\ Goto(p, "alloc")
  /\ UNCHANGED <<free, pgdir, sz, kstack, guard, emptied, new, segs, child, lost,
                 panicked>>

\* sbrk(n), n < 0: deallocuvm, whose result 0 is taken for a failure: sbrk(-sz)
\* frees every page, returns -1 and leaves sz (and the TLB) as it was, so that the
\* process may go on for a while.  When sz + n wraps it is the larger of the two
\* and nothing happens.
SbrkShrink(p, n) ==
  LET gone == Dealloc(pgdir[p], sz[p], sz[p] + n) IN
  /\ Runs(p, "user") /\ n < 0 /\ sz[p] + n >= 0
  /\ free' = free \cup {pgdir[p].pte[v] : v \in gone}
  /\ pgdir' = [pgdir EXCEPT ![p] = Unmap(@, gone)]
  /\ guard' = [guard EXCEPT ![p] = IF @ \in gone THEN 0 ELSE @]
  /\ sz' = [sz EXCEPT ![p] = IF @ + n = 0 THEN @ ELSE @ + n]
  /\ emptied' = IF sz[p] + n = 0 THEN emptied \cup {p} ELSE emptied
  /\ UNCHANGED <<pc, kstack, callVars, lost, panicked>>

-----------------------------------------------------------------------------
(* allocuvm *)

Space(p) == IF call[p].for = "grow" THEN pgdir[p] ELSE new[p]
SetSpace(p, sp) ==
  IF call[p].for = "grow" THEN pgdir' = [pgdir EXCEPT ![p] = sp] /\ UNCHANGED new
  ELSE new' = [new EXCEPT ![p] = sp] /\ UNCHANGED pgdir

\* deallocuvm(pgdir, newsz, oldsz)
Undo(p, sp) == Dealloc(sp, call[p].goal, call[p].old)

\* Fault: mem is not freed when mappages fails.
FreedMemFault == {}

\* kfree(mem)
FreedMem == Mem

\* kalloc or mappages fails: the pages this call mapped are freed again, and
\* mem; tables stay.
AllocFails(p) ==
  LET w == Walk(Space(p), free \ Mem, call[p].a)
      sp == IF free = {} THEN Space(p) ELSE w.sp
      gone == Undo(p, sp)
  IN /\ Runs(p, "alloc") /\ call[p].a * PGSIZE < call[p].goal
     /\ free = {} \/ ~w.ok
     /\ free' = (free \cap w.free) \cup {sp.pte[v] : v \in gone} \cup FreedMem
     /\ SetSpace(p, Unmap(sp, gone))
     /\ Goto(p, IF call[p].for = "grow" THEN "user" ELSE "bad")
     /\ call' = [call EXCEPT ![p] = NoCall]
     /\ UNCHANGED <<sz, kstack, guard, emptied, segs, child, lost, panicked>>

\* A page is allocated and mapped, unless its entry is in use.
AllocPage(p) ==
  LET v == call[p].a
      w == Walk(Space(p), free \ Mem, v)
  IN /\ Runs(p, "alloc") /\ v * PGSIZE < call[p].goal /\ free # {} /\ w.ok
     /\ IF w.sp.pte[v] # NoPage THEN Panic("remap")
        ELSE /\ free' = w.free
             /\ SetSpace(p, [w.sp EXCEPT !.pte[v] = Nth(free, 1), !.user = @ \cup {v}])
             /\ call' = [call EXCEPT ![p].a = v + 1]
             /\ UNCHANGED <<pc, sz, kstack, guard, emptied, segs, child, lost, panicked>>

\* newsz is reached.
AllocDone(p) ==
  /\ Runs(p, "alloc") /\ call[p].a * PGSIZE >= call[p].goal
  /\ IF call[p].for = "grow"
     THEN /\ sz' = [sz EXCEPT ![p] = call[p].goal] /\ Goto(p, "user")
          /\ call' = [call EXCEPT ![p] = NoCall]
     ELSE /\ Goto(p, call[p].for)
          /\ call' = [call EXCEPT ![p] = [NoCall EXCEPT !.goal = call[p].goal]]
          /\ UNCHANGED sz
  /\ UNCHANGED <<free, pgdir, kstack, guard, emptied, new, segs, child, lost, panicked>>

-----------------------------------------------------------------------------
(* exec *)

\* setupkvm clears the page kalloc returns without a look at it.
Setup(p) == new' = [new EXCEPT ![p] = [NoSpace EXCEPT !.root = Nth(free, 1)]]

Exec(p, image) ==
  /\ Runs(p, "user")
  /\ IF free = {} THEN Panic("setupkvm")
     ELSE /\ Setup(p) /\ free' = free \ Mem
          /\ segs' = [segs EXCEPT ![p] = image]
          /\ call' = [call EXCEPT ![p] = [NoCall EXCEPT !.goal = PGSIZE]]
          /\ Goto(p, "segment")
          /\ UNCHANGED <<pgdir, sz, kstack, guard, emptied, child, lost, panicked>>

\* allocuvm for the next segment, then for the guard page and the stack; a
\* header or a segment that cannot be read ends the call.
ExecSegment(p) ==
  LET oldsz == call[p].goal
      last == segs[p] = <<>>
      from == IF last THEN PgUp(oldsz) * PGSIZE ELSE oldsz
      newsz == IF last THEN from + 2 * PGSIZE ELSE Head(segs[p])
  IN /\ Runs(p, "segment")
     /\ segs' = [segs EXCEPT ![p] = IF last THEN <<>> ELSE Tail(@)]
     /\ \/ /\ newsz < KERNBASE
           /\ call' = [call EXCEPT ![p] = [for |-> IF last THEN "stack" ELSE "segment",
                 old |-> from, goal |-> IF newsz < from THEN from ELSE newsz, a |-> PgUp(from)]]
           /\ Goto(p, "alloc")
        \/ call' = [call EXCEPT ![p] = NoCall] /\ Goto(p, "bad")
     /\ UNCHANGED <<free, pgdir, sz, kstack, guard, emptied, new, child, lost, panicked>>

\* clearpteu, and the arguments copied to the stack, which must fit.
ExecStack(p) ==
  LET g == (call[p].goal - 2 * PGSIZE) \div PGSIZE IN
  /\ Runs(p, "stack")
  /\ IF new[p].pte[g] = NoPage THEN Panic("clearpteu")
     ELSE /\ new' = [new EXCEPT ![p].user = @ \ {g}]
          /\ Goto(p, "commit") \/ Goto(p, "bad")
          /\ UNCHANGED <<free, pgdir, sz, kstack, guard, emptied, call, segs, child, lost,
                         panicked>>

\* The new image replaces the old one, which is freed.
ExecCommit(p) ==
  /\ Runs(p, "commit")
  /\ free' = free \cup PagesOf(pgdir[p])
  /\ pgdir' = [pgdir EXCEPT ![p] = new[p]] /\ new' = [new EXCEPT ![p] = NoSpace]
  /\ sz' = [sz EXCEPT ![p] = call[p].goal]
  /\ guard' = [guard EXCEPT ![p] = (call[p].goal - 2 * PGSIZE) \div PGSIZE]
  /\ call' = [call EXCEPT ![p] = NoCall] /\ segs' = [segs EXCEPT ![p] = <<>>]
  /\ emptied' = emptied \ {p} /\ Goto(p, "user")
  /\ UNCHANGED <<kstack, child, lost, panicked>>

\* bad: freevm(pgdir).
ExecBad(p) ==
  /\ Runs(p, "bad")
  /\ free' = free \cup PagesOf(new[p]) /\ new' = [new EXCEPT ![p] = NoSpace]
  /\ call' = [call EXCEPT ![p] = NoCall] /\ segs' = [segs EXCEPT ![p] = <<>>]
  /\ Goto(p, "user")
  /\ UNCHANGED <<pgdir, sz, kstack, guard, emptied, child, lost, panicked>>

exec(p) == ExecSegment(p) \/ ExecStack(p) \/ ExecCommit(p) \/ ExecBad(p)

-----------------------------------------------------------------------------
(* fork, exit, wait *)

\* allocproc: without a page for the kernel stack the slot stays unused.
ForkAlloc(p, c) ==
  /\ Runs(p, "user") /\ pc[c] = "unused" /\ free # {}
  /\ kstack' = [kstack EXCEPT ![c] = Nth(free, 1)] /\ free' = free \ Mem
  /\ pc' = [pc EXCEPT ![p] = "setup", ![c] = "embryo"]
  /\ child' = [child EXCEPT ![p] = c]
  /\ UNCHANGED <<pgdir, sz, guard, emptied, new, call, segs, lost, panicked>>

ForkSetup(p) ==
  /\ Runs(p, "setup")
  /\ IF free = {} THEN Panic("setupkvm")
     ELSE /\ Setup(p) /\ free' = free \ Mem
          /\ call' = [call EXCEPT ![p] = [NoCall EXCEPT !.a = 1]]
          /\ Goto(p, "copy")
          /\ UNCHANGED <<pgdir, sz, kstack, guard, emptied, segs, child, lost, panicked>>

\* A page of the parent that is to be copied.
CopyNext(p) == Runs(p, "copy") /\ call[p].a * PGSIZE < sz[p]

\* PTE_FLAGS(*pte)
CopyFlags(p, v) == pgdir[p].user \cap {v}

\* It is not there.
CopyPanics(p) == CopyNext(p) /\ pgdir[p].pte[call[p].a] = NoPage /\ Panic("copyuvm")

CopyPage(p) ==
  LET v == call[p].a
      w == Walk(new[p], free \ Mem, v)
  IN /\ CopyNext(p) /\ pgdir[p].pte[v] # NoPage /\ free # {} /\ w.ok
     /\ free' = w.free
     /\ new' = [new EXCEPT ![p] =
          [w.sp EXCEPT !.pte[v] = Nth(free, 1), !.user = @ \cup CopyFlags(p, v)]]
     /\ call' = [call EXCEPT ![p].a = v + 1]
     /\ UNCHANGED <<procVars, segs, child, lost, panicked>>

\* bad: freevm(d), and fork frees the kernel stack.  When it is mappages
\* that failed, mem is not mapped and is not freed.
CopyFails(p) ==
  LET w == Walk(new[p], free \ Mem, call[p].a) IN
  /\ CopyNext(p) /\ pgdir[p].pte[call[p].a] # NoPage /\ (free = {} \/ ~w.ok)
  /\ free' = PagesOf(new[p]) \cup (free \ Mem)
       \cup {kstack[child[p]]}
  /\ lost' = lost \cup Mem
  /\ new' = [new EXCEPT ![p] = NoSpace] /\ call' = [call EXCEPT ![p] = NoCall]
  /\ kstack' = [kstack EXCEPT ![child[p]] = NoPage] /\ child' = [child EXCEPT ![p] = 0]
  /\ pc' = [pc EXCEPT ![p] = "user", ![child[p]] = "unused"]
  /\ UNCHANGED <<pgdir, sz, guard, emptied, segs, panicked>>

ForkDone(p) ==
  LET c == child[p] IN
  /\ Runs(p, "copy") /\ call[p].a * PGSIZE >= sz[p]
  /\ pgdir' = [pgdir EXCEPT ![c] = new[p]] /\ new' = [new EXCEPT ![p] = NoSpace]
  /\ sz' = [sz EXCEPT ![c] = sz[p]] /\ guard' = [guard EXCEPT ![c] = guard[p]]
  /\ call' = [call EXCEPT ![p] = NoCall] /\ child' = [child EXCEPT ![p] = 0]
  /\ pc' = [pc EXCEPT ![p] = "user", ![c] = "user"]
  /\ UNCHANGED <<free, kstack, emptied, segs, lost, panicked>>

fork(p) == ForkSetup(p) \/ CopyPanics(p) \/ CopyPage(p) \/ CopyFails(p) \/ ForkDone(p)

Exit(p) ==
  /\ Runs(p, "user") /\ p # 1 /\ Goto(p, "zombie")
  /\ UNCHANGED <<free, pgdir, sz, kstack, guard, emptied, callVars, lost, panicked>>

\* wait: kfree(p->kstack), freevm(p->pgdir).
Wait(c) ==
  /\ Runs(c, "zombie")
  /\ free' = free \cup {kstack[c]} \cup PagesOf(pgdir[c])
  /\ pgdir' = [pgdir EXCEPT ![c] = NoSpace] /\ kstack' = [kstack EXCEPT ![c] = NoPage]
  /\ sz' = [sz EXCEPT ![c] = 0] /\ guard' = [guard EXCEPT ![c] = 0]
  /\ emptied' = emptied \ {c} /\ Goto(c, "unused")
  /\ UNCHANGED <<callVars, lost, panicked>>

allocuvm(p) == AllocFails(p) \/ AllocPage(p) \/ AllocDone(p)

Next ==
  \E p \in Procs :
    \/ \E n \in Deltas \cup {-sz[p]} : SbrkGrow(p, n) \/ SbrkShrink(p, n)
    \/ \E image \in Images : Exec(p, image)
    \/ \E c \in Procs : ForkAlloc(p, c)
    \/ allocuvm(p) \/ exec(p) \/ fork(p) \/ Exit(p) \/ Wait(p)

Spec == Init /\ [][Next]_vars

-----------------------------------------------------------------------------
(* Properties *)

SpaceOK(sp) ==
  /\ sp.root \in Pages \cup {NoPage} /\ sp.user \subseteq Mapped(sp)
  /\ \A v \in Mapped(sp), l \in Levels : sp.tab[<<l, v \div Spans[l]>>] # NoPage

\* Types, and: an entry for a page is under tables of every level.
TypeOK ==
  /\ free \subseteq Pages /\ lost \subseteq Pages
  /\ \A p \in Procs : /\ SpaceOK(pgdir[p]) /\ SpaceOK(new[p])
                      /\ sz[p] \in 0 .. KERNBASE - 1 /\ guard[p] \in Vpns
                      /\ kstack[p] \in Pages \cup {NoPage}

\* The entries of an address space that hold a page.
Slots(sp) ==
  (IF sp.root = NoPage THEN 0 ELSE 1) + Cardinality({nd \in Nodes : sp.tab[nd] # NoPage})
  + Cardinality(Mapped(sp))

\* No page has two owners, whatever calls of two processes interleave and
\* wherever memory runs out, and none but copyuvm's is without an owner.
OneOwner ==
  LET used(p) == PagesOf(pgdir[p]) \cup PagesOf(new[p]) \cup NonZero({kstack[p]})
      uses(p) == Slots(pgdir[p]) + Slots(new[p]) + Cardinality(NonZero({kstack[p]}))
  IN /\ free \cup lost \cup UNION {used(p) : p \in Procs} = Pages
     /\ Cardinality(free) + Cardinality(lost) + MapThenSumSet(uses, Procs) = PageCount

\* A process that is not changing its memory has exactly the pages of its size,
\* from PGSIZE on, also after a call that failed; only one that gave back all its
\* memory, whose sz growproc then leaves, has fewer.
MappedToSize ==
  \A p \in Procs : pc[p] \in {"user", "copy", "setup", "zombie"} =>
    LET sized == {v \in Vpns \ {0} : v * PGSIZE < sz[p]} IN
    IF p \in emptied THEN Mapped(pgdir[p]) \subseteq sized ELSE Mapped(pgdir[p]) = sized

\* The guard page that exec put below the stack stays inaccessible, in the
\* process and in its children.
GuardHidden == \A p \in Procs : guard[p] # 0 => guard[p] \notin pgdir[p].user

\* mappages never finds an entry in use, and copyuvm and clearpteu find the
\* entries they look for, but for copyuvm in the fork of a process that gave back
\* all its memory.
NoPagingPanic ==
  /\ panicked \notin {"remap", "clearpteu"}
  /\ panicked = "copyuvm" => \E p \in emptied : pc[p] = "copy"
=============================================================================
