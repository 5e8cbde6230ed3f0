------------------------------ MODULE Umalloc -------------------------------
(***************************************************************************)
(* The user memory allocator (umalloc.c): malloc, free and morecore, on a  *)
(* circular list of free blocks in order of address.                       *)
(*                                                                         *)
(* Memory is counted in units of a header.  The list's header base is at   *)
(* 0, below the heap, which sbrk extends from 1 on; a block's first unit   *)
(* is its header.  Each turn of a loop is a step.  A header that is no     *)
(* longer one, and the ptr of a block in use, are cleared: nothing reads   *)
(* them again.                                                             *)
(***************************************************************************)
EXTENDS Integers

CONSTANTS
  Units,         \* the heap may not grow beyond this unit
  NALLOC,        \* morecore asks for at least this much (4096)
  Sizes          \* the nunits of malloc

UmallocSizes ==
  /\ {Units, NALLOC} \subseteq Nat \ {0} /\ Sizes \subseteq 1 .. Units

VARIABLES
  ptr, size,     \* the headers
  freep,
  brk,           \* the first unit beyond the heap
  used,          \* blocks the program has, with the sizes it asked for
  pc, nunits, p, prevp, bp

headers == <<ptr, size>>
locals == <<nunits, p, prevp, bp>>
vars == <<headers, freep, brk, used, pc, locals>>

Null == -1
base == 0
Addrs == 0 .. Units

Init ==
  /\ ptr = [a \in Addrs |-> Null] /\ size = [a \in Addrs |-> 0]
  /\ freep = Null /\ brk = 1 /\ used = {}
  /\ pc = "idle" /\ nunits = 0 /\ p = Null /\ prevp = Null /\ bp = Null

Return == pc' = "idle" /\ nunits' = 0 /\ p' = Null /\ prevp' = Null /\ bp' = Null

-----------------------------------------------------------------------------
(* malloc and morecore *)

malloc(k) ==
  /\ pc = "idle" /\ pc' = "search" /\ nunits' = k
  /\ IF freep = Null
     THEN /\ ptr' = [ptr EXCEPT ![base] = base] /\ size' = [size EXCEPT ![base] = 0]
          /\ freep' = base /\ prevp' = base
     ELSE prevp' = freep /\ UNCHANGED <<headers, freep>>
  /\ p' = ptr'[prevp']
  /\ UNCHANGED <<brk, used, bp>>

\* Fault: the part that is given away starts one unit early.
TailFault == p + size[p] - nunits - 1

\* Where the last nunits of block p start: p += p->s.size.
Tail == p + size[p] - nunits

\* The block fits: it is taken from the list, or its tail is.
Take ==
  /\ pc = "search" /\ size[p] >= nunits
  /\ IF size[p] = nunits
     THEN ptr' = [ptr EXCEPT ![p] = Null, ![prevp] = ptr[p]] /\ UNCHANGED size
     ELSE size' = [size EXCEPT ![p] = @ - nunits, ![Tail] = nunits] /\ UNCHANGED ptr
  /\ used' = used \cup {<<IF size[p] = nunits THEN p ELSE Tail, nunits>>}
  /\ freep' = prevp /\ Return /\ UNCHANGED brk

Advance ==
  /\ pc = "search" /\ size[p] < nunits /\ p # freep
  /\ prevp' = p /\ p' = ptr[p] /\ UNCHANGED <<headers, freep, brk, used, pc, nunits, bp>>

\* Once round: sbrk, and free of what it gave.  nu * sizeof(Header) is a 64-bit
\* product and stays one: sbrk takes a uint64 (user.h:25), argaddr and growproc
\* 64 bits (sysproc.c:55-57).
morecore ==
  LET nu == IF nunits < NALLOC THEN NALLOC ELSE nunits IN
  /\ pc = "search" /\ size[p] < nunits /\ p = freep /\ brk + nu <= Units + 1
  /\ size' = [size EXCEPT ![brk] = nu] /\ brk' = brk + nu
  /\ pc' = "insert" /\ bp' = brk /\ UNCHANGED <<ptr, freep, used, nunits, p, prevp>>

\* sbrk fails, and so does malloc.
morecoreFails ==
  LET nu == IF nunits < NALLOC THEN NALLOC ELSE nunits IN
  /\ pc = "search" /\ size[p] < nunits /\ p = freep /\ brk + nu > Units + 1
  /\ Return /\ UNCHANGED <<headers, freep, brk, used>>

-----------------------------------------------------------------------------
(* free *)

free(b) ==
  /\ pc = "idle" /\ b \in used /\ used' = used \ {b}
  /\ pc' = "insert" /\ bp' = b[1] /\ p' = freep
  /\ UNCHANGED <<headers, freep, brk, nunits, prevp>>

\* The place is between p and the next block, or p is the last one and bp is
\* above it or below the first.
GoesAfter == (p < bp /\ bp < ptr[p]) \/ (p >= ptr[p] /\ (p < bp \/ bp < ptr[p]))

InsertNext ==
  /\ pc = "insert" /\ ~GoesAfter /\ p' = ptr[p]
  /\ UNCHANGED <<headers, freep, brk, used, pc, nunits, prevp, bp>>

\* p + p->s.size == bp
JoinsPrev(q) == q + size[q] = bp

\* bp is joined with the next block and with p, if they adjoin.  malloc then
\* goes on after the new freep.
Insert ==
  LET next == ptr[p]
      up == bp + size[bp] = next
      bsize == IF up THEN size[bp] + size[next] ELSE size[bp]
      bnext == IF up THEN ptr[next] ELSE next
  IN /\ pc = "insert" /\ GoesAfter
     /\ size' = [a \in Addrs |->
          IF a = bp THEN IF JoinsPrev(p) THEN 0 ELSE bsize
          ELSE IF a = p THEN IF JoinsPrev(p) THEN size[p] + bsize ELSE size[p]
          ELSE IF up /\ a = next THEN 0 ELSE size[a]]
     /\ ptr' = [a \in Addrs |->
          IF a = bp THEN IF JoinsPrev(p) THEN Null ELSE bnext
          ELSE IF a = p THEN IF JoinsPrev(p) THEN bnext ELSE bp
          ELSE IF up /\ a = next THEN Null ELSE ptr[a]]
     /\ freep' = p
     /\ IF nunits = 0 THEN Return
        ELSE pc' = "search" /\ prevp' = p /\ p' = ptr'[p] /\ bp' = Null /\ UNCHANGED nunits
     /\ UNCHANGED <<brk, used>>

Next ==
  \/ \E k \in Sizes : malloc(k)
  \/ \E b \in used : free(b)
  \/ Take \/ Advance \/ morecore \/ morecoreFails \/ InsertNext \/ Insert

Spec == Init /\ [][Next]_vars

-----------------------------------------------------------------------------
(* Properties *)

\* The list, from freep round.
Listed ==
  LET nth[k \in Addrs] == IF k = 0 THEN freep ELSE ptr[nth[k - 1]]
  IN {nth[k] : k \in Addrs}

Free == {<<a, size[a]>> : a \in Listed \ {base}}
Units_(b) == b[1] .. (b[1] + b[2] - 1)

\* Between calls every unit of the heap is in exactly one block, the program's
\* or a free one, and a block of the program's has the size it asked for.
HeapTiled ==
  pc = "idle" /\ freep # Null =>
    /\ \A u \in 1 .. brk - 1 : \E b \in used \cup Free : u \in Units_(b)
    /\ \A b, c \in used \cup Free : b # c => Units_(b) \cap Units_(c) = {}
    /\ \A b \in used : size[b[1]] = b[2]

\* Between calls the list is in order of address, but for the one step back to
\* base, and no two free blocks adjoin: free has joined them.
ListOrdered ==
  pc = "idle" /\ freep # Null =>
    /\ \A a \in Listed : ptr[a] = base \/ a + size[a] < ptr[a] \/ (a = base /\ ptr[a] > base)
    /\ base \in Listed
=============================================================================
