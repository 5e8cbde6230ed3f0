-------------------------------- MODULE Pipe --------------------------------
(***************************************************************************)
(* A pipe (pipe.c) with the processes that read, write and close it, sleep *)
(* and wakeup on it, and kill.                                             *)
(*                                                                         *)
(* p->lock is held from the start of a call to its sleep or return, and    *)
(* sleep gives it up together with the change to SLEEPING, so what lies    *)
(* between is one step -- but for kill, which takes only ptable.lock: the  *)
(* test of killed and the sleep that follows it are two steps, with the    *)
(* lock held in between.  pipewrite's loop takes a step for each byte.     *)
(***************************************************************************)
EXTENDS Integers, Sequences, FiniteSets

CONSTANTS
  Procs, NULL,
  First,         \* the process that calls pipe()
  Victims,       \* the processes that are killed
  Requests,      \* byte sequences a process may write
  MaxRead,       \* the largest n of a read
  PIPESIZE,
  Mod            \* nread and nwrite count modulo this (2^32 in the code)

ASSUME PipeSizes ==
  /\ PIPESIZE \in Nat \ {0} /\ MaxRead \in Nat \ {0}
  /\ Mod \in Nat /\ Mod > PIPESIZE /\ Mod % PIPESIZE = 0
ASSUME PipeProcs == First \in Procs /\ NULL \notin Procs /\ Victims \subseteq Procs
ASSUME PipeRequests == Requests \subseteq Seq(0 .. 255)

VARIABLES
  data, nread, nwrite, readopen, writeopen, lock,   \* struct pipe
  freed,                 \* its page is back with kalloc
  rend, wend,            \* processes with a descriptor of each end
  pc,                    \* where each process is
  killed,
  todo,                  \* each writer's bytes addr[i..n-1]
  want,                  \* each reader's n
  out                    \* what the last read returned

pipeVars == <<data, nread, nwrite, readopen, writeopen, freed>>
endVars == <<rend, wend>>
callVars == <<todo, want, out>>
vars == <<pipeVars, lock, endVars, pc, killed, callVars>>

None == -1   \* a byte of the page not written yet
Stored(d, r, n) == [i \in 1 .. n |-> d[(r + i - 1) % PIPESIZE]]
Count == (nwrite - nread) % Mod

\* pipealloc and sys_pipe: one file for each end, both of them First's.
Init ==
  /\ data = [i \in 0 .. PIPESIZE - 1 |-> None]
  /\ nread = 0 /\ nwrite = 0 /\ readopen = TRUE /\ writeopen = TRUE
  /\ lock = NULL /\ freed = FALSE
  /\ rend = {First} /\ wend = {First}
  /\ pc = [p \in Procs |-> IF p = First THEN "user" ELSE "unborn"]
  /\ killed = [p \in Procs |-> FALSE]
  /\ todo = [p \in Procs |-> <<>>] /\ want = [p \in Procs |-> 0] /\ out = <<>>

\* wakeup: those asleep at label l go on to label m, pc[p] becoming k.
Wake(p, k, l, m) ==
  pc' = [q \in Procs |-> IF q = p THEN k ELSE IF pc[q] = l THEN m ELSE pc[q]]

-----------------------------------------------------------------------------
(* pipewrite *)

\* sys_write with a buffer s.
CallWrite(p, s) ==
  /\ pc[p] = "user" /\ p \in wend /\ ~killed[p]
  /\ todo' = [todo EXCEPT ![p] = s]
  /\ pc' = [pc EXCEPT ![p] = "write"]
  /\ UNCHANGED <<pipeVars, lock, endVars, killed, want, out>>

\* acquire(&p->lock), at the start of the call and at the end of sleep.
WriteLock(p) ==
  /\ pc[p] = "write" /\ lock = NULL
  /\ pc' = [pc EXCEPT ![p] = "wloop"] /\ lock' = p
  /\ UNCHANGED <<pipeVars, endVars, killed, callVars>>

\* Fault: the ring is taken for full one byte too late.
FullFault == nwrite = (nread + PIPESIZE + 1) % Mod

\* p->nwrite == p->nread + PIPESIZE, in unsigned arithmetic.
Full == nwrite = (nread + PIPESIZE) % Mod

\* p->data[p->nwrite++ % PIPESIZE] = addr[i]
WriteByte(p) ==
  /\ pc[p] = "wloop" /\ todo[p] # <<>> /\ ~Full
  /\ data' = [data EXCEPT ![nwrite % PIPESIZE] = Head(todo[p])]
  /\ nwrite' = (nwrite + 1) % Mod
  /\ todo' = [todo EXCEPT ![p] = Tail(@)]
  /\ UNCHANGED <<nread, readopen, writeopen, freed, lock, endVars, pc, killed, want, out>>

\* All bytes stored: wakeup(&p->nread), release.
WriteDone(p) ==
  /\ pc[p] = "wloop" /\ todo[p] = <<>>
  /\ Wake(p, "user", "rsleep", "read") /\ lock' = NULL
  /\ UNCHANGED <<pipeVars, endVars, killed, callVars>>

\* Full: return -1 if there is no reader or the process is killed ...
WriteFull(p) ==
  /\ pc[p] = "wloop" /\ todo[p] # <<>> /\ Full
  /\ IF ~readopen \/ killed[p]
     THEN /\ todo' = [todo EXCEPT ![p] = <<>>]
          /\ pc' = [pc EXCEPT ![p] = "user"] /\ lock' = NULL
     ELSE pc' = [pc EXCEPT ![p] = "wsleepy"] /\ UNCHANGED <<todo, lock>>
  /\ UNCHANGED <<pipeVars, endVars, killed, want, out>>

\* Fault: the reader is not woken before the writer sleeps.
WriteSleepFault(p) ==
  /\ pc[p] = "wsleepy"
  /\ pc' = [pc EXCEPT ![p] = "wsleep"] /\ lock' = NULL
  /\ UNCHANGED <<pipeVars, endVars, killed, callVars>>

\* ... else wakeup(&p->nread); sleep(&p->nwrite, &p->lock).
WriteSleep(p) ==
  /\ pc[p] = "wsleepy"
  /\ Wake(p, "wsleep", "rsleep", "read") /\ lock' = NULL
  /\ UNCHANGED <<pipeVars, endVars, killed, callVars>>

pipewrite(p) ==
  WriteLock(p) \/ WriteByte(p) \/ WriteDone(p) \/ WriteFull(p) \/ WriteSleep(p)

-----------------------------------------------------------------------------
(* piperead *)

CallRead(p, n) ==
  /\ pc[p] = "user" /\ p \in rend /\ ~killed[p]
  /\ want' = [want EXCEPT ![p] = n]
  /\ pc' = [pc EXCEPT ![p] = "read"]
  /\ UNCHANGED <<pipeVars, lock, endVars, killed, todo, out>>

\* Empty with a writer left: the test of killed.
ReadEmpty(p) ==
  /\ pc[p] = "read" /\ lock = NULL /\ nread = nwrite /\ writeopen
  /\ IF killed[p] THEN /\ pc' = [pc EXCEPT ![p] = "user"]
                       /\ want' = [want EXCEPT ![p] = 0] /\ UNCHANGED lock
     ELSE pc' = [pc EXCEPT ![p] = "rsleepy"] /\ lock' = p /\ UNCHANGED want
  /\ UNCHANGED <<pipeVars, endVars, killed, todo, out>>

\* sleep(&p->nread, &p->lock).
ReadSleep(p) ==
  /\ pc[p] = "rsleepy"
  /\ pc' = [pc EXCEPT ![p] = "rsleep"] /\ lock' = NULL
  /\ UNCHANGED <<pipeVars, endVars, killed, callVars>>

Min2(a, b) == IF a < b THEN a ELSE b

\* The copy, and wakeup(&p->nwrite).
PipeRead(p) ==
  LET n == Min2(want[p], Count) IN
  /\ pc[p] = "read" /\ lock = NULL /\ (nread # nwrite \/ ~writeopen)
  /\ out' = Stored(data, nread, n)
  /\ nread' = (nread + n) % Mod
  /\ want' = [want EXCEPT ![p] = 0]
  /\ Wake(p, "user", "wsleep", "write")
  /\ UNCHANGED <<data, nwrite, readopen, writeopen, freed, lock, endVars, killed, todo>>

piperead(p) == ReadEmpty(p) \/ ReadSleep(p) \/ PipeRead(p)

-----------------------------------------------------------------------------
(* Descriptors and processes *)

\* fork: the child has the parent's descriptors.
Fork(p, c) ==
  /\ pc[p] = "user" /\ ~killed[p] /\ pc[c] = "unborn"
  /\ rend' = rend \cup (IF p \in rend THEN {c} ELSE {})
  /\ wend' = wend \cup (IF p \in wend THEN {c} ELSE {})
  /\ pc' = [pc EXCEPT ![c] = "user"]
  /\ UNCHANGED <<pipeVars, lock, killed, callVars>>

\* fileclose, from sys_close or from exit: the last descriptor of an end goes
\* on to pipeclose.
CloseRead(p) ==
  /\ pc[p] = "user" /\ p \in rend
  /\ rend' = rend \ {p}
  /\ pc' = [pc EXCEPT ![p] = IF rend = {p} THEN "rclose" ELSE "user"]
  /\ UNCHANGED <<pipeVars, lock, wend, killed, callVars>>
CloseWrite(p) ==
  /\ pc[p] = "user" /\ p \in wend
  /\ wend' = wend \ {p}
  /\ pc' = [pc EXCEPT ![p] = IF wend = {p} THEN "wclose" ELSE "user"]
  /\ UNCHANGED <<pipeVars, lock, rend, killed, callVars>>

\* pipeclose of the reading end; kfree if the other end is closed.
PipeCloseRead(p) ==
  /\ pc[p] = "rclose" /\ lock = NULL
  /\ readopen' = FALSE /\ freed' = ~writeopen
  /\ Wake(p, "user", "wsleep", "write")
  /\ UNCHANGED <<data, nread, nwrite, writeopen, lock, endVars, killed, callVars>>

\* pipeclose of the writing end.
PipeCloseWrite(p) ==
  /\ pc[p] = "wclose" /\ lock = NULL
  /\ writeopen' = FALSE /\ freed' = ~readopen
  /\ Wake(p, "user", "rsleep", "read")
  /\ UNCHANGED <<data, nread, nwrite, readopen, lock, endVars, killed, callVars>>

pipeclose(p) == PipeCloseRead(p) \/ PipeCloseWrite(p)

\* kill, under ptable.lock: a sleeper becomes RUNNABLE.
kill(p) ==
  /\ pc[p] # "unborn" /\ ~killed[p]
  /\ killed' = [killed EXCEPT ![p] = TRUE]
  /\ pc' = [pc EXCEPT ![p] = CASE @ = "rsleep" -> "read" [] @ = "wsleep" -> "write" [] OTHER -> @]
  /\ UNCHANGED <<pipeVars, lock, endVars, callVars>>

\* Steps a process takes by itself once in the kernel.
InKernel(p) == pipewrite(p) \/ piperead(p) \/ pipeclose(p)

Next ==
  \E p \in Procs :
    \/ InKernel(p) \/ CloseRead(p) \/ CloseWrite(p)
    \/ p \in Victims /\ kill(p)
    \/ \E s \in Requests : CallWrite(p, s)
    \/ \E n \in 1 .. MaxRead : CallRead(p, n)
    \/ \E c \in Procs : Fork(p, c)

Spec == Init /\ [][Next]_vars

-----------------------------------------------------------------------------
(* Properties *)

Labels == {"unborn", "user", "write", "wloop", "wsleepy", "wsleep",
           "read", "rsleepy", "rsleep", "rclose", "wclose"}
Bytes == {None} \cup UNION {{s[i] : i \in DOMAIN s} : s \in Requests}

TypeOK ==
  /\ data \in [0 .. PIPESIZE - 1 -> Bytes]
  /\ nread \in 0 .. Mod - 1 /\ nwrite \in 0 .. Mod - 1 /\ Count <= PIPESIZE
  /\ readopen \in BOOLEAN /\ writeopen \in BOOLEAN /\ freed \in BOOLEAN
  /\ lock \in Procs \cup {NULL} /\ rend \subseteq Procs /\ wend \subseteq Procs
  /\ pc \in [Procs -> Labels] /\ killed \in [Procs -> BOOLEAN]
  /\ want \in [Procs -> 0 .. MaxRead]

\* The ring, with counters that wrap, is a bounded FIFO queue of bytes: writers
\* that sleep in the middle of a write, readers that take part of one, closing
\* and killing lose no byte, repeat none and keep their order.
Queue == INSTANCE BytePipe WITH queue <- Stored(data, nread, Count)
ImplementsBytePipe == Queue!Spec

\* Nobody sleeps without reason: with the lock free, a sleeping reader has
\* nothing to read and a writer left to wait for, a sleeping writer a full pipe
\* and a reader left.  A wakeup that came between test and sleep, or was left
\* out on some path, would break it; a killed writer does leave one out,
\* and a reader may then sleep on a pipe that is not empty (pipe.c:85).
NoLostWakeup ==
  lock = NULL => \A p \in Procs :
    /\ pc[p] = "rsleep" => writeopen /\ (nread = nwrite \/ \E q \in Procs : killed[q])
    /\ pc[p] = "wsleep" => Full /\ readopen

\* The pipe's page is not freed while a process has a descriptor of it or is in
\* one of its functions, and is freed once both ends are closed.
FreedLast ==
  freed <=> /\ rend = {} /\ wend = {}
            /\ \A p \in Procs : pc[p] \in {"user", "unborn"}

Reading(p) == pc[p] \in {"read", "rsleepy", "rsleep"}
Writing(p) == pc[p] \in {"write", "wloop", "wsleepy", "wsleep"}

\* A process waits for bytes that no writer will send, or for room that no reader
\* will make.
WaitsForClosed(p) == (Reading(p) /\ ~writeopen) \/ (Writing(p) /\ ~readopen)

\* No wakeup is lost, and the page is freed by the last to leave
\* (pipe.c:59-122).
PipeSafe == TypeOK /\ NoLostWakeup /\ FreedLast
=============================================================================
