----------------------------- MODULE PipeProofs -----------------------------
(***************************************************************************)
(* For any number of processes, any requests and a ring of any size whose  *)
(* counters wrap at any multiple of it: no wakeup is lost, the page is     *)
(* freed by the last to leave, and the ring is a bounded queue of bytes.   *)
(***************************************************************************)
EXTENDS Pipe, SequenceTheorems, TLAPS

-----------------------------------------------------------------------------
(* Remainders *)

LEMMA ModDiv ==
  ASSUME NEW x \in Int, NEW m \in Int, m > 0
  PROVE  x = m * (x \div m) + (x % m) /\ x % m \in 0 .. m - 1 /\ x \div m \in Int
<1>1. x = m * (x \div m) + (x % m)
  BY SMTT(40)
<1>q. QED BY <1>1

\* The remainder is the only one of 0 .. m - 1 that fits.
LEMMA ModUnique ==
  ASSUME NEW m \in Int, m > 0, NEW q \in Int, NEW r \in 0 .. m - 1, NEW x \in Int, x = m * q + r
  PROVE  x % m = r
<1> DEFINE k == x \div m
           s == x % m
           d == q - k
<1>1. k \in Int /\ s \in 0 .. m - 1 /\ x = m * k + s
  BY ModDiv, Zenon
<1> HIDE DEF k, s
<1>2. d \in Int /\ m * d = s - r
  BY <1>1
<1> HIDE DEF d
<1>3. s - r < m /\ s - r > -m
  BY <1>1
<1>4. ~(d >= 1)
  BY <1>2, <1>3
<1>5. ~(d <= -1)
  BY <1>2, <1>3
<1>6. d = 0
  BY <1>2, <1>4, <1>5
<1>q. QED BY <1>1, <1>2, <1>6 DEF s

LEMMA ModShift ==
  ASSUME NEW m \in Int, m > 0, NEW k \in Int, NEW x \in Int
  PROVE  \A y, t \in Int : t = m * k /\ y = x + t => y % m = x % m
<1> SUFFICES ASSUME NEW y \in Int, NEW t \in Int, t = m * k, y = x + t PROVE y % m = x % m
  OBVIOUS
<1> DEFINE q == x \div m
           r == x % m
           j == q + k
<1>1. x = m * q + r /\ r \in 0 .. m - 1 /\ q \in Int
  BY ModDiv, Zenon
<1> HIDE DEF q, r
<1>2. y = m * j + r /\ j \in Int
  BY <1>1
<1> HIDE DEF j
<1>3. y % m = r
  BY <1>1, <1>2, ModUnique
<1>q. QED BY <1>3, Zenon DEF r

\* Counters that wrap at a multiple of the ring's size index it as if they did not.
LEMMA ModOfMod ==
  ASSUME NEW x \in Int, NEW j \in Int
  PROVE  ((x % Mod) + j) % PIPESIZE = (x + j) % PIPESIZE
<1> DEFINE q == x \div Mod
           w == x % Mod
           c == Mod \div PIPESIZE
           k == c * q
           y == w + j
           z == x + j
<1>1. x = Mod * q + w /\ q \in Int /\ w \in Int
  BY ModDiv, PipeSizes
<1>2. Mod = PIPESIZE * c /\ c \in Int
  BY ModDiv, PipeSizes
<1> HIDE DEF q, c, w
<1>3. k \in Int /\ y \in Int /\ z \in Int
  BY <1>1, <1>2
<1>4. Mod * q = PIPESIZE * k
  BY <1>1, <1>2, PipeSizes
<1> HIDE DEF k
<1> DEFINE t == PIPESIZE * k
<1>5. z = y + t /\ t \in Int
  BY <1>1, <1>3, <1>4, PipeSizes
<1> HIDE DEF y, z
<1>6. z % PIPESIZE = y % PIPESIZE
  <2>1. \A u, v \in Int : v = PIPESIZE * k /\ u = y + v => u % PIPESIZE = y % PIPESIZE
    <3>1. PIPESIZE \in Int /\ PIPESIZE > 0
      BY PipeSizes
    <3>q. QED BY <1>3, <3>1, ModShift, Zenon
  <2>2. t = PIPESIZE * k
    OBVIOUS
  <2> HIDE DEF t
  <2>q. QED BY <1>3, <1>5, <2>1, <2>2, Zenon
<1>q. QED BY <1>6, Zenon DEF y, z, w

LEMMA ModNear ==
  ASSUME NEW x \in Int, NEW m \in Int, m > 0
  PROVE  /\ 0 <= x /\ x < m => x % m = x
         /\ m <= x /\ x < 2 * m => x % m = x - m
         /\ -m <= x /\ x < 0 => x % m = x + m
OBVIOUS

\* Fewer than PIPESIZE apart, two bytes have different places.
LEMMA RingApart ==
  ASSUME NEW x \in Int, NEW d \in 1 .. PIPESIZE - 1
  PROVE  x % PIPESIZE # (x + d) % PIPESIZE
<1> DEFINE q == x \div PIPESIZE
           r == x % PIPESIZE
           y == x + d
           z == r + d
<1>1. x = PIPESIZE * q + r /\ r \in 0 .. PIPESIZE - 1 /\ q \in Int /\ PIPESIZE \in Int /\ PIPESIZE > 0
  BY ModDiv, PipeSizes
<1> HIDE DEF q, r
<1>2. y = z + PIPESIZE * q /\ y \in Int /\ z \in Int
  BY <1>1
<1>3. z < 2 * PIPESIZE /\ 0 <= z /\ z # r /\ z - PIPESIZE # r
  BY <1>1
<1> HIDE DEF y, z
<1>4. y % PIPESIZE = z % PIPESIZE
  <2> DEFINE t == PIPESIZE * q
  <2>1. \A u, v \in Int : v = PIPESIZE * q /\ u = z + v => u % PIPESIZE = z % PIPESIZE
    <3>1. PIPESIZE \in Int /\ PIPESIZE > 0 /\ q \in Int /\ z \in Int
      BY <1>1, <1>2, Zenon
    <3>q. QED BY <3>1, ModShift, Zenon
  <2>2. t = PIPESIZE * q /\ t \in Int /\ y = z + t
    BY <1>1, <1>2
  <2> HIDE DEF t
  <2>q. QED BY <1>2, <2>1, <2>2, Zenon
<1>5. z % PIPESIZE = IF z < PIPESIZE THEN z ELSE z - PIPESIZE
  BY <1>1, <1>2, <1>3, ModNear
<1>6. y % PIPESIZE # r
  BY <1>1, <1>2, <1>3, <1>4, <1>5, Zenon
<1>q. QED BY <1>6, Zenon DEF r, y

-----------------------------------------------------------------------------
(* The inductive invariant *)

\* The lock is held from a call's start to its sleep or return.
LockInv == \A p \in Procs : pc[p] \in {"wloop", "wsleepy", "rsleepy"} <=> lock = p

\* A process in a call has the descriptor; an end is open until pipeclose, which
\* the process that had the last descriptor of it calls.
EndsInv ==
  /\ \A p \in Procs : (Reading(p) => p \in rend) /\ (Writing(p) => p \in wend)
  /\ \A p \in Procs : pc[p] = "unborn" => p \notin rend /\ p \notin wend
  /\ readopen <=> rend # {} \/ \E p \in Procs : pc[p] = "rclose"
  /\ writeopen <=> wend # {} \/ \E p \in Procs : pc[p] = "wclose"
  /\ \A p \in Procs : pc[p] = "rclose" => rend = {} /\ \A q \in Procs : pc[q] = "rclose" => q = p
  /\ \A p \in Procs : pc[p] = "wclose" => wend = {} /\ \A q \in Procs : pc[q] = "wclose" => q = p
  /\ freed <=> ~readopen /\ ~writeopen

\* A process about to sleep has reason to; so has one asleep, except a reader while
\* a writer that will wake it fills the pipe, or after one was killed.
SleepInv ==
  /\ \A p \in Procs : pc[p] = "rsleepy" => writeopen /\ nread = nwrite
  /\ \A p \in Procs : pc[p] = "rsleep" =>
       /\ writeopen
       /\ nread = nwrite \/ \E q \in Procs : killed[q] \/ pc[q] \in {"wloop", "wsleepy"}
  /\ \A p \in Procs : pc[p] \in {"wsleepy", "wsleep"} => readopen /\ Full

\* The bytes a writer has left; none outside write.
TodoInv ==
  /\ todo \in [Procs -> Seq(Bytes)]
  /\ \A p \in Procs : ~Writing(p) => todo[p] = <<>>

IInv == TypeOK /\ LockInv /\ EndsInv /\ SleepInv /\ TodoInv

\* The distance of the counters is the number of bytes in the ring.
LEMMA CountFacts ==
  ASSUME TypeOK
  PROVE  /\ Count \in 0 .. PIPESIZE
         /\ Count = IF nread <= nwrite THEN nwrite - nread ELSE nwrite - nread + Mod
         /\ Full <=> Count = PIPESIZE
         /\ nread = nwrite <=> Count = 0
<1>1. nread \in 0 .. Mod - 1 /\ nwrite \in 0 .. Mod - 1 /\ Count <= PIPESIZE
  BY Zenon DEF TypeOK
<1>2. Mod \in Int /\ Mod > 0 /\ PIPESIZE \in Nat /\ PIPESIZE > 0 /\ PIPESIZE < Mod
  BY PipeSizes
<1>3. Count = IF nread <= nwrite THEN nwrite - nread ELSE nwrite - nread + Mod
  BY <1>1, <1>2, ModNear DEF Count
<1>4. (nread + PIPESIZE) % Mod = IF nread + PIPESIZE < Mod THEN nread + PIPESIZE
                                 ELSE nread + PIPESIZE - Mod
  BY <1>1, <1>2, ModNear
<1>5. Full <=> Count = PIPESIZE
  BY <1>1, <1>2, <1>3, <1>4 DEF Full
<1>q. QED BY <1>1, <1>2, <1>3, <1>5

\* Steps that leave the counters alone.
LEMMA RingFrame ==
  ASSUME UNCHANGED <<nread, nwrite>>
  PROVE  Full' = Full /\ Count' = Count
BY Zenon DEF Full, Count

LEMMA InitInv == Init => IInv
<1> SUFFICES ASSUME Init PROVE IInv
  OBVIOUS
<1> USE DEF Init
<1>1. TypeOK
  <2>1. Count = 0
    BY ModNear, PipeSizes DEF Count
  <2>2. 0 \in 0 .. Mod - 1 /\ 0 <= PIPESIZE /\ 0 \in 0 .. MaxRead
    BY PipeSizes
  <2>3. pc \in [Procs -> Labels] /\ data \in [0 .. PIPESIZE - 1 -> Bytes]
    BY Zenon DEF Labels, Bytes
  <2>q. QED BY <2>1, <2>2, <2>3, PipeProcs, Zenon DEF TypeOK
<1>2. LockInv
  BY PipeProcs, Zenon DEF LockInv
<1>3. EndsInv
  BY PipeProcs, Zenon DEF EndsInv, Reading, Writing
<1>4. SleepInv
  BY Zenon DEF SleepInv
<1>5. TodoInv
  BY DEF TodoInv
<1>q. QED BY <1>1, <1>2, <1>3, <1>4, <1>5, Zenon DEF IInv

-----------------------------------------------------------------------------
(* pipewrite *)

LEMMA CallWriteInv ==
  ASSUME IInv, NEW p \in Procs, NEW s \in Requests, CallWrite(p, s)
  PROVE  IInv'
<1> USE DEF CallWrite, pipeVars, endVars
<1>0. Full' = Full /\ Count' = Count
  BY RingFrame, Zenon
<1>1. TypeOK'
  BY <1>0, Zenon DEF IInv, TypeOK, Labels
<1>2. LockInv'
  BY Zenon DEF IInv, TypeOK, LockInv
<1>3. EndsInv'
  BY Zenon DEF IInv, TypeOK, EndsInv, Reading, Writing
<1>4. SleepInv'
  BY <1>0, Zenon DEF IInv, TypeOK, SleepInv
<1>5. TodoInv'
  <2>1. s \in Seq(Bytes)
    <3>1. s \in Seq(0 .. 255)
      BY PipeRequests, Zenon
    <3>2. \A i \in 1 .. Len(s) : s[i] \in Bytes
      BY <3>1 DEF Bytes
    <3>q. QED BY <3>1, <3>2
  <2>q. QED BY <2>1, Zenon DEF IInv, TypeOK, TodoInv, Writing
<1>q. QED BY <1>1, <1>2, <1>3, <1>4, <1>5, Zenon DEF IInv

LEMMA WriteLockInv ==
  ASSUME IInv, NEW p \in Procs, WriteLock(p)
  PROVE  IInv'
<1> USE DEF WriteLock, pipeVars, endVars, callVars
<1>0. Full' = Full /\ Count' = Count
  BY RingFrame, Zenon
<1>1. TypeOK'
  BY <1>0, Zenon DEF IInv, TypeOK, Labels
<1>2. LockInv'
  BY PipeProcs, Zenon DEF IInv, TypeOK, LockInv
<1>3. EndsInv'
  BY Zenon DEF IInv, TypeOK, EndsInv, Reading, Writing
<1>4. SleepInv'
  BY <1>0, Zenon DEF IInv, TypeOK, SleepInv
<1>5. TodoInv'
  BY Zenon DEF IInv, TypeOK, TodoInv, Writing
<1>q. QED BY <1>1, <1>2, <1>3, <1>4, <1>5, Zenon DEF IInv

LEMMA WriteByteInv ==
  ASSUME IInv, NEW p \in Procs, WriteByte(p)
  PROVE  IInv' /\ Count' = Count + 1
<1> USE DEF WriteByte, endVars
<1>0. /\ pc[p] = "wloop" /\ todo[p] # <<>> /\ todo[p] \in Seq(Bytes) /\ ~Full
      /\ Head(todo[p]) \in Bytes /\ Tail(todo[p]) \in Seq(Bytes)
  BY HeadTailProperties, Zenon DEF IInv, TodoInv
<1>1. /\ Count' = Count + 1 /\ Count' <= PIPESIZE /\ nwrite' \in 0 .. Mod - 1
  <2>1. /\ Count \in 0 .. PIPESIZE /\ Count # PIPESIZE
        /\ Count = IF nread <= nwrite THEN nwrite - nread ELSE nwrite - nread + Mod
    BY <1>0, CountFacts, Zenon DEF IInv
  <2>2. /\ nread \in 0 .. Mod - 1 /\ nwrite \in 0 .. Mod - 1 /\ Mod \in Int /\ Mod > 0
        /\ PIPESIZE \in Nat /\ PIPESIZE < Mod
    BY PipeSizes DEF IInv, TypeOK
  <2>3. nwrite' = (nwrite + 1) % Mod /\ nread' = nread
    OBVIOUS
  <2>4. nwrite' = IF nwrite + 1 < Mod THEN nwrite + 1 ELSE 0
    BY <2>2, <2>3, ModNear
  <2>5. Count' = IF nread <= nwrite' THEN nwrite' - nread ELSE nwrite' - nread + Mod
    <3>1. Count' = (nwrite' - nread) % Mod
      BY <2>3, Zenon DEF Count
    <3>q. QED BY <2>2, <2>4, <3>1, ModNear
  <2>q. QED BY <2>1, <2>2, <2>4, <2>5
<1>2. TypeOK'
  <2>1. nwrite % PIPESIZE \in 0 .. PIPESIZE - 1
    BY ModDiv, PipeSizes DEF IInv, TypeOK
  <2>2. data' \in [0 .. PIPESIZE - 1 -> Bytes]
    BY <1>0, <2>1, Zenon DEF IInv, TypeOK
  <2>q. QED BY <1>1, <2>2, Zenon DEF IInv, TypeOK
<1>3. LockInv'
  BY Zenon DEF IInv, LockInv
<1>4. EndsInv'
  BY Zenon DEF IInv, EndsInv, Reading, Writing
<1>5. SleepInv'
  <2>1. \A q \in Procs : pc'[q] = pc[q] /\ pc[q] \notin {"wsleepy", "wsleep", "rsleepy"}
    BY <1>0, Zenon DEF IInv, SleepInv, LockInv
  <2>q. QED BY <1>0, <2>1, Zenon DEF IInv, SleepInv
<1>6. TodoInv'
  BY <1>0, Zenon DEF IInv, TodoInv, Writing
<1>q. QED BY <1>1, <1>2, <1>3, <1>4, <1>5, <1>6, Zenon DEF IInv

LEMMA WriteDoneInv ==
  ASSUME IInv, NEW p \in Procs, WriteDone(p)
  PROVE  IInv'
<1> USE DEF WriteDone, Wake, pipeVars, endVars, callVars
<1>0. Full' = Full /\ Count' = Count
  BY RingFrame, Zenon
<1>1. TypeOK'
  BY <1>0, Zenon DEF IInv, TypeOK, Labels
<1>2. LockInv'
  BY PipeProcs, Zenon DEF IInv, TypeOK, LockInv
<1>3. EndsInv'
  BY Zenon DEF IInv, TypeOK, EndsInv, Reading, Writing
<1>4. SleepInv'
  BY <1>0, Zenon DEF IInv, TypeOK, SleepInv, LockInv
<1>5. TodoInv'
  BY Zenon DEF IInv, TypeOK, TodoInv, Writing
<1>q. QED BY <1>1, <1>2, <1>3, <1>4, <1>5, Zenon DEF IInv

LEMMA WriteFullInv ==
  ASSUME IInv, NEW p \in Procs, WriteFull(p)
  PROVE  IInv'
<1> USE DEF WriteFull, pipeVars, endVars
<1>0. Full' = Full /\ Count' = Count
  BY RingFrame, Zenon
<1>1. CASE ~readopen \/ killed[p]
  <2>1. /\ pc' = [pc EXCEPT ![p] = "user"] /\ lock' = NULL /\ pc[p] = "wloop"
        /\ todo' = [todo EXCEPT ![p] = <<>>]
        /\ UNCHANGED <<data, nread, nwrite, readopen, writeopen, freed, rend, wend, killed, want>>
    BY <1>1, Zenon
  <2> USE DEF IInv
  <2> HIDE DEF WriteFull
  <2>2. TypeOK'
    BY <1>0, <2>1, Zenon DEF TypeOK, Labels
  <2>3. LockInv'
    BY <2>1, PipeProcs, Zenon DEF TypeOK, LockInv
  <2>4. EndsInv'
    BY <2>1, Zenon DEF TypeOK, EndsInv, Reading, Writing
  <2>5. SleepInv'
    <3>1. ASSUME NEW q \in Procs, pc[q] = "rsleep" PROVE killed[p]
      BY <1>1, <3>1, Zenon DEF EndsInv, Reading
    <3>q. QED BY <1>0, <2>1, <3>1, Zenon DEF TypeOK, SleepInv, LockInv
  <2>6. TodoInv'
    BY <2>1 DEF TypeOK, TodoInv, Writing
  <2>q. QED BY <2>2, <2>3, <2>4, <2>5, <2>6, Zenon
<1>2. CASE ~(~readopen \/ killed[p])
  <2>1. /\ pc' = [pc EXCEPT ![p] = "wsleepy"] /\ lock' = lock /\ pc[p] = "wloop" /\ todo' = todo
        /\ UNCHANGED <<data, nread, nwrite, readopen, writeopen, freed, rend, wend, killed, want>>
        /\ Full /\ readopen
    BY <1>2, Zenon
  <2> USE DEF IInv
  <2> HIDE DEF WriteFull
  <2>2. TypeOK'
    BY <1>0, <2>1, Zenon DEF TypeOK, Labels
  <2>3. LockInv'
    BY <2>1, PipeProcs, Zenon DEF TypeOK, LockInv
  <2>4. EndsInv'
    BY <2>1, Zenon DEF TypeOK, EndsInv, Reading, Writing
  <2>5. SleepInv'
    BY <1>0, <2>1, Zenon DEF TypeOK, SleepInv, LockInv
  <2>6. TodoInv'
    BY <2>1, Zenon DEF TypeOK, TodoInv, Writing
  <2>q. QED BY <2>2, <2>3, <2>4, <2>5, <2>6, Zenon
<1>q. QED BY <1>1, <1>2, Zenon

LEMMA WriteSleepInv ==
  ASSUME IInv, NEW p \in Procs, WriteSleep(p)
  PROVE  IInv'
<1> USE DEF WriteSleep, Wake, pipeVars, endVars, callVars
<1>0. Full' = Full /\ Count' = Count
  BY RingFrame, Zenon
<1>1. TypeOK'
  BY <1>0, Zenon DEF IInv, TypeOK, Labels
<1>2. LockInv'
  BY PipeProcs, Zenon DEF IInv, TypeOK, LockInv
<1>3. EndsInv'
  BY Zenon DEF IInv, TypeOK, EndsInv, Reading, Writing
<1>4. SleepInv'
  BY <1>0, Zenon DEF IInv, TypeOK, SleepInv, LockInv
<1>5. TodoInv'
  BY Zenon DEF IInv, TypeOK, TodoInv, Writing
<1>q. QED BY <1>1, <1>2, <1>3, <1>4, <1>5, Zenon DEF IInv

-----------------------------------------------------------------------------
(* piperead *)

LEMMA CallReadInv ==
  ASSUME IInv, NEW p \in Procs, NEW n \in 1 .. MaxRead, CallRead(p, n)
  PROVE  IInv'
<1> USE DEF CallRead, pipeVars, endVars
<1>0. Full' = Full /\ Count' = Count
  BY RingFrame, Zenon
<1>1. TypeOK'
  BY <1>0 DEF IInv, TypeOK, Labels
<1>2. LockInv'
  BY PipeProcs, Zenon DEF IInv, TypeOK, LockInv
<1>3. EndsInv'
  BY Zenon DEF IInv, TypeOK, EndsInv, Reading, Writing
<1>4. SleepInv'
  BY <1>0, Zenon DEF IInv, TypeOK, SleepInv, LockInv
<1>5. TodoInv'
  BY Zenon DEF IInv, TypeOK, TodoInv, Writing
<1>q. QED BY <1>1, <1>2, <1>3, <1>4, <1>5, Zenon DEF IInv

LEMMA ReadEmptyInv ==
  ASSUME IInv, NEW p \in Procs, ReadEmpty(p)
  PROVE  IInv'
<1> USE DEF ReadEmpty, pipeVars, endVars
<1>0. Full' = Full /\ Count' = Count
  BY RingFrame, Zenon
<1>1. TypeOK'
  <2>1. pc' \in [Procs -> Labels] /\ lock' \in Procs \cup {NULL}
    BY Zenon DEF IInv, TypeOK, Labels
  <2>2. want' \in [Procs -> 0 .. MaxRead]
    BY PipeSizes DEF IInv, TypeOK
  <2>q. QED BY <1>0, <2>1, <2>2, Zenon DEF IInv, TypeOK
<1>2. LockInv'
  BY PipeProcs DEF IInv, TypeOK, LockInv
<1>3. EndsInv'
  BY DEF IInv, TypeOK, EndsInv, Reading, Writing
<1>4. SleepInv'
  BY <1>0, Zenon DEF IInv, TypeOK, SleepInv, LockInv
<1>5. TodoInv'
  BY Zenon DEF IInv, TypeOK, TodoInv, Writing
<1>q. QED BY <1>1, <1>2, <1>3, <1>4, <1>5, Zenon DEF IInv

LEMMA ReadSleepInv ==
  ASSUME IInv, NEW p \in Procs, ReadSleep(p)
  PROVE  IInv'
<1> USE DEF ReadSleep, pipeVars, endVars, callVars
<1>0. Full' = Full /\ Count' = Count
  BY RingFrame, Zenon
<1>1. TypeOK'
  BY <1>0, Zenon DEF IInv, TypeOK, Labels
<1>2. LockInv'
  BY PipeProcs, Zenon DEF IInv, TypeOK, LockInv
<1>3. EndsInv'
  BY Zenon DEF IInv, TypeOK, EndsInv, Reading, Writing
<1>4. SleepInv'
  BY <1>0, Zenon DEF IInv, TypeOK, SleepInv, LockInv
<1>5. TodoInv'
  BY Zenon DEF IInv, TypeOK, TodoInv, Writing
<1>q. QED BY <1>1, <1>2, <1>3, <1>4, <1>5, Zenon DEF IInv


LEMMA PipeReadInv ==
  ASSUME IInv, NEW p \in Procs, PipeRead(p)
  PROVE  /\ IInv'
         /\ \E n \in 0 .. Count : /\ out' = Stored(data, nread, n) /\ nread' = (nread + n) % Mod
                                  /\ Count' = Count - n
<1> DEFINE n == Min2(want[p], Count)
<1>1. /\ pc[p] = "read" /\ lock = NULL /\ (nread # nwrite \/ ~writeopen)
      /\ out' = Stored(data, nread, n) /\ nread' = (nread + n) % Mod
      /\ want' = [want EXCEPT ![p] = 0]
      /\ pc' = [q \in Procs |-> IF q = p THEN "user" ELSE IF pc[q] = "wsleep" THEN "write" ELSE pc[q]]
      /\ UNCHANGED <<data, nwrite, readopen, writeopen, freed, lock, rend, wend, killed, todo>>
  BY Zenon DEF PipeRead, Wake, endVars
<1>2. /\ Count \in 0 .. PIPESIZE
      /\ Count = IF nread <= nwrite THEN nwrite - nread ELSE nwrite - nread + Mod
  BY CountFacts, Zenon DEF IInv
<1>3. n \in 0 .. Count
  <2>1. want[p] \in Nat
    BY PipeSizes DEF IInv, TypeOK
  <2>q. QED BY <1>2, <2>1 DEF Min2
<1> HIDE DEF n
<1>4. Count' = Count - n /\ nread' \in 0 .. Mod - 1
  <2>1. /\ nread \in 0 .. Mod - 1 /\ nwrite \in 0 .. Mod - 1 /\ Mod \in Int /\ Mod > 0
        /\ PIPESIZE \in Nat /\ PIPESIZE < Mod
    BY PipeSizes DEF IInv, TypeOK
  <2>2. nread' = IF nread + n < Mod THEN nread + n ELSE nread + n - Mod
    BY <1>1, <1>2, <1>3, <2>1, ModNear
  <2>3. Count' = (nwrite - nread') % Mod
    BY <1>1, Zenon DEF Count
  <2>4. Count' = IF nread' <= nwrite THEN nwrite - nread' ELSE nwrite - nread' + Mod
    BY <1>2, <1>3, <2>1, <2>2, <2>3, ModNear
  <2>q. QED BY <1>2, <1>3, <2>1, <2>2, <2>4
<1>5. TypeOK'
  <2>1. Count' <= PIPESIZE
    BY <1>2, <1>3, <1>4, PipeSizes
  <2>2. pc' \in [Procs -> Labels]
    BY <1>1, Zenon DEF IInv, TypeOK, Labels
  <2>3. want' \in [Procs -> 0 .. MaxRead]
    BY <1>1, PipeSizes DEF IInv, TypeOK
  <2>q. QED BY <1>1, <1>4, <2>1, <2>2, <2>3, Zenon DEF IInv, TypeOK
<1>6. LockInv'
  BY <1>1, PipeProcs, Zenon DEF IInv, LockInv
<1>7. EndsInv'
  BY <1>1, Zenon DEF IInv, EndsInv, Reading, Writing
<1>8. SleepInv'
  <2>1. \A q \in Procs : pc[q] \notin {"wloop", "wsleepy", "rsleepy"}
    BY <1>1, PipeProcs, Zenon DEF IInv, LockInv
  <2>2. \A q \in Procs : /\ pc'[q] \notin {"wloop", "wsleepy", "rsleepy", "wsleep"}
                         /\ pc'[q] = "rsleep" => pc[q] = "rsleep"
    BY <1>1, <2>1, Zenon
  <2>3. ASSUME NEW q \in Procs, pc[q] = "rsleep" PROVE writeopen /\ \E r \in Procs : killed[r]
    BY <1>1, <2>1, <2>3, Zenon DEF IInv, SleepInv
  <2>q. QED BY <1>1, <2>2, <2>3, Zenon DEF SleepInv
<1>9. TodoInv'
  BY <1>1, Zenon DEF IInv, TodoInv, Writing
<1>q. QED BY <1>1, <1>3, <1>4, <1>5, <1>6, <1>7, <1>8, <1>9, Zenon DEF IInv

-----------------------------------------------------------------------------
(* Descriptors and processes *)

LEMMA ForkInv ==
  ASSUME IInv, NEW p \in Procs, NEW c \in Procs, Fork(p, c)
  PROVE  IInv'
<1> USE DEF Fork, pipeVars, callVars
<1>0. Full' = Full /\ Count' = Count
  BY RingFrame, Zenon
<1>1. TypeOK'
  BY <1>0, Zenon DEF IInv, TypeOK, Labels
<1>2. LockInv'
  BY PipeProcs, Zenon DEF IInv, TypeOK, LockInv
<1>3. EndsInv'
  BY DEF IInv, TypeOK, EndsInv, Reading, Writing
<1>4. SleepInv'
  BY <1>0, Zenon DEF IInv, TypeOK, SleepInv, LockInv
<1>5. TodoInv'
  BY Zenon DEF IInv, TypeOK, TodoInv, Writing
<1>q. QED BY <1>1, <1>2, <1>3, <1>4, <1>5, Zenon DEF IInv

LEMMA CloseReadInv ==
  ASSUME IInv, NEW p \in Procs, CloseRead(p)
  PROVE  IInv'
<1> USE DEF CloseRead, pipeVars, callVars
<1>0. Full' = Full /\ Count' = Count
  BY RingFrame, Zenon
<1>1. TypeOK'
  BY <1>0, Zenon DEF IInv, TypeOK, Labels
<1>2. LockInv'
  BY PipeProcs, Zenon DEF IInv, TypeOK, LockInv
<1>3. EndsInv'
  BY DEF IInv, TypeOK, EndsInv, Reading, Writing
<1>4. SleepInv'
  BY <1>0, Zenon DEF IInv, TypeOK, SleepInv, LockInv
<1>5. TodoInv'
  BY Zenon DEF IInv, TypeOK, TodoInv, Writing
<1>q. QED BY <1>1, <1>2, <1>3, <1>4, <1>5, Zenon DEF IInv

LEMMA CloseWriteInv ==
  ASSUME IInv, NEW p \in Procs, CloseWrite(p)
  PROVE  IInv'
<1> USE DEF CloseWrite, pipeVars, callVars
<1>0. Full' = Full /\ Count' = Count
  BY RingFrame, Zenon
<1>1. TypeOK'
  BY <1>0, Zenon DEF IInv, TypeOK, Labels
<1>2. LockInv'
  BY PipeProcs, Zenon DEF IInv, TypeOK, LockInv
<1>3. EndsInv'
  BY DEF IInv, TypeOK, EndsInv, Reading, Writing
<1>4. SleepInv'
  BY <1>0, Zenon DEF IInv, TypeOK, SleepInv, LockInv
<1>5. TodoInv'
  BY Zenon DEF IInv, TypeOK, TodoInv, Writing
<1>q. QED BY <1>1, <1>2, <1>3, <1>4, <1>5, Zenon DEF IInv

LEMMA PipeCloseReadInv ==
  ASSUME IInv, NEW p \in Procs, PipeCloseRead(p)
  PROVE  IInv'
<1> USE DEF PipeCloseRead, Wake, endVars, callVars
<1>0. Full' = Full /\ Count' = Count
  BY RingFrame, Zenon
<1>1. TypeOK'
  BY <1>0, Zenon DEF IInv, TypeOK, Labels
<1>2. LockInv'
  BY PipeProcs, Zenon DEF IInv, TypeOK, LockInv
<1>3. EndsInv'
  BY Zenon DEF IInv, TypeOK, EndsInv, Reading, Writing
<1>4. SleepInv'
  <2>1. \A q \in Procs : pc[q] \notin {"wloop", "wsleepy", "rsleepy"}
    BY PipeProcs, Zenon DEF IInv, LockInv
  <2>2. \A q \in Procs : /\ pc'[q] \notin {"wloop", "wsleepy", "rsleepy", "wsleep"}
                         /\ pc'[q] = "rsleep" => pc[q] = "rsleep"
    BY <2>1, Zenon
  <2>q. QED BY <1>0, <2>1, <2>2, Zenon DEF IInv, SleepInv
<1>5. TodoInv'
  BY Zenon DEF IInv, TypeOK, TodoInv, Writing
<1>q. QED BY <1>1, <1>2, <1>3, <1>4, <1>5, Zenon DEF IInv

LEMMA PipeCloseWriteInv ==
  ASSUME IInv, NEW p \in Procs, PipeCloseWrite(p)
  PROVE  IInv'
<1> USE DEF PipeCloseWrite, Wake, endVars, callVars
<1>0. Full' = Full /\ Count' = Count
  BY RingFrame, Zenon
<1>1. TypeOK'
  BY <1>0, Zenon DEF IInv, TypeOK, Labels
<1>2. LockInv'
  BY PipeProcs, Zenon DEF IInv, TypeOK, LockInv
<1>3. EndsInv'
  BY Zenon DEF IInv, TypeOK, EndsInv, Reading, Writing
<1>4. SleepInv'
  <2>1. \A q \in Procs : pc[q] \notin {"wloop", "wsleepy", "rsleepy"}
    BY PipeProcs, Zenon DEF IInv, LockInv
  <2>2. \A q \in Procs : /\ pc'[q] \notin {"wloop", "wsleepy", "rsleepy", "rsleep"}
                         /\ pc'[q] = "wsleep" => pc[q] = "wsleep"
    BY <2>1, Zenon
  <2>q. QED BY <1>0, <2>1, <2>2, Zenon DEF IInv, SleepInv
<1>5. TodoInv'
  BY Zenon DEF IInv, TypeOK, TodoInv, Writing
<1>q. QED BY <1>1, <1>2, <1>3, <1>4, <1>5, Zenon DEF IInv

LEMMA KillInv ==
  ASSUME IInv, NEW p \in Procs, kill(p)
  PROVE  IInv'
<1> USE DEF kill, pipeVars, endVars, callVars
<1>0. Full' = Full /\ Count' = Count
  BY RingFrame, Zenon
<1>1. TypeOK'
  BY <1>0, Zenon DEF IInv, TypeOK, Labels
<1>2. LockInv'
  BY PipeProcs, Zenon DEF IInv, TypeOK, LockInv
<1>3. EndsInv'
  BY DEF IInv, TypeOK, EndsInv, Reading, Writing
<1>4. SleepInv'
  BY <1>0, Zenon DEF IInv, TypeOK, SleepInv, LockInv
<1>5. TodoInv'
  BY Zenon DEF IInv, TypeOK, TodoInv, Writing
<1>q. QED BY <1>1, <1>2, <1>3, <1>4, <1>5, Zenon DEF IInv

LEMMA StutterInv ==
  ASSUME IInv, UNCHANGED vars
  PROVE  IInv'
<1> USE DEF vars, pipeVars, endVars, callVars
<1>0. Full' = Full /\ Count' = Count
  BY RingFrame, Zenon
<1>1. TypeOK'
  BY <1>0, Zenon DEF IInv, TypeOK
<1>2. LockInv' /\ EndsInv' /\ TodoInv'
  BY Zenon DEF IInv, LockInv, EndsInv, TodoInv, Reading, Writing
<1>3. SleepInv'
  BY <1>0, Zenon DEF IInv, SleepInv
<1>q. QED BY <1>1, <1>2, <1>3, Zenon DEF IInv

-----------------------------------------------------------------------------
(* The theorems *)

LEMMA NextInv == IInv /\ [Next]_vars => IInv'
<1> SUFFICES ASSUME IInv, [Next]_vars PROVE IInv'
  OBVIOUS
<1>1. ASSUME NEW p \in Procs, pipewrite(p) PROVE IInv'
  BY <1>1, WriteLockInv, WriteByteInv, WriteDoneInv, WriteFullInv, WriteSleepInv, Zenon
     DEF pipewrite
<1>2. ASSUME NEW p \in Procs, piperead(p) PROVE IInv'
  BY <1>2, ReadEmptyInv, ReadSleepInv, PipeReadInv, Zenon DEF piperead
<1>3. ASSUME NEW p \in Procs, pipeclose(p) \/ CloseRead(p) \/ CloseWrite(p) \/ kill(p) PROVE IInv'
  BY <1>3, PipeCloseReadInv, PipeCloseWriteInv, CloseReadInv, CloseWriteInv, KillInv,
     Zenon DEF pipeclose
<1>4. ASSUME NEW p \in Procs, NEW s \in Requests, CallWrite(p, s) PROVE IInv'
  BY <1>4, CallWriteInv, Zenon
<1>5. ASSUME NEW p \in Procs, NEW n \in 1 .. MaxRead, CallRead(p, n) PROVE IInv'
  BY <1>5, CallReadInv, Zenon
<1>6. ASSUME NEW p \in Procs, NEW c \in Procs, Fork(p, c) PROVE IInv'
  BY <1>6, ForkInv, Zenon
<1>7. CASE UNCHANGED vars
  BY <1>7, StutterInv, Zenon
<1>q. QED BY <1>1, <1>2, <1>3, <1>4, <1>5, <1>6, <1>7, Zenon DEF Next, InKernel

\* No reader or writer sleeps without reason, and the pipe's page is freed when,
\* and not before, both ends are closed and nobody is in its functions
\* (pipe.c:59-122), for every number of processes and every ring.
THEOREM PipeSafety == Spec => []PipeSafe
<1>1. IInv => PipeSafe
  <2> SUFFICES ASSUME IInv PROVE PipeSafe
    OBVIOUS
  <2>1. NoLostWakeup
    <3>1. SUFFICES ASSUME lock = NULL, NEW p \in Procs
                   PROVE  /\ pc[p] = "rsleep" => writeopen /\ (nread = nwrite \/ \E q \in Procs : killed[q])
                          /\ pc[p] = "wsleep" => Full /\ readopen
      BY Zenon DEF NoLostWakeup
    <3>2. \A q \in Procs : pc[q] \notin {"wloop", "wsleepy", "rsleepy"}
      BY <3>1, PipeProcs, Zenon DEF IInv, LockInv
    <3>q. QED BY <3>2, Zenon DEF IInv, SleepInv
  <2>2. FreedLast
    <3>1. ASSUME freed, NEW p \in Procs PROVE pc[p] \in {"user", "unborn"}
      BY <3>1, Zenon DEF IInv, TypeOK, EndsInv, Reading, Writing, Labels
    <3>2. freed => rend = {} /\ wend = {}
      BY Zenon DEF IInv, EndsInv
    <3>3. rend = {} /\ wend = {} /\ (\A p \in Procs : pc[p] \in {"user", "unborn"}) => freed
      BY Zenon DEF IInv, EndsInv
    <3>q. QED BY <3>1, <3>2, <3>3, Zenon DEF FreedLast, IInv, TypeOK
  <2>q. QED BY <2>1, <2>2, Zenon DEF PipeSafe, IInv
<1>q. QED BY <1>1, InitInv, NextInv, PTL DEF Spec

-----------------------------------------------------------------------------
(* The ring is a bounded queue of bytes *)

LEMMA StoredSeq ==
  ASSUME NEW d \in [0 .. PIPESIZE - 1 -> Bytes], NEW r \in Int, NEW n \in Nat
  PROVE  /\ Stored(d, r, n) \in Seq(Bytes) /\ Len(Stored(d, r, n)) = n
         /\ \A i \in 1 .. n : Stored(d, r, n)[i] = d[(r + i - 1) % PIPESIZE]
<1>1. PIPESIZE \in Int /\ PIPESIZE > 0
  BY PipeSizes
<1>2. ASSUME NEW i \in 1 .. n PROVE d[(r + i - 1) % PIPESIZE] \in Bytes
  <2>1. (r + i - 1) % PIPESIZE \in 0 .. PIPESIZE - 1
    BY <1>1, ModDiv
  <2>q. QED BY <2>1, Zenon
<1>q. QED BY <1>2 DEF Stored

\* A byte is written behind those in the ring.
LEMMA WriteByteStep ==
  ASSUME IInv, NEW p \in Procs, WriteByte(p)
  PROVE  Queue!Put(p)
<1> DEFINE q == Stored(data, nread, Count)
           r == Stored(data', nread, Count + 1)
           t == SubSeq(todo[p], 1, 1)
<1>1. /\ todo[p] \in Seq(Bytes) /\ todo[p] # <<>> /\ ~Full
      /\ data' = [data EXCEPT ![nwrite % PIPESIZE] = Head(todo[p])]
      /\ todo' = [todo EXCEPT ![p] = Tail(@)] /\ nread' = nread /\ out' = out
      /\ todo \in [Procs -> Seq(Bytes)]
  BY Zenon DEF WriteByte, IInv, TodoInv
<1>2. /\ Count' = Count + 1 /\ Count \in 0 .. PIPESIZE - 1
      /\ data \in [0 .. PIPESIZE - 1 -> Bytes] /\ data' \in [0 .. PIPESIZE - 1 -> Bytes]
      /\ nread \in 0 .. Mod - 1 /\ nwrite \in 0 .. Mod - 1
  <2>1. Count \in 0 .. PIPESIZE - 1
    BY <1>1, CountFacts, PipeSizes DEF IInv
  <2>q. QED BY <2>1, WriteByteInv, Zenon DEF IInv, TypeOK
<1>3. nwrite % PIPESIZE = (nread + Count) % PIPESIZE
  <2>1. nwrite = (nread + Count) % Mod
    <3>1. Count = IF nread <= nwrite THEN nwrite - nread ELSE nwrite - nread + Mod
      BY CountFacts, Zenon DEF IInv
    <3>2. Mod \in Int /\ Mod > 0
      BY PipeSizes
    <3>q. QED BY <1>2, <3>1, <3>2, ModNear
  <2>2. nread + Count \in Int
    BY <1>2
  <2>3. (((nread + Count) % Mod) + 0) % PIPESIZE = ((nread + Count) + 0) % PIPESIZE
    BY <2>2, ModOfMod
  <2>4. nwrite + 0 = nwrite /\ (nread + Count) + 0 = nread + Count
    BY <1>2
  <2>q. QED BY <2>1, <2>3, <2>4, Zenon
<1>4. /\ q \in Seq(Bytes) /\ Len(q) = Count
      /\ \A i \in 1 .. Count : q[i] = data[(nread + i - 1) % PIPESIZE]
      /\ r \in Seq(Bytes) /\ Len(r) = Count + 1
      /\ \A i \in 1 .. Count + 1 : r[i] = data'[(nread + i - 1) % PIPESIZE]
  <2>1. nread \in Int /\ Count \in Nat /\ Count + 1 \in Nat
    BY <1>2
  <2>2. /\ q \in Seq(Bytes) /\ Len(q) = Count
        /\ \A i \in 1 .. Count : q[i] = data[(nread + i - 1) % PIPESIZE]
    BY <1>2, <2>1, StoredSeq, Zenon
  <2>3. /\ r \in Seq(Bytes) /\ Len(r) = Count + 1
        /\ \A i \in 1 .. Count + 1 : r[i] = data'[(nread + i - 1) % PIPESIZE]
    BY <1>2, <2>1, StoredSeq, Zenon
  <2>q. QED BY <2>2, <2>3, Zenon
<1>5. /\ t \in Seq(Bytes) /\ Len(t) = 1 /\ t[1] = Head(todo[p]) /\ Len(todo[p]) \in Nat \ {0}
      /\ Tail(todo[p]) = SubSeq(todo[p], 2, Len(todo[p]))
  <2>1. Tail(todo[p]) = SubSeq(todo[p], 2, Len(todo[p])) /\ Len(todo[p]) \in Nat \ {0}
    BY <1>1, TailIsSubSeq, EmptySeq, Zenon
  <2>2. \A i \in 1 .. 1 : todo[p][i] \in Bytes
    BY <1>1, <2>1
  <2>3. t \in Seq(Bytes) /\ Len(t) = 1 /\ t[1] = todo[p][1]
    BY <2>2, SubSeqProperties
  <2>4. Head(todo[p]) = todo[p][1]
    BY <1>1
  <2>q. QED BY <2>1, <2>3, <2>4, Zenon
<1> HIDE DEF q, r, t
<1>6. r = q \o t
  <2>1. /\ q \o t \in Seq(Bytes) /\ Len(q \o t) = Count + 1
        /\ \A i \in 1 .. Count + 1 : (q \o t)[i] = IF i <= Count THEN q[i] ELSE t[i - Count]
    <3>1. /\ q \o t \in Seq(Bytes) /\ Len(q \o t) = Len(q) + Len(t)
          /\ \A i \in 1 .. Len(q) + Len(t) : (q \o t)[i] = IF i <= Len(q) THEN q[i] ELSE t[i - Len(q)]
      BY <1>4, <1>5, ConcatProperties, Zenon
    <3>q. QED BY <1>4, <1>5, <3>1, Zenon
  <2>2. ASSUME NEW i \in 1 .. Count PROVE r[i] = q[i]
    <3>1. (nread + i - 1) % PIPESIZE # nwrite % PIPESIZE
      <4> DEFINE x == nread + i - 1
                 d == Count + 1 - i
      <4>1. x \in Int /\ d \in 1 .. PIPESIZE - 1 /\ x + d = nread + Count
        BY <1>2, PipeSizes
      <4> HIDE DEF x, d
      <4>2. x % PIPESIZE # (x + d) % PIPESIZE
        BY <4>1, RingApart, Zenon
      <4>q. QED BY <1>3, <4>1, <4>2, Zenon DEF x
    <3>2. r[i] = data'[(nread + i - 1) % PIPESIZE] /\ q[i] = data[(nread + i - 1) % PIPESIZE]
      BY <1>2, <1>4
    <3>3. (nread + i - 1) % PIPESIZE \in 0 .. PIPESIZE - 1
      BY <1>2, ModDiv, PipeSizes
    <3>q. QED BY <1>1, <1>2, <3>1, <3>2, <3>3, Zenon
  <2>3. r[Count + 1] = t[1]
    <3>1. nread + (Count + 1) - 1 = nread + Count /\ Count + 1 \in 1 .. Count + 1
      BY <1>2
    <3>2. r[Count + 1] = data'[nwrite % PIPESIZE]
      BY <1>3, <1>4, <3>1, Zenon
    <3>3. nwrite % PIPESIZE \in 0 .. PIPESIZE - 1
      BY <1>2, ModDiv, PipeSizes
    <3>q. QED BY <1>1, <1>2, <1>5, <3>2, <3>3, Zenon
  <2>4. ASSUME NEW i \in 1 .. Count + 1 PROVE r[i] = (q \o t)[i]
    <3>1. CASE i <= Count
      BY <1>2, <2>1, <2>2, <3>1
    <3>2. CASE ~(i <= Count)
      <4>1. i = Count + 1 /\ i - Count = 1
        BY <1>2, <3>2
      <4>q. QED BY <2>1, <2>3, <3>2, <4>1, Zenon
    <3>q. QED BY <3>1, <3>2, Zenon
  <2>q. QED BY <1>4, <2>1, <2>4, SeqEqual, Zenon
<1>7. /\ 1 \in 1 .. Len(todo[p]) /\ Len(q) + 1 <= PIPESIZE
      /\ Stored(data, nread, Count)' = q \o SubSeq(todo[p], 1, 1)
      /\ todo' = [todo EXCEPT ![p] = SubSeq(@, 1 + 1, Len(@))]
  <2>1. Stored(data, nread, Count)' = r
    BY <1>1, <1>2 DEF r, Stored
  <2>2. Len(q) + 1 <= PIPESIZE
    BY <1>2, <1>4, PipeSizes
  <2>3. 1 \in 1 .. Len(todo[p])
    BY <1>5
  <2>4. todo' = [todo EXCEPT ![p] = SubSeq(todo[p], 2, Len(todo[p]))]
    BY <1>1, <1>5, Zenon
  <2>5. todo' = [todo EXCEPT ![p] = SubSeq(@, 1 + 1, Len(@))]
    <3>1. 1 + 1 = 2
      OBVIOUS
    <3>q. QED BY <2>4, <3>1, Zenon
  <2>q. QED BY <1>6, <2>1, <2>2, <2>3, <2>5, Zenon DEF t
<1>q. QED BY <1>1, <1>7, Zenon DEF Queue!Put, q

\* A read takes the first bytes.
LEMMA PipeReadStep ==
  ASSUME IInv, NEW p \in Procs, PipeRead(p)
  PROVE  Queue!Take
<1> DEFINE q == Stored(data, nread, Count)
<1>1. PICK n \in 0 .. Count : /\ out' = Stored(data, nread, n) /\ nread' = (nread + n) % Mod
                              /\ Count' = Count - n
  BY PipeReadInv, Zenon
<1>2. /\ data' = data /\ todo' = todo /\ data \in [0 .. PIPESIZE - 1 -> Bytes]
      /\ nread \in Int /\ nread' \in Int /\ Count \in Nat /\ Count - n \in Nat /\ n \in Nat
  <2>1. nread' \in Int /\ nread \in Int
    BY PipeReadInv DEF IInv, TypeOK
  <2>2. Count \in Nat
    BY CountFacts, PipeSizes DEF IInv
  <2>q. QED BY <1>1, <2>1, <2>2 DEF IInv, TypeOK, PipeRead
<1> DEFINE o == Stored(data, nread, n)
           r == Stored(data, nread', Count - n)
<1>3. /\ q \in Seq(Bytes) /\ Len(q) = Count
      /\ \A i \in 1 .. Count : q[i] = data[(nread + i - 1) % PIPESIZE]
  BY <1>2, StoredSeq, Zenon
<1>4. /\ o \in Seq(Bytes) /\ Len(o) = n
      /\ \A i \in 1 .. n : o[i] = data[(nread + i - 1) % PIPESIZE]
  BY <1>2, StoredSeq, Zenon
<1>5. /\ r \in Seq(Bytes) /\ Len(r) = Count - n
      /\ \A i \in 1 .. Count - n : r[i] = data[(nread' + i - 1) % PIPESIZE]
  BY <1>2, StoredSeq, Zenon
<1>6. Stored(data, nread, Count)' = r
  BY <1>1, <1>2, Zenon DEF Stored
<1> HIDE DEF q, o, r
<1>7. o = SubSeq(q, 1, n)
  <2> DEFINE s == SubSeq(q, 1, n)
  <2>1. \A i \in 1 .. n : q[i] \in Bytes
    BY <1>2, <1>3
  <2>2. /\ s \in Seq(Bytes) /\ Len(s) = IF 1 <= n THEN n - 1 + 1 ELSE 0
        /\ \A i \in 1 .. n - 1 + 1 : s[i] = q[1 + i - 1]
    BY <1>2, <2>1, SubSeqProperties
  <2> HIDE DEF s
  <2>3. Len(s) = n /\ \A i \in 1 .. n : s[i] = q[i]
    BY <1>2, <2>2
  <2>4. \A i \in 1 .. n : o[i] = s[i]
    BY <1>2, <1>3, <1>4, <2>3
  <2>5. o = s
    BY <1>4, <2>2, <2>3, <2>4, SeqEqual, Zenon
  <2>q. QED BY <2>5, Zenon DEF s
<1>8. r = SubSeq(q, n + 1, Len(q))
  <2> DEFINE s == SubSeq(q, n + 1, Count)
  <2>1. \A i \in n + 1 .. Count : q[i] \in Bytes
    BY <1>2, <1>3
  <2>2. /\ s \in Seq(Bytes) /\ Len(s) = IF n + 1 <= Count THEN Count - (n + 1) + 1 ELSE 0
        /\ \A i \in 1 .. Count - (n + 1) + 1 : s[i] = q[(n + 1) + i - 1]
    BY <1>2, <2>1, SubSeqProperties
  <2> HIDE DEF s
  <2>3. Len(s) = Count - n /\ \A i \in 1 .. Count - n : s[i] = q[n + i]
    BY <1>2, <2>2
  <2>4. ASSUME NEW i \in 1 .. Count - n PROVE r[i] = s[i]
    <3>1. s[i] = data[(nread + (n + i) - 1) % PIPESIZE]
      BY <1>2, <1>3, <2>3
    <3>2. r[i] = data[(nread' + i - 1) % PIPESIZE]
      BY <1>5, Zenon
    <3>3. (nread' + i - 1) % PIPESIZE = (nread + (n + i) - 1) % PIPESIZE
      <4>1. nread + n \in Int /\ i - 1 \in Int
        BY <1>2
      <4>2. (((nread + n) % Mod) + (i - 1)) % PIPESIZE = ((nread + n) + (i - 1)) % PIPESIZE
        BY <4>1, ModOfMod, Zenon
      <4>3. nread' + i - 1 = nread' + (i - 1) /\ nread + (n + i) - 1 = (nread + n) + (i - 1)
        BY <1>2
      <4>q. QED BY <1>1, <4>2, <4>3, Zenon
    <3>q. QED BY <3>1, <3>2, <3>3, Zenon
  <2>5. r = s
    BY <1>5, <2>2, <2>3, <2>4, SeqEqual, Zenon
  <2>q. QED BY <1>3, <2>5, Zenon DEF s
<1>9. n \in 0 .. Len(q)
  BY <1>3, Zenon
<1>q. QED BY <1>1, <1>2, <1>6, <1>7, <1>8, <1>9, Zenon DEF Queue!Take, q, o

\* Every other step asks for a write, fails one, or leaves the queue alone.
LEMMA OtherStep ==
  ASSUME IInv, NEW p \in Procs, UNCHANGED <<data, nread, nwrite, out>>,
         \/ todo' = todo
         \/ WriteFull(p)
         \/ \E s \in Requests : CallWrite(p, s)
  PROVE  Queue!Ask(p) \/ Queue!Fail(p) \/ UNCHANGED Queue!vars
<1>1. Stored(data, nread, Count)' = Stored(data, nread, Count)
  BY Zenon DEF Stored, Count
<1>2. CASE todo' = todo
  BY <1>1, <1>2, Zenon DEF Queue!vars
<1>3. CASE WriteFull(p)
  BY <1>1, <1>3, Zenon DEF WriteFull, Queue!Fail, Queue!vars
<1>4. ASSUME NEW s \in Requests, CallWrite(p, s) PROVE Queue!Ask(p)
  <2>1. todo[p] = <<>>
    BY <1>4, Zenon DEF CallWrite, IInv, TodoInv, Writing
  <2>q. QED BY <1>1, <1>4, <2>1, Zenon DEF CallWrite, Queue!Ask
<1>q. QED BY <1>2, <1>3, <1>4, Zenon

\* The ring, with counters that wrap, is a bounded FIFO queue of bytes: writers
\* that sleep in the middle of a write, readers that take part of one, closing and
\* killing lose no byte, repeat none and keep their order (pipe.c:78-122).
THEOREM PipeImplementsQueue == Spec => ImplementsBytePipe
<1>1. Init => Queue!Init
  <2> SUFFICES ASSUME Init PROVE Queue!Init
    OBVIOUS
  <2>1. IInv /\ Count = 0
    BY InitInv, CountFacts, Zenon DEF IInv, Init
  <2>2. Stored(data, nread, Count) = <<>>
    BY <2>1 DEF Stored
  <2>q. QED BY <2>2, Zenon DEF Init, Queue!Init
<1>2. IInv /\ [Next]_vars => [Queue!Next]_(Queue!vars)
  <2> SUFFICES ASSUME IInv, [Next]_vars PROVE [Queue!Next]_(Queue!vars)
    OBVIOUS
  <2>1. ASSUME NEW p \in Procs, WriteByte(p) PROVE Queue!Next
    BY <2>1, WriteByteStep, Zenon DEF Queue!Next
  <2>2. ASSUME NEW p \in Procs, PipeRead(p) PROVE Queue!Next
    BY <2>2, PipeReadStep, Zenon DEF Queue!Next
  <2>3. ASSUME NEW p \in Procs, WriteFull(p) PROVE [Queue!Next]_(Queue!vars)
    <3>1. UNCHANGED <<data, nread, nwrite, out>>
      BY <2>3, Zenon DEF WriteFull, pipeVars
    <3>q. QED BY <2>3, <3>1, OtherStep, Zenon DEF Queue!Next
  <2>4. ASSUME NEW p \in Procs, NEW s \in Requests, CallWrite(p, s)
        PROVE  [Queue!Next]_(Queue!vars)
    <3>1. UNCHANGED <<data, nread, nwrite, out>>
      BY <2>4, Zenon DEF CallWrite, pipeVars
    <3>q. QED BY <2>4, <3>1, OtherStep, Zenon DEF Queue!Next
  <2>5. ASSUME NEW p \in Procs,
               \/ WriteLock(p) \/ WriteDone(p) \/ WriteSleep(p) \/ ReadEmpty(p) \/ ReadSleep(p)
               \/ pipeclose(p) \/ CloseRead(p) \/ CloseWrite(p) \/ kill(p)
               \/ \E n \in 1 .. MaxRead : CallRead(p, n)
               \/ \E c \in Procs : Fork(p, c)
        PROVE  [Queue!Next]_(Queue!vars)
    <3>1. UNCHANGED <<data, nread, nwrite, out, todo>>
      BY <2>5, Zenon DEF WriteLock, WriteDone, WriteSleep, ReadEmpty, ReadSleep, pipeclose,
         PipeCloseRead,
         PipeCloseWrite, CloseRead, CloseWrite, kill, CallRead, Fork, pipeVars, callVars
    <3>q. QED BY <3>1, OtherStep, Zenon DEF Queue!Next
  <2>6. CASE UNCHANGED vars
    <3>1. UNCHANGED <<data, nread, nwrite, out, todo>>
      BY <2>6, Zenon DEF vars, pipeVars, callVars
    <3>q. QED BY <3>1, OtherStep, PipeProcs, Zenon DEF Queue!Next
  <2>q. QED BY <2>1, <2>2, <2>3, <2>4, <2>5, <2>6, Zenon DEF Next, InKernel, pipewrite, piperead
<1>q. QED BY <1>1, <1>2, InitInv, NextInv, PTL DEF Spec, ImplementsBytePipe, Queue!Spec
=============================================================================
