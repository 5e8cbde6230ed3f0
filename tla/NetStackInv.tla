---------------------------- MODULE NetStackInv -----------------------------
(***************************************************************************)
(* The network stack, for any number of processes, ports and pages and any *)
(* limit of a queue: lemmas about its linked lists, the inductive          *)
(* invariant, and the steps that leave the queues as they are.             *)
(***************************************************************************)
EXTENDS NetStack, WellFoundedInduction, TLAPS

-----------------------------------------------------------------------------
(* Linked lists *)

\* A sequence is a function.
LEMMA SeqFunction ==
  ASSUME NEW S, NEW s \in Seq(S)
  PROVE  s \in [1 .. Len(s) -> S]
OBVIOUS

\* A set of numbers has a least one.
LEMMA LeastNat ==
  ASSUME NEW S \in SUBSET Nat, S # {}
  PROVE  \E n \in S : \A m \in S : n <= m
<1>1. \E x \in S : \A y \in S : ~(<<y, x>> \in OpToRel(<, Nat))
  BY NatLessThanWellFounded, WFMin, Zenon
<1>2. ASSUME NEW x \in S, NEW y \in S, ~(<<y, x>> \in OpToRel(<, Nat)) PROVE x <= y
  BY <1>2 DEF OpToRel
<1>q. QED BY <1>1, <1>2, Zenon

\* g goes n steps along nx, from h.
Path(h, nx, n, g) == g[0] = h /\ \A k \in 1 .. n : g[k] = nx[g[k - 1]]

LEMMA PathExists ==
  ASSUME NEW h, NEW nx, NEW n \in Nat
  PROVE  \E g : Path(h, nx, n, g)
<1> DEFINE Bad == {m \in Nat : ~\E g : Path(h, nx, m, g)}
<1>1. SUFFICES ASSUME Bad # {} PROVE FALSE
  OBVIOUS
<1>2. PICK m \in Bad : \A l \in Bad : m <= l
  BY <1>1, LeastNat, Zenon
<1>3. CASE m = 0
  <2>1. Path(h, nx, 0, [k \in {0} |-> h])
    BY DEF Path
  <2>q. QED BY <1>2, <1>3, <2>1, Zenon
<1>4. CASE m > 0
  <2>1. m - 1 \in Nat /\ ~(m - 1 \in Bad)
    BY <1>2, <1>4
  <2>2. PICK g : Path(h, nx, m - 1, g)
    BY <2>1, Zenon
  <2>3. Path(h, nx, m, [k \in 0 .. m |-> IF k = m THEN nx[g[m - 1]] ELSE g[k]])
    BY <1>4, <2>2 DEF Path
  <2>q. QED BY <1>2, <2>3, Zenon
<1>q. QED BY <1>3, <1>4

LEMMA PathUnique ==
  ASSUME NEW h, NEW nx, NEW n \in Nat, NEW m \in Nat, n <= m,
         NEW f, NEW g, Path(h, nx, n, f), Path(h, nx, m, g)
  PROVE  \A k \in 0 .. n : f[k] = g[k]
<1> DEFINE Bad == {k \in 0 .. n : f[k] # g[k]}
<1>1. SUFFICES ASSUME Bad # {} PROVE FALSE
  OBVIOUS
<1>2. Bad \in SUBSET Nat
  OBVIOUS
<1>3. PICK k \in Bad : \A l \in Bad : k <= l
  <2> HIDE DEF Bad
  <2>q. QED BY <1>1, <1>2, LeastNat, Zenon
<1>4. k # 0
  BY <1>3, Zenon DEF Path
<1>5. k - 1 \in 0 .. n /\ f[k - 1] = g[k - 1] /\ k \in 1 .. n /\ k \in 1 .. m
  BY <1>3, <1>4
<1>q. QED BY <1>3, <1>5, Zenon DEF Path

LEMMA NodeExists ==
  ASSUME NEW h, NEW nx
  PROVE  \E f : f = [k \in Nat |-> IF k = 0 THEN h ELSE nx[f[k - 1]]]
<1> DEFINE G(n) == CHOOSE g : Path(h, nx, n, g)
           f == [n \in Nat |-> G(n)[n]]
<1>1. \A n \in Nat : Path(h, nx, n, G(n))
  BY PathExists, Zenon
<1>2. \A n \in Nat : f[n] = G(n)[n]
  OBVIOUS
<1> HIDE DEF G
<1>3. f[0] = h
  BY <1>1, <1>2, Zenon DEF Path
<1>4. ASSUME NEW n \in Nat, n # 0 PROVE f[n] = nx[f[n - 1]]
  <2>1. n - 1 \in Nat /\ n - 1 <= n /\ n - 1 \in 0 .. n - 1 /\ n \in 1 .. n
    BY <1>4
  <2>2. G(n - 1)[n - 1] = G(n)[n - 1]
    BY <1>1, <2>1, PathUnique
  <2>3. G(n)[n] = nx[G(n)[n - 1]]
    BY <1>1, <2>1, Zenon DEF Path
  <2>q. QED BY <1>2, <2>1, <2>2, <2>3, Zenon
<1>5. f = [k \in Nat |-> IF k = 0 THEN h ELSE nx[f[k - 1]]]
  BY <1>3, <1>4, Zenon
<1>q. QED BY <1>5, Zenon

\* Walk goes from h along nx, and is the only list that does.
Walks(s, h, nx, n) ==
  /\ n \in Nat
  /\ s = [k \in 1 .. n |-> s[k]]
  /\ n > 0 => s[1] = h
  /\ \A k \in 1 .. n - 1 : s[k + 1] = nx[s[k]]

LEMMA WalkSteps ==
  ASSUME NEW h, NEW nx, NEW n \in Nat
  PROVE  /\ Walk(h, nx, n) = [k \in 1 .. n |-> Walk(h, nx, n)[k]]
         /\ n > 0 => Walk(h, nx, n)[1] = h
         /\ \A k \in 1 .. n - 1 : Walk(h, nx, n)[k + 1] = nx[Walk(h, nx, n)[k]]
<1> DEFINE node == CHOOSE f : f = [k \in Nat |-> IF k = 0 THEN h ELSE nx[f[k - 1]]]
<1>1. node = [k \in Nat |-> IF k = 0 THEN h ELSE nx[node[k - 1]]]
  BY NodeExists
<1>2. Walk(h, nx, n) = [k \in 1 .. n |-> node[k - 1]]
  BY Zenon DEF Walk
<1> HIDE DEF node
<1>3. \A k \in 1 .. n : Walk(h, nx, n)[k] = node[k - 1]
  BY <1>2, Zenon
<1>4. node[0] = h /\ \A k \in Nat : node[k + 1] = nx[node[k]]
  BY <1>1
<1>5. ASSUME NEW k \in 1 .. n - 1 PROVE Walk(h, nx, n)[k + 1] = nx[Walk(h, nx, n)[k]]
  <2>1. k \in 1 .. n /\ k + 1 \in 1 .. n /\ k - 1 \in Nat /\ (k - 1) + 1 = k /\ (k + 1) - 1 = k
    OBVIOUS
  <2>2. node[(k - 1) + 1] = nx[node[k - 1]]
    BY <1>4, <2>1, Zenon
  <2>q. QED BY <1>3, <2>1, <2>2, Zenon
<1>6. n > 0 => 1 \in 1 .. n /\ 1 - 1 = 0
  OBVIOUS
<1>7. n > 0 => Walk(h, nx, n)[1] = h
  BY <1>3, <1>4, <1>6, Zenon
<1>8. Walk(h, nx, n) = [k \in 1 .. n |-> Walk(h, nx, n)[k]]
  BY <1>2, Zenon
<1>q. QED BY <1>5, <1>7, <1>8, Zenon

LEMMA WalkUnique ==
  ASSUME NEW h, NEW nx, NEW n, NEW s, Walks(s, h, nx, n)
  PROVE  Walk(h, nx, n) = s
<1> DEFINE w == Walk(h, nx, n)
           Bad == {k \in 1 .. n : w[k] # s[k]}
<1>0. /\ n \in Nat
      /\ s = [k \in 1 .. n |-> s[k]]
      /\ n > 0 => s[1] = h
      /\ \A k \in 1 .. n - 1 : s[k + 1] = nx[s[k]]
  BY Zenon DEF Walks
<1>1. /\ w = [k \in 1 .. n |-> w[k]]
      /\ n > 0 => w[1] = h
      /\ \A k \in 1 .. n - 1 : w[k + 1] = nx[w[k]]
  BY <1>0, WalkSteps
<1> HIDE DEF w
<1>2. ASSUME Bad # {} PROVE FALSE
  <2>1. Bad \in SUBSET Nat
    BY <1>0
  <2>2. PICK k \in Bad : \A l \in Bad : k <= l
    <3> HIDE DEF Bad
    <3>q. QED BY <1>2, <2>1, LeastNat, Zenon
  <2>3. k # 1
    BY <1>0, <1>1, <2>2
  <2>4. k - 1 \in 1 .. n - 1 /\ (k - 1) + 1 = k /\ w[k - 1] = s[k - 1]
    BY <1>0, <2>2, <2>3
  <2>5. w[(k - 1) + 1] = nx[w[k - 1]] /\ s[(k - 1) + 1] = nx[s[k - 1]]
    BY <1>0, <1>1, <2>4, Zenon
  <2>q. QED BY <2>2, <2>4, <2>5, Zenon
<1>3. \A k \in 1 .. n : w[k] = s[k]
  BY <1>2, Zenon
<1>4. w = s
  BY <1>0, <1>1, <1>3, Zenon
<1>q. QED BY <1>4, Zenon DEF w

-----------------------------------------------------------------------------
(* The inductive invariant *)

Receiving == {"check", "sleep", "release", "sched", "asleep", "runnable", "copy", "freepkt"}

\* netlock is held from RecvEnter or SleepReturn to RecvPop or SleepRelease, and
\* by ip_rx until wakeup returns; ptable.lock inside sleep.
LockInv ==
  /\ \A p \in Procs : pc[p] \in {"check", "sleep", "release"} <=> netlock = p
  /\ ipc = "wakeup" <=> netlock = Intr
  /\ \A p \in Procs : pc[p] \in {"release", "sched"} <=> ptable_lock = p

\* Which locals are in use where.
CallOf(p) ==
  /\ pc[p] \in Receiving => port[p] \in Ports
  /\ pkt[p] # NULL <=> pc[p] \in {"copy", "freepkt"}
  /\ sbuf[p] # NULL <=> pc[p] \in {"built", "transmit", "refused"}
  /\ IF pc[p] \in {"copy", "freepkt"} THEN want[p] \in Frames ELSE want[p] = Junk
CallInv ==
  /\ \A p \in Procs : CallOf(p)
  /\ ibuf # NULL <=> ipc \notin {"idle", "wakeup"}
  /\ reply # NULL <=> ipc \in {"arp", "transmit"}
  /\ iport # NULL <=> ipc = "wakeup"

OnList(q, b) == \E k \in 1 .. pqcount[q] : Nodes(q)[k] = b

\* A port's list is pqcount different nodes, from pqhead to pqtail.
ListAt(q) ==
  /\ \A k \in 1 .. pqcount[q] : Nodes(q)[k] \in Pages
  /\ \A j, k \in 1 .. pqcount[q] : Nodes(q)[j] = Nodes(q)[k] => j = k
  /\ pqcount[q] = 0 => pqhead[q] = NULL /\ pqtail[q] = NULL
  /\ pqcount[q] > 0 => /\ pqpage[q] # NULL /\ Nodes(q)[pqcount[q]] = pqtail[q]
                       /\ next[pqtail[q]] = NULL
ListInv == \A q \in Ports : ListAt(q)

Kinds == {"rx", "free", "drv", "tx", "txi", "leaked", "rcv", "ibuf", "reply", "pq", "node",
          "pkt", "sbuf", "buf"}
Holders == Ports \cup Procs \cup Pages \cup {NULL}

\* The pages of the driver, of the interrupt handler and of nobody.
Alone(b, k) ==
  /\ k = "rx" <=> b \in RxPages
  /\ k = "free" <=> b \in freelist
  /\ k \in {"drv", "tx", "txi"} <=> b \in drv
  /\ k = "leaked" <=> b \in leaked
  /\ k = "rcv" <=> b = rcv
  /\ k = "ibuf" <=> b = ibuf
  /\ k = "reply" <=> b = reply /\ ipc # "transmit"
  /\ k = "txi" <=> b = reply /\ ipc = "transmit"
OwnedAlone(kind) == \A b \in Pages : Alone(b, kind[b])

\* Those of processes ...
ByProc(b, k, h) ==
  /\ k \in {"pkt", "sbuf", "tx"} => h \in Procs
  /\ \A p \in Procs :
       /\ k = "pkt" /\ h = p <=> pkt[p] = b
       /\ k = "sbuf" /\ h = p <=> sbuf[p] = b /\ pc[p] # "transmit"
       /\ k = "tx" /\ h = p <=> sbuf[p] = b /\ pc[p] = "transmit"
OwnedByProc(kind, who) == \A b \in Pages : ByProc(b, kind[b], who[b])

\* ... and of ports.
ByPort(b, k, h) ==
  /\ k \in {"pq", "node"} => h \in Ports
  /\ \A q \in Ports :
       /\ k = "pq" /\ h = q <=> pqpage[q] = b
       /\ k = "node" /\ h = q <=> OnList(q, b)
OwnedByPort(kind, who) == \A b \in Pages : ByPort(b, kind[b], who[b])

\* A frame's page is held by its node, as long as that is queued or being copied.
ByNode(b, k, h) ==
  /\ k = "buf" => h \in Pages
  /\ \A n \in Pages : k = "buf" /\ h = n <=> fullbuf[n] = b
  /\ k = "node" => fullbuf[b] # NULL
  /\ k = "pkt" => (fullbuf[b] # NULL <=> pc[h] = "copy")
  /\ k \notin {"node", "pkt"} => fullbuf[b] = NULL
  /\ k \in {"rcv", "ibuf", "buf"} => content[b] \in Frames
OwnedByNode(kind, who) == \A b \in Pages : ByNode(b, kind[b], who[b])

\* kind and who tell the one holder of each page.
Owned(kind, who) ==
  /\ kind \in [Pages -> Kinds] /\ who \in [Pages -> Holders]
  /\ OwnedAlone(kind) /\ OwnedByProc(kind, who) /\ OwnedByPort(kind, who)
  /\ OwnedByNode(kind, who)

IInv ==
  /\ TypeOK /\ LockInv /\ CallInv /\ ListInv
  /\ \E kind, who : Owned(kind, who)
  /\ CopyIntact /\ NoLostWakeup

-----------------------------------------------------------------------------
(* What a step does to the lists *)

LEMMA NodesFacts ==
  ASSUME TypeOK, NEW q \in Ports
  PROVE  /\ pqcount[q] \in Nat
         /\ Nodes(q) = [k \in 1 .. pqcount[q] |-> Nodes(q)[k]]
         /\ pqcount[q] > 0 => Nodes(q)[1] = pqhead[q]
         /\ \A k \in 1 .. pqcount[q] - 1 : Nodes(q)[k + 1] = next[Nodes(q)[k]]
<1>1. pqcount[q] \in Nat
  BY QueueLimit DEF TypeOK
<1>q. QED BY <1>1, WalkSteps DEF Nodes

\* A list is the same while head, count and the links of its nodes are.
LEMMA NodesSame ==
  ASSUME TypeOK, NEW q \in Ports, pqhead'[q] = pqhead[q], pqcount'[q] = pqcount[q],
         \A k \in 1 .. pqcount[q] - 1 : next'[Nodes(q)[k]] = next[Nodes(q)[k]]
  PROVE  Nodes(q)' = Nodes(q)
<1>1. Walk(pqhead'[q], next', pqcount'[q]) = Nodes(q)
  <2> DEFINE s == Nodes(q)
  <2>1. /\ pqcount[q] \in Nat
        /\ s = [k \in 1 .. pqcount[q] |-> s[k]]
        /\ pqcount[q] > 0 => s[1] = pqhead'[q]
        /\ \A k \in 1 .. pqcount[q] - 1 : s[k + 1] = next'[s[k]]
    BY NodesFacts, Zenon
  <2> HIDE DEF s
  <2>2. Walks(s, pqhead'[q], next', pqcount[q])
    BY <2>1, Zenon DEF Walks
  <2>3. Walk(pqhead'[q], next', pqcount[q]) = s
    BY <2>2, WalkUnique, Zenon
  <2>q. QED BY <2>3, Zenon DEF s
<1>q. QED BY <1>1, Zenon DEF Nodes

\* Unlink takes the first node off.
LEMMA NodesUnlink ==
  ASSUME TypeOK, NEW q \in Ports, pqcount[q] # 0, pqhead'[q] = next[pqhead[q]],
         pqcount'[q] = pqcount[q] - 1, next' = next
  PROVE  Nodes(q)' = [k \in 1 .. pqcount[q] - 1 |-> Nodes(q)[k + 1]]
<1> DEFINE w == Nodes(q)
           m == pqcount[q] - 1
           s == [k \in 1 .. m |-> w[k + 1]]
<1>1. /\ pqcount[q] \in Nat /\ pqcount[q] - 1 \in Nat
      /\ w[1] = pqhead[q]
      /\ \A k \in 1 .. pqcount[q] - 1 : w[k + 1] = next[w[k]]
  BY NodesFacts
<1> HIDE DEF w
<1>2. \A k \in 1 .. m : s[k] = w[k + 1]
  OBVIOUS
<1>3. m > 0 => s[1] = pqhead'[q]
  BY <1>1, <1>2
<1>4. ASSUME NEW k \in 1 .. m - 1 PROVE s[k + 1] = next'[s[k]]
  <2>1. k \in 1 .. m /\ k + 1 \in 1 .. m
    BY <1>1
  <2>q. QED BY <1>1, <1>2, <2>1, Zenon
<1>5. m \in Nat /\ s = [k \in 1 .. m |-> s[k]]
  BY <1>1, <1>2, Zenon
<1>6. Walk(pqhead'[q], next', m) = s
  <2>1. /\ m \in Nat
        /\ s = [k \in 1 .. m |-> s[k]]
        /\ m > 0 => s[1] = pqhead'[q]
        /\ \A k \in 1 .. m - 1 : s[k + 1] = next'[s[k]]
    BY <1>3, <1>4, <1>5, Zenon
  <2>2. Walks(s, pqhead'[q], next', m)
    <3> HIDE DEF s, m
    <3>q. QED BY <2>1, Zenon DEF Walks
  <2>q. QED BY <2>2, WalkUnique, Zenon
<1>q. QED BY <1>6, Zenon DEF Nodes, w

\* Link puts the node n at the end.
LEMMA NodesLink ==
  ASSUME TypeOK, ListInv, NEW q \in Ports, NEW n \in Pages, ~OnList(q, n), Link(q, n),
         pqcount'[q] = pqcount[q] + 1
  PROVE  /\ Nodes(q)' = [k \in 1 .. pqcount[q] + 1 |->
                           IF k = pqcount[q] + 1 THEN n ELSE Nodes(q)[k]]
         /\ next'[n] = NULL /\ pqtail'[q] = n
<1> DEFINE w == Nodes(q)
           c == pqcount[q]
           m == c + 1
           s == [k \in 1 .. m |-> IF k = c + 1 THEN n ELSE w[k]]
<1>1. /\ c \in Nat
      /\ c > 0 => w[1] = pqhead[q]
      /\ \A k \in 1 .. c - 1 : w[k + 1] = next[w[k]]
  BY NodesFacts, Zenon
<1>2. /\ \A k \in 1 .. c : w[k] \in Pages /\ w[k] # n
      /\ \A j, k \in 1 .. c : w[j] = w[k] => j = k
      /\ c = 0 => pqtail[q] = NULL
      /\ c > 0 => w[c] = pqtail[q]
  BY Zenon DEF ListInv, ListAt, OnList
<1>3. next \in [Pages -> PageOrNull] /\ pqhead \in [Ports -> PageOrNull] /\ pqtail \in [Ports -> PageOrNull]
  BY Zenon DEF TypeOK
<1>4. next'[n] = NULL /\ pqtail'[q] = n
  <2>1. CASE c = 0
    BY <1>2, <1>3, <2>1, Zenon DEF Link
  <2>2. CASE c > 0
    <3>1. w[c] \in Pages /\ w[c] # n /\ pqtail[q] = w[c] /\ pqtail[q] # NULL
      BY <1>1, <1>2, <2>2, NullNotPage
    <3>2. next' = [next EXCEPT ![n] = NULL, ![pqtail[q]] = n] /\ pqtail' = [pqtail EXCEPT ![q] = n]
      BY <3>1, Zenon DEF Link
    <3>q. QED BY <1>3, <3>1, <3>2, Zenon
  <2>q. QED BY <1>1, <2>1, <2>2
<1>5. m \in Nat /\ s = [k \in 1 .. m |-> s[k]] /\ s[c + 1] = n /\ \A k \in 1 .. c : s[k] = w[k]
  BY <1>1
<1>6. Walk(pqhead'[q], next', m) = s
  <2> HIDE DEF s, w, c
  <2>1. CASE c = 0
    <3>1. pqhead'[q] = n
      BY <1>2, <1>3, <2>1, Zenon DEF Link
    <3>2. /\ m > 0 => s[1] = pqhead'[q]
          /\ \A k \in 1 .. m - 1 : s[k + 1] = next'[s[k]]
      BY <1>5, <2>1, <3>1
    <3>3. m \in Nat /\ s = [k \in 1 .. m |-> s[k]]
      BY <1>5, Zenon
    <3> HIDE DEF m
    <3>4. Walks(s, pqhead'[q], next', m)
      BY <3>2, <3>3, Zenon DEF Walks
    <3>q. QED BY <3>4, WalkUnique, Zenon
  <2>2. CASE c > 0
    <3>1. w[c] \in Pages /\ w[c] # n /\ pqtail[q] = w[c] /\ pqtail[q] # NULL
      BY <1>1, <1>2, <2>2, NullNotPage
    <3>2. next' = [next EXCEPT ![n] = NULL, ![w[c]] = n] /\ pqhead' = pqhead
      BY <3>1, Zenon DEF Link
    <3>3. next'[w[c]] = n
      BY <1>3, <3>1, <3>2, Zenon
    <3>4. ASSUME NEW k \in 1 .. c - 1 PROVE w[k + 1] = next'[w[k]]
      <4>1. k \in 1 .. c /\ c \in 1 .. c /\ k # c
        BY <1>1, <2>2
      <4>2. w[k] \in Pages /\ w[k] # n /\ w[k] # w[c]
        BY <1>2, <4>1, Zenon
      <4>3. next'[w[k]] = next[w[k]]
        BY <1>3, <3>1, <3>2, <4>2, Zenon
      <4>q. QED BY <1>1, <4>3, Zenon
    <3>5. ASSUME NEW k \in 1 .. m - 1 PROVE s[k + 1] = next'[s[k]]
      <4>1. k \in 1 .. c /\ (k = c \/ (k \in 1 .. c - 1 /\ k + 1 \in 1 .. c))
        BY <1>1
      <4>q. QED BY <1>5, <3>3, <3>4, <4>1, Zenon
    <3>6. s[1] = w[1] /\ w[1] = pqhead[q] /\ pqhead[q] = pqhead'[q]
      <4>1. 1 \in 1 .. c
        BY <1>1, <2>2
      <4>q. QED BY <1>1, <1>5, <2>2, <3>2, <4>1, Zenon
    <3>7. /\ m \in Nat
          /\ s = [k \in 1 .. m |-> s[k]]
          /\ m > 0 => s[1] = pqhead'[q]
          /\ \A k \in 1 .. m - 1 : s[k + 1] = next'[s[k]]
      BY <1>5, <3>5, <3>6, Zenon
    <3> HIDE DEF m
    <3>8. Walks(s, pqhead'[q], next', m)
      BY <3>7, Zenon DEF Walks
    <3>q. QED BY <3>8, WalkUnique, Zenon
  <2>q. QED BY <1>1, <2>1, <2>2
<1>7. Nodes(q)' = s
  BY <1>6, Zenon DEF Nodes
<1>q. QED BY <1>4, <1>7, Zenon

-----------------------------------------------------------------------------
(* What a step leaves alone *)

\* A list is as it was when the fields of its queue and the links of its nodes are.
LEMMA ListKept ==
  ASSUME TypeOK, NEW q \in Ports, ListAt(q),
         pqhead'[q] = pqhead[q], pqtail'[q] = pqtail[q], pqcount'[q] = pqcount[q],
         pqcount[q] > 0 => pqpage'[q] = pqpage[q],
         \A k \in 1 .. pqcount[q] : next'[Nodes(q)[k]] = next[Nodes(q)[k]]
  PROVE  ListAt(q)' /\ Nodes(q)' = Nodes(q) /\ \A b \in Pages : OnList(q, b)' <=> OnList(q, b)
<1>1. Nodes(q)' = Nodes(q)
  <2>1. \A k \in 1 .. pqcount[q] - 1 : k \in 1 .. pqcount[q]
    BY NodesFacts
  <2>q. QED BY <2>1, NodesSame, Zenon
<1>2. \A b \in Pages : OnList(q, b)' <=> OnList(q, b)
  BY <1>1, Zenon DEF OnList
<1>3. ASSUME pqcount[q] > 0 PROVE next'[pqtail'[q]] = next[pqtail[q]]
  <2>1. pqcount[q] \in 1 .. pqcount[q]
    BY <1>3, NodesFacts
  <2>q. QED BY <1>3, <2>1, Zenon DEF ListAt
<1>4. ListAt(q)'
  BY <1>1, <1>3 DEF ListAt
<1>q. QED BY <1>1, <1>2, <1>4, Zenon

LEMMA ListFrame ==
  ASSUME TypeOK, ListInv,
         \A q \in Ports : /\ pqhead'[q] = pqhead[q] /\ pqtail'[q] = pqtail[q]
                          /\ pqcount'[q] = pqcount[q]
                          /\ pqcount[q] > 0 => pqpage'[q] = pqpage[q],
         \A q \in Ports : \A k \in 1 .. pqcount[q] : next'[Nodes(q)[k]] = next[Nodes(q)[k]]
  PROVE  /\ ListInv'
         /\ \A q \in Ports : Nodes(q)' = Nodes(q)
         /\ \A q \in Ports, b \in Pages : OnList(q, b)' <=> OnList(q, b)
<1>1. ASSUME NEW q \in Ports
      PROVE  ListAt(q)' /\ Nodes(q)' = Nodes(q) /\ \A b \in Pages : OnList(q, b)' <=> OnList(q, b)
  BY ListKept, Zenon DEF ListInv
<1>q. QED BY <1>1, Zenon DEF ListInv

\* The page that a process copies from.
LEMMA CopyPage ==
  ASSUME TypeOK, CallInv, NEW kind, NEW who, Owned(kind, who), NEW p \in Procs, pc[p] = "copy"
  PROVE  LET n == pkt[p] IN
         /\ n \in Pages /\ kind[n] = "pkt" /\ who[n] = p
         /\ fullbuf[n] \in Pages /\ kind[fullbuf[n]] = "buf" /\ who[fullbuf[n]] = n
         /\ content[fullbuf[n]] \in Frames
<1>1. pkt[p] \in Pages
  BY Zenon DEF TypeOK, CallInv, CallOf, PageOrNull
<1>2. kind[pkt[p]] = "pkt" /\ who[pkt[p]] = p
  BY <1>1, Zenon DEF Owned, OwnedByProc, ByProc
<1>3. fullbuf[pkt[p]] # NULL
  BY <1>1, <1>2, Zenon DEF Owned, OwnedByNode, ByNode
<1>4. fullbuf[pkt[p]] \in Pages
  BY <1>1, <1>3, Zenon DEF TypeOK, PageOrNull
<1>q. QED BY <1>1, <1>2, <1>4 DEF Owned, OwnedByNode, ByNode

\* What is being copied stays when no frame's page is written.
LEMMA CopyFrame ==
  ASSUME TypeOK, CallInv, CopyIntact, NEW kind, NEW who, Owned(kind, who),
         \A p \in Procs : pc'[p] = "copy" =>
           pc[p] = "copy" /\ pkt'[p] = pkt[p] /\ want'[p] = want[p],
         \A p \in Procs : pc'[p] = "copy" => fullbuf'[pkt[p]] = fullbuf[pkt[p]],
         \A b \in Pages : kind[b] = "buf" => content'[b] = content[b]
  PROVE  CopyIntact'
<1>1. ASSUME NEW p \in Procs, pc'[p] = "copy" PROVE content'[fullbuf'[pkt'[p]]] = want'[p]
  <2>1. pc[p] = "copy" /\ pkt'[p] = pkt[p] /\ want'[p] = want[p] /\ fullbuf'[pkt[p]] = fullbuf[pkt[p]]
    BY <1>1, Zenon
  <2>2. fullbuf[pkt[p]] \in Pages /\ kind[fullbuf[pkt[p]]] = "buf"
    BY <2>1, CopyPage
  <2>q. QED BY <2>1, <2>2 DEF CopyIntact
<1>q. QED BY <1>1, Zenon DEF CopyIntact

-----------------------------------------------------------------------------
(* Steps that move no page *)

LEMMA Quiet ==
  ASSUME IInv, TypeOK', LockInv', CallInv', NoLostWakeup',
         UNCHANGED <<freelist, content, queueVars, pkt, sbuf, want, ibuf, reply, drvVars, leaked>>,
         \A p \in Procs : pc'[p] = "copy" <=> pc[p] = "copy",
         \A p \in Procs : pc'[p] = "transmit" <=> pc[p] = "transmit",
         ipc' = "transmit" <=> ipc = "transmit"
  PROVE  IInv'
<1>1. PICK kind, who : Owned(kind, who)
  BY Zenon DEF IInv
<1>2. TypeOK /\ CallInv /\ ListInv /\ CopyIntact
  BY Zenon DEF IInv
<1>3. ListInv' /\ \A q \in Ports, b \in Pages : OnList(q, b)' <=> OnList(q, b)
  BY <1>2, ListFrame, Zenon DEF queueVars
<1>4. CopyIntact'
  BY <1>1, <1>2, CopyFrame, Zenon DEF queueVars
<1>5. OwnedAlone(kind)'
  BY <1>1, Zenon DEF Owned, OwnedAlone, Alone, drvVars
<1>6. OwnedByProc(kind, who)'
  BY <1>1 DEF Owned, OwnedByProc, ByProc
<1>7. OwnedByPort(kind, who)'
  BY <1>1, <1>3 DEF Owned, OwnedByPort, ByPort, queueVars
<1>8. OwnedByNode(kind, who)'
  <2>1. \A b \in Pages : kind[b] = "pkt" => who[b] \in Procs
    BY <1>1, Zenon DEF Owned, OwnedByProc, ByProc
  <2>q. QED BY <1>1, <2>1 DEF Owned, OwnedByNode, ByNode, queueVars
<1>9. Owned(kind, who)'
  BY <1>1, <1>5, <1>6, <1>7, <1>8, Zenon DEF Owned
<1>q. QED BY <1>3, <1>4, <1>9, Zenon DEF IInv

\* The steps of one process: where it goes and which locks it takes.
LEMMA QuietProc ==
  ASSUME IInv, NEW p \in Procs,
         \/ \E q \in Ports : RecvEnter(p, q)
         \/ RecvWait(p) \/ SleepLock(p) \/ SleepRelease(p) \/ SleepSched(p) \/ SleepReturn(p)
         \/ TrapExit(p) \/ kill(p)
  PROVE  IInv'
<1>0. TypeOK /\ LockInv /\ CallInv /\ NoLostWakeup
  BY Zenon DEF IInv
<1>t. pc \in [Procs -> {"user", "check", "sleep", "release", "sched", "asleep",
                       "runnable", "copy", "freepkt", "built", "transmit",
                       "refused", "exited"}]
      /\ port \in [Procs -> Ports \cup {NULL}] /\ killed \in [Procs -> BOOLEAN]
  BY <1>0, Zenon DEF TypeOK
<1>1. ASSUME NEW q \in Ports, RecvEnter(p, q) PROVE IInv'
  <2>1. /\ pc'[p] = "check" /\ port'[p] = q
        /\ \A r \in Procs : r # p => pc'[r] = pc[r] /\ port'[r] = port[r]
    BY <1>1, <1>t, Zenon DEF RecvEnter, Goto
  <2>2. TypeOK'
    BY <1>0, <1>1, Zenon DEF TypeOK, RecvEnter, Goto, queueVars, intrVars, drvVars
  <2>3. LockInv'
    BY <1>0, <1>1, <2>1, ContextsApart, Zenon DEF LockInv, RecvEnter, intrVars
  <2>4. CallInv'
    BY <1>0, <1>1, <2>1 DEF CallInv, CallOf, RecvEnter, Receiving, intrVars
  <2>5. NoLostWakeup'
    BY <1>0, <1>1, <2>1, Zenon DEF NoLostWakeup, RecvEnter, queueVars, intrVars
  <2>q. QED BY <1>1, <2>1, <2>2, <2>3, <2>4, <2>5, Quiet, Zenon DEF RecvEnter, intrVars
<1>2. CASE RecvWait(p)
  <2>1. pc'[p] = "sleep" /\ \A r \in Procs : r # p => pc'[r] = pc[r]
    BY <1>2, <1>t, Zenon DEF RecvWait, Goto
  <2>2. TypeOK'
    BY <1>0, <1>2 DEF TypeOK, RecvWait, Goto, queueVars, intrVars, drvVars
  <2>3. LockInv'
    BY <1>0, <1>2, <2>1, ContextsApart, Zenon DEF LockInv, RecvWait, intrVars
  <2>4. CallInv'
    BY <1>0, <1>2, <2>1, Zenon DEF CallInv, CallOf, RecvWait, Receiving, intrVars
  <2>5. NoLostWakeup'
    <3>1. UNCHANGED <<pqcount, port, ipc, iport>> /\ pqcount[port[p]] = 0
      BY <1>2, Zenon DEF RecvWait, queueVars, intrVars
    <3>2. ~(pqcount[port[p]] > 0)
      BY <3>1
    <3>q. QED BY <1>0, <2>1, <3>1, <3>2, Zenon DEF NoLostWakeup
  <2>q. QED BY <1>2, <2>1, <2>2, <2>3, <2>4, <2>5, Quiet, Zenon DEF RecvWait, intrVars
<1>3. CASE SleepLock(p)
  <2>1. pc'[p] = "release" /\ \A r \in Procs : r # p => pc'[r] = pc[r]
    BY <1>3, <1>t, Zenon DEF SleepLock, Goto
  <2>2. TypeOK'
    BY <1>0, <1>3, Zenon DEF TypeOK, SleepLock, Goto, queueVars, intrVars, drvVars
  <2>3. LockInv'
    BY <1>0, <1>3, <2>1, ContextsApart, Zenon DEF LockInv, SleepLock, intrVars
  <2>4. CallInv'
    BY <1>0, <1>3, <2>1, Zenon DEF CallInv, CallOf, SleepLock, Receiving, intrVars
  <2>5. NoLostWakeup'
    BY <1>0, <1>3, <2>1, Zenon DEF NoLostWakeup, SleepLock, queueVars, intrVars
  <2>q. QED BY <1>3, <2>1, <2>2, <2>3, <2>4, <2>5, Quiet, Zenon DEF SleepLock, intrVars
<1>4. CASE SleepRelease(p)
  <2>1. pc'[p] = "sched" /\ \A r \in Procs : r # p => pc'[r] = pc[r]
    BY <1>4, <1>t, Zenon DEF SleepRelease, Goto
  <2>2. TypeOK'
    BY <1>0, <1>4, Zenon DEF TypeOK, SleepRelease, Goto, queueVars, intrVars, drvVars
  <2>3. LockInv'
    BY <1>0, <1>4, <2>1, ContextsApart, Zenon DEF LockInv, SleepRelease, intrVars
  <2>4. CallInv'
    BY <1>0, <1>4, <2>1, Zenon DEF CallInv, CallOf, SleepRelease, Receiving, intrVars
  <2>5. NoLostWakeup'
    BY <1>0, <1>4, <2>1, Zenon DEF NoLostWakeup, SleepRelease, queueVars, intrVars
  <2>q. QED BY <1>4, <2>1, <2>2, <2>3, <2>4, <2>5, Quiet, Zenon DEF SleepRelease,
               intrVars
<1>5. CASE SleepSched(p)
  <2>1. pc'[p] = "asleep" /\ \A r \in Procs : r # p => pc'[r] = pc[r]
    BY <1>5, <1>t, Zenon DEF SleepSched, Goto
  <2>2. TypeOK'
    BY <1>0, <1>5, Zenon DEF TypeOK, SleepSched, Goto, queueVars, intrVars, drvVars
  <2>3. LockInv'
    BY <1>0, <1>5, <2>1, ContextsApart, Zenon DEF LockInv, SleepSched, intrVars
  <2>4. CallInv'
    BY <1>0, <1>5, <2>1, Zenon DEF CallInv, CallOf, SleepSched, Receiving, intrVars
  <2>5. NoLostWakeup'
    BY <1>0, <1>5, <2>1, Zenon DEF NoLostWakeup, SleepSched, queueVars, intrVars
  <2>q. QED BY <1>5, <2>1, <2>2, <2>3, <2>4, <2>5, Quiet, Zenon DEF SleepSched, intrVars
<1>6. CASE SleepReturn(p)
  <2>1. pc'[p] = "check" /\ \A r \in Procs : r # p => pc'[r] = pc[r]
    BY <1>6, <1>t, Zenon DEF SleepReturn, Goto
  <2>2. TypeOK'
    BY <1>0, <1>6, Zenon DEF TypeOK, SleepReturn, Goto, queueVars, intrVars, drvVars
  <2>3. LockInv'
    BY <1>0, <1>6, <2>1, ContextsApart, Zenon DEF LockInv, SleepReturn, intrVars
  <2>4. CallInv'
    BY <1>0, <1>6, <2>1, Zenon DEF CallInv, CallOf, SleepReturn, Receiving, intrVars
  <2>5. NoLostWakeup'
    BY <1>0, <1>6, <2>1, Zenon DEF NoLostWakeup, SleepReturn, queueVars, intrVars
  <2>q. QED BY <1>6, <2>1, <2>2, <2>3, <2>4, <2>5, Quiet, Zenon DEF SleepReturn,
               intrVars
<1>7. CASE TrapExit(p)
  <2>1. pc'[p] = "exited" /\ \A r \in Procs : r # p => pc'[r] = pc[r]
    BY <1>7, <1>t, Zenon DEF TrapExit, Goto
  <2>2. TypeOK'
    BY <1>0, <1>7, Zenon DEF TypeOK, TrapExit, Goto, queueVars, intrVars, drvVars
  <2>3. LockInv'
    BY <1>0, <1>7, <2>1, ContextsApart, Zenon DEF LockInv, TrapExit, intrVars
  <2>4. CallInv'
    BY <1>0, <1>7, <2>1, Zenon DEF CallInv, CallOf, TrapExit, Receiving, intrVars
  <2>5. NoLostWakeup'
    BY <1>0, <1>7, <2>1, Zenon DEF NoLostWakeup, TrapExit, queueVars, intrVars
  <2>q. QED BY <1>7, <2>1, <2>2, <2>3, <2>4, <2>5, Quiet, Zenon DEF TrapExit, intrVars
<1>8. CASE kill(p)
  <2>1. \A r \in Procs : pc'[r] = (IF r = p THEN (IF pc[p] = "asleep" THEN "runnable" ELSE pc[p]) ELSE pc[r])
    BY <1>8, <1>t, Zenon DEF kill, Goto
  <2>2. TypeOK'
    BY <1>0, <1>8, Zenon DEF TypeOK, kill, Goto, queueVars, intrVars, drvVars
  <2>3. LockInv'
    BY <1>0, <1>8, <2>1, ContextsApart, Zenon DEF LockInv, kill, intrVars
  <2>4. CallInv'
    BY <1>0, <1>8, <2>1, Zenon DEF CallInv, CallOf, kill, Receiving, intrVars
  <2>5. NoLostWakeup'
    BY <1>0, <1>8, <2>1, Zenon DEF NoLostWakeup, kill, queueVars, intrVars
  <2>q. QED BY <1>8, <2>1, <2>2, <2>3, <2>4, <2>5, Quiet, Zenon DEF kill, intrVars
<1>q. QED BY <1>1, <1>2, <1>3, <1>4, <1>5, <1>6, <1>7, <1>8, Zenon

LEMMA IpRxWakeupInv ==
  ASSUME IInv, IpRxWakeup
  PROVE  IInv'
<1>0. TypeOK /\ LockInv /\ CallInv /\ NoLostWakeup
  BY Zenon DEF IInv
<1>1. \A r \in Procs : pc'[r] = (IF pc[r] = "asleep" /\ port[r] = iport THEN "runnable" ELSE pc[r])
  BY Zenon DEF IpRxWakeup
<1>2. TypeOK'
  BY <1>0, Zenon DEF TypeOK, IpRxWakeup, queueVars, drvVars
<1>3. LockInv'
  BY <1>0, <1>1, ContextsApart, Zenon DEF LockInv, IpRxWakeup
<1>4. CallInv'
  BY <1>0, <1>1, Zenon DEF CallInv, CallOf, IpRxWakeup, Receiving
<1>5. NoLostWakeup'
  <2>1. \A r \in Procs : pc[r] \notin {"sleep", "release", "sched"}
    BY <1>0, ContextsApart, Zenon DEF LockInv, IpRxWakeup
  <2>q. QED BY <1>0, <1>1, <2>1, Zenon DEF NoLostWakeup, IpRxWakeup, queueVars
<1>q. QED BY <1>1, <1>2, <1>3, <1>4, <1>5, Quiet, Zenon DEF IpRxWakeup

-----------------------------------------------------------------------------
(* Steps that give a page to someone else *)

\* Page b goes to holder h, as a page of kind k.
Relabelled(kind, who, K, W, b, k, h) ==
  /\ K \in [Pages -> Kinds] /\ W \in [Pages -> Holders]
  /\ K[b] = k /\ W[b] = h
  /\ \A c \in Pages : c # b => K[c] = kind[c] /\ W[c] = who[c]

LEMMA Relabel ==
  ASSUME NEW kind, NEW who, Owned(kind, who), NEW b \in Pages, NEW k \in Kinds, NEW h \in Holders
  PROVE  \E K, W : Relabelled(kind, who, K, W, b, k, h)
<1>1. kind \in [Pages -> Kinds] /\ who \in [Pages -> Holders]
  BY Zenon DEF Owned
<1>2. Relabelled(kind, who, [kind EXCEPT ![b] = k], [who EXCEPT ![b] = h], b, k, h)
  BY <1>1, Zenon DEF Relabelled
<1>q. QED BY <1>2, Zenon

\* What such a step does to the pages that no process and no port holds.
AloneSame(c) ==
  /\ c \in freelist' <=> c \in freelist
  /\ c \in drv' <=> c \in drv
  /\ c \in leaked' <=> c \in leaked
  /\ c = rcv' <=> c = rcv
  /\ c = ibuf' <=> c = ibuf
  /\ c = reply' /\ ipc' # "transmit" <=> c = reply /\ ipc # "transmit"
  /\ c = reply' /\ ipc' = "transmit" <=> c = reply /\ ipc = "transmit"

LEMMA AloneMoved ==
  ASSUME NEW kind, NEW who, Owned(kind, who), NEW b \in Pages, NEW k, NEW h, NEW K, NEW W,
         Relabelled(kind, who, K, W, b, k, h), Alone(b, k)', \A c \in Pages : c # b => AloneSame(c)
  PROVE  OwnedAlone(K)'
<1>1. \A c \in Pages : c # b => Alone(c, K[c])'
  <2>1. \A c \in Pages : c # b => Alone(c, kind[c]) /\ K[c] = kind[c] /\ AloneSame(c)
    BY Zenon DEF Owned, OwnedAlone, Relabelled
  <2>q. QED BY <2>1, Zenon DEF Alone, AloneSame
<1>2. Alone(b, K[b])'
  BY Zenon DEF Relabelled
<1>q. QED BY <1>1, <1>2, Zenon DEF OwnedAlone

\* ... and to those of processes.
ProcSame(c, r) ==
  /\ pkt'[r] = c <=> pkt[r] = c
  /\ sbuf'[r] = c /\ pc'[r] # "transmit" <=> sbuf[r] = c /\ pc[r] # "transmit"
  /\ sbuf'[r] = c /\ pc'[r] = "transmit" <=> sbuf[r] = c /\ pc[r] = "transmit"

LEMMA ProcMoved ==
  ASSUME NEW kind, NEW who, Owned(kind, who), NEW b \in Pages, NEW k, NEW h, NEW K, NEW W,
         Relabelled(kind, who, K, W, b, k, h), ByProc(b, k, h)',
         \A c \in Pages, r \in Procs : c # b => ProcSame(c, r)
  PROVE  OwnedByProc(K, W)'
<1>1. ASSUME NEW c \in Pages, c # b PROVE ByProc(c, K[c], W[c])'
  <2>1. ByProc(c, kind[c], who[c]) /\ K[c] = kind[c] /\ W[c] = who[c]
    BY <1>1, Zenon DEF Owned, OwnedByProc, Relabelled
  <2>2. \A r \in Procs : ProcSame(c, r)
    BY <1>1, Zenon
  <2>q. QED BY <2>1, <2>2 DEF ByProc, ProcSame
<1>2. ByProc(b, K[b], W[b])'
  BY Zenon DEF Relabelled
<1>q. QED BY <1>1, <1>2, Zenon DEF OwnedByProc

\* The holders that such a step does not touch.
LEMMA ProcKept ==
  ASSUME NEW kind, NEW who, Owned(kind, who), NEW b \in Pages, NEW k, NEW h, NEW K, NEW W,
         Relabelled(kind, who, K, W, b, k, h),
         kind[b] \notin {"pkt", "sbuf", "tx"}, k \notin {"pkt", "sbuf", "tx"},
         pkt' = pkt, sbuf' = sbuf, \A p \in Procs : pc'[p] = "transmit" <=> pc[p] = "transmit"
  PROVE  OwnedByProc(K, W)'
BY DEF Owned, OwnedByProc, ByProc, Relabelled

LEMMA PortKept ==
  ASSUME NEW kind, NEW who, Owned(kind, who), NEW b \in Pages, NEW k, NEW h, NEW K, NEW W,
         Relabelled(kind, who, K, W, b, k, h),
         kind[b] \notin {"pq", "node"}, k \notin {"pq", "node"},
         pqpage' = pqpage, \A q \in Ports, c \in Pages : OnList(q, c)' <=> OnList(q, c)
  PROVE  OwnedByPort(K, W)'
BY DEF Owned, OwnedByPort, ByPort, Relabelled

LEMMA NodeKept ==
  ASSUME NEW kind, NEW who, Owned(kind, who), NEW b \in Pages, NEW k, NEW h, NEW K, NEW W,
         Relabelled(kind, who, K, W, b, k, h),
         kind[b] \notin {"buf", "node", "pkt"}, k \notin {"buf", "node", "pkt"},
         fullbuf' = fullbuf, \A p \in Procs : pc'[p] = "copy" <=> pc[p] = "copy",
         \A c \in Pages : c # b => content'[c] = content[c],
         k \in {"rcv", "ibuf"} => content'[b] \in Frames
  PROVE  OwnedByNode(K, W)'
<1>1. \A c \in Pages : kind[c] = "pkt" => who[c] \in Procs
  BY Zenon DEF Owned, OwnedByProc, ByProc
<1>q. QED BY <1>1 DEF Owned, OwnedByNode, ByNode, Relabelled

LEMMA SendBuildInv ==
  ASSUME IInv, NEW p \in Procs, NEW n \in Payloads, SendBuild(p, n)
  PROVE  IInv'
<1>0. TypeOK /\ LockInv /\ CallInv /\ ListInv /\ CopyIntact /\ NoLostWakeup
  BY Zenon DEF IInv
<1>1. PICK kind, who : Owned(kind, who)
  BY Zenon DEF IInv
<1>2. PICK b \in Pages : /\ kalloc(b) /\ kind[b] = "free"
                        /\ content' = [content EXCEPT ![b] = n] /\ sbuf' = [sbuf EXCEPT ![p] = b]
  BY <1>1, Zenon DEF SendBuild, kalloc, Owned, OwnedAlone, Alone
<1>3. PICK K, W : Relabelled(kind, who, K, W, b, "sbuf", p)
  <2>1. "sbuf" \in Kinds /\ p \in Holders
    BY Zenon DEF Kinds, Holders
  <2>q. QED BY <1>1, <2>1, Relabel, Zenon
<1>4. /\ netlock' = netlock /\ ptable_lock' = ptable_lock /\ pqpage' = pqpage
      /\ pqhead' = pqhead /\ pqtail' = pqtail /\ pqcount' = pqcount
      /\ fullbuf' = fullbuf /\ next' = next /\ port' = port /\ pkt' = pkt
      /\ want' = want /\ ipc' = ipc /\ ibuf' = ibuf /\ iport' = iport /\ reply' = reply
      /\ rcv' = rcv /\ drv' = drv /\ leaked' = leaked
  BY Zenon DEF SendBuild, queueVars, procVars, intrVars, drvVars, netVars
<1>5. /\ pc[p] = "user" /\ sbuf[p] = NULL
      /\ pc'[p] = "built" /\ \A r \in Procs : r # p => pc'[r] = pc[r]
      /\ sbuf'[p] = b /\ \A r \in Procs : r # p => sbuf'[r] = sbuf[r]
      /\ content' \in [Pages -> Nat] /\ \A c \in Pages : c # b => content'[c] = content[c]
      /\ freelist' = freelist \ {b}
  <2>1. /\ pc[p] = "user" /\ pc' = [pc EXCEPT ![p] = "built"] /\ freelist' = freelist \ {b}
        /\ n \in Nat /\ content \in [Pages -> Nat] /\ sbuf \in [Procs -> PageOrNull]
    BY <1>0, <1>2, ContentsNat, Zenon DEF SendBuild, Goto, kalloc, TypeOK
  <2>2. (\E L : pc \in [Procs -> L]) /\ sbuf[p] = NULL
    BY <1>0, <2>1, Zenon DEF TypeOK, CallInv, CallOf
  <2>q. QED BY <1>2, <2>1, <2>2, Zenon
<1>6. TypeOK'
  BY <1>0, <1>2, <1>4, <1>5 DEF TypeOK, PageOrNull, Goto, SendBuild, queueVars,
     procVars, intrVars, drvVars, netVars
<1>7. LockInv'
  BY <1>0, <1>4, <1>5, Zenon DEF LockInv
<1>8. CallInv'
  BY <1>0, <1>2, <1>4, <1>5, NullNotPage DEF CallInv, CallOf, Receiving
<1>9. NoLostWakeup'
  BY <1>0, <1>4, <1>5, Zenon DEF NoLostWakeup
<1>10. ListInv' /\ \A q \in Ports, c \in Pages : OnList(q, c)' <=> OnList(q, c)
  BY <1>0, <1>4, ListFrame, Zenon
<1>11. CopyIntact'
  BY <1>0, <1>1, <1>2, <1>4, <1>5, CopyFrame, Zenon
<1>12. OwnedAlone(K)'
  <2>1. Alone(b, "free")
    BY <1>1, <1>2, Zenon DEF Owned, OwnedAlone
  <2>2. Alone(b, "sbuf")'
    BY <1>2, <1>4, <1>5, <2>1, NullNotPage, Zenon DEF Alone
  <2>3. \A c \in Pages : c # b => AloneSame(c)
    BY <1>2, <1>4, <1>5, NullNotPage, Zenon DEF AloneSame
  <2>q. QED BY <1>1, <1>3, <2>2, <2>3, AloneMoved, Zenon
<1>13. OwnedByProc(K, W)'
  <2>1. ByProc(b, "free", who[b])
    BY <1>1, <1>2, Zenon DEF Owned, OwnedByProc
  <2>2. ByProc(b, "sbuf", p)'
    BY <1>2, <1>4, <1>5, <2>1, NullNotPage, Zenon DEF ByProc
  <2>3. \A c \in Pages, r \in Procs : c # b => ProcSame(c, r)
    BY <1>2, <1>4, <1>5, NullNotPage, Zenon DEF ProcSame
  <2>q. QED BY <1>1, <1>3, <2>2, <2>3, ProcMoved, Zenon
<1>14. OwnedByPort(K, W)'
  <2>1. /\ kind[b] \notin {"pq", "node"} /\ "sbuf" \notin {"pq", "node"}
        /\ pqpage' = pqpage
    BY <1>2, <1>4, <1>5, Zenon
  <2>q. QED BY <1>1, <1>3, <1>10, <2>1, PortKept, Zenon
<1>15. OwnedByNode(K, W)'
  <2>1. /\ kind[b] \notin {"buf", "node", "pkt"} /\ "sbuf" \notin {"buf", "node", "pkt"}
        /\ fullbuf' = fullbuf /\ \A r \in Procs : pc'[r] = "copy" <=> pc[r] = "copy"
        /\ \A c \in Pages : c # b => content'[c] = content[c]
        /\ "sbuf" \in {"rcv", "ibuf"} => content'[b] \in Frames
    BY <1>2, <1>4, <1>5, Zenon
  <2>q. QED BY <1>1, <1>3, <2>1, NodeKept, Zenon
<1>16. Owned(K, W)'
  BY <1>3, <1>12, <1>13, <1>14, <1>15, Zenon DEF Owned, Relabelled
<1>q. QED BY <1>6, <1>7, <1>8, <1>9, <1>10, <1>11, <1>16, Zenon DEF IInv

LEMMA SendCallInv ==
  ASSUME IInv, NEW p \in Procs, SendCall(p)
  PROVE  IInv'
<1>0. TypeOK /\ LockInv /\ CallInv /\ ListInv /\ CopyIntact /\ NoLostWakeup
  BY Zenon DEF IInv
<1>1. PICK kind, who : Owned(kind, who)
  BY Zenon DEF IInv
<1>2. PICK b \in Pages : b = sbuf[p] /\ kind[b] = "sbuf" /\ who[b] = p
  BY <1>0, <1>1 DEF SendCall, Owned, OwnedByProc, ByProc, CallInv, CallOf, TypeOK,
     PageOrNull
<1>3. PICK K, W : Relabelled(kind, who, K, W, b, "tx", p)
  <2>1. "tx" \in Kinds /\ p \in Holders
    BY Zenon DEF Kinds, Holders
  <2>q. QED BY <1>1, <2>1, Relabel, Zenon
<1>4. /\ netlock' = netlock /\ ptable_lock' = ptable_lock /\ pqpage' = pqpage
      /\ pqhead' = pqhead /\ pqtail' = pqtail /\ pqcount' = pqcount
      /\ fullbuf' = fullbuf /\ next' = next /\ port' = port /\ pkt' = pkt
      /\ want' = want /\ ipc' = ipc /\ ibuf' = ibuf /\ iport' = iport /\ reply' = reply
      /\ rcv' = rcv /\ leaked' = leaked /\ freelist' = freelist /\ content' = content
      /\ sbuf' = sbuf
  BY Zenon DEF SendCall, queueVars, procVars, intrVars, drvVars, netVars
<1>5. /\ pc[p] = "built"
      /\ pc'[p] = "transmit" /\ \A r \in Procs : r # p => pc'[r] = pc[r]
      /\ drv' = drv \cup {b}
  BY <1>0, <1>2, Zenon DEF SendCall, Goto, TypeOK
<1>6. TypeOK'
  BY <1>0, <1>2, <1>4, <1>5, Zenon DEF TypeOK, PageOrNull, Goto, SendCall, queueVars,
     procVars, intrVars, drvVars, netVars
<1>7. LockInv'
  BY <1>0, <1>4, <1>5, Zenon DEF LockInv
<1>8. CallInv'
  BY <1>0, <1>2, <1>4, <1>5, NullNotPage, Zenon DEF CallInv, CallOf, Receiving
<1>9. NoLostWakeup'
  BY <1>0, <1>4, <1>5, Zenon DEF NoLostWakeup
<1>10. ListInv' /\ \A q \in Ports, c \in Pages : OnList(q, c)' <=> OnList(q, c)
  BY <1>0, <1>4, ListFrame, Zenon
<1>11. CopyIntact'
  BY <1>0, <1>1, <1>2, <1>4, <1>5, CopyFrame, Zenon
<1>12. OwnedAlone(K)'
  <2>1. Alone(b, "sbuf")
    BY <1>1, <1>2, Zenon DEF Owned, OwnedAlone
  <2>2. Alone(b, "tx")'
    BY <1>2, <1>4, <1>5, <2>1, NullNotPage, Zenon DEF Alone
  <2>3. \A c \in Pages : c # b => AloneSame(c)
    BY <1>2, <1>4, <1>5, NullNotPage, Zenon DEF AloneSame
  <2>q. QED BY <1>1, <1>3, <2>2, <2>3, AloneMoved, Zenon
<1>13. OwnedByProc(K, W)'
  <2>1. ByProc(b, "sbuf", who[b])
    BY <1>1, <1>2, Zenon DEF Owned, OwnedByProc
  <2>2. ByProc(b, "tx", p)'
    BY <1>2, <1>4, <1>5, <2>1, NullNotPage, Zenon DEF ByProc
  <2>3. \A c \in Pages, r \in Procs : c # b => ProcSame(c, r)
    BY <1>2, <1>4, <1>5, NullNotPage, Zenon DEF ProcSame
  <2>q. QED BY <1>1, <1>3, <2>2, <2>3, ProcMoved, Zenon
<1>14. OwnedByPort(K, W)'
  <2>1. /\ kind[b] \notin {"pq", "node"} /\ "tx" \notin {"pq", "node"}
        /\ pqpage' = pqpage
    BY <1>2, <1>4, <1>5, Zenon
  <2>q. QED BY <1>1, <1>3, <1>10, <2>1, PortKept, Zenon
<1>15. OwnedByNode(K, W)'
  <2>1. /\ kind[b] \notin {"buf", "node", "pkt"} /\ "tx" \notin {"buf", "node", "pkt"}
        /\ fullbuf' = fullbuf /\ \A r \in Procs : pc'[r] = "copy" <=> pc[r] = "copy"
        /\ \A c \in Pages : c # b => content'[c] = content[c]
        /\ "tx" \in {"rcv", "ibuf"} => content'[b] \in Frames
    BY <1>2, <1>4, <1>5, Zenon
  <2>q. QED BY <1>1, <1>3, <2>1, NodeKept, Zenon
<1>16. Owned(K, W)'
  BY <1>3, <1>12, <1>13, <1>14, <1>15, Zenon DEF Owned, Relabelled
<1>q. QED BY <1>6, <1>7, <1>8, <1>9, <1>10, <1>11, <1>16, Zenon DEF IInv

LEMMA SendDoneInv ==
  ASSUME IInv, NEW p \in Procs, SendDone(p)
  PROVE  IInv'
<1>0. TypeOK /\ LockInv /\ CallInv /\ ListInv /\ CopyIntact /\ NoLostWakeup
  BY Zenon DEF IInv
<1>1. PICK kind, who : Owned(kind, who)
  BY Zenon DEF IInv
<1>2. PICK b \in Pages : b = sbuf[p] /\ kind[b] = "tx" /\ who[b] = p
  BY <1>0, <1>1 DEF SendDone, Owned, OwnedByProc, ByProc, CallInv, CallOf, TypeOK,
     PageOrNull
<1>3. PICK K, W : Relabelled(kind, who, K, W, b, "drv", NULL)
  <2>1. "drv" \in Kinds /\ NULL \in Holders
    BY Zenon DEF Kinds, Holders
  <2>q. QED BY <1>1, <2>1, Relabel, Zenon
<1>4. /\ netlock' = netlock /\ ptable_lock' = ptable_lock /\ pqpage' = pqpage
      /\ pqhead' = pqhead /\ pqtail' = pqtail /\ pqcount' = pqcount
      /\ fullbuf' = fullbuf /\ next' = next /\ port' = port /\ pkt' = pkt
      /\ want' = want /\ ipc' = ipc /\ ibuf' = ibuf /\ iport' = iport /\ reply' = reply
      /\ rcv' = rcv /\ leaked' = leaked /\ freelist' = freelist /\ content' = content
      /\ drv' = drv
  BY Zenon DEF SendDone, queueVars, procVars, intrVars, drvVars, netVars
<1>5. /\ pc[p] = "transmit"
      /\ Return(p) \in {"user", "exited"}
      /\ pc'[p] = Return(p) /\ \A r \in Procs : r # p => pc'[r] = pc[r]
      /\ sbuf'[p] = NULL /\ \A r \in Procs : r # p => sbuf'[r] = sbuf[r]
  BY <1>0, <1>2, Zenon DEF SendDone, Goto, Return, TypeOK
<1>6. TypeOK'
  BY <1>0, <1>2, <1>4, <1>5, Zenon DEF TypeOK, PageOrNull, Goto, SendDone, queueVars,
     procVars, intrVars, drvVars, netVars
<1>7. LockInv'
  BY <1>0, <1>4, <1>5, Zenon DEF LockInv
<1>8. CallInv'
  <2>1. CallOf(p)'
    BY <1>0, <1>4, <1>5, Zenon DEF CallInv, CallOf, Receiving
  <2>2. ASSUME NEW r \in Procs, r # p PROVE CallOf(r)'
    BY <1>0, <1>4, <1>5, <2>2, Zenon DEF CallInv, CallOf
  <2>q. QED BY <1>0, <1>4, <2>1, <2>2, Zenon DEF CallInv
<1>9. NoLostWakeup'
  BY <1>0, <1>4, <1>5, Zenon DEF NoLostWakeup
<1>10. ListInv' /\ \A q \in Ports, c \in Pages : OnList(q, c)' <=> OnList(q, c)
  BY <1>0, <1>4, ListFrame, Zenon
<1>11. CopyIntact'
  BY <1>0, <1>1, <1>2, <1>4, <1>5, CopyFrame, Zenon
<1>12. OwnedAlone(K)'
  <2>1. Alone(b, "tx")
    BY <1>1, <1>2, Zenon DEF Owned, OwnedAlone
  <2>2. Alone(b, "drv")'
    BY <1>2, <1>4, <1>5, <2>1, NullNotPage, Zenon DEF Alone
  <2>3. \A c \in Pages : c # b => AloneSame(c)
    BY <1>2, <1>4, <1>5, NullNotPage, Zenon DEF AloneSame
  <2>q. QED BY <1>1, <1>3, <2>2, <2>3, AloneMoved, Zenon
<1>13. OwnedByProc(K, W)'
  <2>1. ByProc(b, "tx", who[b])
    BY <1>1, <1>2, Zenon DEF Owned, OwnedByProc
  <2>2. ByProc(b, "drv", NULL)'
    BY <1>2, <1>4, <1>5, <2>1, NullNotPage, Zenon DEF ByProc
  <2>3. \A c \in Pages, r \in Procs : c # b => ProcSame(c, r)
    BY <1>2, <1>4, <1>5, NullNotPage, Zenon DEF ProcSame
  <2>q. QED BY <1>1, <1>3, <2>2, <2>3, ProcMoved, Zenon
<1>14. OwnedByPort(K, W)'
  <2>1. /\ kind[b] \notin {"pq", "node"} /\ "drv" \notin {"pq", "node"}
        /\ pqpage' = pqpage
    BY <1>2, <1>4, <1>5, Zenon
  <2>q. QED BY <1>1, <1>3, <1>10, <2>1, PortKept, Zenon
<1>15. OwnedByNode(K, W)'
  <2>1. /\ kind[b] \notin {"buf", "node", "pkt"} /\ "drv" \notin {"buf", "node", "pkt"}
        /\ fullbuf' = fullbuf /\ \A r \in Procs : pc'[r] = "copy" <=> pc[r] = "copy"
        /\ \A c \in Pages : c # b => content'[c] = content[c]
        /\ "drv" \in {"rcv", "ibuf"} => content'[b] \in Frames
    BY <1>2, <1>4, <1>5, Zenon
  <2>q. QED BY <1>1, <1>3, <2>1, NodeKept, Zenon
<1>16. Owned(K, W)'
  BY <1>3, <1>12, <1>13, <1>14, <1>15, Zenon DEF Owned, Relabelled
<1>q. QED BY <1>6, <1>7, <1>8, <1>9, <1>10, <1>11, <1>16, Zenon DEF IInv

LEMMA SendRefusedInv ==
  ASSUME IInv, NEW p \in Procs, SendRefused(p)
  PROVE  IInv'
<1>0. TypeOK /\ LockInv /\ CallInv /\ ListInv /\ CopyIntact /\ NoLostWakeup
  BY Zenon DEF IInv
<1>1. PICK kind, who : Owned(kind, who)
  BY Zenon DEF IInv
<1>2. PICK b \in Pages : b = sbuf[p] /\ kind[b] = "tx" /\ who[b] = p
  BY <1>0, <1>1 DEF SendRefused, Owned, OwnedByProc, ByProc, CallInv, CallOf, TypeOK,
     PageOrNull
<1>3. PICK K, W : Relabelled(kind, who, K, W, b, "sbuf", p)
  <2>1. "sbuf" \in Kinds /\ p \in Holders
    BY Zenon DEF Kinds, Holders
  <2>q. QED BY <1>1, <2>1, Relabel, Zenon
<1>4. /\ netlock' = netlock /\ ptable_lock' = ptable_lock /\ pqpage' = pqpage
      /\ pqhead' = pqhead /\ pqtail' = pqtail /\ pqcount' = pqcount
      /\ fullbuf' = fullbuf /\ next' = next /\ port' = port /\ pkt' = pkt
      /\ want' = want /\ ipc' = ipc /\ ibuf' = ibuf /\ iport' = iport /\ reply' = reply
      /\ rcv' = rcv /\ leaked' = leaked /\ freelist' = freelist /\ content' = content
      /\ sbuf' = sbuf
  BY Zenon DEF SendRefused, queueVars, procVars, intrVars, drvVars, netVars
<1>5. /\ pc[p] = "transmit"
      /\ pc'[p] = "refused" /\ \A r \in Procs : r # p => pc'[r] = pc[r]
      /\ drv' = drv \ {b}
  BY <1>0, <1>2, Zenon DEF SendRefused, Goto, TypeOK
<1>6. TypeOK'
  BY <1>0, <1>2, <1>4, <1>5, Zenon DEF TypeOK, PageOrNull, Goto, SendRefused,
     queueVars, procVars, intrVars, drvVars, netVars
<1>7. LockInv'
  BY <1>0, <1>4, <1>5, Zenon DEF LockInv
<1>8. CallInv'
  BY <1>0, <1>2, <1>4, <1>5, NullNotPage, Zenon DEF CallInv, CallOf, Receiving
<1>9. NoLostWakeup'
  BY <1>0, <1>4, <1>5, Zenon DEF NoLostWakeup
<1>10. ListInv' /\ \A q \in Ports, c \in Pages : OnList(q, c)' <=> OnList(q, c)
  BY <1>0, <1>4, ListFrame, Zenon
<1>11. CopyIntact'
  BY <1>0, <1>1, <1>2, <1>4, <1>5, CopyFrame, Zenon
<1>12. OwnedAlone(K)'
  <2>1. Alone(b, "tx")
    BY <1>1, <1>2, Zenon DEF Owned, OwnedAlone
  <2>2. Alone(b, "sbuf")'
    BY <1>2, <1>4, <1>5, <2>1, NullNotPage, Zenon DEF Alone
  <2>3. \A c \in Pages : c # b => AloneSame(c)
    BY <1>2, <1>4, <1>5, NullNotPage, Zenon DEF AloneSame
  <2>q. QED BY <1>1, <1>3, <2>2, <2>3, AloneMoved, Zenon
<1>13. OwnedByProc(K, W)'
  <2>1. ByProc(b, "tx", who[b])
    BY <1>1, <1>2, Zenon DEF Owned, OwnedByProc
  <2>2. ByProc(b, "sbuf", p)'
    BY <1>2, <1>4, <1>5, <2>1, NullNotPage, Zenon DEF ByProc
  <2>3. \A c \in Pages, r \in Procs : c # b => ProcSame(c, r)
    BY <1>2, <1>4, <1>5, NullNotPage, Zenon DEF ProcSame
  <2>q. QED BY <1>1, <1>3, <2>2, <2>3, ProcMoved, Zenon
<1>14. OwnedByPort(K, W)'
  <2>1. /\ kind[b] \notin {"pq", "node"} /\ "sbuf" \notin {"pq", "node"}
        /\ pqpage' = pqpage
    BY <1>2, <1>4, <1>5, Zenon
  <2>q. QED BY <1>1, <1>3, <1>10, <2>1, PortKept, Zenon
<1>15. OwnedByNode(K, W)'
  <2>1. /\ kind[b] \notin {"buf", "node", "pkt"} /\ "sbuf" \notin {"buf", "node", "pkt"}
        /\ fullbuf' = fullbuf /\ \A r \in Procs : pc'[r] = "copy" <=> pc[r] = "copy"
        /\ \A c \in Pages : c # b => content'[c] = content[c]
        /\ "sbuf" \in {"rcv", "ibuf"} => content'[b] \in Frames
    BY <1>2, <1>4, <1>5, Zenon
  <2>q. QED BY <1>1, <1>3, <2>1, NodeKept, Zenon
<1>16. Owned(K, W)'
  BY <1>3, <1>12, <1>13, <1>14, <1>15, Zenon DEF Owned, Relabelled
<1>q. QED BY <1>6, <1>7, <1>8, <1>9, <1>10, <1>11, <1>16, Zenon DEF IInv

LEMMA SendFreeInv ==
  ASSUME IInv, NEW p \in Procs, SendFree(p)
  PROVE  IInv'
<1>0. TypeOK /\ LockInv /\ CallInv /\ ListInv /\ CopyIntact /\ NoLostWakeup
  BY Zenon DEF IInv
<1>1. PICK kind, who : Owned(kind, who)
  BY Zenon DEF IInv
<1>2. PICK b \in Pages : b = sbuf[p] /\ kind[b] = "sbuf" /\ who[b] = p
  BY <1>0, <1>1 DEF SendFree, Owned, OwnedByProc, ByProc, CallInv, CallOf, TypeOK,
     PageOrNull
<1>3. PICK K, W : Relabelled(kind, who, K, W, b, "free", NULL)
  <2>1. "free" \in Kinds /\ NULL \in Holders
    BY Zenon DEF Kinds, Holders
  <2>q. QED BY <1>1, <2>1, Relabel, Zenon
<1>4. /\ netlock' = netlock /\ ptable_lock' = ptable_lock /\ pqpage' = pqpage
      /\ pqhead' = pqhead /\ pqtail' = pqtail /\ pqcount' = pqcount
      /\ fullbuf' = fullbuf /\ next' = next /\ port' = port /\ pkt' = pkt
      /\ want' = want /\ ipc' = ipc /\ ibuf' = ibuf /\ iport' = iport /\ reply' = reply
      /\ rcv' = rcv /\ leaked' = leaked /\ drv' = drv
  BY Zenon DEF SendFree, queueVars, procVars, intrVars, drvVars, netVars
<1>5. /\ pc[p] \in {"built", "refused"}
      /\ Return(p) \in {"user", "exited"}
      /\ pc'[p] = Return(p) /\ \A r \in Procs : r # p => pc'[r] = pc[r]
      /\ sbuf'[p] = NULL /\ \A r \in Procs : r # p => sbuf'[r] = sbuf[r]
      /\ content' \in [Pages -> Nat] /\ \A c \in Pages : c # b => content'[c] = content[c]
      /\ freelist' = freelist \cup {b}
  BY <1>0, <1>2, NullNotPage DEF SendFree, Goto, Return, kfree, Junk, TypeOK
<1>6. TypeOK'
  BY <1>0, <1>2, <1>4, <1>5, ZenonT(30) DEF TypeOK, PageOrNull, Goto, SendFree, queueVars,
     procVars, intrVars, drvVars, netVars
<1>7. LockInv'
  BY <1>0, <1>4, <1>5, Zenon DEF LockInv
<1>8. CallInv'
  BY <1>0, <1>2, <1>4, <1>5, NullNotPage DEF CallInv, CallOf, Receiving
<1>9. NoLostWakeup'
  BY <1>0, <1>4, <1>5, Zenon DEF NoLostWakeup
<1>10. ListInv' /\ \A q \in Ports, c \in Pages : OnList(q, c)' <=> OnList(q, c)
  BY <1>0, <1>4, ListFrame, Zenon
<1>11. CopyIntact'
  BY <1>0, <1>1, <1>2, <1>4, <1>5, CopyFrame, Zenon
<1>12. OwnedAlone(K)'
  <2>1. Alone(b, "sbuf")
    BY <1>1, <1>2, Zenon DEF Owned, OwnedAlone
  <2>2. Alone(b, "free")'
    BY <1>2, <1>4, <1>5, <2>1, NullNotPage, Zenon DEF Alone
  <2>3. \A c \in Pages : c # b => AloneSame(c)
    BY <1>2, <1>4, <1>5, NullNotPage, Zenon DEF AloneSame
  <2>q. QED BY <1>1, <1>3, <2>2, <2>3, AloneMoved, Zenon
<1>13. OwnedByProc(K, W)'
  <2>1. ByProc(b, "sbuf", who[b])
    BY <1>1, <1>2, Zenon DEF Owned, OwnedByProc
  <2>2. ByProc(b, "free", NULL)'
    BY <1>2, <1>4, <1>5, <2>1, NullNotPage DEF ByProc
  <2>3. \A c \in Pages, r \in Procs : c # b => ProcSame(c, r)
    BY <1>2, <1>4, <1>5, NullNotPage, ZenonT(30) DEF ProcSame
  <2>q. QED BY <1>1, <1>3, <2>2, <2>3, ProcMoved, Zenon
<1>14. OwnedByPort(K, W)'
  <2>1. /\ kind[b] \notin {"pq", "node"} /\ "free" \notin {"pq", "node"}
        /\ pqpage' = pqpage
    BY <1>2, <1>4, <1>5, Zenon
  <2>q. QED BY <1>1, <1>3, <1>10, <2>1, PortKept, Zenon
<1>15. OwnedByNode(K, W)'
  <2>1. /\ kind[b] \notin {"buf", "node", "pkt"} /\ "free" \notin {"buf", "node", "pkt"}
        /\ fullbuf' = fullbuf /\ \A r \in Procs : pc'[r] = "copy" <=> pc[r] = "copy"
        /\ \A c \in Pages : c # b => content'[c] = content[c]
        /\ "free" \in {"rcv", "ibuf"} => content'[b] \in Frames
    BY <1>2, <1>4, <1>5, Zenon
  <2>q. QED BY <1>1, <1>3, <2>1, NodeKept, Zenon
<1>16. Owned(K, W)'
  BY <1>3, <1>12, <1>13, <1>14, <1>15, Zenon DEF Owned, Relabelled
<1>q. QED BY <1>6, <1>7, <1>8, <1>9, <1>10, <1>11, <1>16, Zenon DEF IInv

LEMMA NetRxCallInv ==
  ASSUME IInv, NetRxCall
  PROVE  IInv'
<1>0. TypeOK /\ LockInv /\ CallInv /\ ListInv /\ CopyIntact /\ NoLostWakeup
  BY Zenon DEF IInv
<1>1. PICK kind, who : Owned(kind, who)
  BY Zenon DEF IInv
<1>2. PICK b \in Pages : b = rcv /\ kind[b] = "rcv" /\ content[b] \in Frames
  BY <1>0, <1>1, Zenon DEF NetRxCall, Owned, OwnedAlone, Alone, OwnedByNode, ByNode,
     TypeOK, PageOrNull
<1>3. PICK K, W : Relabelled(kind, who, K, W, b, "ibuf", NULL)
  <2>1. "ibuf" \in Kinds /\ NULL \in Holders
    BY Zenon DEF Kinds, Holders
  <2>q. QED BY <1>1, <2>1, Relabel, Zenon
<1>4. /\ netlock' = netlock /\ ptable_lock' = ptable_lock /\ pqpage' = pqpage
      /\ pqhead' = pqhead /\ pqtail' = pqtail /\ pqcount' = pqcount
      /\ fullbuf' = fullbuf /\ next' = next /\ pc' = pc /\ port' = port /\ pkt' = pkt
      /\ sbuf' = sbuf /\ want' = want /\ iport' = iport /\ freelist' = freelist
      /\ content' = content /\ reply' = reply /\ drv' = drv /\ leaked' = leaked
  BY Zenon DEF NetRxCall, queueVars, procVars, intrVars, drvVars, netVars
<1>5. ipc = "idle" /\ ipc' = "net_rx" /\ ibuf' = b /\ ibuf = NULL /\ rcv' = NULL
  BY <1>0, <1>2, Zenon DEF NetRxCall, CallInv, CallOf
<1>6. TypeOK'
  BY <1>0, <1>2, <1>4, <1>5, Zenon DEF TypeOK, PageOrNull, Goto, NetRxCall, queueVars,
     procVars, intrVars, drvVars, netVars
<1>7. LockInv'
  BY <1>0, <1>4, <1>5, Zenon DEF LockInv
<1>8. CallInv'
  BY <1>0, <1>2, <1>4, <1>5, NullNotPage, Zenon DEF CallInv, CallOf, Receiving
<1>9. NoLostWakeup'
  BY <1>0, <1>4, <1>5, Zenon DEF NoLostWakeup
<1>10. ListInv' /\ \A q \in Ports, c \in Pages : OnList(q, c)' <=> OnList(q, c)
  BY <1>0, <1>4, ListFrame, Zenon
<1>11. CopyIntact'
  BY <1>0, <1>1, <1>2, <1>4, <1>5, CopyFrame, Zenon
<1>12. OwnedAlone(K)'
  <2>1. Alone(b, "rcv")
    BY <1>1, <1>2, Zenon DEF Owned, OwnedAlone
  <2>2. Alone(b, "ibuf")'
    BY <1>2, <1>4, <1>5, <2>1, NullNotPage, Zenon DEF Alone
  <2>3. \A c \in Pages : c # b => AloneSame(c)
    BY <1>2, <1>4, <1>5, NullNotPage, Zenon DEF AloneSame
  <2>q. QED BY <1>1, <1>3, <2>2, <2>3, AloneMoved, Zenon
<1>13. OwnedByProc(K, W)'
  <2>1. /\ kind[b] \notin {"pkt", "sbuf", "tx"} /\ "ibuf" \notin {"pkt", "sbuf", "tx"}
        /\ pkt' = pkt /\ sbuf' = sbuf
        /\ \A r \in Procs : pc'[r] = "transmit" <=> pc[r] = "transmit"
    BY <1>2, <1>4, <1>5, Zenon
  <2>q. QED BY <1>1, <1>3, <2>1, ProcKept, Zenon
<1>14. OwnedByPort(K, W)'
  <2>1. /\ kind[b] \notin {"pq", "node"} /\ "ibuf" \notin {"pq", "node"}
        /\ pqpage' = pqpage
    BY <1>2, <1>4, <1>5, Zenon
  <2>q. QED BY <1>1, <1>3, <1>10, <2>1, PortKept, Zenon
<1>15. OwnedByNode(K, W)'
  <2>1. /\ kind[b] \notin {"buf", "node", "pkt"} /\ "ibuf" \notin {"buf", "node", "pkt"}
        /\ fullbuf' = fullbuf /\ \A r \in Procs : pc'[r] = "copy" <=> pc[r] = "copy"
        /\ \A c \in Pages : c # b => content'[c] = content[c]
        /\ "ibuf" \in {"rcv", "ibuf"} => content'[b] \in Frames
    BY <1>2, <1>4, <1>5, Zenon
  <2>q. QED BY <1>1, <1>3, <2>1, NodeKept, Zenon
<1>16. Owned(K, W)'
  BY <1>3, <1>12, <1>13, <1>14, <1>15, Zenon DEF Owned, Relabelled
<1>q. QED BY <1>6, <1>7, <1>8, <1>9, <1>10, <1>11, <1>16, Zenon DEF IInv

LEMMA DropFrameInv ==
  ASSUME IInv, ipc \in {"net_rx", "arpfree"}, UNCHANGED seen_arp, DropFrame
  PROVE  IInv'
<1>0. TypeOK /\ LockInv /\ CallInv /\ ListInv /\ CopyIntact /\ NoLostWakeup
  BY Zenon DEF IInv
<1>1. PICK kind, who : Owned(kind, who)
  BY Zenon DEF IInv
<1>2. PICK b \in Pages : b = ibuf /\ kind[b] = "ibuf"
  BY <1>0, <1>1, Zenon DEF Owned, OwnedAlone, Alone, CallInv, CallOf, TypeOK, PageOrNull
<1>3. PICK K, W : Relabelled(kind, who, K, W, b, "free", NULL)
  <2>1. "free" \in Kinds /\ NULL \in Holders
    BY Zenon DEF Kinds, Holders
  <2>q. QED BY <1>1, <2>1, Relabel, Zenon
<1>4. /\ netlock' = netlock /\ ptable_lock' = ptable_lock /\ pqpage' = pqpage
      /\ pqhead' = pqhead /\ pqtail' = pqtail /\ pqcount' = pqcount
      /\ fullbuf' = fullbuf /\ next' = next /\ pc' = pc /\ port' = port /\ pkt' = pkt
      /\ sbuf' = sbuf /\ want' = want /\ iport' = iport /\ reply' = reply /\ rcv' = rcv
      /\ drv' = drv /\ leaked' = leaked
  BY Zenon DEF DropFrame, queueVars, procVars, intrVars, drvVars, netVars
<1>5. /\ ipc' = "idle" /\ ibuf' = NULL
      /\ content' \in [Pages -> Nat] /\ \A c \in Pages : c # b => content'[c] = content[c]
      /\ freelist' = freelist \cup {b}
  BY <1>0, <1>2, NullNotPage DEF DropFrame, kfree, Junk, TypeOK
<1>6. TypeOK'
  BY <1>0, <1>2, <1>4, <1>5, Zenon DEF TypeOK, PageOrNull, Goto, DropFrame, queueVars,
     procVars, intrVars, drvVars, netVars
<1>7. LockInv'
  BY <1>0, <1>4, <1>5, Zenon DEF LockInv
<1>8. CallInv'
  BY <1>0, <1>2, <1>4, <1>5, NullNotPage, Zenon DEF CallInv, CallOf, Receiving
<1>9. NoLostWakeup'
  BY <1>0, <1>4, <1>5, Zenon DEF NoLostWakeup
<1>10. ListInv' /\ \A q \in Ports, c \in Pages : OnList(q, c)' <=> OnList(q, c)
  BY <1>0, <1>4, ListFrame, Zenon
<1>11. CopyIntact'
  BY <1>0, <1>1, <1>2, <1>4, <1>5, CopyFrame, Zenon
<1>12. OwnedAlone(K)'
  <2>1. Alone(b, "ibuf")
    BY <1>1, <1>2, Zenon DEF Owned, OwnedAlone
  <2>2. Alone(b, "free")'
    BY <1>2, <1>4, <1>5, <2>1, NullNotPage, Zenon DEF Alone
  <2>3. \A c \in Pages : c # b => AloneSame(c)
    BY <1>2, <1>4, <1>5, NullNotPage, Zenon DEF AloneSame
  <2>q. QED BY <1>1, <1>3, <2>2, <2>3, AloneMoved, Zenon
<1>13. OwnedByProc(K, W)'
  <2>1. /\ kind[b] \notin {"pkt", "sbuf", "tx"} /\ "free" \notin {"pkt", "sbuf", "tx"}
        /\ pkt' = pkt /\ sbuf' = sbuf
        /\ \A r \in Procs : pc'[r] = "transmit" <=> pc[r] = "transmit"
    BY <1>2, <1>4, <1>5, Zenon
  <2>q. QED BY <1>1, <1>3, <2>1, ProcKept, Zenon
<1>14. OwnedByPort(K, W)'
  <2>1. /\ kind[b] \notin {"pq", "node"} /\ "free" \notin {"pq", "node"}
        /\ pqpage' = pqpage
    BY <1>2, <1>4, <1>5, Zenon
  <2>q. QED BY <1>1, <1>3, <1>10, <2>1, PortKept, Zenon
<1>15. OwnedByNode(K, W)'
  <2>1. /\ kind[b] \notin {"buf", "node", "pkt"} /\ "free" \notin {"buf", "node", "pkt"}
        /\ fullbuf' = fullbuf /\ \A r \in Procs : pc'[r] = "copy" <=> pc[r] = "copy"
        /\ \A c \in Pages : c # b => content'[c] = content[c]
        /\ "free" \in {"rcv", "ibuf"} => content'[b] \in Frames
    BY <1>2, <1>4, <1>5, Zenon
  <2>q. QED BY <1>1, <1>3, <2>1, NodeKept, Zenon
<1>16. Owned(K, W)'
  BY <1>3, <1>12, <1>13, <1>14, <1>15, Zenon DEF Owned, Relabelled
<1>q. QED BY <1>6, <1>7, <1>8, <1>9, <1>10, <1>11, <1>16, Zenon DEF IInv

LEMMA ArpCallInv ==
  ASSUME IInv, ArpCall
  PROVE  IInv'
<1>0. TypeOK /\ LockInv /\ CallInv /\ ListInv /\ CopyIntact /\ NoLostWakeup
  BY Zenon DEF IInv
<1>1. PICK kind, who : Owned(kind, who)
  BY Zenon DEF IInv
<1>2. PICK b \in Pages : b = reply /\ kind[b] = "reply"
  BY <1>0, <1>1, Zenon DEF ArpCall, Owned, OwnedAlone, Alone, CallInv, CallOf, TypeOK,
     PageOrNull
<1>3. PICK K, W : Relabelled(kind, who, K, W, b, "txi", NULL)
  <2>1. "txi" \in Kinds /\ NULL \in Holders
    BY Zenon DEF Kinds, Holders
  <2>q. QED BY <1>1, <2>1, Relabel, Zenon
<1>4. /\ netlock' = netlock /\ ptable_lock' = ptable_lock /\ pqpage' = pqpage
      /\ pqhead' = pqhead /\ pqtail' = pqtail /\ pqcount' = pqcount
      /\ fullbuf' = fullbuf /\ next' = next /\ pc' = pc /\ port' = port /\ pkt' = pkt
      /\ sbuf' = sbuf /\ want' = want /\ iport' = iport /\ freelist' = freelist
      /\ content' = content /\ ibuf' = ibuf /\ rcv' = rcv /\ reply' = reply
      /\ leaked' = leaked
  BY Zenon DEF ArpCall, queueVars, procVars, intrVars, drvVars, netVars
<1>5. /\ ipc = "arp" /\ ipc' = "transmit"
      /\ drv' = drv \cup {b}
  BY <1>0, <1>2, Zenon DEF ArpCall
<1>6. TypeOK'
  BY <1>0, <1>2, <1>4, <1>5, Zenon DEF TypeOK, PageOrNull, Goto, ArpCall, queueVars,
     procVars, intrVars, drvVars, netVars
<1>7. LockInv'
  BY <1>0, <1>4, <1>5, Zenon DEF LockInv
<1>8. CallInv'
  BY <1>0, <1>2, <1>4, <1>5, NullNotPage, Zenon DEF CallInv, CallOf, Receiving
<1>9. NoLostWakeup'
  BY <1>0, <1>4, <1>5, Zenon DEF NoLostWakeup
<1>10. ListInv' /\ \A q \in Ports, c \in Pages : OnList(q, c)' <=> OnList(q, c)
  BY <1>0, <1>4, ListFrame, Zenon
<1>11. CopyIntact'
  BY <1>0, <1>1, <1>2, <1>4, <1>5, CopyFrame, Zenon
<1>12. OwnedAlone(K)'
  <2>1. Alone(b, "reply")
    BY <1>1, <1>2, Zenon DEF Owned, OwnedAlone
  <2>2. Alone(b, "txi")'
    BY <1>2, <1>4, <1>5, <2>1, NullNotPage, Zenon DEF Alone
  <2>3. \A c \in Pages : c # b => AloneSame(c)
    BY <1>2, <1>4, <1>5, NullNotPage, Zenon DEF AloneSame
  <2>q. QED BY <1>1, <1>3, <2>2, <2>3, AloneMoved, Zenon
<1>13. OwnedByProc(K, W)'
  <2>1. /\ kind[b] \notin {"pkt", "sbuf", "tx"} /\ "txi" \notin {"pkt", "sbuf", "tx"}
        /\ pkt' = pkt /\ sbuf' = sbuf
        /\ \A r \in Procs : pc'[r] = "transmit" <=> pc[r] = "transmit"
    BY <1>2, <1>4, <1>5, Zenon
  <2>q. QED BY <1>1, <1>3, <2>1, ProcKept, Zenon
<1>14. OwnedByPort(K, W)'
  <2>1. /\ kind[b] \notin {"pq", "node"} /\ "txi" \notin {"pq", "node"}
        /\ pqpage' = pqpage
    BY <1>2, <1>4, <1>5, Zenon
  <2>q. QED BY <1>1, <1>3, <1>10, <2>1, PortKept, Zenon
<1>15. OwnedByNode(K, W)'
  <2>1. /\ kind[b] \notin {"buf", "node", "pkt"} /\ "txi" \notin {"buf", "node", "pkt"}
        /\ fullbuf' = fullbuf /\ \A r \in Procs : pc'[r] = "copy" <=> pc[r] = "copy"
        /\ \A c \in Pages : c # b => content'[c] = content[c]
        /\ "txi" \in {"rcv", "ibuf"} => content'[b] \in Frames
    BY <1>2, <1>4, <1>5, Zenon
  <2>q. QED BY <1>1, <1>3, <2>1, NodeKept, Zenon
<1>16. Owned(K, W)'
  BY <1>3, <1>12, <1>13, <1>14, <1>15, Zenon DEF Owned, Relabelled
<1>q. QED BY <1>6, <1>7, <1>8, <1>9, <1>10, <1>11, <1>16, Zenon DEF IInv

LEMMA ArpDoneInv ==
  ASSUME IInv, ArpDone
  PROVE  IInv'
<1>0. TypeOK /\ LockInv /\ CallInv /\ ListInv /\ CopyIntact /\ NoLostWakeup
  BY Zenon DEF IInv
<1>1. PICK kind, who : Owned(kind, who)
  BY Zenon DEF IInv
<1>2. PICK b \in Pages : b = reply /\ kind[b] = "txi"
  BY <1>0, <1>1, Zenon DEF ArpDone, Owned, OwnedAlone, Alone, CallInv, CallOf, TypeOK,
     PageOrNull
<1>3. PICK K, W : Relabelled(kind, who, K, W, b, "drv", NULL)
  <2>1. "drv" \in Kinds /\ NULL \in Holders
    BY Zenon DEF Kinds, Holders
  <2>q. QED BY <1>1, <2>1, Relabel, Zenon
<1>4. /\ netlock' = netlock /\ ptable_lock' = ptable_lock /\ pqpage' = pqpage
      /\ pqhead' = pqhead /\ pqtail' = pqtail /\ pqcount' = pqcount
      /\ fullbuf' = fullbuf /\ next' = next /\ pc' = pc /\ port' = port /\ pkt' = pkt
      /\ sbuf' = sbuf /\ want' = want /\ iport' = iport /\ freelist' = freelist
      /\ content' = content /\ ibuf' = ibuf /\ rcv' = rcv /\ drv' = drv
      /\ leaked' = leaked
  BY Zenon DEF ArpDone, queueVars, procVars, intrVars, drvVars, netVars
<1>5. ipc = "transmit" /\ ipc' = "arpfree" /\ reply' = NULL
  BY Zenon DEF ArpDone
<1>6. TypeOK'
  BY <1>0, <1>2, <1>4, <1>5, Zenon DEF TypeOK, PageOrNull, Goto, ArpDone, queueVars,
     procVars, intrVars, drvVars, netVars
<1>7. LockInv'
  BY <1>0, <1>4, <1>5, Zenon DEF LockInv
<1>8. CallInv'
  BY <1>0, <1>2, <1>4, <1>5, NullNotPage, Zenon DEF CallInv, CallOf, Receiving
<1>9. NoLostWakeup'
  BY <1>0, <1>4, <1>5, Zenon DEF NoLostWakeup
<1>10. ListInv' /\ \A q \in Ports, c \in Pages : OnList(q, c)' <=> OnList(q, c)
  BY <1>0, <1>4, ListFrame, Zenon
<1>11. CopyIntact'
  BY <1>0, <1>1, <1>2, <1>4, <1>5, CopyFrame, Zenon
<1>12. OwnedAlone(K)'
  <2>1. Alone(b, "txi")
    BY <1>1, <1>2, Zenon DEF Owned, OwnedAlone
  <2>2. Alone(b, "drv")'
    BY <1>2, <1>4, <1>5, <2>1, NullNotPage, Zenon DEF Alone
  <2>3. \A c \in Pages : c # b => AloneSame(c)
    BY <1>2, <1>4, <1>5, NullNotPage, Zenon DEF AloneSame
  <2>q. QED BY <1>1, <1>3, <2>2, <2>3, AloneMoved, Zenon
<1>13. OwnedByProc(K, W)'
  <2>1. /\ kind[b] \notin {"pkt", "sbuf", "tx"} /\ "drv" \notin {"pkt", "sbuf", "tx"}
        /\ pkt' = pkt /\ sbuf' = sbuf
        /\ \A r \in Procs : pc'[r] = "transmit" <=> pc[r] = "transmit"
    BY <1>2, <1>4, <1>5, Zenon
  <2>q. QED BY <1>1, <1>3, <2>1, ProcKept, Zenon
<1>14. OwnedByPort(K, W)'
  <2>1. /\ kind[b] \notin {"pq", "node"} /\ "drv" \notin {"pq", "node"}
        /\ pqpage' = pqpage
    BY <1>2, <1>4, <1>5, Zenon
  <2>q. QED BY <1>1, <1>3, <1>10, <2>1, PortKept, Zenon
<1>15. OwnedByNode(K, W)'
  <2>1. /\ kind[b] \notin {"buf", "node", "pkt"} /\ "drv" \notin {"buf", "node", "pkt"}
        /\ fullbuf' = fullbuf /\ \A r \in Procs : pc'[r] = "copy" <=> pc[r] = "copy"
        /\ \A c \in Pages : c # b => content'[c] = content[c]
        /\ "drv" \in {"rcv", "ibuf"} => content'[b] \in Frames
    BY <1>2, <1>4, <1>5, Zenon
  <2>q. QED BY <1>1, <1>3, <2>1, NodeKept, Zenon
<1>16. Owned(K, W)'
  BY <1>3, <1>12, <1>13, <1>14, <1>15, Zenon DEF Owned, Relabelled
<1>q. QED BY <1>6, <1>7, <1>8, <1>9, <1>10, <1>11, <1>16, Zenon DEF IInv

LEMMA ArpRefusedInv ==
  ASSUME IInv, ArpRefused
  PROVE  IInv'
<1>0. TypeOK /\ LockInv /\ CallInv /\ ListInv /\ CopyIntact /\ NoLostWakeup
  BY Zenon DEF IInv
<1>1. PICK kind, who : Owned(kind, who)
  BY Zenon DEF IInv
<1>2. PICK b \in Pages : b = reply /\ kind[b] = "txi"
  BY <1>0, <1>1, Zenon DEF ArpRefused, Owned, OwnedAlone, Alone, CallInv, CallOf,
     TypeOK, PageOrNull
<1>3. PICK K, W : Relabelled(kind, who, K, W, b, "leaked", NULL)
  <2>1. "leaked" \in Kinds /\ NULL \in Holders
    BY Zenon DEF Kinds, Holders
  <2>q. QED BY <1>1, <2>1, Relabel, Zenon
<1>4. /\ netlock' = netlock /\ ptable_lock' = ptable_lock /\ pqpage' = pqpage
      /\ pqhead' = pqhead /\ pqtail' = pqtail /\ pqcount' = pqcount
      /\ fullbuf' = fullbuf /\ next' = next /\ pc' = pc /\ port' = port /\ pkt' = pkt
      /\ sbuf' = sbuf /\ want' = want /\ iport' = iport /\ freelist' = freelist
      /\ content' = content /\ ibuf' = ibuf /\ rcv' = rcv
  BY Zenon DEF ArpRefused, queueVars, procVars, intrVars, drvVars, netVars
<1>5. /\ ipc = "transmit" /\ ipc' = "arpfree" /\ reply' = NULL
      /\ drv' = drv \ {b}
      /\ leaked' = leaked \cup {b}
  BY <1>2, Zenon DEF ArpRefused
<1>6. TypeOK'
  BY <1>0, <1>2, <1>4, <1>5 DEF TypeOK, PageOrNull, Goto, ArpRefused, queueVars,
     procVars, intrVars, drvVars, netVars
<1>7. LockInv'
  BY <1>0, <1>4, <1>5, Zenon DEF LockInv
<1>8. CallInv'
  BY <1>0, <1>2, <1>4, <1>5, NullNotPage, Zenon DEF CallInv, CallOf, Receiving
<1>9. NoLostWakeup'
  BY <1>0, <1>4, <1>5, Zenon DEF NoLostWakeup
<1>10. ListInv' /\ \A q \in Ports, c \in Pages : OnList(q, c)' <=> OnList(q, c)
  BY <1>0, <1>4, ListFrame, Zenon
<1>11. CopyIntact'
  BY <1>0, <1>1, <1>2, <1>4, <1>5, CopyFrame, Zenon
<1>12. OwnedAlone(K)'
  <2>1. Alone(b, "txi")
    BY <1>1, <1>2, Zenon DEF Owned, OwnedAlone
  <2>2. Alone(b, "leaked")'
    BY <1>2, <1>4, <1>5, <2>1, NullNotPage, Zenon DEF Alone
  <2>3. \A c \in Pages : c # b => AloneSame(c)
    BY <1>2, <1>4, <1>5, NullNotPage, Zenon DEF AloneSame
  <2>q. QED BY <1>1, <1>3, <2>2, <2>3, AloneMoved, Zenon
<1>13. OwnedByProc(K, W)'
  <2>1. /\ kind[b] \notin {"pkt", "sbuf", "tx"} /\ "leaked" \notin {"pkt", "sbuf", "tx"}
        /\ pkt' = pkt /\ sbuf' = sbuf
        /\ \A r \in Procs : pc'[r] = "transmit" <=> pc[r] = "transmit"
    BY <1>2, <1>4, <1>5, Zenon
  <2>q. QED BY <1>1, <1>3, <2>1, ProcKept, Zenon
<1>14. OwnedByPort(K, W)'
  <2>1. /\ kind[b] \notin {"pq", "node"} /\ "leaked" \notin {"pq", "node"}
        /\ pqpage' = pqpage
    BY <1>2, <1>4, <1>5, Zenon
  <2>q. QED BY <1>1, <1>3, <1>10, <2>1, PortKept, Zenon
<1>15. OwnedByNode(K, W)'
  <2>1. /\ kind[b] \notin {"buf", "node", "pkt"} /\ "leaked" \notin {"buf", "node", "pkt"}
        /\ fullbuf' = fullbuf /\ \A r \in Procs : pc'[r] = "copy" <=> pc[r] = "copy"
        /\ \A c \in Pages : c # b => content'[c] = content[c]
        /\ "leaked" \in {"rcv", "ibuf"} => content'[b] \in Frames
    BY <1>2, <1>4, <1>5, Zenon
  <2>q. QED BY <1>1, <1>3, <2>1, NodeKept, Zenon
<1>16. Owned(K, W)'
  BY <1>3, <1>12, <1>13, <1>14, <1>15, Zenon DEF Owned, Relabelled
<1>q. QED BY <1>6, <1>7, <1>8, <1>9, <1>10, <1>11, <1>16, Zenon DEF IInv

LEMMA ArpRxReplyInv ==
  ASSUME IInv, ipc' = "arp", ArpRxReply
  PROVE  IInv'
<1>0. TypeOK /\ LockInv /\ CallInv /\ ListInv /\ CopyIntact /\ NoLostWakeup
  BY Zenon DEF IInv
<1>1. PICK kind, who : Owned(kind, who)
  BY Zenon DEF IInv
<1>2. PICK b \in Pages : /\ kalloc(b) /\ kind[b] = "free" /\ reply' = b
                        /\ \E n \in Payloads : content' = [content EXCEPT ![b] = n]
  BY <1>1, Zenon DEF ArpRxReply, kalloc, Owned, OwnedAlone, Alone
<1>3. PICK K, W : Relabelled(kind, who, K, W, b, "reply", NULL)
  <2>1. "reply" \in Kinds /\ NULL \in Holders
    BY Zenon DEF Kinds, Holders
  <2>q. QED BY <1>1, <2>1, Relabel, Zenon
<1>4. /\ netlock' = netlock /\ ptable_lock' = ptable_lock /\ pqpage' = pqpage
      /\ pqhead' = pqhead /\ pqtail' = pqtail /\ pqcount' = pqcount
      /\ fullbuf' = fullbuf /\ next' = next /\ pc' = pc /\ port' = port /\ pkt' = pkt
      /\ sbuf' = sbuf /\ want' = want /\ iport' = iport /\ ibuf' = ibuf /\ rcv' = rcv
      /\ drv' = drv /\ leaked' = leaked
  BY Zenon DEF ArpRxReply, queueVars, procVars, intrVars, drvVars, netVars
<1>5. /\ ipc = "net_rx" /\ reply = NULL
      /\ content' \in [Pages -> Nat] /\ \A c \in Pages : c # b => content'[c] = content[c]
      /\ freelist' = freelist \ {b}
  <2>1. /\ ipc = "net_rx" /\ freelist' = freelist \ {b} /\ content \in [Pages -> Nat]
        /\ \E n \in Nat : content' = [content EXCEPT ![b] = n]
    BY <1>0, <1>2, ContentsNat, Zenon DEF ArpRxReply, kalloc, TypeOK
  <2>2. reply = NULL
    BY <1>0, <2>1, Zenon DEF CallInv, CallOf
  <2>q. QED BY <2>1, <2>2, Zenon
<1>6. TypeOK'
  BY <1>0, <1>2, <1>4, <1>5 DEF TypeOK, PageOrNull, Goto, ArpRxReply, queueVars,
     procVars, intrVars, drvVars, netVars
<1>7. LockInv'
  BY <1>0, <1>4, <1>5, Zenon DEF LockInv
<1>8. CallInv'
  BY <1>0, <1>2, <1>4, <1>5, NullNotPage, Zenon DEF CallInv, CallOf, Receiving
<1>9. NoLostWakeup'
  BY <1>0, <1>4, <1>5, Zenon DEF NoLostWakeup
<1>10. ListInv' /\ \A q \in Ports, c \in Pages : OnList(q, c)' <=> OnList(q, c)
  BY <1>0, <1>4, ListFrame, Zenon
<1>11. CopyIntact'
  BY <1>0, <1>1, <1>2, <1>4, <1>5, CopyFrame, Zenon
<1>12. OwnedAlone(K)'
  <2>1. Alone(b, "free")
    BY <1>1, <1>2, Zenon DEF Owned, OwnedAlone
  <2>2. Alone(b, "reply")'
    BY <1>2, <1>4, <1>5, <2>1, NullNotPage, Zenon DEF Alone
  <2>3. \A c \in Pages : c # b => AloneSame(c)
    BY <1>2, <1>4, <1>5, NullNotPage, Zenon DEF AloneSame
  <2>q. QED BY <1>1, <1>3, <2>2, <2>3, AloneMoved, Zenon
<1>13. OwnedByProc(K, W)'
  <2>1. /\ kind[b] \notin {"pkt", "sbuf", "tx"} /\ "reply" \notin {"pkt", "sbuf", "tx"}
        /\ pkt' = pkt /\ sbuf' = sbuf
        /\ \A r \in Procs : pc'[r] = "transmit" <=> pc[r] = "transmit"
    BY <1>2, <1>4, <1>5, Zenon
  <2>q. QED BY <1>1, <1>3, <2>1, ProcKept, Zenon
<1>14. OwnedByPort(K, W)'
  <2>1. /\ kind[b] \notin {"pq", "node"} /\ "reply" \notin {"pq", "node"}
        /\ pqpage' = pqpage
    BY <1>2, <1>4, <1>5, Zenon
  <2>q. QED BY <1>1, <1>3, <1>10, <2>1, PortKept, Zenon
<1>15. OwnedByNode(K, W)'
  <2>1. /\ kind[b] \notin {"buf", "node", "pkt"} /\ "reply" \notin {"buf", "node", "pkt"}
        /\ fullbuf' = fullbuf /\ \A r \in Procs : pc'[r] = "copy" <=> pc[r] = "copy"
        /\ \A c \in Pages : c # b => content'[c] = content[c]
        /\ "reply" \in {"rcv", "ibuf"} => content'[b] \in Frames
    BY <1>2, <1>4, <1>5, Zenon
  <2>q. QED BY <1>1, <1>3, <2>1, NodeKept, Zenon
<1>16. Owned(K, W)'
  BY <1>3, <1>12, <1>13, <1>14, <1>15, Zenon DEF Owned, Relabelled
<1>q. QED BY <1>6, <1>7, <1>8, <1>9, <1>10, <1>11, <1>16, Zenon DEF IInv

LEMMA DrvAllocInv ==
  ASSUME IInv, NEW b0 \in Pages, NEW n \in Frames, DrvAlloc(b0, n)
  PROVE  IInv'
<1>0. TypeOK /\ LockInv /\ CallInv /\ ListInv /\ CopyIntact /\ NoLostWakeup
  BY Zenon DEF IInv
<1>1. PICK kind, who : Owned(kind, who)
  BY Zenon DEF IInv
<1>2. PICK b \in Pages : b = b0 /\ kind[b] = "free" /\ kalloc(b)
  BY <1>1, Zenon DEF DrvAlloc, kalloc, Owned, OwnedAlone, Alone
<1>3. PICK K, W : Relabelled(kind, who, K, W, b, "rcv", NULL)
  <2>1. "rcv" \in Kinds /\ NULL \in Holders
    BY Zenon DEF Kinds, Holders
  <2>q. QED BY <1>1, <2>1, Relabel, Zenon
<1>4. /\ netlock' = netlock /\ ptable_lock' = ptable_lock /\ pqpage' = pqpage
      /\ pqhead' = pqhead /\ pqtail' = pqtail /\ pqcount' = pqcount
      /\ fullbuf' = fullbuf /\ next' = next /\ pc' = pc /\ port' = port /\ pkt' = pkt
      /\ sbuf' = sbuf /\ want' = want /\ iport' = iport /\ ipc' = ipc /\ ibuf' = ibuf
      /\ reply' = reply /\ drv' = drv /\ leaked' = leaked
  BY Zenon DEF DrvAlloc, queueVars, procVars, intrVars, drvVars, netVars
<1>5. /\ rcv' = b /\ rcv = NULL /\ content'[b] \in Frames
      /\ content' \in [Pages -> Nat] /\ \A c \in Pages : c # b => content'[c] = content[c]
      /\ freelist' = freelist \ {b}
  BY <1>0, <1>2, ContentsNat, Zenon DEF DrvAlloc, kalloc, TypeOK
<1>6. TypeOK'
  BY <1>0, <1>2, <1>4, <1>5, Zenon DEF TypeOK, PageOrNull, Goto, DrvAlloc, queueVars,
     procVars, intrVars, drvVars, netVars
<1>7. LockInv'
  BY <1>0, <1>4, <1>5, Zenon DEF LockInv
<1>8. CallInv'
  BY <1>0, <1>2, <1>4, <1>5, NullNotPage, Zenon DEF CallInv, CallOf, Receiving
<1>9. NoLostWakeup'
  BY <1>0, <1>4, <1>5, Zenon DEF NoLostWakeup
<1>10. ListInv' /\ \A q \in Ports, c \in Pages : OnList(q, c)' <=> OnList(q, c)
  BY <1>0, <1>4, ListFrame, Zenon
<1>11. CopyIntact'
  BY <1>0, <1>1, <1>2, <1>4, <1>5, CopyFrame, Zenon
<1>12. OwnedAlone(K)'
  <2>1. Alone(b, "free")
    BY <1>1, <1>2, Zenon DEF Owned, OwnedAlone
  <2>2. Alone(b, "rcv")'
    BY <1>2, <1>4, <1>5, <2>1, NullNotPage, Zenon DEF Alone
  <2>3. \A c \in Pages : c # b => AloneSame(c)
    BY <1>2, <1>4, <1>5, NullNotPage, Zenon DEF AloneSame
  <2>q. QED BY <1>1, <1>3, <2>2, <2>3, AloneMoved, Zenon
<1>13. OwnedByProc(K, W)'
  <2>1. /\ kind[b] \notin {"pkt", "sbuf", "tx"} /\ "rcv" \notin {"pkt", "sbuf", "tx"}
        /\ pkt' = pkt /\ sbuf' = sbuf
        /\ \A r \in Procs : pc'[r] = "transmit" <=> pc[r] = "transmit"
    BY <1>2, <1>4, <1>5, Zenon
  <2>q. QED BY <1>1, <1>3, <2>1, ProcKept, Zenon
<1>14. OwnedByPort(K, W)'
  <2>1. /\ kind[b] \notin {"pq", "node"} /\ "rcv" \notin {"pq", "node"}
        /\ pqpage' = pqpage
    BY <1>2, <1>4, <1>5, Zenon
  <2>q. QED BY <1>1, <1>3, <1>10, <2>1, PortKept, Zenon
<1>15. OwnedByNode(K, W)'
  <2>1. /\ kind[b] \notin {"buf", "node", "pkt"} /\ "rcv" \notin {"buf", "node", "pkt"}
        /\ fullbuf' = fullbuf /\ \A r \in Procs : pc'[r] = "copy" <=> pc[r] = "copy"
        /\ \A c \in Pages : c # b => content'[c] = content[c]
        /\ "rcv" \in {"rcv", "ibuf"} => content'[b] \in Frames
    BY <1>2, <1>4, <1>5, Zenon
  <2>q. QED BY <1>1, <1>3, <2>1, NodeKept, Zenon
<1>16. Owned(K, W)'
  BY <1>3, <1>12, <1>13, <1>14, <1>15, Zenon DEF Owned, Relabelled
<1>q. QED BY <1>6, <1>7, <1>8, <1>9, <1>10, <1>11, <1>16, Zenon DEF IInv

LEMMA DrvFreeInv ==
  ASSUME IInv, NEW b0 \in Pages, DrvFree(b0)
  PROVE  IInv'
<1>0. TypeOK /\ LockInv /\ CallInv /\ ListInv /\ CopyIntact /\ NoLostWakeup
  BY Zenon DEF IInv
<1>1. PICK kind, who : Owned(kind, who)
  BY Zenon DEF IInv
<1>2. PICK b \in Pages : b = b0 /\ kind[b] = "drv"
  BY <1>0, <1>1 DEF DrvFree, Owned, OwnedAlone, Alone, OwnedByProc, ByProc
<1>3. PICK K, W : Relabelled(kind, who, K, W, b, "free", NULL)
  <2>1. "free" \in Kinds /\ NULL \in Holders
    BY Zenon DEF Kinds, Holders
  <2>q. QED BY <1>1, <2>1, Relabel, Zenon
<1>4. /\ netlock' = netlock /\ ptable_lock' = ptable_lock /\ pqpage' = pqpage
      /\ pqhead' = pqhead /\ pqtail' = pqtail /\ pqcount' = pqcount
      /\ fullbuf' = fullbuf /\ next' = next /\ pc' = pc /\ port' = port /\ pkt' = pkt
      /\ sbuf' = sbuf /\ want' = want /\ iport' = iport /\ ipc' = ipc /\ ibuf' = ibuf
      /\ reply' = reply /\ rcv' = rcv /\ leaked' = leaked
  BY Zenon DEF DrvFree, queueVars, procVars, intrVars, drvVars, netVars
<1>5. /\ b \in drv
      /\ drv' = drv \ {b}
      /\ content' \in [Pages -> Nat] /\ \A c \in Pages : c # b => content'[c] = content[c]
      /\ freelist' = freelist \cup {b}
  BY <1>0, <1>2, NullNotPage DEF DrvFree, kfree, Junk, TypeOK
<1>6. TypeOK'
  BY <1>0, <1>2, <1>4, <1>5, Zenon DEF TypeOK, PageOrNull, Goto, DrvFree, queueVars,
     procVars, intrVars, drvVars, netVars
<1>7. LockInv'
  BY <1>0, <1>4, <1>5, Zenon DEF LockInv
<1>8. CallInv'
  BY <1>0, <1>2, <1>4, <1>5, NullNotPage, Zenon DEF CallInv, CallOf, Receiving
<1>9. NoLostWakeup'
  BY <1>0, <1>4, <1>5, Zenon DEF NoLostWakeup
<1>10. ListInv' /\ \A q \in Ports, c \in Pages : OnList(q, c)' <=> OnList(q, c)
  BY <1>0, <1>4, ListFrame, Zenon
<1>11. CopyIntact'
  BY <1>0, <1>1, <1>2, <1>4, <1>5, CopyFrame, Zenon
<1>12. OwnedAlone(K)'
  <2>1. Alone(b, "drv")
    BY <1>1, <1>2, Zenon DEF Owned, OwnedAlone
  <2>2. Alone(b, "free")'
    BY <1>2, <1>4, <1>5, <2>1, NullNotPage, Zenon DEF Alone
  <2>3. \A c \in Pages : c # b => AloneSame(c)
    BY <1>2, <1>4, <1>5, NullNotPage, Zenon DEF AloneSame
  <2>q. QED BY <1>1, <1>3, <2>2, <2>3, AloneMoved, Zenon
<1>13. OwnedByProc(K, W)'
  <2>1. /\ kind[b] \notin {"pkt", "sbuf", "tx"} /\ "free" \notin {"pkt", "sbuf", "tx"}
        /\ pkt' = pkt /\ sbuf' = sbuf
        /\ \A r \in Procs : pc'[r] = "transmit" <=> pc[r] = "transmit"
    BY <1>2, <1>4, <1>5, Zenon
  <2>q. QED BY <1>1, <1>3, <2>1, ProcKept, Zenon
<1>14. OwnedByPort(K, W)'
  <2>1. /\ kind[b] \notin {"pq", "node"} /\ "free" \notin {"pq", "node"}
        /\ pqpage' = pqpage
    BY <1>2, <1>4, <1>5, Zenon
  <2>q. QED BY <1>1, <1>3, <1>10, <2>1, PortKept, Zenon
<1>15. OwnedByNode(K, W)'
  <2>1. /\ kind[b] \notin {"buf", "node", "pkt"} /\ "free" \notin {"buf", "node", "pkt"}
        /\ fullbuf' = fullbuf /\ \A r \in Procs : pc'[r] = "copy" <=> pc[r] = "copy"
        /\ \A c \in Pages : c # b => content'[c] = content[c]
        /\ "free" \in {"rcv", "ibuf"} => content'[b] \in Frames
    BY <1>2, <1>4, <1>5, Zenon
  <2>q. QED BY <1>1, <1>3, <2>1, NodeKept, Zenon
<1>16. Owned(K, W)'
  BY <1>3, <1>12, <1>13, <1>14, <1>15, Zenon DEF Owned, Relabelled
<1>q. QED BY <1>6, <1>7, <1>8, <1>9, <1>10, <1>11, <1>16, Zenon DEF IInv
=============================================================================
