--------------------------- MODULE NetStackProofs ---------------------------
(***************************************************************************)
(* The network stack: the steps that change a queue, what the invariant    *)
(* says of the pages, and that the queues are FIFO queues of frames.       *)
(***************************************************************************)
EXTENDS NetStackInv

-----------------------------------------------------------------------------
LEMMA NodePage ==
  ASSUME ListInv, NEW kind, NEW who, Owned(kind, who), NEW q \in Ports, NEW k \in 1 .. pqcount[q]
  PROVE  /\ Nodes(q)[k] \in Pages /\ kind[Nodes(q)[k]] = "node" /\ who[Nodes(q)[k]] = q
         /\ fullbuf[Nodes(q)[k]] # NULL
<1>1. Nodes(q)[k] \in Pages /\ OnList(q, Nodes(q)[k])
  BY Zenon DEF ListInv, ListAt, OnList
<1>q. QED BY <1>1, Zenon DEF Owned, OwnedByPort, ByPort, OwnedByNode, ByNode

LEMMA BindInv ==
  ASSUME IInv, NEW p \in Procs, NEW q \in Ports, sys_bind(p, q)
  PROVE  IInv'
<1>0. TypeOK /\ LockInv /\ CallInv /\ ListInv /\ CopyIntact /\ NoLostWakeup
  BY Zenon DEF IInv
<1>1. PICK kind, who : Owned(kind, who)
  BY Zenon DEF IInv
<1>2. PICK b \in Pages : kalloc(b) /\ kind[b] = "free" /\ pqpage' = [pqpage EXCEPT ![q] = b]
  BY <1>1, Zenon DEF sys_bind, Bind, kalloc, Owned, OwnedAlone, Alone
<1>3. PICK K, W : Relabelled(kind, who, K, W, b, "pq", q)
  <2>1. "pq" \in Kinds /\ q \in Holders
    BY Zenon DEF Kinds, Holders
  <2>q. QED BY <1>1, <2>1, Relabel, Zenon
<1>4. /\ netlock' = netlock /\ ptable_lock' = ptable_lock /\ content' = content
      /\ fullbuf' = fullbuf /\ next' = next /\ port' = port /\ pkt' = pkt
      /\ sbuf' = sbuf /\ want' = want /\ ipc' = ipc /\ ibuf' = ibuf /\ iport' = iport
      /\ reply' = reply /\ rcv' = rcv /\ drv' = drv /\ leaked' = leaked
  BY Zenon DEF sys_bind, Bind, queueVars, procVars, intrVars, drvVars, netVars
<1>5. /\ pc[p] = "user" /\ pqpage[q] = NULL
      /\ Return(p) \in {"user", "exited"}
      /\ pc'[p] = Return(p) /\ \A r \in Procs : r # p => pc'[r] = pc[r]
      /\ pqpage'[q] = b /\ \A r \in Ports : r # q => pqpage'[r] = pqpage[r]
      /\ \A r \in Ports : pqcount'[r] = pqcount[r] /\ pqhead'[r] = pqhead[r] /\ pqtail'[r] = pqtail[r]
      /\ freelist' = freelist \ {b}
  <2>1. pqcount[q] = 0 /\ pqhead[q] = NULL /\ pqtail[q] = NULL
    <3>1. ~(pqcount[q] > 0) /\ pqcount[q] \in Nat
      BY <1>0, NodesFacts, Zenon DEF ListInv, ListAt, sys_bind, Bind
    <3>2. pqcount[q] = 0
      BY <3>1
    <3>q. QED BY <1>0, <3>2, Zenon DEF ListInv, ListAt
  <2>q. QED BY <1>0, <1>2, <2>1, Zenon DEF sys_bind, Bind, Goto, Return, kalloc, TypeOK
<1>6. TypeOK'
  <2>1. 0 \in 0 .. MAX_QUEUED_PER_PORT
    BY QueueLimit
  <2>q. QED
    BY <1>0, <1>2, <1>4, <1>5, <2>1, ZenonT(30)
    DEF TypeOK, PageOrNull, Goto, sys_bind, Bind, queueVars, procVars, intrVars,
    drvVars, netVars
<1>7. LockInv'
  BY <1>0, <1>4, <1>5, Zenon DEF LockInv
<1>8. CallInv'
  BY <1>0, <1>2, <1>4, <1>5, NullNotPage DEF CallInv, CallOf, Receiving
<1>9. NoLostWakeup'
  <2>1. \A r \in Procs : pc[r] \in {"sleep", "release", "sched", "asleep"} => port[r] \in Ports
    BY <1>0, Zenon DEF CallInv, CallOf, Receiving
  <2>q. QED BY <1>0, <1>4, <1>5, <2>1, Zenon DEF NoLostWakeup
<1>10. ListInv' /\ \A r \in Ports, c \in Pages : OnList(r, c)' <=> OnList(r, c)
  <2>1. \A r \in Ports : pqcount[r] > 0 => pqpage'[r] = pqpage[r]
    BY <1>0, <1>5, Zenon DEF ListInv, ListAt
  <2>q. QED BY <1>0, <1>4, <1>5, <2>1, ListFrame, Zenon
<1>11. CopyIntact'
  BY <1>0, <1>1, <1>2, <1>4, <1>5, CopyFrame, Zenon
<1>12. OwnedAlone(K)'
  <2>1. Alone(b, "free")
    BY <1>1, <1>2, Zenon DEF Owned, OwnedAlone
  <2>2. Alone(b, "pq")'
    BY <1>2, <1>4, <1>5, <2>1, NullNotPage, Zenon DEF Alone
  <2>3. \A c \in Pages : c # b => AloneSame(c)
    BY <1>2, <1>4, <1>5, NullNotPage, Zenon DEF AloneSame
  <2>q. QED BY <1>1, <1>3, <2>2, <2>3, AloneMoved, Zenon
<1>13. OwnedByProc(K, W)'
  <2>1. /\ kind[b] \notin {"pkt", "sbuf", "tx"} /\ "pq" \notin {"pkt", "sbuf", "tx"}
        /\ pkt' = pkt /\ sbuf' = sbuf
        /\ \A r \in Procs : pc'[r] = "transmit" <=> pc[r] = "transmit"
    BY <1>2, <1>4, <1>5, Zenon
  <2>q. QED BY <1>1, <1>3, <2>1, ProcKept, Zenon
<1>14. OwnedByPort(K, W)'
  BY <1>1, <1>2, <1>3, <1>4, <1>5, <1>10, NullNotPage DEF Owned, OwnedByPort, ByPort,
     Relabelled
<1>15. OwnedByNode(K, W)'
  <2>1. /\ kind[b] \notin {"buf", "node", "pkt"} /\ "pq" \notin {"buf", "node", "pkt"}
        /\ fullbuf' = fullbuf /\ \A r \in Procs : pc'[r] = "copy" <=> pc[r] = "copy"
        /\ \A c \in Pages : c # b => content'[c] = content[c]
        /\ "pq" \in {"rcv", "ibuf"} => content'[b] \in Frames
    BY <1>2, <1>4, <1>5, Zenon
  <2>q. QED BY <1>1, <1>3, <2>1, NodeKept, Zenon
<1>16. Owned(K, W)'
  BY <1>3, <1>12, <1>13, <1>14, <1>15, Zenon DEF Owned, Relabelled
<1>q. QED BY <1>6, <1>7, <1>8, <1>9, <1>10, <1>11, <1>16, Zenon DEF IInv

LEMMA RecvFreeBufInv ==
  ASSUME IInv, NEW p \in Procs, RecvFreeBuf(p)
  PROVE  IInv'
<1>0. TypeOK /\ LockInv /\ CallInv /\ ListInv /\ CopyIntact /\ NoLostWakeup
  BY Zenon DEF IInv
<1>1. PICK kind, who : Owned(kind, who)
  BY Zenon DEF IInv
<1>2. PICK b \in Pages : /\ b = fullbuf[pkt[p]] /\ kind[b] = "buf" /\ who[b] = pkt[p]
                        /\ pkt[p] \in Pages /\ kind[pkt[p]] = "pkt" /\ who[pkt[p]] = p
  BY <1>0, <1>1, CopyPage DEF RecvFreeBuf
<1>3. PICK K, W : Relabelled(kind, who, K, W, b, "free", NULL)
  <2>1. "free" \in Kinds /\ NULL \in Holders
    BY Zenon DEF Kinds, Holders
  <2>q. QED BY <1>1, <2>1, Relabel, Zenon
<1>4. /\ netlock' = netlock /\ ptable_lock' = ptable_lock /\ pqpage' = pqpage
      /\ pqhead' = pqhead /\ pqtail' = pqtail /\ pqcount' = pqcount /\ next' = next
      /\ port' = port /\ pkt' = pkt /\ sbuf' = sbuf /\ want' = want /\ ipc' = ipc
      /\ ibuf' = ibuf /\ iport' = iport /\ reply' = reply /\ rcv' = rcv /\ drv' = drv
      /\ leaked' = leaked
  BY Zenon DEF RecvFreeBuf, queueVars, procVars, intrVars, drvVars, netVars
<1>5. /\ pc[p] = "copy"
      /\ pc'[p] = "freepkt" /\ \A r \in Procs : r # p => pc'[r] = pc[r]
      /\ fullbuf'[pkt[p]] = NULL /\ \A c \in Pages : c # pkt[p] => fullbuf'[c] = fullbuf[c]
      /\ content' \in [Pages -> Nat] /\ \A c \in Pages : c # b => content'[c] = content[c]
      /\ freelist' = freelist \cup {b}
  <2>1. /\ pc[p] = "copy" /\ pc' = [pc EXCEPT ![p] = "freepkt"] /\ (\E L : pc \in [Procs -> L])
        /\ fullbuf' = [fullbuf EXCEPT ![pkt[p]] = NULL] /\ fullbuf \in [Pages -> PageOrNull]
    BY <1>0, Zenon DEF RecvFreeBuf, Goto, TypeOK
  <2>2. /\ freelist' = freelist \cup {b} /\ content' = [content EXCEPT ![b] = Junk]
        /\ content \in [Pages -> Nat]
    BY <1>0, <1>2, NullNotPage, Zenon DEF RecvFreeBuf, kfree, TypeOK
  <2>3. Junk \in Nat
    BY DEF Junk
  <2>q. QED BY <1>2, <2>1, <2>2, <2>3, Zenon
<1>6. TypeOK'
  BY <1>0, <1>2, <1>4, <1>5 DEF TypeOK, PageOrNull, Goto, RecvFreeBuf, queueVars,
     procVars, intrVars, drvVars, netVars
<1>7. LockInv'
  BY <1>0, <1>4, <1>5, Zenon DEF LockInv
<1>8. CallInv'
  BY <1>0, <1>2, <1>4, <1>5, NullNotPage DEF CallInv, CallOf, Receiving
<1>9. NoLostWakeup'
  BY <1>0, <1>4, <1>5, Zenon DEF NoLostWakeup
<1>10. ListInv' /\ \A q \in Ports, c \in Pages : OnList(q, c)' <=> OnList(q, c)
  BY <1>0, <1>4, ListFrame, Zenon
<1>11. CopyIntact'
  <2>1. ASSUME NEW r \in Procs, pc'[r] = "copy" PROVE content'[fullbuf'[pkt'[r]]] = want'[r]
    <3>1. r # p /\ pc[r] = "copy"
      BY <1>5, <2>1, Zenon
    <3>2. /\ pkt[r] \in Pages /\ who[pkt[r]] = r
          /\ fullbuf[pkt[r]] \in Pages /\ who[fullbuf[pkt[r]]] = pkt[r]
      BY <1>0, <1>1, <3>1, CopyPage
    <3>3. pkt[r] # pkt[p] /\ fullbuf[pkt[r]] # b
      BY <1>2, <3>1, <3>2, Zenon
    <3>q. QED BY <1>0, <1>4, <1>5, <3>1, <3>2, <3>3 DEF CopyIntact
  <2>q. QED BY <2>1, Zenon DEF CopyIntact
<1>12. OwnedAlone(K)'
  <2>1. Alone(b, "buf")
    BY <1>1, <1>2, Zenon DEF Owned, OwnedAlone
  <2>2. Alone(b, "free")'
    BY <1>2, <1>4, <1>5, <2>1, NullNotPage, Zenon DEF Alone
  <2>3. \A c \in Pages : c # b => AloneSame(c)
    BY <1>2, <1>4, <1>5, NullNotPage, Zenon DEF AloneSame
  <2>q. QED BY <1>1, <1>3, <2>2, <2>3, AloneMoved, Zenon
<1>13. OwnedByProc(K, W)'
  <2>1. /\ kind[b] \notin {"pkt", "sbuf", "tx"} /\ "free" \notin {"pkt", "sbuf", "tx"}
        /\ pkt' = pkt /\ sbuf' = sbuf
        /\ \A r \in Procs : pc'[r] = "transmit" <=> pc[r] = "transmit"
    BY <1>2, <1>4, <1>5, Zenon
  <2>q. QED BY <1>1, <1>3, <2>1, ProcKept, Zenon
<1>14. OwnedByPort(K, W)'
  <2>1. /\ kind[b] \notin {"pq", "node"} /\ "free" \notin {"pq", "node"}
        /\ pqpage' = pqpage
    BY <1>2, <1>4, <1>5, Zenon
  <2>q. QED BY <1>1, <1>3, <1>10, <2>1, PortKept, Zenon
<1>15. OwnedByNode(K, W)'
  <2>1. \A c \in Pages : kind[c] = "pkt" => who[c] \in Procs /\ pkt[who[c]] = c
    BY <1>1, Zenon DEF Owned, OwnedByProc, ByProc
  <2>q. QED BY <1>1, <1>2, <1>3, <1>4, <1>5, <2>1, NullNotPage DEF Owned, OwnedByNode,
               ByNode, Relabelled
<1>16. Owned(K, W)'
  BY <1>3, <1>12, <1>13, <1>14, <1>15, Zenon DEF Owned, Relabelled
<1>q. QED BY <1>6, <1>7, <1>8, <1>9, <1>10, <1>11, <1>16, Zenon DEF IInv

LEMMA RecvFreePktInv ==
  ASSUME IInv, NEW p \in Procs, RecvFreePkt(p)
  PROVE  IInv'
<1>0. TypeOK /\ LockInv /\ CallInv /\ ListInv /\ CopyIntact /\ NoLostWakeup
  BY Zenon DEF IInv
<1>1. PICK kind, who : Owned(kind, who)
  BY Zenon DEF IInv
<1>2. PICK b \in Pages : b = pkt[p] /\ kind[b] = "pkt" /\ who[b] = p
  BY <1>0, <1>1 DEF RecvFreePkt, Owned, OwnedByProc, ByProc, CallInv, CallOf, TypeOK,
     PageOrNull
<1>3. PICK K, W : Relabelled(kind, who, K, W, b, "free", NULL)
  <2>1. "free" \in Kinds /\ NULL \in Holders
    BY Zenon DEF Kinds, Holders
  <2>q. QED BY <1>1, <2>1, Relabel, Zenon
<1>4. /\ netlock' = netlock /\ ptable_lock' = ptable_lock /\ pqpage' = pqpage
      /\ pqhead' = pqhead /\ pqtail' = pqtail /\ pqcount' = pqcount
      /\ fullbuf' = fullbuf /\ sbuf' = sbuf /\ ipc' = ipc /\ ibuf' = ibuf
      /\ iport' = iport /\ reply' = reply /\ rcv' = rcv /\ drv' = drv
      /\ leaked' = leaked
  BY Zenon DEF RecvFreePkt, queueVars, procVars, intrVars, drvVars, netVars
<1>5. /\ pc[p] = "freepkt"
      /\ Return(p) \in {"user", "exited"}
      /\ pc'[p] = Return(p) /\ \A r \in Procs : r # p => pc'[r] = pc[r]
      /\ pkt'[p] = NULL /\ want'[p] = Junk /\ port'[p] = NULL
      /\ \A r \in Procs : r # p => pkt'[r] = pkt[r] /\ want'[r] = want[r] /\ port'[r] = port[r]
      /\ next'[b] = NULL /\ \A c \in Pages : c # b => next'[c] = next[c]
      /\ content' \in [Pages -> Nat] /\ \A c \in Pages : c # b => content'[c] = content[c]
      /\ freelist' = freelist \cup {b}
  <2>1. /\ pc[p] = "freepkt" /\ pc' = [pc EXCEPT ![p] = Return(p)] /\ (\E L : pc \in [Procs -> L])
        /\ pkt' = [pkt EXCEPT ![p] = NULL] /\ pkt \in [Procs -> PageOrNull]
        /\ want' = [want EXCEPT ![p] = Junk] /\ want \in [Procs -> Nat]
        /\ port' = [port EXCEPT ![p] = NULL] /\ port \in [Procs -> Ports \cup {NULL}]
        /\ Return(p) \in {"user", "exited"}
    BY <1>0, Zenon DEF RecvFreePkt, Goto, Return, TypeOK
  <2>2. /\ freelist' = freelist \cup {b} /\ content' = [content EXCEPT ![b] = Junk]
        /\ content \in [Pages -> Nat] /\ next' = [next EXCEPT ![b] = NULL]
        /\ next \in [Pages -> PageOrNull]
    BY <1>0, <1>2, NullNotPage, Zenon DEF RecvFreePkt, kfree, TypeOK
  <2>3. Junk \in Nat
    BY DEF Junk
  <2>4. /\ pc'[p] = Return(p) /\ \A r \in Procs : r # p => pc'[r] = pc[r]
        /\ pkt'[p] = NULL /\ want'[p] = Junk /\ port'[p] = NULL
        /\ \A r \in Procs : r # p => pkt'[r] = pkt[r] /\ want'[r] = want[r] /\ port'[r] = port[r]
    BY <2>1, Zenon
  <2>q. QED BY <1>2, <2>1, <2>2, <2>3, <2>4, Zenon
<1>6. TypeOK'
  BY <1>0, <1>2, <1>4, <1>5 DEF TypeOK, PageOrNull, Goto, Junk, RecvFreePkt, queueVars,
     procVars, intrVars, drvVars, netVars
<1>7. LockInv'
  BY <1>0, <1>4, <1>5, ZenonT(30) DEF LockInv
<1>8. CallInv'
  BY <1>0, <1>2, <1>4, <1>5, NullNotPage DEF CallInv, CallOf, Receiving
<1>9. NoLostWakeup'
  BY <1>0, <1>4, <1>5, Zenon DEF NoLostWakeup
<1>10. ListInv' /\ \A q \in Ports, c \in Pages : OnList(q, c)' <=> OnList(q, c)
  <2>1. \A q \in Ports : \A k \in 1 .. pqcount[q] : next'[Nodes(q)[k]] = next[Nodes(q)[k]]
    BY <1>0, <1>1, <1>2, <1>5, NodePage
  <2>q. QED BY <1>0, <1>4, <2>1, ListFrame, Zenon
<1>11. CopyIntact'
  BY <1>0, <1>1, <1>2, <1>4, <1>5, CopyFrame, Zenon
<1>12. OwnedAlone(K)'
  <2>1. Alone(b, "pkt")
    BY <1>1, <1>2, Zenon DEF Owned, OwnedAlone
  <2>2. Alone(b, "free")'
    BY <1>2, <1>4, <1>5, <2>1, NullNotPage, Zenon DEF Alone
  <2>3. \A c \in Pages : c # b => AloneSame(c)
    BY <1>2, <1>4, <1>5, NullNotPage, Zenon DEF AloneSame
  <2>q. QED BY <1>1, <1>3, <2>2, <2>3, AloneMoved, Zenon
<1>13. OwnedByProc(K, W)'
  <2>1. ByProc(b, "pkt", who[b])
    BY <1>1, <1>2, Zenon DEF Owned, OwnedByProc
  <2>2. ByProc(b, "free", NULL)'
    BY <1>2, <1>4, <1>5, <2>1, NullNotPage DEF ByProc
  <2>3. \A c \in Pages, r \in Procs : c # b => ProcSame(c, r)
    BY <1>2, <1>4, <1>5, NullNotPage DEF ProcSame
  <2>q. QED BY <1>1, <1>3, <2>2, <2>3, ProcMoved, Zenon
<1>14. OwnedByPort(K, W)'
  <2>1. /\ kind[b] \notin {"pq", "node"} /\ "free" \notin {"pq", "node"}
        /\ pqpage' = pqpage
    BY <1>2, <1>4, <1>5, Zenon
  <2>q. QED BY <1>1, <1>3, <1>10, <2>1, PortKept, Zenon
<1>15. OwnedByNode(K, W)'
  <2>1. \A c \in Pages : kind[c] = "pkt" => who[c] \in Procs /\ pkt[who[c]] = c
    BY <1>1, Zenon DEF Owned, OwnedByProc, ByProc
  <2>q. QED BY <1>1, <1>2, <1>3, <1>4, <1>5, <2>1, NullNotPage DEF Owned, OwnedByNode,
               ByNode, Relabelled
<1>16. Owned(K, W)'
  BY <1>3, <1>12, <1>13, <1>14, <1>15, Zenon DEF Owned, Relabelled
<1>q. QED BY <1>6, <1>7, <1>8, <1>9, <1>10, <1>11, <1>16, Zenon DEF IInv

-----------------------------------------------------------------------------
(* The queue's two ends *)

\* Unlink takes the first node off a list and leaves the others alone.
LEMMA ListUnlink ==
  ASSUME TypeOK, ListInv, NEW q \in Ports, pqcount[q] # 0, Unlink(q), UNCHANGED <<next, pqpage>>
  PROVE  /\ ListInv' /\ pqhead[q] = Nodes(q)[1] /\ 1 \in 1 .. pqcount[q]
         /\ pqcount'[q] = pqcount[q] - 1 /\ \A r \in Ports : r # q => pqcount'[r] = pqcount[r]
         /\ Nodes(q)' = [k \in 1 .. pqcount[q] - 1 |-> Nodes(q)[k + 1]]
         /\ \A r \in Ports : r # q => Nodes(r)' = Nodes(r)
         /\ \A r \in Ports, c \in Pages : OnList(r, c)' <=> OnList(r, c) /\ (r = q => c # pqhead[q])
<1> DEFINE w == Nodes(q)
           n == pqcount[q]
<1>1. n \in Nat /\ n > 0 /\ w[1] = pqhead[q] /\ \A k \in 1 .. n - 1 : w[k + 1] = next[w[k]]
  BY NodesFacts
<1>2. /\ \A k \in 1 .. n : w[k] \in Pages
      /\ \A j, k \in 1 .. n : w[j] = w[k] => j = k
      /\ w[n] = pqtail[q] /\ next[pqtail[q]] = NULL /\ pqpage[q] # NULL
  BY <1>1, Zenon DEF ListInv, ListAt
<1>3. /\ pqcount'[q] = n - 1 /\ \A r \in Ports : r # q => pqcount'[r] = pqcount[r]
      /\ pqhead'[q] = next[pqhead[q]] /\ \A r \in Ports : r # q => pqhead'[r] = pqhead[r]
      /\ \A r \in Ports : r # q => pqtail'[r] = pqtail[r]
      /\ pqtail'[q] = IF next[pqhead[q]] = NULL THEN NULL ELSE pqtail[q]
  BY Zenon DEF Unlink, TypeOK
<1>4. Nodes(q)' = [k \in 1 .. n - 1 |-> w[k + 1]]
  BY <1>3, NodesUnlink, Zenon
<1>5. ASSUME NEW r \in Ports, r # q
      PROVE  ListAt(r)' /\ Nodes(r)' = Nodes(r) /\ \A b \in Pages : OnList(r, b)' <=> OnList(r, b)
  BY <1>3, <1>5, ListKept, Zenon DEF ListInv
<1> HIDE DEF w
<1>6. /\ \A k \in 1 .. n - 1 : Nodes(q)'[k] = w[k + 1]
      /\ pqcount'[q] = n - 1 /\ pqpage'[q] # NULL
  BY <1>2, <1>3, <1>4, Zenon
<1>7. ListAt(q)'
  <2>1. CASE n = 1
    <3>1. next[pqhead[q]] = NULL
      BY <1>1, <1>2, <2>1, Zenon
    <3>2. pqcount'[q] = 0 /\ pqhead'[q] = NULL /\ pqtail'[q] = NULL
      BY <1>3, <2>1, <3>1
    <3>q. QED BY <3>2 DEF ListAt
  <2>2. CASE n > 1
    <3>1. 1 \in 1 .. n - 1 /\ 2 \in 1 .. n /\ n - 1 \in 1 .. n - 1 /\ (n - 1) + 1 = n /\ n - 1 > 0
      BY <1>1, <2>2
    <3>2. next[pqhead[q]] = w[1 + 1] /\ w[2] \in Pages
      BY <1>1, <1>2, <3>1, Zenon
    <3>3. pqtail'[q] = pqtail[q]
      BY <1>3, <3>2, NullNotPage
    <3>4. Nodes(q)'[n - 1] = pqtail'[q] /\ next'[pqtail'[q]] = NULL
      BY <1>2, <1>6, <3>1, <3>3, Zenon
    <3>5. \A k \in 1 .. n - 1 : k + 1 \in 1 .. n
      BY <1>1
    <3>6. /\ \A k \in 1 .. n - 1 : Nodes(q)'[k] \in Pages
          /\ \A j, k \in 1 .. n - 1 : Nodes(q)'[j] = Nodes(q)'[k] => j = k
      BY <1>1, <1>2, <1>6, <3>5
    <3>q. QED BY <1>1, <1>6, <3>1, <3>4, <3>6 DEF ListAt
  <2>q. QED BY <1>1, <2>1, <2>2
<1>8. ASSUME NEW c \in Pages PROVE OnList(q, c)' <=> OnList(q, c) /\ c # pqhead[q]
  <2>1. OnList(q, c)' <=> \E k \in 1 .. n - 1 : w[k + 1] = c
    BY <1>6, Zenon DEF OnList
  <2>2. OnList(q, c) <=> \E k \in 1 .. n : w[k] = c
    BY Zenon DEF OnList, w
  <2>3. ASSUME NEW k \in 1 .. n - 1, w[k + 1] = c PROVE OnList(q, c) /\ c # pqhead[q]
    <3>1. k + 1 \in 1 .. n /\ 1 \in 1 .. n /\ k + 1 # 1
      BY <1>1
    <3>q. QED BY <1>1, <1>2, <2>2, <2>3, <3>1, Zenon
  <2>4. ASSUME NEW k \in 1 .. n, w[k] = c, c # pqhead[q] PROVE \E j \in 1 .. n - 1 : w[j + 1] = c
    <3>1. k # 1
      BY <1>1, <2>4, Zenon
    <3>2. k - 1 \in 1 .. n - 1 /\ (k - 1) + 1 = k
      BY <1>1, <3>1
    <3>q. QED BY <2>4, <3>2, Zenon
  <2>q. QED BY <2>1, <2>2, <2>3, <2>4, Zenon
<1>9. \A r \in Ports : ListAt(r)'
  BY <1>5, <1>7, Zenon
<1>10. \A r \in Ports, c \in Pages : OnList(r, c)' <=> OnList(r, c) /\ (r = q => c # pqhead[q])
  BY <1>5, <1>8, Zenon
<1>11. 1 \in 1 .. n
  BY <1>1
<1>q. QED BY <1>1, <1>3, <1>4, <1>5, <1>9, <1>10, <1>11, Zenon DEF ListInv, w

\* Link puts a node that is on no list at the end of one.
LEMMA ListLink ==
  ASSUME TypeOK, ListInv, NEW q \in Ports, NEW n \in Pages, Link(q, n),
         \A r \in Ports : ~OnList(r, n),
         \A r \in Ports : r # q /\ pqcount[q] > 0 => ~OnList(r, pqtail[q]),
         pqpage' = pqpage, pqpage[q] # NULL,
         pqcount' = [pqcount EXCEPT ![q] = @ + 1]
  PROVE  /\ ListInv'
         /\ Nodes(q)' = [k \in 1 .. pqcount[q] + 1 |->
                           IF k = pqcount[q] + 1 THEN n ELSE Nodes(q)[k]]
         /\ \A r \in Ports : r # q => Nodes(r)' = Nodes(r)
         /\ \A r \in Ports, c \in Pages : OnList(r, c)' <=> OnList(r, c) \/ (r = q /\ c = n)
<1> DEFINE w == Nodes(q)
           l == pqcount[q]
<1>1. l \in Nat
  BY NodesFacts, Zenon
<1>2. /\ \A k \in 1 .. l : w[k] \in Pages /\ w[k] # n
      /\ \A j, k \in 1 .. l : w[j] = w[k] => j = k
      /\ l > 0 => w[l] = pqtail[q] /\ w[l] \in Pages
      /\ l = 0 => pqtail[q] = NULL
  BY <1>1 DEF ListInv, ListAt, OnList
<1>3. pqcount'[q] = l + 1 /\ \A r \in Ports : r # q => pqcount'[r] = pqcount[r]
  BY Zenon DEF TypeOK
<1>4. /\ Nodes(q)' = [k \in 1 .. l + 1 |-> IF k = l + 1 THEN n ELSE w[k]]
      /\ next'[n] = NULL /\ pqtail'[q] = n
  BY <1>3, NodesLink, Zenon
<1>5. /\ \A r \in Ports : r # q => pqhead'[r] = pqhead[r] /\ pqtail'[r] = pqtail[r]
      /\ \A c \in Pages : c # n /\ (l > 0 => c # pqtail[q]) => next'[c] = next[c]
  <2>1. \A r \in Ports : r # q => pqhead'[r] = pqhead[r] /\ pqtail'[r] = pqtail[r]
    BY Zenon DEF Link, TypeOK
  <2>2. CASE l = 0
    BY <1>2, <2>1, <2>2, Zenon DEF Link, TypeOK
  <2>3. CASE l > 0
    <3>1. pqtail[q] # NULL
      BY <1>2, <2>3, NullNotPage, Zenon
    <3>q. QED BY <2>1, <2>3, <3>1, Zenon DEF Link, TypeOK
  <2>q. QED BY <1>1, <2>2, <2>3
<1>6. ASSUME NEW r \in Ports, r # q
      PROVE  ListAt(r)' /\ Nodes(r)' = Nodes(r) /\ \A b \in Pages : OnList(r, b)' <=> OnList(r, b)
  <2>1. ASSUME NEW k \in 1 .. pqcount[r] PROVE next'[Nodes(r)[k]] = next[Nodes(r)[k]]
    <3>1. Nodes(r)[k] \in Pages /\ OnList(r, Nodes(r)[k])
      BY Zenon DEF ListInv, ListAt, OnList
    <3>q. QED BY <1>5, <1>6, <3>1, Zenon
  <2>q. QED BY <1>3, <1>5, <1>6, <2>1, ListKept DEF ListInv
<1> HIDE DEF w
<1>7. /\ \A k \in 1 .. l : Nodes(q)'[k] = w[k]
      /\ Nodes(q)'[l + 1] = n /\ pqcount'[q] = l + 1
  BY <1>1, <1>3, <1>4
<1>8. ListAt(q)'
  <2>1. \A k \in 1 .. l + 1 : k = l + 1 \/ k \in 1 .. l
    BY <1>1
  <2>2. /\ \A k \in 1 .. l + 1 : Nodes(q)'[k] \in Pages
        /\ \A j, k \in 1 .. l + 1 : Nodes(q)'[j] = Nodes(q)'[k] => j = k
    BY <1>2, <1>7, <2>1
  <2>3. l + 1 # 0
    BY <1>1
  <2>4. Nodes(q)'[pqcount'[q]] = pqtail'[q] /\ next'[pqtail'[q]] = NULL /\ pqpage'[q] # NULL
    BY <1>4, <1>7, Zenon
  <2> HIDE DEF l
  <2>q. QED BY <1>7, <2>2, <2>3, <2>4, Zenon DEF ListAt
<1>9. ASSUME NEW c \in Pages PROVE OnList(q, c)' <=> OnList(q, c) \/ c = n
  <2>1. \A k : k \in 1 .. l + 1 <=> k = l + 1 \/ k \in 1 .. l
    BY <1>1
  <2>2. OnList(q, c)' <=> \E k \in 1 .. l + 1 : Nodes(q)'[k] = c
    BY <1>7, Zenon DEF OnList
  <2>3. OnList(q, c) <=> \E k \in 1 .. l : w[k] = c
    BY Zenon DEF OnList, w
  <2>q. QED BY <1>7, <2>1, <2>2, <2>3, Zenon
<1>10. \A r \in Ports : ListAt(r)'
  BY <1>6, <1>8, Zenon
<1>11. \A r \in Ports, c \in Pages : OnList(r, c)' <=> OnList(r, c) \/ (r = q /\ c = n)
  BY <1>6, <1>9, Zenon
<1>q. QED BY <1>4, <1>6, <1>10, <1>11, Zenon DEF ListInv, w

LEMMA RecvPopInv ==
  ASSUME IInv, NEW p \in Procs, RecvPop(p)
  PROVE  IInv'
<1>0. TypeOK /\ LockInv /\ CallInv /\ ListInv /\ CopyIntact /\ NoLostWakeup
  BY Zenon DEF IInv
<1>1. PICK kind, who : Owned(kind, who)
  BY Zenon DEF IInv
<1>l. LET q == port[p] IN
      /\ q \in Ports /\ ListInv' /\ pqhead[q] = Nodes(q)[1] /\ 1 \in 1 .. pqcount[q]
      /\ pqcount'[q] = pqcount[q] - 1 /\ \A r \in Ports : r # q => pqcount'[r] = pqcount[r]
      /\ \A r \in Ports, c \in Pages : OnList(r, c)' <=> OnList(r, c) /\ (r = q => c # pqhead[q])
  <2>1. port[p] \in Ports /\ pqcount[port[p]] # 0 /\ Unlink(port[p]) /\ UNCHANGED <<next, pqpage>>
    BY <1>0, Zenon DEF RecvPop, CallInv, CallOf, Receiving
  <2>q. QED BY <1>0, <2>1, ListUnlink, Zenon
<1>2. PICK b \in Pages : /\ b = pqhead[port[p]] /\ kind[b] = "node" /\ who[b] = port[p]
                        /\ fullbuf[b] \in Pages /\ content[fullbuf[b]] \in Frames
  <2>1. LET n == Nodes(port[p])[1] IN n \in Pages /\ kind[n] = "node" /\ who[n] = port[p] /\ fullbuf[n] # NULL
    BY <1>0, <1>1, <1>l, NodePage, Zenon
  <2>2. fullbuf[pqhead[port[p]]] \in Pages
    BY <1>0, <1>l, <2>1 DEF TypeOK, PageOrNull
  <2>q. QED BY <1>1, <1>l, <2>1, <2>2 DEF Owned, OwnedByNode, ByNode
<1>3. PICK K, W : Relabelled(kind, who, K, W, b, "pkt", p)
  <2>1. "pkt" \in Kinds /\ p \in Holders
    BY Zenon DEF Kinds, Holders
  <2>q. QED BY <1>1, <2>1, Relabel, Zenon
<1>4. /\ freelist' = freelist /\ content' = content /\ ptable_lock' = ptable_lock
      /\ pqpage' = pqpage /\ fullbuf' = fullbuf /\ next' = next /\ port' = port
      /\ sbuf' = sbuf /\ ipc' = ipc /\ ibuf' = ibuf /\ iport' = iport /\ reply' = reply
      /\ rcv' = rcv /\ drv' = drv /\ leaked' = leaked
  BY Zenon DEF RecvPop, Unlink, queueVars, procVars, intrVars, drvVars, netVars
<1>5. /\ pc[p] = "check" /\ pkt[p] = NULL /\ netlock = p /\ netlock' = NULL
      /\ pc'[p] = "copy" /\ \A r \in Procs : r # p => pc'[r] = pc[r]
      /\ pkt'[p] = b /\ want'[p] = content[fullbuf[b]]
      /\ \A r \in Procs : r # p => pkt'[r] = pkt[r] /\ want'[r] = want[r]
  BY <1>0, <1>2 DEF RecvPop, Goto, TypeOK, CallInv, CallOf, LockInv
<1>6. TypeOK'
  <2>1. pqcount' \in [Ports -> 0 .. MAX_QUEUED_PER_PORT]
    <3>1. /\ pqcount' = [pqcount EXCEPT ![port[p]] = @ - 1] /\ pqcount \in [Ports -> 0 .. MAX_QUEUED_PER_PORT]
          /\ pqcount[port[p]] # 0
      BY <1>0, Zenon DEF RecvPop, Unlink, TypeOK
    <3>2. port[p] \in Ports
      BY <1>l, Zenon
    <3>3. pqcount[port[p]] - 1 \in 0 .. MAX_QUEUED_PER_PORT
      BY <3>1, <3>2, QueueLimit
    <3>q. QED BY <3>1, <3>2, <3>3, Zenon
  <2>2. pqhead' \in [Ports -> PageOrNull] /\ pqtail' \in [Ports -> PageOrNull]
    BY <1>0, <1>2, <1>l, Zenon DEF RecvPop, Unlink, TypeOK, PageOrNull
  <2>3. want' \in [Procs -> Nat] /\ pkt' \in [Procs -> PageOrNull] /\ pc' = [pc EXCEPT ![p] = "copy"]
    BY <1>0, <1>2, ContentsNat, Zenon DEF RecvPop, Goto, TypeOK, PageOrNull
  <2>4. UNCHANGED <<killed, seen_arp>>
    BY Zenon DEF RecvPop, intrVars
  <2>q. QED BY <1>0, <1>4, <1>5, <2>1, <2>2, <2>3, <2>4, Zenon DEF TypeOK
<1>7. LockInv'
  BY <1>0, <1>4, <1>5, ContextsApart, Zenon DEF LockInv
<1>8. CallInv'
  <2>1. CallOf(p)'
    BY <1>0, <1>2, <1>4, <1>5, <1>l, NullNotPage, Zenon DEF CallInv, CallOf, Receiving
  <2>2. ASSUME NEW r \in Procs, r # p PROVE CallOf(r)'
    BY <1>0, <1>4, <1>5, <2>2, Zenon DEF CallInv, CallOf
  <2>q. QED BY <1>0, <1>4, <2>1, <2>2, Zenon DEF CallInv
<1>9. NoLostWakeup'
  <2>1. \A r \in Procs : pc[r] \in {"sleep", "release", "sched", "asleep"} => port[r] \in Ports
    BY <1>0, Zenon DEF CallInv, CallOf, Receiving
  <2>2. \A r \in Ports : pqcount'[r] > 0 => pqcount[r] > 0
    BY <1>0, <1>l, NodesFacts
  <2>q. QED BY <1>0, <1>4, <1>5, <2>1, <2>2, Zenon DEF NoLostWakeup
<1>10. ListInv'
  BY <1>l, Zenon
<1>11. CopyIntact'
  <2>1. ASSUME NEW r \in Procs, pc'[r] = "copy" PROVE content'[fullbuf'[pkt'[r]]] = want'[r]
    BY <1>0, <1>4, <1>5, <2>1, Zenon DEF CopyIntact
  <2>q. QED BY <2>1, Zenon DEF CopyIntact
<1>12. OwnedAlone(K)'
  <2>1. Alone(b, "node")
    BY <1>1, <1>2, Zenon DEF Owned, OwnedAlone
  <2>2. Alone(b, "pkt")'
    BY <1>2, <1>4, <1>5, <2>1, NullNotPage, Zenon DEF Alone
  <2>3. \A c \in Pages : c # b => AloneSame(c)
    BY <1>2, <1>4, <1>5, NullNotPage, Zenon DEF AloneSame
  <2>q. QED BY <1>1, <1>3, <2>2, <2>3, AloneMoved, Zenon
<1>a. ASSUME NEW c \in Pages
      PROVE  /\ Alone(c, kind[c]) /\ ByProc(c, kind[c], who[c])
             /\ ByPort(c, kind[c], who[c]) /\ ByNode(c, kind[c], who[c])
  BY <1>1, Zenon DEF Owned, OwnedAlone, OwnedByProc, OwnedByPort, OwnedByNode
<1>13. OwnedByProc(K, W)'
  <2>1. ByProc(b, "node", port[p])
    BY <1>2, <1>a, Zenon
  <2>2. ByProc(b, "pkt", p)'
    BY <1>4, <1>5, <2>1 DEF ByProc
  <2>3. ASSUME NEW c \in Pages, c # b PROVE ByProc(c, kind[c], who[c])'
    <3>1. ByProc(c, kind[c], who[c])
      BY <1>a, Zenon
    <3>q. QED BY <1>4, <1>5, <2>3, <3>1, NullNotPage DEF ByProc
  <2>q. QED BY <1>3, <2>2, <2>3, Zenon DEF OwnedByProc, Relabelled
<1>14. OwnedByPort(K, W)'
  <2>1. ByPort(b, "node", port[p])
    BY <1>2, <1>a, Zenon
  <2>2. \A r \in Ports, c \in Pages : OnList(r, c)' <=> OnList(r, c) /\ (r = port[p] => c # b)
    BY <1>2, <1>l, Zenon
  <2>3. ByPort(b, "pkt", p)'
    <3>1. \A r \in Ports : ~OnList(r, b)'
      BY <2>1, <2>2, Zenon DEF ByPort
    <3>q. QED BY <1>4, <2>1, <3>1, Zenon DEF ByPort
  <2>4. ASSUME NEW c \in Pages, c # b PROVE ByPort(c, kind[c], who[c])'
    BY <1>4, <1>a, <2>2, <2>4, Zenon DEF ByPort
  <2>q. QED BY <1>3, <2>3, <2>4, Zenon DEF OwnedByPort, Relabelled
<1>15. OwnedByNode(K, W)'
  <2>1. ByNode(b, "node", port[p])
    BY <1>2, <1>a, Zenon
  <2>2. ByNode(b, "pkt", p)'
    BY <1>4, <1>5, <2>1, NullNotPage DEF ByNode
  <2>3. ASSUME NEW c \in Pages, c # b PROVE ByNode(c, kind[c], who[c])'
    <3>1. ByNode(c, kind[c], who[c]) /\ (kind[c] = "pkt" => pc'[who[c]] = pc[who[c]])
      BY <1>5, <1>a, NullNotPage, Zenon DEF ByProc
    <3>q. QED BY <1>4, <3>1 DEF ByNode
  <2>q. QED BY <1>3, <2>2, <2>3, Zenon DEF OwnedByNode, Relabelled
<1>16. Owned(K, W)'
  BY <1>3, <1>12, <1>13, <1>14, <1>15, Zenon DEF Owned, Relabelled
<1>q. QED BY <1>6, <1>7, <1>8, <1>9, <1>10, <1>11, <1>16, Zenon DEF IInv

LEMMA IpRxQueueInv ==
  ASSUME IInv, NEW q \in Ports, IpRxQueue(q)
  PROVE  IInv'
<1>0. TypeOK /\ LockInv /\ CallInv /\ ListInv /\ CopyIntact /\ NoLostWakeup
  BY Zenon DEF IInv
<1>1. PICK kind, who : Owned(kind, who)
  BY Zenon DEF IInv
<1>2. PICK n \in Pages : /\ kalloc(n) /\ kind[n] = "free" /\ fullbuf[n] = NULL
                         /\ fullbuf' = [fullbuf EXCEPT ![n] = ibuf] /\ Link(q, n)
  BY <1>1, Zenon DEF IpRxQueue, kalloc, Owned, OwnedAlone, Alone, OwnedByNode, ByNode
<1>3. PICK b \in Pages : b = ibuf /\ kind[b] = "ibuf" /\ content[b] \in Frames /\ b # n
  BY <1>0, <1>1, <1>2, Zenon DEF IpRxQueue, Owned, OwnedAlone, Alone, OwnedByNode,
     ByNode, CallInv, CallOf, TypeOK, PageOrNull
<1>4. /\ kind \in [Pages -> Kinds] /\ who \in [Pages -> Holders]
      /\ {"node", "buf"} \subseteq Kinds /\ q \in Holders /\ n \in Holders
  BY <1>1, Zenon DEF Owned, Kinds, Holders
<1>5. PICK K \in [Pages -> Kinds], W \in [Pages -> Holders] :
        /\ K[n] = "node" /\ W[n] = q /\ K[b] = "buf" /\ W[b] = n
        /\ \A c \in Pages : c # n /\ c # b => K[c] = kind[c] /\ W[c] = who[c]
  <2>1. /\ [kind EXCEPT ![b] = "buf", ![n] = "node"] \in [Pages -> Kinds]
        /\ [who EXCEPT ![b] = n, ![n] = q] \in [Pages -> Holders]
    BY <1>4, Zenon
  <2>q. QED BY <1>3, <1>4, <2>1, Zenon
<1>6. UNCHANGED <<content, ptable_lock, pqpage, pc, port, pkt, sbuf, killed, want, reply, seen_arp,
                  rcv, drv, leaked>>
  BY Zenon DEF IpRxQueue, procVars, drvVars
<1>7. /\ ipc = "net_rx" /\ ipc' = "wakeup" /\ netlock = NULL /\ netlock' = Intr
      /\ ibuf' = NULL /\ iport' = q /\ freelist' = freelist \ {n}
      /\ fullbuf'[n] = b /\ \A c \in Pages : c # n => fullbuf'[c] = fullbuf[c]
  BY <1>0, <1>2, <1>3, Zenon DEF IpRxQueue, kalloc, TypeOK
<1>8. /\ ListInv'
      /\ \A r \in Ports, c \in Pages : OnList(r, c)' <=> OnList(r, c) \/ (r = q /\ c = n)
  <2>1. \A r \in Ports : ~OnList(r, n)
    BY <1>1, <1>2, Zenon DEF Owned, OwnedByPort, ByPort
  <2>2. ASSUME pqcount[q] > 0 PROVE pqtail[q] \in Pages /\ OnList(q, pqtail[q])
    <3>1. pqcount[q] \in 1 .. pqcount[q]
      BY <1>0, <2>2, NodesFacts
    <3>q. QED BY <1>0, <2>2, <3>1, Zenon DEF ListInv, ListAt, OnList
  <2>3. \A r \in Ports : r # q /\ pqcount[q] > 0 => ~OnList(r, pqtail[q])
    BY <1>1, <2>2, Zenon DEF Owned, OwnedByPort, ByPort
  <2>4. pqpage[q] # NULL /\ pqcount' = [pqcount EXCEPT ![q] = @ + 1]
    BY Zenon DEF IpRxQueue
  <2>q. QED BY <1>0, <1>2, <1>6, <2>1, <2>3, <2>4, ListLink, Zenon
<1>9. TypeOK'
  <2>1. pqcount' \in [Ports -> 0 .. MAX_QUEUED_PER_PORT]
    <3>1. /\ pqcount' = [pqcount EXCEPT ![q] = pqcount[q] + 1]
          /\ pqcount \in [Ports -> 0 .. MAX_QUEUED_PER_PORT] /\ ~(pqcount[q] >= MAX_QUEUED_PER_PORT)
      BY <1>0, Zenon DEF IpRxQueue, Full, TypeOK
    <3>2. pqcount[q] + 1 \in 0 .. MAX_QUEUED_PER_PORT
      BY <3>1, QueueLimit
    <3>q. QED BY <3>1, <3>2, Zenon
  <2>2. pqhead' \in [Ports -> PageOrNull] /\ pqtail' \in [Ports -> PageOrNull]
    BY <1>0, <1>2, Zenon DEF Link, TypeOK, PageOrNull
  <2>3. next' \in [Pages -> PageOrNull]
    BY <1>0, <1>2, Zenon DEF Link, TypeOK, PageOrNull
  <2>4. fullbuf' \in [Pages -> PageOrNull]
    BY <1>0, <1>2, <1>3, Zenon DEF TypeOK, PageOrNull
  <2>q. QED BY <1>0, <1>6, <1>7, <2>1, <2>2, <2>3, <2>4, Zenon DEF TypeOK, PageOrNull
<1>10. LockInv'
  BY <1>0, <1>6, <1>7, ContextsApart, Zenon DEF LockInv
<1>11. CallInv'
  BY <1>0, <1>6, <1>7, ContextsApart, Zenon DEF CallInv, CallOf
<1>12. NoLostWakeup'
  <2>1. \A r \in Procs : pc[r] \in {"sleep", "release", "sched", "asleep"} => port[r] \in Ports
    BY <1>0, Zenon DEF CallInv, CallOf, Receiving
  <2>2. \A r \in Ports : r # q => pqcount'[r] = pqcount[r]
    BY <1>0, Zenon DEF IpRxQueue, TypeOK
  <2>q. QED BY <1>0, <1>6, <1>7, <2>1, <2>2, Zenon DEF NoLostWakeup
<1>13. CopyIntact'
  <2>1. \A r \in Procs : pc[r] = "copy" => fullbuf'[pkt[r]] = fullbuf[pkt[r]]
    BY <1>0, <1>1, <1>2, <1>7, CopyPage
  <2>q. QED BY <1>0, <1>6, <2>1, Zenon DEF CopyIntact
<1>a. ASSUME NEW c \in Pages
      PROVE  /\ Alone(c, kind[c]) /\ ByProc(c, kind[c], who[c])
             /\ ByPort(c, kind[c], who[c]) /\ ByNode(c, kind[c], who[c])
  BY <1>1, Zenon DEF Owned, OwnedAlone, OwnedByProc, OwnedByPort, OwnedByNode
<1>14. OwnedAlone(K)'
  <2>1. Alone(n, "node")' /\ Alone(b, "buf")'
    BY <1>2, <1>3, <1>6, <1>7, <1>a, NullNotPage, Zenon DEF Alone
  <2>2. ASSUME NEW c \in Pages, c # n, c # b PROVE Alone(c, kind[c])'
    BY <1>3, <1>6, <1>7, <1>a, <2>2, NullNotPage, Zenon DEF Alone
  <2>q. QED BY <1>5, <2>1, <2>2, Zenon DEF OwnedAlone
<1>15. OwnedByProc(K, W)'
  <2>1. ByProc(n, "free", who[n]) /\ ByProc(b, "ibuf", who[b])
    BY <1>2, <1>3, <1>a, Zenon
  <2>2. ByProc(n, "node", q)' /\ ByProc(b, "buf", n)'
    BY <1>6, <2>1 DEF ByProc
  <2>3. ASSUME NEW c \in Pages PROVE ByProc(c, kind[c], who[c])'
    <3>1. ByProc(c, kind[c], who[c])
      BY <1>a, Zenon
    <3>q. QED BY <1>6, <3>1 DEF ByProc
  <2>q. QED BY <1>5, <2>2, <2>3, Zenon DEF OwnedByProc
<1>16. OwnedByPort(K, W)'
  <2>1. ByPort(n, "node", q)' /\ ByPort(b, "buf", n)'
    BY <1>2, <1>3, <1>6, <1>8, <1>a, Zenon DEF ByPort
  <2>2. ASSUME NEW c \in Pages, c # n PROVE ByPort(c, kind[c], who[c])'
    <3>1. ByPort(c, kind[c], who[c]) /\ pqpage' = pqpage
      BY <1>6, <1>a, Zenon
    <3>2. \A r \in Ports : OnList(r, c)' <=> OnList(r, c)
      BY <1>8, <2>2, Zenon
    <3>q. QED BY <3>1, <3>2 DEF ByPort
  <2>q. QED BY <1>5, <2>1, <2>2, Zenon DEF OwnedByPort
<1>17. OwnedByNode(K, W)'
  <2>1. ByNode(n, "free", who[n]) /\ ByNode(b, "ibuf", who[b])
    BY <1>2, <1>3, <1>a, Zenon
  <2>2. ByNode(n, "node", q)'
    BY <1>3, <1>7, <2>1, NullNotPage DEF ByNode
  <2>3. ByNode(b, "buf", n)'
    BY <1>3, <1>6, <1>7, <2>1, NullNotPage, Zenon DEF ByNode
  <2>4. ASSUME NEW c \in Pages, c # n, c # b PROVE ByNode(c, kind[c], who[c])'
    <3>1. ByNode(c, kind[c], who[c]) /\ ByNode(n, "free", who[n])
      BY <1>a, <2>1, Zenon
    <3>q. QED BY <1>6, <1>7, <2>4, <3>1, NullNotPage, Zenon DEF ByNode
  <2>q. QED BY <1>5, <2>2, <2>3, <2>4, Zenon DEF OwnedByNode
<1>18. Owned(K, W)'
  BY <1>5, <1>14, <1>15, <1>16, <1>17, Zenon DEF Owned
<1>q. QED BY <1>8, <1>9, <1>10, <1>11, <1>12, <1>13, <1>18, Zenon DEF IInv

LEMMA ArpRxPanicInv ==
  ASSUME IInv, ArpRxReply, ipc' = "panic"
  PROVE  IInv'
<1>0. TypeOK /\ LockInv /\ CallInv /\ NoLostWakeup
  BY Zenon DEF IInv
<1>1. /\ UNCHANGED <<freelist, content, reply, netlock, ptable_lock, queueVars, procVars, ibuf, iport,
                     drvVars, leaked>>
      /\ ipc = "net_rx" /\ seen_arp'
  BY Zenon DEF ArpRxReply, kalloc_fails
<1>2. TypeOK'
  BY <1>0, <1>1, Zenon DEF TypeOK, queueVars, procVars, drvVars
<1>3. LockInv'
  BY <1>0, <1>1, Zenon DEF LockInv, procVars
<1>4. CallInv'
  BY <1>0, <1>1, Zenon DEF CallInv, CallOf, procVars
<1>5. NoLostWakeup'
  BY <1>0, <1>1, Zenon DEF NoLostWakeup, procVars, queueVars
<1>q. QED BY <1>1, <1>2, <1>3, <1>4, <1>5, Quiet, Zenon DEF procVars

-----------------------------------------------------------------------------
(* The invariant, and what follows from it *)

LEMMA InitInv == Init => IInv
<1>1. SUFFICES ASSUME Init PROVE IInv
  OBVIOUS
<1> DEFINE kind == [b \in Pages |-> IF b \in RxPages THEN "rx" ELSE "free"]
           who == [b \in Pages |-> NULL]
<1>2. TypeOK
  <2>1. 0 \in 0 .. MAX_QUEUED_PER_PORT /\ Junk \in Nat /\ NULL \in PageOrNull
    BY QueueLimit DEF Junk, PageOrNull
  <2>q. QED BY <1>1, <2>1, Zenon DEF Init, NetInit, TypeOK
<1>3. LockInv
  BY <1>1, ContextsApart, Zenon DEF Init, NetInit, LockInv
<1>4. CallInv
  BY <1>1, Zenon DEF Init, NetInit, CallInv, CallOf, Receiving
<1>5. \A q \in Ports : pqcount[q] = 0 /\ pqhead[q] = NULL /\ pqtail[q] = NULL /\ pqpage[q] = NULL
  BY <1>1, Zenon DEF Init, NetInit
<1>6. ListInv
  BY <1>5 DEF ListInv, ListAt
<1>7. \A q \in Ports, b \in Pages : ~OnList(q, b)
  BY <1>5 DEF OnList
<1>8. CopyIntact /\ NoLostWakeup
  BY <1>1, Zenon DEF Init, NetInit, CopyIntact, NoLostWakeup
<1>9. /\ kind \in [Pages -> Kinds] /\ who \in [Pages -> Holders]
      /\ \A b \in Pages : kind[b] = IF b \in RxPages THEN "rx" ELSE "free"
  BY Zenon DEF Kinds, Holders
<1> HIDE DEF kind, who
<1>10. OwnedAlone(kind)
  BY <1>1, <1>9, NullNotPage, Zenon DEF Init, NetInit, OwnedAlone, Alone
<1>11. OwnedByProc(kind, who)
  BY <1>1, <1>9, NullNotPage, Zenon DEF Init, NetInit, OwnedByProc, ByProc
<1>12. OwnedByPort(kind, who)
  BY <1>5, <1>7, <1>9, NullNotPage, Zenon DEF OwnedByPort, ByPort
<1>13. OwnedByNode(kind, who)
  BY <1>1, <1>9, NullNotPage, Zenon DEF Init, NetInit, OwnedByNode, ByNode
<1>14. Owned(kind, who)
  BY <1>9, <1>10, <1>11, <1>12, <1>13, Zenon DEF Owned
<1>q. QED BY <1>2, <1>3, <1>4, <1>6, <1>8, <1>14, Zenon DEF IInv

LEMMA StutterInv ==
  ASSUME IInv, UNCHANGED vars
  PROVE  IInv'
<1>0. TypeOK /\ LockInv /\ CallInv /\ NoLostWakeup
  BY Zenon DEF IInv
<1>1. UNCHANGED <<freelist, content, netlock, ptable_lock, queueVars, pc, port, pkt, sbuf, killed, want,
                  ipc, ibuf, iport, reply, seen_arp, drvVars, leaked>>
  BY Zenon DEF vars, netVars, procVars, intrVars
<1>2. TypeOK'
  BY <1>0, <1>1, Zenon DEF TypeOK, queueVars, drvVars
<1>3. LockInv' /\ CallInv'
  BY <1>0, <1>1, Zenon DEF LockInv, CallInv, CallOf
<1>4. NoLostWakeup'
  BY <1>0, <1>1, Zenon DEF NoLostWakeup, queueVars
<1>q. QED BY <1>1, <1>2, <1>3, <1>4, Quiet, Zenon

LEMMA NextInv ==
  ASSUME IInv, [Next]_vars
  PROVE  IInv'
<1>1. ASSUME NEW p \in Procs, NEW q \in Ports, sys_bind(p, q) \/ RecvEnter(p, q) PROVE IInv'
  BY <1>1, BindInv, QuietProc, Zenon
<1>2. ASSUME NEW p \in Senders, NEW n \in Payloads, SendBuild(p, n) PROVE IInv'
  BY <1>2, SendBuildInv, ContextsApart, Zenon
<1>3. ASSUME NEW p \in Procs, sys_recv(p) \/ TrapExit(p) PROVE IInv'
  BY <1>3, QuietProc, RecvPopInv, RecvFreeBufInv, RecvFreePktInv, Zenon DEF sys_recv
<1>4. ASSUME NEW p \in Procs, sys_send(p) PROVE IInv'
  BY <1>4, SendCallInv, SendDoneInv, SendRefusedInv, SendFreeInv, Zenon DEF sys_send
<1>5. ASSUME NEW p \in Victims, kill(p) PROVE IInv'
  BY <1>5, QuietProc, ContextsApart, Zenon
<1>6. CASE NetRxUnknown \/ ArpRxDrop \/ ArpFree \/ \E q \in Ports : IpRxDrop(q)
  BY <1>6, DropFrameInv, Zenon DEF NetRxUnknown, ArpRxDrop, ArpFree, IpRxDrop
<1>7. CASE IpRxWakeup \/ \E q \in Ports : IpRxQueue(q)
  BY <1>7, IpRxWakeupInv, IpRxQueueInv, Zenon
<1>8. CASE ArpRxReply
  <2>1. ipc' = "arp" \/ ipc' = "panic"
    BY <1>8, Zenon DEF ArpRxReply
  <2>q. QED BY <1>8, <2>1, ArpRxReplyInv, ArpRxPanicInv, Zenon
<1>9. CASE ArpCall \/ ArpDone \/ ArpRefused
  BY <1>9, ArpCallInv, ArpDoneInv, ArpRefusedInv, Zenon
<1>10. CASE NetRxCall
  BY <1>10, NetRxCallInv, Zenon
<1>11. ASSUME NEW b \in Pages, DrvFree(b) PROVE IInv'
  BY <1>11, DrvFreeInv, Zenon
<1>12. ASSUME NEW b \in Pages, NEW n \in Frames, DrvAlloc(b, n) PROVE IInv'
  BY <1>12, DrvAllocInv, Zenon
<1>13. CASE UNCHANGED vars
  BY <1>13, StutterInv, Zenon
<1>q. QED BY <1>1, <1>2, <1>3, <1>4, <1>5, <1>6, <1>7, <1>8, <1>9, <1>10, <1>11, <1>12,
             <1>13, Zenon
         DEF Next, net_rx, ip_rx, arp_rx

LEMMA StackInv == Spec => []IInv
<1>1. IInv /\ [Next]_vars => IInv'
  BY NextInv, Zenon
<1>q. QED BY <1>1, InitInv, PTL DEF Spec

\* Where the pages under a name are.
LEMMA QueuePagesHeld ==
  ASSUME TypeOK, ListInv, NEW kind, NEW who, Owned(kind, who), NEW q \in Ports, NEW x \in QueuePages(q),
         x # NULL
  PROVE  /\ x \in Pages
         /\ \/ kind[x] \in {"pq", "node"} /\ who[x] = q
            \/ kind[x] = "buf" /\ kind[who[x]] = "node" /\ who[who[x]] = q
<1>1. CASE x = pqpage[q]
  <2>1. x \in Pages
    BY <1>1, Zenon DEF TypeOK, PageOrNull
  <2>q. QED BY <1>1, <2>1, Zenon DEF Owned, OwnedByPort, ByPort
<1>2. ASSUME NEW k \in 1 .. pqcount[q], x \in {Nodes(q)[k], fullbuf[Nodes(q)[k]]}
      PROVE  /\ x \in Pages
             /\ \/ kind[x] \in {"pq", "node"} /\ who[x] = q
                \/ kind[x] = "buf" /\ kind[who[x]] = "node" /\ who[who[x]] = q
  <2>1. Nodes(q)[k] \in Pages /\ kind[Nodes(q)[k]] = "node" /\ who[Nodes(q)[k]] = q
    BY NodePage
  <2>2. CASE x = Nodes(q)[k]
    BY <2>1, <2>2, Zenon
  <2>3. CASE x = fullbuf[Nodes(q)[k]]
    <3>1. x \in Pages
      BY <2>1, <2>3, Zenon DEF TypeOK, PageOrNull
    <3>2. kind[x] = "buf" /\ who[x] = Nodes(q)[k]
      BY <2>1, <2>3, <3>1, Zenon DEF Owned, OwnedByNode, ByNode
    <3>q. QED BY <2>1, <3>1, <3>2, Zenon
  <2>q. QED BY <1>2, <2>2, <2>3, Zenon
<1>q. QED BY <1>1, <1>2, Zenon DEF QueuePages

LEMMA CallPagesHeld ==
  ASSUME TypeOK, NEW kind, NEW who, Owned(kind, who), NEW p \in Procs, NEW x \in CallPages(p), x # NULL
  PROVE  /\ x \in Pages
         /\ \/ kind[x] \in {"pkt", "sbuf"} /\ who[x] = p
            \/ kind[x] = "buf" /\ kind[who[x]] = "pkt" /\ who[who[x]] = p
<1>1. CASE x = pkt[p] \/ (x = sbuf[p] /\ pc[p] # "transmit")
  <2>1. x \in Pages
    BY <1>1, Zenon DEF TypeOK, PageOrNull
  <2>q. QED BY <1>1, <2>1, Zenon DEF Owned, OwnedByProc, ByProc
<1>2. CASE pkt[p] # NULL /\ x = fullbuf[pkt[p]]
  <2>1. pkt[p] \in Pages /\ x \in Pages
    BY <1>2, Zenon DEF TypeOK, PageOrNull
  <2>2. kind[pkt[p]] = "pkt" /\ who[pkt[p]] = p
    BY <2>1, Zenon DEF Owned, OwnedByProc, ByProc
  <2>3. kind[x] = "buf" /\ who[x] = pkt[p]
    BY <1>2, <2>1 DEF Owned, OwnedByNode, ByNode
  <2>q. QED BY <2>1, <2>2, <2>3, Zenon
<1>q. QED BY <1>1, <1>2, Zenon DEF CallPages

LEMMA IntrPagesHeld ==
  ASSUME TypeOK, NEW kind, NEW who, Owned(kind, who), NEW x \in IntrPages \cup leaked, x # NULL
  PROVE  x \in Pages /\ kind[x] \in {"ibuf", "reply", "leaked"}
<1>1. x \in Pages
  BY Zenon DEF IntrPages, TypeOK, PageOrNull
<1>q. QED BY <1>1, Zenon DEF IntrPages, Owned, OwnedAlone, Alone

LEMMA StackPagesAre ==
  ASSUME NEW x
  PROVE  x \in StackPages <=>
           x # NULL /\ (\/ \E q \in Ports : x \in QueuePages(q)
                        \/ \E p \in Procs : x \in CallPages(p)
                        \/ x \in IntrPages \cup leaked)
<1> DEFINE A == UNION {QueuePages(q) : q \in Ports}
           B == UNION {CallPages(p) : p \in Procs}
<1>1. x \in A <=> \E q \in Ports : x \in QueuePages(q)
  BY Zenon
<1>2. x \in B <=> \E p \in Procs : x \in CallPages(p)
  BY Zenon
<1>3. StackPages = (A \cup B \cup IntrPages \cup leaked) \ {NULL}
  BY Zenon DEF StackPages
<1> HIDE DEF A, B
<1>q. QED BY <1>1, <1>2, <1>3, Zenon

LEMMA StackPagesHeld ==
  ASSUME TypeOK, ListInv, NEW kind, NEW who, Owned(kind, who), NEW x
  PROVE  x \in StackPages <=>
           x \in Pages /\ kind[x] \in {"pq", "node", "buf", "pkt", "sbuf", "ibuf", "reply", "leaked"}
<1>1. ASSUME x \in StackPages
      PROVE  x \in Pages /\ kind[x] \in {"pq", "node", "buf", "pkt", "sbuf", "ibuf", "reply", "leaked"}
  <2>1. x # NULL
    BY <1>1, StackPagesAre, Zenon
  <2>2. ASSUME NEW q \in Ports, x \in QueuePages(q) PROVE x \in Pages /\ kind[x] \in {"pq", "node", "buf"}
    BY <2>1, <2>2, QueuePagesHeld
  <2>3. ASSUME NEW p \in Procs, x \in CallPages(p) PROVE x \in Pages /\ kind[x] \in {"pkt", "sbuf", "buf"}
    BY <2>1, <2>3, CallPagesHeld
  <2>4. ASSUME x \in IntrPages \cup leaked PROVE x \in Pages /\ kind[x] \in {"ibuf", "reply", "leaked"}
    BY <2>1, <2>4, IntrPagesHeld, Zenon
  <2>q. QED BY <1>1, <2>2, <2>3, <2>4, StackPagesAre, Zenon
<1>2. ASSUME x \in Pages, kind[x] \in {"pq", "node", "buf", "pkt", "sbuf", "ibuf", "reply", "leaked"}
      PROVE  x \in StackPages
  <2>1. x # NULL
    BY <1>2, NullNotPage, Zenon
  <2>2. ASSUME NEW q \in Ports, NEW n, OnList(q, n) PROVE {n, fullbuf[n]} \subseteq QueuePages(q)
    BY <2>2, Zenon DEF OnList, QueuePages
  <2>3. CASE kind[x] = "pq"
    <3>1. who[x] \in Ports /\ pqpage[who[x]] = x
      BY <1>2, <2>3, Zenon DEF Owned, OwnedByPort, ByPort
    <3>2. x \in QueuePages(who[x])
      BY <3>1, Zenon DEF QueuePages
    <3>q. QED BY <2>1, <3>1, <3>2, StackPagesAre, Zenon
  <2>4. CASE kind[x] = "node"
    <3>1. who[x] \in Ports /\ OnList(who[x], x)
      BY <1>2, <2>4, Zenon DEF Owned, OwnedByPort, ByPort
    <3>2. x \in QueuePages(who[x])
      BY <2>2, <3>1, Zenon
    <3>q. QED BY <2>1, <3>1, <3>2, StackPagesAre, Zenon
  <2>5. CASE kind[x] = "buf"
    <3> DEFINE n == who[x]
    <3>1. n \in Pages /\ fullbuf[n] = x
      BY <1>2, <2>5, Zenon DEF Owned, OwnedByNode, ByNode
    <3>2. kind[n] \in {"node", "pkt"}
      BY <2>1, <3>1, Zenon DEF Owned, OwnedByNode, ByNode
    <3>3. CASE kind[n] = "node"
      <4>1. who[n] \in Ports /\ OnList(who[n], n)
        BY <3>1, <3>3, Zenon DEF Owned, OwnedByPort, ByPort
      <4>2. x \in QueuePages(who[n])
        BY <2>2, <3>1, <4>1, Zenon
      <4>q. QED BY <2>1, <4>1, <4>2, StackPagesAre, Zenon
    <3>4. CASE kind[n] = "pkt"
      <4>1. who[n] \in Procs /\ pkt[who[n]] = n
        BY <3>1, <3>4, Zenon DEF Owned, OwnedByProc, ByProc
      <4>2. x \in CallPages(who[n])
        BY <3>1, <4>1, NullNotPage, Zenon DEF CallPages
      <4>q. QED BY <2>1, <4>1, <4>2, StackPagesAre, Zenon
    <3>q. QED BY <3>2, <3>3, <3>4, Zenon
  <2>6. CASE kind[x] \in {"pkt", "sbuf"}
    <3>1. who[x] \in Procs /\ x \in CallPages(who[x])
      BY <1>2, <2>6 DEF Owned, OwnedByProc, ByProc, CallPages
    <3>q. QED BY <2>1, <3>1, StackPagesAre, Zenon
  <2>7. CASE kind[x] \in {"ibuf", "reply", "leaked"}
    BY <1>2, <2>1, <2>7, StackPagesAre, Zenon DEF IntrPages, Owned, OwnedAlone, Alone
  <2>q. QED BY <1>2, <2>3, <2>4, <2>5, <2>6, <2>7, Zenon
<1>q. QED BY <1>1, <1>2, Zenon

LEMMA IInvOwnership ==
  ASSUME IInv
  PROVE  StackOwnership
<1>0. TypeOK /\ ListInv
  BY Zenon DEF IInv
<1>1. PICK kind, who : Owned(kind, who)
  BY Zenon DEF IInv
<1>2. \A q, r \in Ports : q # r => QueuePages(q) \cap QueuePages(r) \subseteq {NULL}
  BY <1>0, <1>1, QueuePagesHeld
<1>3. \A p, r \in Procs : p # r => CallPages(p) \cap CallPages(r) \subseteq {NULL}
  BY <1>0, <1>1, CallPagesHeld
<1>4. \A q \in Ports, p \in Procs : QueuePages(q) \cap CallPages(p) \subseteq {NULL}
  BY <1>0, <1>1, QueuePagesHeld, CallPagesHeld
<1>5. \A q \in Ports : QueuePages(q) \cap (IntrPages \cup leaked) \subseteq {NULL}
  BY <1>0, <1>1, QueuePagesHeld, IntrPagesHeld
<1>6. \A p \in Procs : CallPages(p) \cap (IntrPages \cup leaked) \subseteq {NULL}
  BY <1>0, <1>1, CallPagesHeld, IntrPagesHeld
<1>7. ASSUME NEW q \in Ports, NEW j \in 1 .. pqcount[q], NEW k \in 1 .. pqcount[q]
      PROVE  /\ Nodes(q)[j] # fullbuf[Nodes(q)[k]]
             /\ j # k => /\ Nodes(q)[j] # Nodes(q)[k]
                         /\ fullbuf[Nodes(q)[j]] # fullbuf[Nodes(q)[k]]
  <2>1. /\ Nodes(q)[j] \in Pages /\ kind[Nodes(q)[j]] = "node" /\ fullbuf[Nodes(q)[j]] # NULL
        /\ Nodes(q)[k] \in Pages /\ kind[Nodes(q)[k]] = "node" /\ fullbuf[Nodes(q)[k]] # NULL
    BY <1>0, <1>1, NodePage
  <2>2. fullbuf[Nodes(q)[j]] \in Pages /\ fullbuf[Nodes(q)[k]] \in Pages
    BY <1>0, <2>1, Zenon DEF TypeOK, PageOrNull
  <2>3. \A n \in Pages : fullbuf[n] \in Pages => kind[fullbuf[n]] = "buf" /\ who[fullbuf[n]] = n
    BY <1>1, Zenon DEF Owned, OwnedByNode, ByNode
  <2>4. j # k => Nodes(q)[j] # Nodes(q)[k]
    BY <1>0 DEF ListInv, ListAt
  <2>q. QED BY <2>1, <2>2, <2>3, <2>4
<1>8. /\ \A x \in freelist : x \in Pages /\ kind[x] = "free"
      /\ \A x \in drv : x \in Pages /\ kind[x] \in {"drv", "tx", "txi"}
      /\ rcv # NULL => rcv \in Pages /\ kind[rcv] = "rcv"
  BY <1>0, <1>1, Zenon DEF TypeOK, PageOrNull, Owned, OwnedAlone, Alone
<1>9. \A x \in StackPages :
        x \in Pages /\ kind[x] \in {"pq", "node", "buf", "pkt", "sbuf", "ibuf", "reply", "leaked"}
  BY <1>0, <1>1, StackPagesHeld, Zenon
<1>10. drv \cap StackPages = {}
  BY <1>8, <1>9, Zenon
<1>11. rcv \notin drv \cup StackPages
  BY <1>8, <1>9, NullNotPage, Zenon
<1>12. freelist \cap (drv \cup StackPages \cup {rcv}) = {}
  BY <1>8, <1>9, NullNotPage, Zenon
<1>13. Pages \ RxPages = freelist \cup drv \cup StackPages \cup ({rcv} \ {NULL})
  <2>1. ASSUME NEW x \in Pages, x \notin RxPages
        PROVE  x \in freelist \cup drv \cup StackPages \cup ({rcv} \ {NULL})
    <3>1. kind[x] # "rx" /\ kind[x] \in Kinds
      BY <1>1, <2>1, Zenon DEF Owned, OwnedAlone, Alone
    <3>2. CASE kind[x] \in {"free", "drv", "tx", "txi", "rcv"}
      BY <1>1, <3>2, NullNotPage, Zenon DEF Owned, OwnedAlone, Alone
    <3>3. CASE kind[x] \in {"pq", "node", "buf", "pkt", "sbuf", "ibuf", "reply", "leaked"}
      BY <1>0, <1>1, <3>3, StackPagesHeld, Zenon
    <3>q. QED BY <3>1, <3>2, <3>3, Zenon DEF Kinds
  <2>2. \A x \in Pages : x \in RxPages => kind[x] = "rx"
    BY <1>1, Zenon DEF Owned, OwnedAlone, Alone
  <2>q. QED BY <1>8, <1>9, <2>1, <2>2, Zenon
<1>q. QED BY <1>2, <1>3, <1>4, <1>5, <1>6, <1>7, <1>10, <1>11, <1>12, <1>13, Zenon
             DEF StackOwnership

\* Above the driver no page is lost, shared or freed too early, what recv copies
\* out is the frame it took, and no receiver sleeps through a datagram, whatever
\* the number of processes, ports and pages (net.c:155-220, 375-430; proc.c:379-410).
THEOREM StackSafety == Spec => []StackSafe
<1>1. IInv => StackSafe
  BY IInvOwnership, Zenon DEF IInv, StackSafe
<1>q. QED BY <1>1, StackInv, PTL

-----------------------------------------------------------------------------
(* The queues are FIFO queues of frames *)

Bound == {q \in Ports : pqpage[q] # NULL}
Queued(q) == [k \in 1 .. pqcount[q] |-> content[fullbuf[Nodes(q)[k]]]]
Queues == [q \in Ports |-> Queued(q)]

\* The page of a queued frame.
LEMMA FramePage ==
  ASSUME TypeOK, ListInv, NEW kind, NEW who, Owned(kind, who), NEW q \in Ports,
         NEW k \in 1 .. pqcount[q]
  PROVE  LET n == Nodes(q)[k] IN
         /\ n \in Pages /\ kind[n] = "node" /\ who[n] = q
         /\ fullbuf[n] \in Pages /\ kind[fullbuf[n]] = "buf" /\ who[fullbuf[n]] = n
         /\ content[fullbuf[n]] \in Frames
<1>1. LET n == Nodes(q)[k] IN
      n \in Pages /\ kind[n] = "node" /\ who[n] = q /\ fullbuf[n] # NULL
  BY NodePage, Zenon
<1>2. fullbuf[Nodes(q)[k]] \in Pages
  BY <1>1, Zenon DEF TypeOK, PageOrNull
<1>q. QED BY <1>1, <1>2 DEF Owned, OwnedByNode, ByNode

\* A queue holds the same frames while its list and the pages of its frames are the same.
LEMMA QueuedSame ==
  ASSUME TypeOK, ListInv, NEW kind, NEW who, Owned(kind, who), NEW q \in Ports,
         pqcount'[q] = pqcount[q], Nodes(q)' = Nodes(q),
         \A n \in Pages : kind[n] = "node" => fullbuf'[n] = fullbuf[n],
         \A c \in Pages : kind[c] = "buf" /\ kind[who[c]] = "node" => content'[c] = content[c]
  PROVE  Queued(q)' = Queued(q)
<1>1. ASSUME NEW k \in 1 .. pqcount[q]
      PROVE  content'[fullbuf'[Nodes(q)[k]]] = content[fullbuf[Nodes(q)[k]]]
  BY FramePage
<1>q. QED BY <1>1, Zenon DEF Queued

\* Steps that change no queue and no result.
LEMMA FifoSame ==
  ASSUME Queues' = Queues, Bound' = Bound, want' = want
  PROVE  UNCHANGED FifoQueues!vars
BY Zenon DEF FifoQueues!vars, Queues, Queued, Bound

LEMMA FifoUntouched ==
  ASSUME UNCHANGED <<queueVars, content, want>>
  PROVE  UNCHANGED FifoQueues!vars
<1>1. UNCHANGED <<pqpage, pqhead, pqcount, fullbuf, next, content, want>>
  BY Zenon DEF queueVars
<1>2. Queues' = Queues /\ Bound' = Bound
  BY <1>1, Zenon DEF Queues, Queued, Nodes, Bound
<1>q. QED BY <1>1, <1>2, FifoSame, Zenon

\* A page that holds no frame of a queue is written.
LEMMA FifoWritten ==
  ASSUME TypeOK, ListInv, NEW kind, NEW who, Owned(kind, who), UNCHANGED <<queueVars, want>>,
         NEW b \in Pages, kind[b] # "buf", \A c \in Pages : c # b => content'[c] = content[c]
  PROVE  UNCHANGED FifoQueues!vars
<1>1. UNCHANGED <<pqpage, pqhead, pqcount, fullbuf, next, want>>
  BY Zenon DEF queueVars
<1>2. \A q \in Ports : Nodes(q)' = Nodes(q)
  BY <1>1, Zenon DEF Nodes
<1>3. \A q \in Ports : Queued(q)' = Queued(q)
  BY <1>1, <1>2, QueuedSame, Zenon
<1>4. Queues' = Queues /\ Bound' = Bound
  BY <1>1, <1>3, Zenon DEF Queues, Bound
<1>q. QED BY <1>1, <1>4, FifoSame, Zenon

LEMMA FifoKalloc ==
  ASSUME IInv, UNCHANGED <<queueVars, want>>, NEW b \in freelist, NEW x,
         content' = [content EXCEPT ![b] = x]
  PROVE  UNCHANGED FifoQueues!vars
<1>1. TypeOK /\ ListInv
  BY Zenon DEF IInv
<1>2. PICK kind, who : Owned(kind, who)
  BY Zenon DEF IInv
<1>3. b \in Pages /\ kind[b] = "free"
  BY <1>1, <1>2, Zenon DEF TypeOK, Owned, OwnedAlone, Alone
<1>4. \A c \in Pages : c # b => content'[c] = content[c]
  BY <1>1, Zenon DEF TypeOK
<1>q. QED BY <1>1, <1>2, <1>3, <1>4, FifoWritten, Zenon

LEMMA FifoKfree ==
  ASSUME IInv, UNCHANGED <<queueVars, want>>, NEW b \in Pages, kfree(b),
         \/ \E p \in Procs : b = sbuf[p]
         \/ b = ibuf
         \/ b \in drv
  PROVE  UNCHANGED FifoQueues!vars
<1>1. TypeOK /\ ListInv
  BY Zenon DEF IInv
<1>2. PICK kind, who : Owned(kind, who)
  BY Zenon DEF IInv
<1>3. kind[b] # "buf"
  BY <1>2 DEF Owned, OwnedAlone, Alone, OwnedByProc, ByProc
<1>4. content' = [content EXCEPT ![b] = Junk]
  BY NullNotPage, Zenon DEF kfree
<1>5. \A c \in Pages : c # b => content'[c] = content[c]
  BY <1>1, <1>4, Zenon DEF TypeOK
<1>q. QED BY <1>1, <1>2, <1>3, <1>5, FifoWritten, Zenon

\* bind makes a port bound ...
LEMMA FifoBind ==
  ASSUME IInv, NEW p \in Procs, NEW q \in Ports, sys_bind(p, q)
  PROVE  FifoQueues!Bind(q)
<1>0. TypeOK /\ ListInv
  BY Zenon DEF IInv
<1>1. PICK kind, who : Owned(kind, who)
  BY Zenon DEF IInv
<1>2. PICK b \in Pages : pqpage' = [pqpage EXCEPT ![q] = b]
  BY Zenon DEF sys_bind, Bind
<1>3. pqpage[q] = NULL /\ UNCHANGED <<content, fullbuf, next, want>>
  BY Zenon DEF sys_bind, Bind
<1>4. pqcount[q] = 0 /\ pqhead[q] = NULL /\ pqtail[q] = NULL
  <2>1. ~(pqcount[q] > 0) /\ pqcount[q] \in Nat
    BY <1>0, <1>3, NodesFacts, Zenon DEF ListInv, ListAt
  <2>2. pqcount[q] = 0
    BY <2>1
  <2>q. QED BY <1>0, <2>2, Zenon DEF ListInv, ListAt
<1>5. \A r \in Ports : /\ pqcount'[r] = pqcount[r] /\ pqhead'[r] = pqhead[r]
                       /\ pqpage'[r] = IF r = q THEN b ELSE pqpage[r]
  BY <1>0, <1>2, <1>4, Zenon DEF sys_bind, Bind, TypeOK
<1>6. \A r \in Ports : Nodes(r)' = Nodes(r)
  BY <1>3, <1>5, Zenon DEF Nodes
<1>7. \A r \in Ports : Queued(r)' = Queued(r)
  BY <1>0, <1>1, <1>3, <1>5, <1>6, QueuedSame, Zenon
<1>8. Queues' = Queues
  BY <1>7, Zenon DEF Queues
<1>9. q \notin Bound /\ Bound' = Bound \cup {q}
  BY <1>3, <1>5, NullNotPage, Zenon DEF Bound
<1>q. QED BY <1>3, <1>8, <1>9, Zenon DEF FifoQueues!Bind, Queues, Queued, Bound

\* ... recv takes the oldest frame of the port's queue ...
LEMMA QueuedSeq ==
  ASSUME TypeOK, ListInv, NEW kind, NEW who, Owned(kind, who), NEW q \in Ports
  PROVE  /\ Queued(q) \in Seq(Frames) /\ Len(Queued(q)) = pqcount[q]
         /\ \A k \in 1 .. pqcount[q] : Queued(q)[k] = content[fullbuf[Nodes(q)[k]]]
<1>1. pqcount[q] \in Nat
  BY NodesFacts, Zenon
<1>2. \A k \in 1 .. pqcount[q] : content[fullbuf[Nodes(q)[k]]] \in Frames
  BY FramePage, Zenon
<1>3. Queued(q) \in [1 .. pqcount[q] -> Frames]
  BY <1>2, Zenon DEF Queued
<1>4. \A k \in 1 .. pqcount[q] : Queued(q)[k] = content[fullbuf[Nodes(q)[k]]]
  BY Zenon DEF Queued
<1>q. QED BY <1>1, <1>3, <1>4

LEMMA FifoTake ==
  ASSUME IInv, NEW p \in Procs, RecvPop(p)
  PROVE  \E q \in Ports : FifoQueues!Take(p, q)
<1>0. TypeOK /\ ListInv /\ CallInv
  BY Zenon DEF IInv
<1>1. PICK kind, who : Owned(kind, who)
  BY Zenon DEF IInv
<1>a. PICK q \in Ports : q = port[p]
  BY <1>0, Zenon DEF RecvPop, CallInv, CallOf, Receiving
<1> DEFINE n == pqcount[q]
           s == Queued(q)
<1>2. n # 0 /\ Unlink(q) /\ UNCHANGED <<content, next, pqpage, fullbuf>>
  BY <1>a, Zenon DEF RecvPop
<1>3. want[p] = Junk /\ want' = [want EXCEPT ![p] = content[fullbuf[pqhead[q]]]]
  BY <1>0, <1>a, Zenon DEF RecvPop, CallInv, CallOf
<1>4. /\ pqhead[q] = Nodes(q)[1] /\ 1 \in 1 .. n
      /\ pqcount'[q] = n - 1 /\ \A r \in Ports : r # q => pqcount'[r] = pqcount[r]
      /\ Nodes(q)' = [k \in 1 .. n - 1 |-> Nodes(q)[k + 1]]
      /\ \A r \in Ports : r # q => Nodes(r)' = Nodes(r)
  BY <1>0, <1>2, ListUnlink, Zenon
<1>5. /\ n \in Nat /\ s \in Seq(Frames) /\ Len(s) = n
      /\ \A k \in 1 .. n : s[k] = content[fullbuf[Nodes(q)[k]]]
  BY <1>0, <1>1, <1>2, QueuedSeq, NodesFacts, Zenon
<1>6. Queued(q)' = [k \in 1 .. n - 1 |-> s[k + 1]]
  <2>1. Queued(q)' = [k \in 1 .. n - 1 |-> content[fullbuf[Nodes(q)'[k]]]]
    BY <1>2, <1>4, Zenon DEF Queued
  <2>2. ASSUME NEW k \in 1 .. n - 1 PROVE content[fullbuf[Nodes(q)'[k]]] = s[k + 1]
    <3>1. k + 1 \in 1 .. n
      BY <1>5
    <3>q. QED BY <1>4, <1>5, <3>1, Zenon
  <2> HIDE DEF s, n
  <2>q. QED BY <2>1, <2>2, Zenon
<1>7. s # <<>> /\ Head(s) = content[fullbuf[pqhead[q]]] /\ Tail(s) = [k \in 1 .. n - 1 |-> s[k + 1]]
  <2> HIDE DEF s, n
  <2>1. s # <<>> /\ Head(s) = s[1]
    BY <1>4, <1>5
  <2>2. /\ Tail(s) \in Seq(Frames) /\ Len(Tail(s)) = n - 1
        /\ \A k \in 1 .. n - 1 : Tail(s)[k] = s[k + 1]
    BY <1>5, <2>1
  <2>3. Tail(s) \in [1 .. n - 1 -> Frames]
    BY <2>2, SeqFunction, Zenon
  <2>q. QED BY <1>4, <1>5, <2>1, <2>2, <2>3, Zenon
<1>8. \A r \in Ports : r # q => Queued(r)' = Queued(r)
  BY <1>0, <1>1, <1>2, <1>4, QueuedSame, Zenon
<1>9. Queues' = [Queues EXCEPT ![q] = Tail(@)] /\ Queues[q] = s
  <2>1. \A r \in Ports : Queues[r] = Queued(r)
    BY Zenon DEF Queues
  <2>2. Queues' = [r \in Ports |-> Queued(r)']
    BY Zenon DEF Queues
  <2>3. \A r \in Ports : Queued(r)' = IF r = q THEN Tail(Queues[q]) ELSE Queues[r]
    BY <1>2, <1>6, <1>7, <1>8, <2>1, Zenon
  <2>4. Queues = [r \in Ports |-> Queues[r]]
    BY Zenon DEF Queues
  <2>q. QED BY <2>1, <2>2, <2>3, <2>4, Zenon DEF s
<1>10. Bound' = Bound
  BY <1>2, Zenon DEF Bound
<1>11. /\ want[p] = Junk /\ Queues[q] # <<>> /\ want' = [want EXCEPT ![p] = Head(Queues[q])]
       /\ Queues' = [Queues EXCEPT ![q] = Tail(@)] /\ UNCHANGED Bound
  BY <1>3, <1>7, <1>9, <1>10, Zenon
<1>12. FifoQueues!Take(p, q)
  BY <1>11, Zenon DEF FifoQueues!Take, Queues, Queued, Bound
<1>q. QED BY <1>2, <1>12, Zenon

\* ... and is done with it when its page and its node are freed ...
LEMMA FifoReturn ==
  ASSUME IInv, NEW p \in Procs, RecvFreePkt(p)
  PROVE  FifoQueues!Return(p)
<1>0. TypeOK /\ ListInv /\ CallInv
  BY Zenon DEF IInv
<1>1. PICK kind, who : Owned(kind, who)
  BY Zenon DEF IInv
<1>2. /\ pc[p] = "freepkt" /\ kfree(pkt[p]) /\ want' = [want EXCEPT ![p] = Junk]
      /\ next' = [next EXCEPT ![pkt[p]] = NULL] /\ UNCHANGED <<pqpage, pqhead, pqtail, pqcount, fullbuf>>
  BY Zenon DEF RecvFreePkt
<1>3. want[p] # Junk /\ pkt[p] \in Pages
  BY <1>0, <1>2, ContentsNat, Zenon DEF CallInv, CallOf, TypeOK, PageOrNull
<1>4. kind[pkt[p]] = "pkt"
  BY <1>1, <1>3, Zenon DEF Owned, OwnedByProc, ByProc
<1>5. \A c \in Pages : c # pkt[p] => content'[c] = content[c] /\ next'[c] = next[c]
  BY <1>0, <1>2, <1>3, NullNotPage, Zenon DEF kfree, TypeOK
<1>6. \A q \in Ports : Nodes(q)' = Nodes(q)
  <2>1. \A q \in Ports : \A k \in 1 .. pqcount[q] : next'[Nodes(q)[k]] = next[Nodes(q)[k]]
    BY <1>0, <1>1, <1>4, <1>5, NodePage
  <2>q. QED BY <1>0, <1>2, <2>1, ListFrame, Zenon
<1>7. \A q \in Ports : Queued(q)' = Queued(q)
  <2>1. \A c \in Pages : kind[c] = "buf" /\ kind[who[c]] = "node" => content'[c] = content[c]
    BY <1>4, <1>5, Zenon
  <2>q. QED BY <1>0, <1>1, <1>2, <1>6, <2>1, QueuedSame, Zenon
<1>8. Queues' = Queues /\ Bound' = Bound
  BY <1>2, <1>7, Zenon DEF Queues, Bound
<1>q. QED BY <1>2, <1>3, <1>8, Zenon DEF FifoQueues!Return, Queues, Queued, Bound

\* ... the first of which nobody sees ...
LEMMA FifoFreeBuf ==
  ASSUME IInv, NEW p \in Procs, RecvFreeBuf(p)
  PROVE  UNCHANGED FifoQueues!vars
<1>0. TypeOK /\ ListInv /\ CallInv
  BY Zenon DEF IInv
<1>1. PICK kind, who : Owned(kind, who)
  BY Zenon DEF IInv
<1>2. /\ pc[p] = "copy" /\ kfree(fullbuf[pkt[p]]) /\ fullbuf' = [fullbuf EXCEPT ![pkt[p]] = NULL]
      /\ UNCHANGED <<pqpage, pqhead, pqtail, pqcount, next, want>>
  BY Zenon DEF RecvFreeBuf
<1>3. LET n == pkt[p] IN
      /\ n \in Pages /\ kind[n] = "pkt" /\ who[n] = p
      /\ fullbuf[n] \in Pages /\ kind[fullbuf[n]] = "buf" /\ who[fullbuf[n]] = n
  BY <1>0, <1>1, <1>2, CopyPage
<1>4. \A c \in Pages : c # fullbuf[pkt[p]] => content'[c] = content[c]
  BY <1>0, <1>2, <1>3, NullNotPage, Zenon DEF kfree, TypeOK
<1>5. \A n \in Pages : kind[n] = "node" => fullbuf'[n] = fullbuf[n]
  BY <1>0, <1>2, <1>3, Zenon DEF TypeOK
<1>6. \A c \in Pages : kind[c] = "buf" /\ kind[who[c]] = "node" => content'[c] = content[c]
  BY <1>3, <1>4, Zenon
<1>7. \A q \in Ports : Nodes(q)' = Nodes(q)
  BY <1>2, Zenon DEF Nodes
<1>8. \A q \in Ports : Queued(q)' = Queued(q)
  BY <1>0, <1>1, <1>2, <1>5, <1>6, <1>7, QueuedSame
<1>9. Queues' = Queues /\ Bound' = Bound
  BY <1>2, <1>8, Zenon DEF Queues, Bound
<1>q. QED BY <1>2, <1>9, FifoSame, Zenon

\* ... and ip_rx puts the datagram's frame at the end.
LEMMA FifoArrive ==
  ASSUME IInv, NEW q \in Ports, IpRxQueue(q)
  PROVE  \E f \in Frames : FifoQueues!Arrive(q, f)
<1>0. TypeOK /\ ListInv /\ CallInv
  BY Zenon DEF IInv
<1>1. PICK kind, who : Owned(kind, who)
  BY Zenon DEF IInv
<1>2. PICK b \in Pages : /\ kalloc(b) /\ kind[b] = "free"
                         /\ fullbuf' = [fullbuf EXCEPT ![b] = ibuf] /\ Link(q, b)
  BY <1>1, Zenon DEF IpRxQueue, kalloc, Owned, OwnedAlone, Alone
<1>i. ibuf \in Pages /\ content[ibuf] \in Frames
  BY <1>0, <1>1, Zenon DEF IpRxQueue, Owned, OwnedAlone, Alone, OwnedByNode, ByNode,
     CallInv, CallOf, TypeOK, PageOrNull
<1>3. PICK f \in Frames : f = content[ibuf]
  BY <1>i, Zenon
<1>4. /\ pqpage[q] # NULL /\ ~Full(q) /\ pqcount' = [pqcount EXCEPT ![q] = @ + 1]
      /\ UNCHANGED <<content, pqpage, want>>
  BY Zenon DEF IpRxQueue, procVars
<1> DEFINE n == pqcount[q]
           s == Queued(q)
<1>5. /\ Nodes(q)' = [k \in 1 .. n + 1 |-> IF k = n + 1 THEN b ELSE Nodes(q)[k]]
      /\ \A r \in Ports : r # q => Nodes(r)' = Nodes(r)
  <2>1. \A r \in Ports : ~OnList(r, b)
    BY <1>1, <1>2, Zenon DEF Owned, OwnedByPort, ByPort
  <2>2. ASSUME pqcount[q] > 0 PROVE pqtail[q] \in Pages /\ OnList(q, pqtail[q])
    <3>1. pqcount[q] \in 1 .. pqcount[q]
      BY <1>0, <2>2, NodesFacts
    <3>q. QED BY <1>0, <2>2, <3>1, Zenon DEF ListInv, ListAt, OnList
  <2>3. \A r \in Ports : r # q /\ pqcount[q] > 0 => ~OnList(r, pqtail[q])
    BY <1>1, <2>2, Zenon DEF Owned, OwnedByPort, ByPort
  <2>q. QED BY <1>0, <1>2, <1>4, <2>1, <2>3, ListLink, Zenon
<1>6. /\ n \in Nat /\ s \in Seq(Frames) /\ Len(s) = n
      /\ \A k \in 1 .. n : s[k] = content[fullbuf[Nodes(q)[k]]]
  BY <1>0, <1>1, QueuedSeq, NodesFacts, Zenon
<1>7. fullbuf'[b] = ibuf /\ \A c \in Pages : c # b => fullbuf'[c] = fullbuf[c]
  BY <1>0, <1>2, Zenon DEF TypeOK
<1>8. pqcount'[q] = n + 1 /\ \A r \in Ports : r # q => pqcount'[r] = pqcount[r]
  BY <1>0, <1>4, Zenon DEF TypeOK
<1>9. Queued(q)' = Append(s, f)
  <2>1. Queued(q)' = [k \in 1 .. n + 1 |-> content[fullbuf'[Nodes(q)'[k]]]]
    BY <1>4, <1>8, Zenon DEF Queued
  <2>2. ASSUME NEW k \in 1 .. n PROVE content[fullbuf'[Nodes(q)'[k]]] = s[k]
    <3>1. Nodes(q)'[k] = Nodes(q)[k]
      BY <1>5, <1>6
    <3>2. Nodes(q)[k] \in Pages /\ Nodes(q)[k] # b
      BY <1>0, <1>1, <1>2, NodePage
    <3>q. QED BY <1>6, <1>7, <3>1, <3>2, Zenon
  <2>3. content[fullbuf'[Nodes(q)'[n + 1]]] = f
    BY <1>i, <1>3, <1>5, <1>6, <1>7
  <2>4. \A k \in 1 .. n + 1 : k \in 1 .. n \/ k = n + 1
    BY <1>6
  <2> HIDE DEF s, n
  <2>5. /\ Append(s, f) \in Seq(Frames) /\ Len(Append(s, f)) = n + 1
        /\ \A k \in 1 .. n : Append(s, f)[k] = s[k]
        /\ Append(s, f)[n + 1] = f
    BY <1>3, <1>6
  <2>6. Append(s, f) \in [1 .. n + 1 -> Frames]
    BY <2>5, SeqFunction, Zenon
  <2>7. \A k \in 1 .. n + 1 : content[fullbuf'[Nodes(q)'[k]]] = Append(s, f)[k]
    BY <2>2, <2>3, <2>4, <2>5, Zenon
  <2>q. QED BY <2>1, <2>6, <2>7, Zenon
<1>10. \A r \in Ports : r # q => Queued(r)' = Queued(r)
  BY <1>0, <1>1, <1>2, <1>4, <1>5, <1>7, <1>8, QueuedSame
<1>11. Queues' = [Queues EXCEPT ![q] = Append(@, f)] /\ Queues[q] = s
  <2>1. \A r \in Ports : Queues[r] = Queued(r)
    BY Zenon DEF Queues
  <2>2. Queues' = [r \in Ports |-> Queued(r)']
    BY Zenon DEF Queues
  <2>3. \A r \in Ports : Queued(r)' = IF r = q THEN Append(Queues[q], f) ELSE Queues[r]
    BY <1>9, <1>10, <2>1, Zenon
  <2>4. Queues = [r \in Ports |-> Queues[r]]
    BY Zenon DEF Queues
  <2>q. QED BY <2>1, <2>2, <2>3, <2>4, Zenon DEF s
<1>12. /\ q \in Bound /\ Len(Queues[q]) < MAX_QUEUED_PER_PORT
       /\ Queues' = [Queues EXCEPT ![q] = Append(@, f)] /\ UNCHANGED <<Bound, want>>
  <2>1. n < MAX_QUEUED_PER_PORT
    BY <1>4, <1>6, QueueLimit DEF Full
  <2>q. QED BY <1>4, <1>6, <1>11, <2>1, Zenon DEF Bound
<1>13. FifoQueues!Arrive(q, f)
  BY <1>12, Zenon DEF FifoQueues!Arrive, Queues, Queued, Bound
<1>q. QED BY <1>3, <1>13, Zenon

LEMMA FifoInit ==
  ASSUME Init
  PROVE  FifoQueues!Init
<1>1. /\ \A q \in Ports : pqcount[q] = 0 /\ pqpage[q] = NULL
      /\ want = [p \in Procs |-> Junk]
  BY Zenon DEF Init, NetInit
<1>2. \A q \in Ports : Queued(q) = <<>>
  BY <1>1 DEF Queued
<1>3. Queues = [q \in Ports |-> <<>>]
  BY <1>2, Zenon DEF Queues
<1>4. Bound = {}
  BY <1>1, Zenon DEF Bound
<1>q. QED BY <1>1, <1>3, <1>4, Zenon DEF FifoQueues!Init, Queues, Queued, Bound

LEMMA FifoNext ==
  ASSUME IInv, [Next]_vars
  PROVE  [FifoQueues!Next]_FifoQueues!vars
<1> DEFINE Step == FifoQueues!Next \/ UNCHANGED FifoQueues!vars
<1>0. TypeOK /\ CallInv
  BY Zenon DEF IInv
<1>1. ASSUME NEW p \in Procs, NEW q \in Ports, sys_bind(p, q) \/ RecvEnter(p, q) PROVE Step
  <2>1. CASE sys_bind(p, q)
    <3>1. FifoQueues!Bind(q)
      BY <2>1, FifoBind, Zenon
    <3>q. QED BY <3>1, Zenon DEF FifoQueues!Next
  <2>2. CASE RecvEnter(p, q)
    BY <2>2, FifoUntouched, Zenon DEF RecvEnter
  <2>q. QED BY <1>1, <2>1, <2>2, Zenon
<1>2. ASSUME NEW p \in Senders, NEW n \in Payloads, SendBuild(p, n) PROVE Step
  BY <1>2, FifoKalloc, Zenon DEF SendBuild, kalloc
<1>3. ASSUME NEW p \in Procs, sys_recv(p) \/ TrapExit(p) PROVE Step
  <2>1. CASE RecvPop(p)
    <3>1. \E q \in Ports : FifoQueues!Take(p, q)
      BY <2>1, FifoTake, Zenon
    <3>q. QED BY <3>1, Zenon DEF FifoQueues!Next
  <2>2. CASE RecvFreeBuf(p)
    BY <2>2, FifoFreeBuf, Zenon
  <2>3. CASE RecvFreePkt(p)
    <3>1. FifoQueues!Return(p)
      BY <2>3, FifoReturn, Zenon
    <3>q. QED BY <3>1, Zenon DEF FifoQueues!Next
  <2>4. CASE \/ RecvWait(p) \/ SleepLock(p) \/ SleepRelease(p) \/ SleepSched(p) \/ SleepReturn(p)
             \/ TrapExit(p)
    BY <2>4, FifoUntouched, Zenon
       DEF RecvWait, SleepLock, SleepRelease, SleepSched, SleepReturn, TrapExit
  <2>q. QED BY <1>3, <2>1, <2>2, <2>3, <2>4, Zenon DEF sys_recv
<1>4. ASSUME NEW p \in Procs, sys_send(p) PROVE Step
  <2>1. CASE SendFree(p)
    <3>1. sbuf[p] \in Pages
      BY <1>0, <2>1, Zenon DEF SendFree, CallInv, CallOf, TypeOK, PageOrNull
    <3>q. QED BY <2>1, <3>1, FifoKfree, Zenon DEF SendFree
  <2>2. CASE SendCall(p) \/ SendDone(p) \/ SendRefused(p)
    BY <2>2, FifoUntouched, Zenon DEF SendCall, SendDone, SendRefused
  <2>q. QED BY <1>4, <2>1, <2>2, Zenon DEF sys_send
<1>5. ASSUME NEW p \in Victims, kill(p) PROVE Step
  BY <1>5, FifoUntouched, Zenon DEF kill
<1>6. ASSUME ipc \in {"net_rx", "arpfree"}, DropFrame PROVE Step
  <2>1. ibuf \in Pages
    BY <1>0, <1>6, Zenon DEF CallInv, CallOf, TypeOK, PageOrNull
  <2>q. QED BY <1>6, <2>1, FifoKfree, Zenon DEF DropFrame, procVars
<1>7. CASE NetRxUnknown \/ ArpRxDrop \/ ArpFree \/ \E q \in Ports : IpRxDrop(q)
  BY <1>6, <1>7, Zenon DEF NetRxUnknown, ArpRxDrop, ArpFree, IpRxDrop
<1>8. ASSUME NEW q \in Ports, IpRxQueue(q) PROVE Step
  <2>1. \E f \in Frames : FifoQueues!Arrive(q, f)
    BY <1>8, FifoArrive, Zenon
  <2>q. QED BY <2>1, Zenon DEF FifoQueues!Next
<1>9. CASE ArpRxReply
  <2>1. CASE \E b \in Pages, n \in Payloads : kalloc(b) /\ content' = [content EXCEPT ![b] = n]
    BY <1>9, <2>1, FifoKalloc, Zenon DEF ArpRxReply, kalloc, procVars
  <2>2. CASE UNCHANGED content
    BY <1>9, <2>2, FifoUntouched, Zenon DEF ArpRxReply, procVars
  <2>q. QED BY <1>9, <2>1, <2>2, Zenon DEF ArpRxReply
<1>10. CASE IpRxWakeup \/ ArpCall \/ ArpDone \/ ArpRefused \/ NetRxCall
  BY <1>10, FifoUntouched, Zenon DEF IpRxWakeup, ArpCall, ArpDone, ArpRefused,
     NetRxCall, procVars
<1>11. ASSUME NEW b \in Pages, DrvFree(b) PROVE Step
  BY <1>11, FifoKfree, Zenon DEF DrvFree, netVars, procVars
<1>12. ASSUME NEW b \in Pages, NEW n \in Frames, DrvAlloc(b, n) PROVE Step
  BY <1>12, FifoKalloc, Zenon DEF DrvAlloc, kalloc, netVars, procVars
<1>13. CASE UNCHANGED vars
  BY <1>13, FifoUntouched, Zenon DEF vars, netVars, procVars
<1>q. QED BY <1>1, <1>2, <1>3, <1>4, <1>5, <1>7, <1>8, <1>9, <1>10, <1>11, <1>12,
             <1>13, Zenon
         DEF Next, net_rx, ip_rx, arp_rx

\* The lists of nodes, with their locks, sleepers and pages, implement bounded FIFO
\* queues: between ip_rx and recv nothing is lost, doubled or reordered, whatever
\* the number of receivers (net.c:155-220, 375-430).
THEOREM StackImplementsFifo == Spec => ImplementsFifo
<1>1. Init => FifoQueues!Init
  BY FifoInit, Zenon
<1>2. IInv /\ [Next]_vars => [FifoQueues!Next]_FifoQueues!vars
  BY FifoNext, Zenon
<1>q. QED BY <1>1, <1>2, StackInv, PTL DEF Spec, ImplementsFifo, FifoQueues!Spec
=============================================================================
