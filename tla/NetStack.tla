------------------------------ MODULE NetStack ------------------------------
(***************************************************************************)
(* The UDP receive path and the network system calls of net.c, with the    *)
(* sleep/wakeup they use (proc.c) at the granularity of the two locks      *)
(* involved, netlock and ptable.lock.                                      *)
(*                                                                         *)
(* Queued packets are kept as the code keeps them: a page per udp_pkt node *)
(* linked by next, holding the page of the frame (fullbuf), and head, tail *)
(* and count in a page per bound port.  Processes run on any CPU; net_rx   *)
(* runs in the one interrupt context Intr.  The driver below (E1000) is    *)
(* seen as the owner of a set of pages: it hands frames to net_rx, and     *)
(* accepts or refuses the pages passed to e1000_transmit.                  *)
(***************************************************************************)
EXTENDS Integers, Sequences, Kmem

CONSTANTS
  Ports, Procs, Intr,
  Senders,      \* bound: the processes that call send ...
  Victims,      \* ... and those that are killed
  MAX_QUEUED_PER_PORT,
  Frames,       \* contents of frames received from the network
  Payloads,     \* contents of frames sent
  RxPages,      \* the pages the driver's receive ring keeps for good
  PageCount     \* pages of the instances that TLC checks

ASSUME RxPagesFixed == RxPages \subseteq Pages
ASSUME QueueLimit == MAX_QUEUED_PER_PORT \in Nat \ {0}
ASSUME ContentsNat == Frames \subseteq Nat \ {Junk} /\ Payloads \subseteq Nat \ {Junk}
ASSUME ContextsApart ==
  Senders \cup Victims \subseteq Procs
  /\ Intr \notin Procs /\ NULL \notin Procs \cup {Intr} /\ NULL \notin Ports

VARIABLES
  netlock, ptable_lock,           \* the context that holds each, or NULL
  pqpage,                         \* page of each port's port_queue, NULL: unbound
  pqhead, pqtail, pqcount,        \* its fields
  fullbuf, next,                  \* fields of each page used as a udp_pkt
  pc, port, pkt, sbuf, killed,    \* each process: locals of its system call
  want,                           \* history: the frame its recv took off the queue
  ipc, ibuf, iport, reply,        \* the interrupt context's locals
  seen_arp,
  rcv,                            \* the driver's copy of a received frame, or NULL
  drv,                            \* pages the driver has for sending
  leaked                          \* history: pages nobody refers to any more

queueVars == <<pqpage, pqhead, pqtail, pqcount, fullbuf, next>>
procVars == <<pc, port, pkt, sbuf, killed, want>>
intrVars == <<ipc, ibuf, iport, reply, seen_arp>>
netVars == <<netlock, ptable_lock, queueVars, procVars, intrVars, leaked>>
drvVars == <<rcv, drv>>
vars == <<freelist, content, netVars, drvVars>>

PageOrNull == Pages \cup {NULL}

NetInit ==
  /\ netlock = NULL /\ ptable_lock = NULL
  /\ pqpage = [q \in Ports |-> NULL]
  /\ pqhead = [q \in Ports |-> NULL] /\ pqtail = [q \in Ports |-> NULL]
  /\ pqcount = [q \in Ports |-> 0]
  /\ fullbuf = [p \in Pages |-> NULL] /\ next = [p \in Pages |-> NULL]
  /\ pc = [p \in Procs |-> "user"]
  /\ port = [p \in Procs |-> NULL]
  /\ pkt = [p \in Procs |-> NULL] /\ sbuf = [p \in Procs |-> NULL]
  /\ killed = [p \in Procs |-> FALSE]
  /\ want = [p \in Procs |-> Junk]
  /\ ipc = "idle" /\ ibuf = NULL /\ iport = NULL /\ reply = NULL
  /\ seen_arp = FALSE
  /\ rcv = NULL /\ drv = {}
  /\ leaked = {}

Init ==
  /\ freelist = Pages \ RxPages
  /\ content = [p \in Pages |-> Junk]
  /\ NetInit

-----------------------------------------------------------------------------
(* Processes.  A call that returns -1 without keeping anything is no step.  *)

\* Returning from a system call ends a killed process (syscall, trap).
Return(p) == IF killed[p] THEN "exited" ELSE "user"

Goto(p, l) == pc' = [pc EXCEPT ![p] = l]

\* sys_bind with a new queue's count.
Bind(p, q, count) ==
  /\ pc[p] = "user" /\ netlock = NULL
  /\ pqpage[q] = NULL
  /\ \E b \in Pages :
       /\ kalloc(b)
       /\ pqpage' = [pqpage EXCEPT ![q] = b]
  /\ pqhead' = [pqhead EXCEPT ![q] = NULL]
  /\ pqtail' = [pqtail EXCEPT ![q] = NULL]
  /\ pqcount' = [pqcount EXCEPT ![q] = count]
  /\ Goto(p, Return(p))
  /\ UNCHANGED <<content, netlock, ptable_lock, fullbuf, next, port, pkt, sbuf,
                 killed, want, intrVars, drvVars, leaked>>

\* sys_bind, under netlock: a new, empty queue for a port that has none.
sys_bind(p, q) == Bind(p, q, 0)

\* sys_recv finds the port's queue and keeps netlock.
RecvEnter(p, q) ==
  /\ pc[p] = "user" /\ netlock = NULL
  /\ pqpage[q] # NULL
  /\ netlock' = p
  /\ port' = [port EXCEPT ![p] = q]
  /\ Goto(p, "check")
  /\ UNCHANGED <<freelist, content, ptable_lock, queueVars, pkt, sbuf, killed,
                 want, intrVars, drvVars, leaked>>

\* The loop's test: an empty queue makes the process call sleep(pq, &netlock).
RecvWait(p) ==
  /\ pc[p] = "check" /\ pqcount[port[p]] = 0
  /\ Goto(p, "sleep")
  /\ UNCHANGED <<freelist, content, netlock, ptable_lock, queueVars, port, pkt,
                 sbuf, killed, want, intrVars, drvVars, leaked>>

\* sleep acquires ptable.lock ...
SleepLock(p) ==
  /\ pc[p] = "sleep" /\ ptable_lock = NULL
  /\ ptable_lock' = p
  /\ Goto(p, "release")
  /\ UNCHANGED <<freelist, content, netlock, queueVars, port, pkt, sbuf, killed,
                 want, intrVars, drvVars, leaked>>

\* ... then releases the caller's lock ...
SleepRelease(p) ==
  /\ pc[p] = "release"
  /\ netlock' = NULL
  /\ Goto(p, "sched")
  /\ UNCHANGED <<freelist, content, ptable_lock, queueVars, port, pkt, sbuf,
                 killed, want, intrVars, drvVars, leaked>>

\* ... and is SLEEPING on pq when the scheduler gives up ptable.lock.
SleepSched(p) ==
  /\ pc[p] = "sched"
  /\ ptable_lock' = NULL
  /\ Goto(p, "asleep")
  /\ UNCHANGED <<freelist, content, netlock, queueVars, port, pkt, sbuf, killed,
                 want, intrVars, drvVars, leaked>>

\* Made RUNNABLE and scheduled, it reacquires netlock and tests again.
SleepReturn(p) ==
  /\ pc[p] = "runnable" /\ ptable_lock = NULL /\ netlock = NULL
  /\ netlock' = p
  /\ Goto(p, "check")
  /\ UNCHANGED <<freelist, content, ptable_lock, queueVars, port, pkt, sbuf,
                 killed, want, intrVars, drvVars, leaked>>

\* Fault: the tail is kept when the last node goes.
UnlinkKeepsTail(q) ==
  /\ pqhead' = [pqhead EXCEPT ![q] = next[pqhead[q]]]
  /\ pqcount' = [pqcount EXCEPT ![q] = @ - 1]
  /\ UNCHANGED pqtail

\* The first node goes off the queue.
Unlink(q) ==
  /\ pqhead' = [pqhead EXCEPT ![q] = next[pqhead[q]]]
  /\ pqtail' = IF next[pqhead[q]] = NULL THEN [pqtail EXCEPT ![q] = NULL] ELSE pqtail
  /\ pqcount' = [pqcount EXCEPT ![q] = @ - 1]

\* Fault: the frame's page is freed before it is copied out.
RecvPopFault(p) ==
  LET n == pqhead[port[p]] IN
  /\ pc[p] = "check" /\ pqcount[port[p]] # 0
  /\ Unlink(port[p])
  /\ pkt' = [pkt EXCEPT ![p] = n]
  /\ want' = [want EXCEPT ![p] = content[fullbuf[n]]]
  /\ netlock' = NULL /\ kfree(fullbuf[n])
  /\ Goto(p, "copy")
  /\ UNCHANGED <<ptable_lock, pqpage, fullbuf, next, port, sbuf, killed,
                 intrVars, drvVars, leaked>>

\* Takes the head off the queue and releases netlock.
RecvPop(p) ==
  LET n == pqhead[port[p]] IN
  /\ pc[p] = "check" /\ pqcount[port[p]] # 0
  /\ Unlink(port[p])
  /\ pkt' = [pkt EXCEPT ![p] = n]
  /\ want' = [want EXCEPT ![p] = content[fullbuf[n]]]
  /\ netlock' = NULL
  /\ Goto(p, "copy")
  /\ UNCHANGED <<freelist, content, ptable_lock, pqpage, fullbuf, next, port,
                 sbuf, killed, intrVars, drvVars, leaked>>

\* Copies the packet out, or fails to at any of the three copyouts; every way
\* out frees the frame's page ...
RecvFreeBuf(p) ==
  /\ pc[p] = "copy"
  /\ kfree(fullbuf[pkt[p]])
  /\ fullbuf' = [fullbuf EXCEPT ![pkt[p]] = NULL]
  /\ Goto(p, "freepkt")
  /\ UNCHANGED <<netlock, ptable_lock, pqpage, pqhead, pqtail, pqcount, next,
                 port, pkt, sbuf, killed, want, intrVars, drvVars, leaked>>

\* ... and the node.
RecvFreePkt(p) ==
  /\ pc[p] = "freepkt"
  /\ kfree(pkt[p])
  /\ next' = [next EXCEPT ![pkt[p]] = NULL]
  /\ pkt' = [pkt EXCEPT ![p] = NULL]
  /\ port' = [port EXCEPT ![p] = NULL]
  /\ want' = [want EXCEPT ![p] = Junk]
  /\ Goto(p, Return(p))
  /\ UNCHANGED <<netlock, ptable_lock, pqpage, pqhead, pqtail, pqcount, fullbuf,
                 sbuf, killed, intrVars, drvVars, leaked>>

\* sys_send allocates a page and builds the frame in it.
SendBuild(p, n) ==
  /\ pc[p] = "user"
  /\ \E b \in Pages :
       /\ kalloc(b)
       /\ content' = [content EXCEPT ![b] = n]
       /\ sbuf' = [sbuf EXCEPT ![p] = b]
  /\ Goto(p, "built")
  /\ UNCHANGED <<netlock, ptable_lock, queueVars, port, pkt, killed, want,
                 intrVars, drvVars, leaked>>

\* The payload was copied in: e1000_transmit is called, the page is the
\* driver's until it returns.
SendCall(p) ==
  /\ pc[p] = "built"
  /\ drv' = drv \cup {sbuf[p]}
  /\ Goto(p, "transmit")
  /\ UNCHANGED <<freelist, content, netlock, ptable_lock, queueVars, port, pkt,
                 sbuf, killed, want, intrVars, leaked, rcv>>

\* It returns 0.
SendDone(p) ==
  /\ pc[p] = "transmit"
  /\ sbuf' = [sbuf EXCEPT ![p] = NULL]
  /\ Goto(p, Return(p))
  /\ UNCHANGED <<freelist, content, netlock, ptable_lock, queueVars, port, pkt,
                 killed, want, intrVars, drvVars, leaked>>

\* Fault: the result is ignored, as if the page were the driver's.
SendRefusedFault(p) ==
  /\ pc[p] = "transmit" /\ sbuf[p] \in drv
  /\ drv' = drv \ {sbuf[p]}
  /\ sbuf' = [sbuf EXCEPT ![p] = NULL]
  /\ Goto(p, Return(p))
  /\ UNCHANGED <<freelist, content, netlock, ptable_lock, queueVars, port, pkt,
                 killed, want, intrVars, leaked, rcv>>

\* It returns -1.
SendRefused(p) ==
  /\ pc[p] = "transmit"
  /\ sbuf[p] \in drv
  /\ drv' = drv \ {sbuf[p]}
  /\ Goto(p, "refused")
  /\ UNCHANGED <<freelist, content, netlock, ptable_lock, queueVars, port, pkt,
                 sbuf, killed, want, intrVars, leaked, rcv>>

\* The copy from user space failed, or e1000_transmit did: free and return -1.
SendFree(p) ==
  /\ pc[p] \in {"built", "refused"}
  /\ kfree(sbuf[p])
  /\ sbuf' = [sbuf EXCEPT ![p] = NULL]
  /\ Goto(p, Return(p))
  /\ UNCHANGED <<netlock, ptable_lock, queueVars, port, pkt, killed, want,
                 intrVars, drvVars, leaked>>

\* kill, by anyone: a sleeping process becomes RUNNABLE.
kill(p) ==
  /\ ptable_lock = NULL
  /\ pc[p] # "exited"
  /\ killed' = [killed EXCEPT ![p] = TRUE]
  /\ Goto(p, IF pc[p] = "asleep" THEN "runnable" ELSE pc[p])
  /\ UNCHANGED <<freelist, content, netlock, ptable_lock, queueVars, port, pkt,
                 sbuf, want, intrVars, drvVars, leaked>>

\* A killed process in user space exits at its next trap.
TrapExit(p) ==
  /\ pc[p] = "user" /\ killed[p]
  /\ Goto(p, "exited")
  /\ UNCHANGED <<freelist, content, netlock, ptable_lock, queueVars, port, pkt,
                 sbuf, killed, want, intrVars, drvVars, leaked>>

-----------------------------------------------------------------------------
(* The interrupt context: net_rx, ip_rx and arp_rx *)

\* The driver calls net_rx with the copy.
NetRxCall ==
  /\ ipc = "idle" /\ rcv # NULL
  /\ ibuf' = rcv
  /\ rcv' = NULL
  /\ ipc' = "net_rx"
  /\ UNCHANGED <<freelist, content, netlock, ptable_lock, queueVars, procVars,
                 iport, reply, seen_arp, drv, leaked>>

\* The frame's page is freed and net_rx returns.
DropFrame ==
  /\ kfree(ibuf)
  /\ ibuf' = NULL
  /\ ipc' = "idle"
  /\ UNCHANGED <<netlock, ptable_lock, queueVars, procVars, iport, reply,
                 drvVars, leaked>>

\* Frames that are too short, of another type, or IP and not UDP.
NetRxUnknown == ipc = "net_rx" /\ DropFrame /\ UNCHANGED seen_arp

Full(q) == pqcount[q] >= MAX_QUEUED_PER_PORT

\* ip_rx, under netlock, of a datagram for a port that is not bound, whose
\* queue is full, or for which there is no page for the node.
IpRxDrop(q) ==
  /\ ipc = "net_rx" /\ netlock = NULL
  /\ \/ pqpage[q] = NULL
     \/ Full(q)
     \/ freelist = {}
  /\ DropFrame
  /\ UNCHANGED seen_arp

\* Fault: packets are pushed at the head.
LinkAtHead(q, n) ==
  /\ next' = [next EXCEPT ![n] = pqhead[q]]
  /\ pqhead' = [pqhead EXCEPT ![q] = n]
  /\ pqtail' = IF pqtail[q] = NULL THEN [pqtail EXCEPT ![q] = n] ELSE pqtail

\* The node goes to the end of the queue.
Link(q, n) ==
  /\ next' = IF pqtail[q] = NULL
             THEN [next EXCEPT ![n] = NULL]
             ELSE [next EXCEPT ![n] = NULL, ![pqtail[q]] = n]
  /\ pqhead' = IF pqtail[q] = NULL THEN [pqhead EXCEPT ![q] = n] ELSE pqhead
  /\ pqtail' = [pqtail EXCEPT ![q] = n]

\* ip_rx appends the datagram to the port's queue and goes on to wakeup(pq)
\* with netlock held.
IpRxQueue(q) ==
  /\ ipc = "net_rx" /\ netlock = NULL
  /\ pqpage[q] # NULL /\ ~Full(q)
  /\ \E n \in Pages :
       /\ kalloc(n)
       /\ fullbuf' = [fullbuf EXCEPT ![n] = ibuf]
       /\ Link(q, n)
  /\ pqcount' = [pqcount EXCEPT ![q] = @ + 1]
  /\ ibuf' = NULL
  /\ iport' = q
  /\ netlock' = Intr
  /\ ipc' = "wakeup"
  /\ UNCHANGED <<content, ptable_lock, pqpage, procVars, reply, seen_arp,
                 drvVars, leaked>>

\* Fault: wakeup is not called.
IpRxWakeupFault ==
  /\ ipc = "wakeup"
  /\ netlock' = NULL /\ iport' = NULL /\ ipc' = "idle"
  /\ UNCHANGED <<freelist, content, ptable_lock, queueVars, procVars, ibuf,
                 reply, seen_arp, drvVars, leaked>>

\* wakeup(pq), under ptable.lock: every process sleeping on pq is RUNNABLE.
\* Then netlock is released and net_rx returns.
IpRxWakeup ==
  /\ ipc = "wakeup" /\ ptable_lock = NULL
  /\ pc' = [p \in Procs |-> IF pc[p] = "asleep" /\ port[p] = iport
                            THEN "runnable" ELSE pc[p]]
  /\ netlock' = NULL
  /\ iport' = NULL
  /\ ipc' = "idle"
  /\ UNCHANGED <<freelist, content, ptable_lock, queueVars, port, pkt, sbuf,
                 killed, want, ibuf, reply, seen_arp, drvVars, leaked>>

\* arp_rx of any ARP frame but the first.
ArpRxDrop == ipc = "net_rx" /\ seen_arp /\ DropFrame /\ UNCHANGED seen_arp

\* arp_rx of the first one: allocates and builds the reply, or panics.
ArpRxReply ==
  /\ ipc = "net_rx" /\ ~seen_arp
  /\ seen_arp' = TRUE
  /\ \/ /\ \E b \in Pages, n \in Payloads :
             /\ kalloc(b)
             /\ content' = [content EXCEPT ![b] = n]
             /\ reply' = b
        /\ ipc' = "arp"
     \/ /\ kalloc_fails
        /\ ipc' = "panic"
        /\ UNCHANGED <<content, reply>>
  /\ UNCHANGED <<netlock, ptable_lock, queueVars, procVars, ibuf, iport,
                 drvVars, leaked>>

\* arp_rx calls e1000_transmit ...
ArpCall ==
  /\ ipc = "arp"
  /\ drv' = drv \cup {reply}
  /\ ipc' = "transmit"
  /\ UNCHANGED <<freelist, content, netlock, ptable_lock, queueVars, procVars,
                 ibuf, iport, reply, seen_arp, leaked, rcv>>

\* ... which returns 0 ...
ArpDone ==
  /\ ipc = "transmit"
  /\ reply' = NULL
  /\ ipc' = "arpfree"
  /\ UNCHANGED <<freelist, content, netlock, ptable_lock, queueVars, procVars,
                 ibuf, iport, seen_arp, drvVars, leaked>>

\* ... or -1: arp_rx does not look at the result, so the reply's page is lost.
ArpRefused ==
  /\ ipc = "transmit"
  /\ reply \in drv
  /\ drv' = drv \ {reply}
  /\ leaked' = leaked \cup {reply}
  /\ reply' = NULL
  /\ ipc' = "arpfree"
  /\ UNCHANGED <<freelist, content, netlock, ptable_lock, queueVars, procVars,
                 ibuf, iport, seen_arp, rcv>>

\* The request's page is freed.
ArpFree == ipc = "arpfree" /\ DropFrame /\ UNCHANGED seen_arp

-----------------------------------------------------------------------------
(* The driver as the stack sees it *)

\* The interrupt context allocates a page and copies a received frame into it.
DrvAlloc(b, n) ==
  /\ ipc = "idle" /\ rcv = NULL
  /\ kalloc(b)
  /\ content' = [content EXCEPT ![b] = n]
  /\ rcv' = b
  /\ UNCHANGED <<netVars, drv>>

\* It frees the page of a frame that was sent; not one whose call is not over.
DrvFree(b) ==
  /\ b \in drv
  /\ \A p \in Procs : pc[p] = "transmit" => sbuf[p] # b
  /\ ipc = "transmit" => reply # b
  /\ kfree(b)
  /\ drv' = drv \ {b}
  /\ UNCHANGED <<netVars, rcv>>

-----------------------------------------------------------------------------
sys_recv(p) ==
  \/ RecvWait(p) \/ SleepLock(p) \/ SleepRelease(p) \/ SleepSched(p)
  \/ SleepReturn(p) \/ RecvPop(p) \/ RecvFreeBuf(p) \/ RecvFreePkt(p)

sys_send(p) == SendCall(p) \/ SendDone(p) \/ SendRefused(p) \/ SendFree(p)

ip_rx == IpRxWakeup \/ \E q \in Ports : IpRxDrop(q) \/ IpRxQueue(q)
arp_rx == ArpRxDrop \/ ArpRxReply \/ ArpCall \/ ArpDone \/ ArpRefused \/ ArpFree
net_rx == NetRxUnknown \/ ip_rx \/ arp_rx

Next ==
  \/ \E p \in Procs, q \in Ports : sys_bind(p, q) \/ RecvEnter(p, q)
  \/ \E p \in Senders, n \in Payloads : SendBuild(p, n)
  \/ \E p \in Procs : sys_recv(p) \/ sys_send(p) \/ TrapExit(p)
  \/ \E p \in Victims : kill(p)
  \/ net_rx
  \/ NetRxCall
  \/ \E b \in Pages : DrvFree(b)
  \/ \E b \in Pages, n \in Frames : DrvAlloc(b, n)

Spec == Init /\ [][Next]_vars

\* A process in the kernel, once RUNNABLE, is run on; so is the interrupt
\* handler.  Locks are held for a bounded number of steps, but another context
\* may take one again and again: acquiring netlock needs strong fairness.
Fairness ==
  /\ \A p \in Procs :
       /\ SF_vars(SleepReturn(p) \/ SleepLock(p))
       /\ WF_vars(sys_recv(p) \/ sys_send(p) \/ TrapExit(p))
  /\ SF_vars(net_rx)

FairSpec == Spec /\ Fairness

-----------------------------------------------------------------------------
(* Properties *)

\* The type of the state.
TypeOK ==
  /\ freelist \subseteq Pages /\ drv \subseteq Pages /\ leaked \subseteq Pages
  /\ content \in [Pages -> Nat]
  /\ netlock \in Procs \cup {Intr, NULL} /\ ptable_lock \in Procs \cup {NULL}
  /\ pqpage \in [Ports -> PageOrNull] /\ pqcount \in [Ports -> 0 .. MAX_QUEUED_PER_PORT]
  /\ pqhead \in [Ports -> PageOrNull] /\ pqtail \in [Ports -> PageOrNull]
  /\ fullbuf \in [Pages -> PageOrNull] /\ next \in [Pages -> PageOrNull]
  /\ pc \in [Procs -> {"user", "check", "sleep", "release", "sched", "asleep",
                       "runnable", "copy", "freepkt", "built", "transmit",
                       "refused", "exited"}]
  /\ port \in [Procs -> Ports \cup {NULL}]
  /\ pkt \in [Procs -> PageOrNull] /\ sbuf \in [Procs -> PageOrNull]
  /\ killed \in [Procs -> BOOLEAN] /\ want \in [Procs -> Nat]
  /\ ipc \in {"idle", "net_rx", "wakeup", "arp", "transmit", "arpfree", "panic"}
  /\ ibuf \in PageOrNull /\ reply \in PageOrNull
  /\ iport \in Ports \cup {NULL}
  /\ seen_arp \in BOOLEAN /\ rcv \in PageOrNull

\* The first n nodes of the list that begins at h and goes on with nx.
Walk(h, nx, n) ==
  LET node[k \in Nat] == IF k = 0 THEN h ELSE nx[node[k - 1]]
  IN [k \in 1 .. n |-> node[k - 1]]

\* The nodes on a port's queue: head, and then next after next, count of them.
Nodes(q) == Walk(pqhead[q], next, pqcount[q])

\* Head, tail and count agree with the chain of nodes, which is as long as
\* count says, ends at tail and is within the limit (net.c:177-181, 419-425).
QueueShape ==
  \A q \in Ports :
    LET nodes == Nodes(q) IN
    /\ pqcount[q] \in 0 .. MAX_QUEUED_PER_PORT
    /\ \A k \in DOMAIN nodes : nodes[k] \in Pages
    /\ pqcount[q] = 0 => pqhead[q] = NULL /\ pqtail[q] = NULL
    /\ pqcount[q] > 0 => /\ nodes[pqcount[q]] = pqtail[q]
                         /\ next[pqtail[q]] = NULL

\* The pages of the code above the driver, each under the name it is held by.
QueuePages(q) ==
  {pqpage[q]} \cup UNION {{Nodes(q)[k], fullbuf[Nodes(q)[k]]} : k \in 1 .. pqcount[q]}
CallPages(p) ==
  {pkt[p]} \cup (IF pkt[p] = NULL THEN {} ELSE {fullbuf[pkt[p]]})
           \cup (IF pc[p] = "transmit" THEN {} ELSE {sbuf[p]})
IntrPages == {ibuf} \cup (IF ipc = "transmit" THEN {} ELSE {reply})
StackPages ==
  ((UNION {QueuePages(q) : q \in Ports}) \cup (UNION {CallPages(p) : p \in Procs})
    \cup IntrPages \cup leaked) \ {NULL}

\* No page is reachable in two ways: two queues, two processes, a queue and a
\* process, the interrupt handler, the driver and the free list hold disjoint
\* sets of pages, the nodes and frames of a queue are all different, and every
\* page is held by someone (every kalloc has one kfree).
StackOwnership ==
  /\ \A q, r \in Ports : q # r => QueuePages(q) \cap QueuePages(r) \subseteq {NULL}
  /\ \A p, r \in Procs : p # r => CallPages(p) \cap CallPages(r) \subseteq {NULL}
  /\ \A q \in Ports, p \in Procs : QueuePages(q) \cap CallPages(p) \subseteq {NULL}
  /\ \A q \in Ports : QueuePages(q) \cap (IntrPages \cup leaked) \subseteq {NULL}
  /\ \A p \in Procs : CallPages(p) \cap (IntrPages \cup leaked) \subseteq {NULL}
  /\ \A q \in Ports :
       \A j, k \in 1 .. pqcount[q] :
         /\ Nodes(q)[j] # fullbuf[Nodes(q)[k]]
         /\ j # k => /\ Nodes(q)[j] # Nodes(q)[k]
                     /\ fullbuf[Nodes(q)[j]] # fullbuf[Nodes(q)[k]]
  /\ drv \cap StackPages = {} /\ rcv \notin drv \cup StackPages
  /\ freelist \cap (drv \cup StackPages \cup {rcv}) = {}
  /\ Pages \ RxPages = freelist \cup drv \cup StackPages \cup ({rcv} \ {NULL})

\* The linked lists, with their locks and sleepers, implement bounded FIFO
\* queues per port: nothing is lost, doubled or reordered between ip_rx and
\* recv, whatever the number of receivers.
FifoQueues == INSTANCE PortQueues WITH
  Limit <- MAX_QUEUED_PER_PORT,
  NoFrame <- Junk,
  bound <- {q \in Ports : pqpage[q] # NULL},
  queue <- [q \in Ports |-> [k \in 1 .. pqcount[q] |-> content[fullbuf[Nodes(q)[k]]]]],
  got <- want

ImplementsFifo == FifoQueues!Spec

\* What recv copies out is the frame it took off the queue: nobody frees or
\* reuses the page after netlock is released (net.c:183-218).
CopyIntact ==
  \A p \in Procs : pc[p] = "copy" => content[fullbuf[pkt[p]]] = want[p]

\* No process sleeps on a port that has a packet, but for the moment in which
\* ip_rx has queued it and is about to call wakeup (net.c:171-174, 425-427;
\* "we won't miss any wakeup", proc.c:389-392).
NoLostWakeup ==
  \A p \in Procs :
    pc[p] \in {"sleep", "release", "sched", "asleep"} /\ pqcount[port[p]] > 0 =>
      ipc = "wakeup" /\ iport = port[p]

\* A process waiting in recv gets to run when its port has a packet: it takes
\* one, unless another process has emptied the queue.
RecvProgress ==
  \A p \in Procs, q \in Ports :
    pc[p] = "asleep" /\ port[p] = q /\ pqcount[q] > 0 ~>
      pc[p] = "copy" \/ pqcount[q] = 0

\* Above the driver no page is lost, shared or reused too early, and no receiver
\* sleeps through a datagram (net.c:155-220, 375-430; proc.c:379-410).
StackSafe == TypeOK /\ StackOwnership /\ CopyIntact /\ NoLostWakeup

-----------------------------------------------------------------------------
(* Instances for TLC *)

\* Pages as in MCE1000: numbered, the lowest free one is allocated first.
MCPages == 1 .. PageCount

LowestFirst == \A p \in freelist \ freelist' : \A q \in freelist : p <= q

\* bound: the driver has one page at a time, and send is called when it has none
OnePageSent ==
  /\ drv' \subseteq drv \/ drv = {}
  /\ \A p \in Procs : sbuf'[p] # sbuf[p] /\ sbuf[p] = NULL => drv = {}
=============================================================================
