------------------------------- MODULE E1000 --------------------------------
(***************************************************************************)
(* The e1000 driver of e1000.c together with the card it drives.           *)
(*                                                                         *)
(* Driver: the two descriptor rings, the arrays tx_bufs and rx_bufs of     *)
(* kernel pages, and e1000_lock.  Callers of e1000_transmit run on any     *)
(* CPU; e1000_intr runs on CPU 0 only (pci.c routes the interrupt there)   *)
(* and with interrupts off, so there is one interrupt context, Intr.       *)
(*                                                                         *)
(* Card (external): DMA engines that own the descriptors from head up to,  *)
(* and not including, tail; equal registers mean an empty range, which is  *)
(* what e1000_init relies on when it sets TDH = TDT = 0 with nothing to    *)
(* send.  The card runs concurrently with the driver, so every store the   *)
(* driver makes that the card can see is a step of its own.                *)
(***************************************************************************)
EXTENDS Integers, Sequences, Kmem

CONSTANTS
  TX_RING_SIZE, RX_RING_SIZE,
  Callers,       \* contexts that call e1000_transmit
  Intr,          \* the interrupt context
  Payloads,      \* what the code above the driver writes in its pages
  MaxSends,      \* bound: frames e1000_transmit accepts (one more per caller)
  MaxFrames,     \* bound: frames the card accepts from the network
  BadFrames      \* frames whose length fails e1000_recv's sanity check

ASSUME RingSizes == TX_RING_SIZE \in Nat \ {0,1} /\ RX_RING_SIZE \in Nat \ {0,1}
ASSUME Bounds == MaxSends \in Nat /\ MaxFrames \in Nat
ASSUME PayloadsNat == Payloads \subseteq Nat
ASSUME NullNotContext == NULL \notin Callers \cup {Intr}

VARIABLES
  TDH, TDT, RDH, RDT,  \* device registers
  ICR,                 \* the receive cause bit of ICR (IMS enables only it)
  irq,                 \* interrupt latched for CPU 0, edge triggered (ioapic.c)
  txDD,                \* DD bit of every TX descriptor's status
  txAddr,              \* addr of every TX descriptor
  tx_bufs,
  rxDD,                \* DD bit of every RX descriptor's status
  rxFrame,             \* frame last written into rx_bufs[i] and its descriptor
  rx_bufs,
  e1000_lock,          \* the context that holds it, or NULL
  txpc, txbuf,         \* each caller: where it is, and the page it passes
  rxpc, rxi, dst,      \* interrupt context: where it is, and its locals i, dst
  stack,               \* pages owned by the code above the driver
  submitted, wire,     \* history: frames e1000_transmit accepted / card sent
  accepted, taken,     \* history: frames the card accepted / driver took
  delivered            \* history: frames handed to net_rx

txVars == <<TDH, TDT, txDD, txAddr, tx_bufs, txpc, txbuf, submitted, wire>>
rxVars == <<RDH, RDT, rxDD, rxFrame, rx_bufs, rxpc, rxi, dst, accepted, taken,
            delivered>>
irqVars == <<ICR, irq>>
memVars == <<freelist, content, stack>>
vars == <<txVars, rxVars, irqVars, memVars, e1000_lock>>

TxIndex == 0 .. TX_RING_SIZE - 1
RxIndex == 0 .. RX_RING_SIZE - 1
TxNext(i) == (i + 1) % TX_RING_SIZE
RxNext(i) == (i + 1) % RX_RING_SIZE

Contexts == Callers \cup {Intr}
TxHolding == {"program", "tail"}
RxHolding == {"copy", "clear", "return"}

\* e1000_init: every TX descriptor done and empty, a page in every RX
\* descriptor, one descriptor of the RX ring kept back from the card.
Init ==
  /\ TDH = 0 /\ TDT = 0
  /\ txDD = [i \in TxIndex |-> TRUE]
  /\ txAddr = [i \in TxIndex |-> NULL]
  /\ tx_bufs = [i \in TxIndex |-> NULL]
  /\ rx_bufs \in {f \in [RxIndex -> Pages] :
                    \A i, j \in RxIndex : f[i] = f[j] => i = j}
  /\ rxDD = [i \in RxIndex |-> FALSE]
  /\ rxFrame = [i \in RxIndex |-> 0]
  /\ RDH = 0 /\ RDT = RX_RING_SIZE - 1
  /\ ICR = FALSE /\ irq = FALSE
  /\ e1000_lock = NULL
  /\ freelist = Pages \ {rx_bufs[i] : i \in RxIndex}
  /\ content = [p \in Pages |-> 0]
  /\ stack = {}
  /\ txpc = [c \in Callers |-> "idle"]
  /\ txbuf = [c \in Callers |-> NULL]
  /\ rxpc = "off" /\ rxi = 0 /\ dst = NULL
  /\ submitted = <<>> /\ wire = <<>>
  /\ accepted = 0 /\ taken = 0 /\ delivered = <<>>

-----------------------------------------------------------------------------
(* e1000_transmit *)

\* Faults, here and below: variants of the definition that follows, with which
\* the properties fail.  This one: DD is not tested.
TransmitTestFault(c) ==
  /\ txpc[c] = "transmit" /\ e1000_lock = NULL
  /\ txpc' = [txpc EXCEPT ![c] = "program"] /\ e1000_lock' = c
  /\ UNCHANGED <<TDH, TDT, txDD, txAddr, tx_bufs, txbuf, submitted, wire,
                 rxVars, irqVars, memVars>>

\* Up to the test of DD, under e1000_lock: a descriptor the card has not
\* finished with makes the call return -1.
TransmitTest(c) ==
  /\ txpc[c] = "transmit"
  /\ e1000_lock = NULL
  /\ IF txDD[TDT % TX_RING_SIZE]
     THEN txpc' = [txpc EXCEPT ![c] = "program"] /\ e1000_lock' = c
     ELSE txpc' = [txpc EXCEPT ![c] = "failed"] /\ UNCHANGED e1000_lock
  /\ UNCHANGED <<TDH, TDT, txDD, txAddr, tx_bufs, txbuf, submitted, wire,
                 rxVars, irqVars, memVars>>

\* The stores of TransmitProgram; status is DD as it leaves it.
Program(c, t, status) ==
  /\ txpc[c] = "program"
  /\ txAddr' = [txAddr EXCEPT ![t] = txbuf[c]]
  /\ txDD' = [txDD EXCEPT ![t] = status]
  /\ tx_bufs' = [tx_bufs EXCEPT ![t] = txbuf[c]]
  /\ txbuf' = [txbuf EXCEPT ![c] = NULL]
  /\ txpc' = [txpc EXCEPT ![c] = "tail"]
  /\ submitted' = Append(submitted, content[txbuf[c]])
  /\ UNCHANGED <<TDH, TDT, wire, rxVars, irqVars, stack, e1000_lock>>

\* Fault: the status is not cleared.
TransmitProgramNoClear(c) ==
  LET t == TDT % TX_RING_SIZE IN kfree(tx_bufs[t]) /\ Program(c, t, TRUE)

\* Frees the page of the frame sent before, programs the descriptor, clears
\* its status and remembers the new page.
TransmitProgram(c) ==
  LET t == TDT % TX_RING_SIZE IN kfree(tx_bufs[t]) /\ Program(c, t, FALSE)

\* Advances the tail: hands the descriptor to the card, and returns 0.
TransmitTail(c) ==
  /\ txpc[c] = "tail"
  /\ TDT' = TxNext(TDT % TX_RING_SIZE)
  /\ txpc' = [txpc EXCEPT ![c] = "idle"]
  /\ e1000_lock' = NULL
  /\ UNCHANGED <<TDH, txDD, txAddr, tx_bufs, txbuf, submitted, wire,
                 rxVars, irqVars, memVars>>

(* The code above the driver: it owns pages, passes them to e1000_transmit,  *)
(* and owns them again when the call returns -1 ("so that the caller knows  *)
(* to free buf").                                                           *)

\* A page is allocated and a frame, or anything else, is written in it.
StackAlloc(p, n) ==
  /\ kalloc(p)
  /\ content' = [content EXCEPT ![p] = n]
  /\ stack' = stack \cup {p}
  /\ UNCHANGED <<txVars, rxVars, irqVars, e1000_lock>>

\* A page is freed, sooner or later or never.
StackFree(p) ==
  /\ p \in stack
  /\ kfree(p)
  /\ stack' = stack \ {p}
  /\ UNCHANGED <<txVars, rxVars, irqVars, e1000_lock>>

\* e1000_transmit is called with page p.
CallTransmit(c, p) ==
  /\ txpc[c] = "idle"
  /\ p \in stack
  /\ Len(submitted) < MaxSends
  /\ stack' = stack \ {p}
  /\ txbuf' = [txbuf EXCEPT ![c] = p]
  /\ txpc' = [txpc EXCEPT ![c] = "transmit"]
  /\ UNCHANGED <<TDH, TDT, txDD, txAddr, tx_bufs, submitted, wire,
                 freelist, content, rxVars, irqVars, e1000_lock>>

\* It returns -1: the page is the caller's again.
TakeBack(c) ==
  /\ txpc[c] = "failed"
  /\ stack' = stack \cup {txbuf[c]}
  /\ txbuf' = [txbuf EXCEPT ![c] = NULL]
  /\ txpc' = [txpc EXCEPT ![c] = "idle"]
  /\ UNCHANGED <<TDH, TDT, txDD, txAddr, tx_bufs, submitted, wire,
                 freelist, content, rxVars, irqVars, e1000_lock>>

-----------------------------------------------------------------------------
(* e1000_intr and e1000_recv *)

\* Fault: the cause is not acknowledged at the card.
e1000_intrFault ==
  /\ rxpc = "off" /\ irq
  /\ irq' = FALSE /\ rxpc' = "test"
  /\ UNCHANGED <<ICR, RDH, RDT, rxDD, rxFrame, rx_bufs, rxi, dst, accepted,
                 taken, delivered, txVars, memVars, e1000_lock>>

\* CPU 0 takes the latched interrupt and acknowledges it at the card before
\* it looks at the ring.
e1000_intr ==
  /\ rxpc = "off" /\ irq
  /\ irq' = FALSE
  /\ ICR' = FALSE
  /\ rxpc' = "test"
  /\ UNCHANGED <<RDH, RDT, rxDD, rxFrame, rx_bufs, rxi, dst, accepted, taken,
                 delivered, txVars, memVars, e1000_lock>>

\* Top of the loop, under e1000_lock: the descriptor after the tail is either
\* done, or the loop ends and the interrupt returns.
RecvTest ==
  LET i == RxNext(RDT) IN
  /\ rxpc = "test"
  /\ e1000_lock = NULL
  /\ rxi' = i
  /\ IF rxDD[i] THEN rxpc' = "copy" /\ e1000_lock' = Intr
                ELSE rxpc' = "off" /\ UNCHANGED e1000_lock
  /\ UNCHANGED <<RDH, RDT, rxDD, rxFrame, rx_bufs, dst, accepted, taken,
                 delivered, txVars, irqVars, memVars>>

\* Copies the frame into a fresh page; with a bad length or no page the frame
\* is dropped (dst stays 0).
RecvCopy ==
  /\ rxpc = "copy"
  /\ \/ /\ rxFrame[rxi] \notin BadFrames
        /\ \E p \in Pages :
             /\ kalloc(p)
             /\ dst' = p
             /\ content' = [content EXCEPT ![p] = rxFrame[rxi]]
     \/ /\ rxFrame[rxi] \in BadFrames \/ kalloc_fails
        /\ dst' = NULL
        /\ UNCHANGED <<freelist, content>>
  /\ rxpc' = "clear"
  /\ UNCHANGED <<RDH, RDT, rxDD, rxFrame, rx_bufs, rxi, accepted, taken,
                 delivered, stack, txVars, irqVars, e1000_lock>>

\* Fault: the status is left alone.
RecvClearFault ==
  /\ rxpc = "clear" /\ rxpc' = "return"
  /\ UNCHANGED <<rxDD, RDH, RDT, rxFrame, rx_bufs, rxi, dst, accepted, taken,
                 delivered, txVars, irqVars, memVars, e1000_lock>>

\* Clears the descriptor's status.
RecvClear ==
  /\ rxpc = "clear"
  /\ rxDD' = [rxDD EXCEPT ![rxi] = FALSE]
  /\ rxpc' = "return"
  /\ UNCHANGED <<RDH, RDT, rxFrame, rx_bufs, rxi, dst, accepted, taken,
                 delivered, txVars, irqVars, memVars, e1000_lock>>

\* Advances the tail: the card may use the descriptor again.
RecvReturn ==
  /\ rxpc = "return"
  /\ RDT' = rxi
  /\ taken' = taken + 1
  /\ e1000_lock' = NULL
  /\ rxpc' = IF dst = NULL THEN "test" ELSE "deliver"
  /\ UNCHANGED <<RDH, rxDD, rxFrame, rx_bufs, rxi, dst, accepted, delivered,
                 txVars, irqVars, memVars>>

\* net_rx takes the page over, outside e1000_lock.
RecvDeliver ==
  /\ rxpc = "deliver"
  /\ stack' = stack \cup {dst}
  /\ delivered' = Append(delivered, content[dst])
  /\ dst' = NULL
  /\ rxpc' = "test"
  /\ UNCHANGED <<RDH, RDT, rxDD, rxFrame, rx_bufs, rxi, accepted, taken,
                 txVars, irqVars, freelist, content, e1000_lock>>

-----------------------------------------------------------------------------
(* The card *)

\* Sends the frame of the head descriptor and writes the descriptor back.
NicSend ==
  /\ TDH # TDT
  /\ wire' = Append(wire, content[txAddr[TDH]])
  /\ txDD' = [txDD EXCEPT ![TDH] = TRUE]
  /\ TDH' = TxNext(TDH)
  /\ UNCHANGED <<TDT, txAddr, tx_bufs, txpc, txbuf, submitted, rxVars,
                 irqVars, memVars, e1000_lock>>

\* Writes a frame into the head buffer, marks the descriptor done and raises
\* the receive cause; the line's rising edge latches an interrupt.  A frame
\* that arrives when the range is empty is dropped by the card: no step.
NicReceive ==
  /\ RDH # RDT
  /\ accepted < MaxFrames
  /\ rxFrame' = [rxFrame EXCEPT ![RDH] = accepted + 1]
  /\ rxDD' = [rxDD EXCEPT ![RDH] = TRUE]
  /\ RDH' = RxNext(RDH)
  /\ accepted' = accepted + 1
  /\ ICR' = TRUE
  /\ irq' = (irq \/ ~ICR)
  /\ UNCHANGED <<RDT, rx_bufs, rxpc, rxi, dst, taken, delivered, txVars,
                 memVars, e1000_lock>>

-----------------------------------------------------------------------------
e1000_transmit(c) == TransmitTest(c) \/ TransmitProgram(c) \/ TransmitTail(c)
e1000_recv == RecvTest \/ RecvCopy \/ RecvClear \/ RecvReturn \/ RecvDeliver

Next ==
  \/ \E c \in Callers : e1000_transmit(c) \/ TakeBack(c)
  \/ \E c \in Callers, p \in Pages : CallTransmit(c, p)
  \/ \E p \in Pages, n \in Payloads \cup {Junk} : StackAlloc(p, n)
  \/ \E p \in Pages : StackFree(p)
  \/ e1000_intr \/ e1000_recv
  \/ NicSend \/ NicReceive

Spec == Init /\ [][Next]_vars

\* Code that has started runs on (the lock is held for a few instructions, the
\* number of calls is bounded), CPU 0 takes a latched interrupt once it leaves
\* the kernel, and the card works on what it owns.
Fairness ==
  /\ \A c \in Callers : WF_vars(e1000_transmit(c) \/ TakeBack(c))
  /\ WF_vars(e1000_intr \/ e1000_recv)
  /\ WF_vars(NicSend)

FairSpec == Spec /\ Fairness
-----------------------------------------------------------------------------
(* Properties *)

\* The type of the state.
TypeOK ==
  /\ TDH \in TxIndex /\ TDT \in TxIndex /\ RDH \in RxIndex /\ RDT \in RxIndex
  /\ ICR \in BOOLEAN /\ irq \in BOOLEAN
  /\ txDD \in [TxIndex -> BOOLEAN] /\ rxDD \in [RxIndex -> BOOLEAN]
  /\ txAddr \in [TxIndex -> Pages \cup {NULL}]
  /\ tx_bufs \in [TxIndex -> Pages \cup {NULL}]
  /\ rxFrame \in [RxIndex -> Nat] /\ rx_bufs \in [RxIndex -> Pages]
  /\ e1000_lock \in Contexts \cup {NULL}
  /\ freelist \subseteq Pages /\ stack \subseteq Pages
  /\ content \in [Pages -> Nat]
  /\ txpc \in [Callers -> {"idle", "transmit", "program", "tail", "failed"}]
  /\ txbuf \in [Callers -> Pages \cup {NULL}]
  /\ rxpc \in {"off", "test", "copy", "clear", "return", "deliver"}
  /\ rxi \in RxIndex /\ dst \in Pages \cup {NULL}
  /\ accepted \in Nat /\ taken \in Nat
  /\ submitted \in Seq(Nat) /\ wire \in Seq(Nat) /\ delivered \in Seq(Nat)

\* The indices from a up to and not including b, going round a ring.
InRange(a, b, i) == IF a <= b THEN a <= i /\ i < b ELSE a <= i \/ i < b

\* How many they are, in a ring of n.
Distance(a, b, n) == IF a <= b THEN b - a ELSE b - a + n

CardOwnsTx(i) == InRange(TDH, TDT, i)
DoneRx(i) == InRange(RxNext(RDT), RDH, i)

\* The pages in the rings, passed to e1000_transmit, and in e1000_recv's dst.
TxBufs == {tx_bufs[i] : i \in TxIndex} \ {NULL}
RxBufs == {rx_bufs[i] : i \in RxIndex}
Passed == {txbuf[c] : c \in Callers} \ {NULL}
Copied == {dst} \ {NULL}

\* Every page has one owner: the free list, a slot of either ring, a caller of
\* e1000_transmit, e1000_recv's dst, or the network stack.  No page is freed
\* twice or freed while the card or the stack uses it, and none is lost
\* (e1000.c:124, 151-153, 171-172, 264: who frees what).
PageOwnership ==
  /\ \A i, j \in TxIndex :
       tx_bufs[i] = tx_bufs[j] /\ tx_bufs[i] # NULL => i = j
  /\ \A c, d \in Callers : txbuf[c] = txbuf[d] /\ txbuf[c] # NULL => c = d
  /\ \A i, j \in RxIndex : rx_bufs[i] = rx_bufs[j] => i = j
  /\ freelist \cap (TxBufs \cup RxBufs \cup Passed \cup Copied \cup stack) = {}
  /\ TxBufs \cap (RxBufs \cup Passed \cup Copied \cup stack) = {}
  /\ RxBufs \cap (Passed \cup Copied \cup stack) = {}
  /\ Passed \cap (Copied \cup stack) = {}
  /\ Copied \cap stack = {}
  /\ Pages = freelist \cup TxBufs \cup RxBufs \cup Passed \cup Copied \cup stack

\* The card only ever reads pages the driver has put in tx_bufs for it and not
\* yet seen done: what it is to send cannot be freed or overwritten
\* (e1000.c:143-144, 152).
TxDmaSafe ==
  \A i \in TxIndex :
    CardOwnsTx(i) => ~txDD[i] /\ txAddr[i] = tx_bufs[i] /\ tx_bufs[i] # NULL

\* What goes out on the wire is what e1000_transmit accepted, in that order,
\* each frame once and unchanged.
WireFaithful ==
  /\ Len(wire) <= Len(submitted)
  /\ \A k \in 1 .. Len(wire) : wire[k] = submitted[k]

\* Between calls, DD is clear exactly on the descriptors the card owns, or the
\* ring is full to the last descriptor and the card owns none: the one state
\* in which e1000_transmit's test of DD misjudges (e1000.c:143-149).
TxDoneOrOwned ==
  e1000_lock = NULL =>
    \/ \A i \in TxIndex : txDD[i] <=> ~CardOwnsTx(i)
    \/ TDH = TDT /\ \A i \in TxIndex : ~txDD[i]

\* DD marks exactly the descriptors between tail and head (but for the one
\* e1000_recv is giving back), the card's range and the driver's never
\* overlap, and the frames in them are the ones not yet taken, in the order
\* of arrival (e1000.c:209-213, 252-256).
RxRing ==
  /\ \A i \in RxIndex :
       /\ rxDD[i] <=> DoneRx(i) /\ ~(rxpc = "return" /\ i = rxi)
       /\ DoneRx(i) =>
            rxFrame[i] = taken + 1 + Distance(RxNext(RDT), i, RX_RING_SIZE)
  /\ accepted = taken + Distance(RxNext(RDT), RDH, RX_RING_SIZE)
  /\ rxpc \in RxHolding => rxi = RxNext(RDT) /\ DoneRx(rxi)

\* Frames reach net_rx whole, in the order the card received them and none
\* twice: the copy is made before the buffer goes back to the card
\* (e1000.c:236-238).
DeliveredInOrder ==
  /\ \A j, k \in 1 .. Len(delivered) : j < k => delivered[j] < delivered[k]
  /\ \A k \in 1 .. Len(delivered) : delivered[k] <= taken
  /\ rxpc = "deliver" => content[dst] = taken

\* A frame in the ring never waits for an interrupt that will not come: one is
\* latched, or e1000_recv is still going to look (e1000.c:272-277).
NoLostInterrupt ==
  (\E i \in RxIndex : rxDD[i]) => irq \/ rxpc # "off"

\* Every frame the card accepts is taken from the ring.
RxProgress == \A n \in 1 .. MaxFrames : accepted >= n ~> taken >= n

\* Every frame e1000_transmit accepts is sent, unless the ring is filled to the
\* last descriptor: TDT then meets TDH and the card sees an empty ring
\* (e1000.c:168, 174-176).
TxProgress ==
  \A n \in 1 .. MaxSends :
    Len(submitted) >= n ~>
      Len(wire) >= n \/ (TDH = TDT /\ \A i \in TxIndex : ~txDD[i])

\* With e1000_lock held, its holder is the only context between the lock's
\* acquire and its release.
LockHeld ==
  /\ \A c \in Callers : txpc[c] \in TxHolding => e1000_lock = c
  /\ rxpc \in RxHolding =>
       e1000_lock = Intr /\ \A c \in Callers : txpc[c] \notin TxHolding

\* "If the descriptor's DD bit is NOT set, it means the NIC is still using
\* this descriptor" (e1000.c:143-144), outside a call under way.
NotDoneMeansInUse ==
  e1000_lock = NULL => \A i \in TxIndex : ~txDD[i] => CardOwnsTx(i)

\* The driver and the card never disturb each other's memory: the card reads
\* only what is kept for it, and every page has one owner (e1000.c:124, 143-153,
\* 171-172, 264).
DriverSafe == TypeOK /\ TxDmaSafe /\ PageOwnership

\* What is transmitted is what was accepted, and DD is right about who owns a
\* descriptor, but for a ring that is full (e1000.c:143-176).
TxFaithful == WireFaithful /\ TxDoneOrOwned

\* No frame is lost between the card's ring and net_rx, taken twice or out of
\* order, or left in the ring without an interrupt to come (e1000.c:209-277).
RxSafe == RxRing /\ DeliveredInOrder /\ NoLostInterrupt

\* Accepted frames are sent, and received ones taken from the ring.
Progress == RxProgress /\ TxProgress
=============================================================================
