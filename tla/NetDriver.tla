----------------------------- MODULE NetDriver ------------------------------
(***************************************************************************)
(* The network stack on top of the e1000 driver: NetStack and E1000 side   *)
(* by side over one page allocator.  Calls between them are joint steps:   *)
(* e1000_transmit's call and return, and net_rx's.  A step of one side     *)
(* that changes which pages it owns is seen by the other as a step of its  *)
(* environment; that the two fit is checked (DriverContract, StackContract)*)
(* and is what carries the properties of each over to the whole.           *)
(***************************************************************************)
EXTENDS NetStack

CONSTANTS TX_RING_SIZE, RX_RING_SIZE, MaxSends, MaxFrames, BadFrames

VARIABLES
  TDH, TDT, RDH, RDT, ICR, irq, txDD, txAddr, tx_bufs, rxDD, rxFrame, rx_bufs,
  e1000_lock, txpc, txbuf, rxpc, rxi, dst, stack, submitted, wire, accepted,
  taken, delivered

Contexts == Procs \cup {Intr}

Drv == INSTANCE E1000 WITH Callers <- Contexts

ringVars == <<TDH, TDT, RDH, RDT, ICR, irq, txDD, txAddr, tx_bufs, rxDD,
              rxFrame, rx_bufs, e1000_lock, txpc, txbuf, rxpc, rxi, dst,
              submitted, wire, accepted, taken, delivered>>
allVars == <<vars, ringVars, stack>>

\* The pages the driver has for sending, as NetStack sees them.
TxPages ==
  ({tx_bufs[i] : i \in 0 .. TX_RING_SIZE - 1} \cup {txbuf[c] : c \in Contexts})
    \ {NULL}

\* The card is set up by pci_init before the first process runs.
SysInit ==
  /\ Drv!Init
  /\ {rx_bufs[i] : i \in 0 .. RX_RING_SIZE - 1} = RxPages
  /\ NetInit

-----------------------------------------------------------------------------
\* What a step of one side alone means for the other.
DriverIdle == stack' = StackPages' /\ UNCHANGED <<ringVars, drvVars>>
StackIdle == rcv' = dst' /\ drv' = TxPages' /\ UNCHANGED netVars

ProcStep ==
  /\ \/ \E p \in Procs, q \in Ports : sys_bind(p, q) \/ RecvEnter(p, q)
     \/ \E p \in Senders, n \in Payloads : SendBuild(p, n)
     \/ \E p \in Procs : sys_recv(p) \/ SendFree(p) \/ TrapExit(p)
     \/ \E p \in Victims : kill(p)
  /\ DriverIdle

NetRxStep ==
  /\ NetRxUnknown \/ ip_rx \/ ArpRxDrop \/ ArpRxReply \/ ArpFree
  /\ DriverIdle

RingStep ==
  /\ \/ \E c \in Contexts : Drv!TransmitTest(c) \/ Drv!TransmitProgram(c)
     \/ Drv!e1000_intr
     \/ Drv!RecvTest /\ ipc = "idle"
     \/ Drv!RecvCopy \/ Drv!RecvClear \/ Drv!RecvReturn
  /\ StackIdle

CardStep == (Drv!NicSend \/ Drv!NicReceive) /\ StackIdle

\* sys_send calls e1000_transmit, which returns 0 or -1.
SendTransmit(p) == SendCall(p) /\ Drv!CallTransmit(p, sbuf[p])
SendReturns(p) ==
  \/ SendDone(p) /\ Drv!TransmitTail(p)
  \/ SendRefused(p) /\ Drv!TakeBack(p)

\* arp_rx calls e1000_transmit, which returns 0 or -1.
ArpTransmit == ArpCall /\ Drv!CallTransmit(Intr, reply)
ArpReturns ==
  \/ ArpDone /\ Drv!TransmitTail(Intr)
  \/ ArpRefused /\ Drv!TakeBack(Intr)

\* e1000_recv calls net_rx.
Deliver == NetRxCall /\ Drv!RecvDeliver

SysNext ==
  \/ ProcStep \/ NetRxStep \/ RingStep \/ CardStep
  \/ \E p \in Procs : SendTransmit(p) \/ SendReturns(p)
  \/ ArpTransmit \/ ArpReturns
  \/ Deliver

SysSpec == SysInit /\ [][SysNext]_allVars

-----------------------------------------------------------------------------
(* Properties *)

\* The stack keeps to what the driver expects of it: it passes pages it owns to
\* e1000_transmit, takes back the refused ones, frees what net_rx gave it once.
DriverContract == Drv!Spec

\* The driver keeps to what the stack expects: one copied frame at a time goes
\* to net_rx, and a page is freed only after it was sent.
StackContract == Spec

\* From the card to the user: on every port frames are received in the order in
\* which the card accepted them, across both rings, the copy, the queue and any
\* number of receivers; the queues' heads, tails and counts agree.
EndToEndOrder ==
  QueueShape /\ \A q \in Ports :
    LET f(k) == content[fullbuf[Nodes(q)[k]]] IN
    /\ \A j, k \in 1 .. pqcount[q] : j < k => f(j) < f(k)
    /\ \A k \in 1 .. pqcount[q], p \in Procs : port[p] = q => want[p] < f(k)
    /\ \A k \in 1 .. pqcount[q] :
         f(k) <= taken /\ (ipc = "net_rx" => f(k) < content[ibuf])

\* Each half is the environment that the other one assumes.
Contracts == DriverContract /\ StackContract

-----------------------------------------------------------------------------
(* The instance for TLC: the first pages are the receive ring's *)

MCRxPages == 1 .. RX_RING_SIZE
MCFrames == 1 .. MaxFrames

FirstPages == SysInit /\ rx_bufs = [i \in 0 .. RX_RING_SIZE - 1 |-> i + 1]

MCSpec == FirstPages /\ [][SysNext]_allVars
=============================================================================
