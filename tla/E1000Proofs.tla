---------------------------- MODULE E1000Proofs -----------------------------
(***************************************************************************)
(* What holds of the e1000 driver for rings of any size, any number of     *)
(* callers, pages and frames: the lock and the pages; then the two sides.  *)
(* Receive: the ring's discipline, the interrupt that is never lost, and   *)
(* the order in which frames reach net_rx.  Transmit: what goes out on the *)
(* wire, and the one way in which the ring can stall.                      *)
(***************************************************************************)
EXTENDS E1000, TLAPS

-----------------------------------------------------------------------------
(* Rings *)

LEMMA TxNextType ==
  ASSUME NEW i \in TxIndex
  PROVE  /\ i % TX_RING_SIZE = i
         /\ TxNext(i) = IF i + 1 = TX_RING_SIZE THEN 0 ELSE i + 1
         /\ TxNext(i) \in TxIndex
  BY RingSizes DEF TxNext, TxIndex

LEMMA RxNextType ==
  ASSUME NEW i \in RxIndex
  PROVE  /\ RxNext(i) = IF i + 1 = RX_RING_SIZE THEN 0 ELSE i + 1
         /\ RxNext(i) \in RxIndex
  BY RingSizes DEF RxNext, RxIndex

\* kfree of a page, or of NULL, keeps the allocator's types.
LEMMA KfreeType ==
  ASSUME freelist \subseteq Pages, content \in [Pages -> Nat],
         NEW p \in Pages \cup {NULL}, kfree(p)
  PROVE  freelist' \subseteq Pages /\ content' \in [Pages -> Nat]
  BY DEF kfree, Junk

-----------------------------------------------------------------------------
(* Types, the lock and the transmit ring *)

\* A caller has a page exactly from the call until the page is in the ring or
\* given back; e1000_recv has one from the copy until net_rx takes it.
Locals ==
  /\ \A c \in Callers :
       txbuf[c] # NULL <=> txpc[c] \in {"transmit", "program", "failed"}
  /\ dst # NULL => rxpc \in {"clear", "return", "deliver"}
  /\ rxpc = "deliver" => dst # NULL

\* A programmed descriptor is ready for the card before the tail is advanced.
TailReady ==
  \A c \in Callers :
    txpc[c] = "tail" => /\ ~txDD[TDT]
                        /\ txAddr[TDT] = tx_bufs[TDT] /\ tx_bufs[TDT] # NULL

Base == TypeOK /\ LockHeld /\ Locals /\ TxDmaSafe /\ TailReady

LEMMA BaseInit == Init => Base
<1> SUFFICES ASSUME Init PROVE Base
  OBVIOUS
<1> USE DEF Init
<1>1. /\ TDH \in TxIndex /\ TDT \in TxIndex /\ RDH \in RxIndex
      /\ RDT \in RxIndex /\ rxi \in RxIndex
  BY RingSizes DEF TxIndex, RxIndex
<1>2. /\ freelist \subseteq Pages /\ content \in [Pages -> Nat]
      /\ rx_bufs \in [RxIndex -> Pages] /\ rxFrame \in [RxIndex -> Nat]
  OBVIOUS
<1>3. submitted \in Seq(Nat) /\ wire \in Seq(Nat) /\ delivered \in Seq(Nat)
  OBVIOUS
<1>4. /\ txDD \in [TxIndex -> BOOLEAN] /\ rxDD \in [RxIndex -> BOOLEAN]
      /\ txAddr \in [TxIndex -> Pages \cup {NULL}]
      /\ tx_bufs \in [TxIndex -> Pages \cup {NULL}]
  OBVIOUS
<1>5. TypeOK
  BY <1>1, <1>2, <1>3, <1>4, Zenon DEF TypeOK, Contexts
<1>6. LockHeld /\ Locals /\ TailReady
  BY Zenon DEF LockHeld, Locals, TailReady, RxHolding, TxHolding
<1>7. TxDmaSafe
  BY <1>1 DEF TxDmaSafe, CardOwnsTx, InRange, TxIndex
<1>q. QED BY <1>5, <1>6, <1>7, Zenon DEF Base

\* e1000_transmit and its callers.
LEMMA BaseTransmit ==
  ASSUME Base, NEW c \in Callers, e1000_transmit(c) \/ TakeBack(c)
  PROVE  Base'
<1> USE DEF Base
<1>t. TDT % TX_RING_SIZE = TDT /\ TxNext(TDT) \in TxIndex
  BY TxNextType, Zenon DEF TypeOK
<1>1. CASE TransmitTest(c)
  <2> USE <1>1, <1>t DEF TransmitTest
  <2>1. TypeOK'
    BY Zenon DEF TypeOK, Contexts, rxVars, irqVars, memVars
  <2>2. LockHeld'
    BY NullNotContext DEF TypeOK, LockHeld, TxHolding, RxHolding, rxVars
  <2>3. Locals'
    BY DEF TypeOK, Locals, rxVars
  <2>4. TxDmaSafe' /\ TailReady'
    BY Zenon DEF TypeOK, TxDmaSafe, TailReady, CardOwnsTx
  <2>q. QED BY <2>1, <2>2, <2>3, <2>4, Zenon
<1>2. CASE TransmitProgram(c)
  <2>1. kfree(tx_bufs[TDT]) /\ Program(c, TDT, FALSE)
    BY <1>2, <1>t, Zenon DEF TransmitProgram
  <2>2. txbuf[c] \in Pages /\ txpc[c] = "program"
    BY <2>1, Zenon DEF Program, TypeOK, Locals
  <2>3. freelist' \subseteq Pages /\ content' \in [Pages -> Nat]
    BY <2>1, KfreeType, Zenon DEF TypeOK
  <2>4. submitted' \in Seq(Nat)
    BY <2>1, <2>2 DEF Program, TypeOK
  <2>5. TypeOK'
    BY <2>1, <2>2, <2>3, <2>4, Zenon DEF Program, TypeOK, rxVars, irqVars, Contexts
  <2>6. LockHeld'
    BY <2>1, <2>2, NullNotContext, Zenon DEF Program, TypeOK, LockHeld, TxHolding,
       RxHolding, rxVars
  <2>7. Locals'
    BY <2>1, <2>2, Zenon DEF Program, TypeOK, Locals, rxVars
  <2>8. TxDmaSafe'
    <3>1. ~CardOwnsTx(TDT)
      BY DEF TypeOK, CardOwnsTx, InRange, TxIndex
    <3>q. QED BY <2>1, <3>1, Zenon DEF Program, TypeOK, TxDmaSafe, CardOwnsTx
  <2>9. TailReady'
    BY <2>1, <2>2, NullNotPage, Zenon DEF Program, TypeOK, TailReady
  <2>q. QED BY <2>5, <2>6, <2>7, <2>8, <2>9, Zenon
<1>3. CASE TransmitTail(c)
  <2> USE <1>3, <1>t DEF TransmitTail
  <2>1. TypeOK'
    BY Zenon DEF TypeOK, Contexts, rxVars, irqVars, memVars
  <2>2. LockHeld'
    BY NullNotContext, Zenon DEF TypeOK, LockHeld, TxHolding, RxHolding, rxVars
  <2>3. Locals'
    BY Zenon DEF TypeOK, Locals, rxVars
  <2>4. TxDmaSafe'
    <3> SUFFICES ASSUME NEW i \in TxIndex, CardOwnsTx(i)'
                 PROVE  ~txDD[i] /\ txAddr[i] = tx_bufs[i] /\ tx_bufs[i] # NULL
      BY Zenon DEF TxDmaSafe
    <3>1. TxNext(TDT) = IF TDT + 1 = TX_RING_SIZE THEN 0 ELSE TDT + 1
      BY TxNextType, Zenon DEF TypeOK
    <3>2. InRange(TDH, TxNext(TDT), i)
      BY Zenon DEF CardOwnsTx
    <3>3. TDH \in TxIndex /\ TDT \in TxIndex
      BY Zenon DEF TypeOK
    <3> HIDE <1>3, <1>t DEF TransmitTail, Base
    <3>4. CardOwnsTx(i) \/ i = TDT
      BY <3>1, <3>2, <3>3, RingSizes DEF CardOwnsTx, InRange, TxIndex
    <3>q. QED BY <1>3, <3>4, Zenon DEF TransmitTail, Base, TxDmaSafe, TailReady
  <2>5. TailReady'
    BY NullNotContext, Zenon DEF TypeOK, TailReady, LockHeld, TxHolding
  <2>q. QED BY <2>1, <2>2, <2>3, <2>4, <2>5, Zenon
<1>4. CASE TakeBack(c)
  <2>1. txbuf[c] \in Pages
    BY <1>4, Zenon DEF TakeBack, TypeOK, Locals
  <2>2. TypeOK'
    BY <1>4, <2>1 DEF TakeBack, TypeOK, Contexts, rxVars, irqVars
  <2>3. LockHeld' /\ Locals'
    BY <1>4, Zenon DEF TakeBack, TypeOK, LockHeld, Locals, TxHolding, RxHolding, rxVars
  <2>4. TxDmaSafe' /\ TailReady'
    BY <1>4, Zenon DEF TakeBack, TypeOK, TxDmaSafe, TailReady, CardOwnsTx
  <2>q. QED BY <2>2, <2>3, <2>4, Zenon
<1>q. QED BY <1>1, <1>2, <1>3, <1>4, Zenon DEF e1000_transmit

\* The code above the driver.
LEMMA BaseStack ==
  ASSUME Base, NEW p \in Pages,
         \/ \E c \in Callers : CallTransmit(c, p)
         \/ \E n \in Payloads \cup {Junk} : StackAlloc(p, n)
         \/ StackFree(p)
  PROVE  Base'
<1> USE DEF Base
<1>1. ASSUME NEW c \in Callers, CallTransmit(c, p) PROVE Base'
  <2> USE <1>1 DEF CallTransmit
  <2>1. TypeOK'
    BY Zenon DEF TypeOK, Contexts, rxVars, irqVars
  <2>2. LockHeld' /\ TailReady'
    BY Zenon DEF TypeOK, LockHeld, TailReady, TxHolding, RxHolding, rxVars
  <2>3. Locals'
    BY NullNotPage, Zenon DEF TypeOK, Locals, rxVars
  <2>4. TxDmaSafe'
    BY Zenon DEF TxDmaSafe, CardOwnsTx
  <2>q. QED BY <2>1, <2>2, <2>3, <2>4, Zenon
<1>2. ASSUME NEW n \in Payloads \cup {Junk}, StackAlloc(p, n) PROVE Base'
  <2> USE <1>2 DEF StackAlloc
  <2>1. TypeOK'
    <3>1. content' \in [Pages -> Nat]
      BY PayloadsNat DEF TypeOK, Junk
    <3>2. freelist' \subseteq Pages /\ stack' \subseteq Pages
      BY Zenon DEF TypeOK, kalloc
    <3>q. QED BY <3>1, <3>2, Zenon DEF TypeOK, Contexts, txVars, rxVars, irqVars
  <2>2. LockHeld' /\ TailReady' /\ Locals' /\ TxDmaSafe'
    BY Zenon DEF LockHeld, TailReady, Locals, TxDmaSafe, CardOwnsTx, txVars, rxVars
  <2>q. QED BY <2>1, <2>2, Zenon
<1>3. CASE StackFree(p)
  <2> USE <1>3 DEF StackFree
  <2>1. freelist' \subseteq Pages /\ content' \in [Pages -> Nat]
    BY KfreeType, Zenon DEF TypeOK
  <2>2. TypeOK'
    BY <2>1, Zenon DEF TypeOK, Contexts, txVars, rxVars, irqVars
  <2>3. LockHeld' /\ TailReady' /\ Locals' /\ TxDmaSafe'
    BY Zenon DEF LockHeld, TailReady, Locals, TxDmaSafe, CardOwnsTx, txVars, rxVars
  <2>q. QED BY <2>2, <2>3, Zenon
<1>q. QED BY <1>1, <1>2, <1>3, Zenon

\* e1000_intr and e1000_recv.
LEMMA BaseRecv ==
  ASSUME Base, e1000_intr \/ e1000_recv
  PROVE  Base'
<1> USE DEF Base
<1>n. RxNext(RDT) \in RxIndex
  BY RxNextType, Zenon DEF TypeOK
<1>1. CASE e1000_intr
  BY <1>1, Zenon DEF e1000_intr, TypeOK, LockHeld, Locals, TxDmaSafe, TailReady,
              CardOwnsTx, RxHolding, txVars, memVars, Contexts
<1>2. CASE RecvTest
  <2> USE <1>2, <1>n DEF RecvTest
  <2>1. TypeOK'
    BY Zenon DEF TypeOK, Contexts, txVars, irqVars, memVars
  <2>2. LockHeld'
    BY NullNotContext, Zenon DEF TypeOK, LockHeld, TxHolding, RxHolding, txVars
  <2>3. Locals' /\ TxDmaSafe' /\ TailReady'
    BY Zenon DEF Locals, TxDmaSafe, TailReady, CardOwnsTx, txVars
  <2>q. QED BY <2>1, <2>2, <2>3, Zenon
<1>3. CASE RecvCopy
  <2> USE <1>3 DEF RecvCopy
  <2>1. TypeOK'
    BY DEF TypeOK, Contexts, kalloc, kalloc_fails, txVars, irqVars
  <2>2. LockHeld' /\ Locals' /\ TxDmaSafe' /\ TailReady'
    BY Zenon DEF LockHeld, Locals, TxDmaSafe, TailReady, CardOwnsTx, RxHolding, txVars
  <2>q. QED BY <2>1, <2>2, Zenon
<1>4. CASE RecvClear
  BY <1>4, Zenon DEF RecvClear, TypeOK, LockHeld, Locals, TxDmaSafe, TailReady,
              CardOwnsTx, RxHolding, txVars, irqVars, memVars, Contexts
<1>5. CASE RecvReturn
  <2> USE <1>5 DEF RecvReturn
  <2>1. TypeOK'
    BY DEF TypeOK, Contexts, txVars, irqVars, memVars
  <2>2. LockHeld'
    BY Zenon DEF LockHeld, TxHolding, RxHolding, txVars
  <2>3. Locals' /\ TxDmaSafe' /\ TailReady'
    BY Zenon DEF Locals, TxDmaSafe, TailReady, CardOwnsTx, txVars
  <2>q. QED BY <2>1, <2>2, <2>3, Zenon
<1>6. CASE RecvDeliver
  <2> USE <1>6 DEF RecvDeliver
  <2>1. dst \in Pages
    BY Zenon DEF TypeOK, Locals
  <2>2. TypeOK'
    <3>1. delivered' \in Seq(Nat)
      BY <2>1 DEF TypeOK
    <3>q. QED BY <2>1, <3>1, Zenon DEF TypeOK, Contexts, txVars, irqVars
  <2>3. LockHeld' /\ Locals' /\ TxDmaSafe' /\ TailReady'
    BY Zenon DEF LockHeld, Locals, TxDmaSafe, TailReady, CardOwnsTx, RxHolding, txVars
  <2>q. QED BY <2>2, <2>3, Zenon
<1>q. QED BY <1>1, <1>2, <1>3, <1>4, <1>5, <1>6, Zenon DEF e1000_recv

\* The card.
LEMMA BaseNic ==
  ASSUME Base, NicSend \/ NicReceive
  PROVE  Base'
<1> USE DEF Base
<1>1. CASE NicSend
  <2> USE <1>1 DEF NicSend
  <2>1. /\ TDH \in TxIndex /\ TDT \in TxIndex /\ TxNext(TDH) \in TxIndex
        /\ TxNext(TDH) = IF TDH + 1 = TX_RING_SIZE THEN 0 ELSE TDH + 1
    BY TxNextType, Zenon DEF TypeOK
  <2>2. CardOwnsTx(TDH)
    BY <2>1 DEF CardOwnsTx, InRange, TxIndex
  <2>3. txAddr[TDH] \in Pages
    BY <2>1, <2>2, Zenon DEF TxDmaSafe, TypeOK
  <2>4. TypeOK'
    <3>1. wire' \in Seq(Nat)
      BY <2>3 DEF TypeOK
    <3>2. txDD' \in [TxIndex -> BOOLEAN]
      BY Zenon DEF TypeOK
    <3>q. QED BY <2>1, <3>1, <3>2, Zenon DEF TypeOK, rxVars, irqVars, memVars, Contexts
  <2>5. LockHeld' /\ Locals'
    BY Zenon DEF LockHeld, Locals, rxVars
  <2>6. TxDmaSafe'
    <3> SUFFICES ASSUME NEW i \in TxIndex, InRange(TxNext(TDH), TDT, i)
                 PROVE  InRange(TDH, TDT, i) /\ i # TDH
      BY Zenon DEF TxDmaSafe, CardOwnsTx, TypeOK
    <3>1. TDH # TDT
      OBVIOUS
    <3> HIDE <1>1 DEF NicSend, Base
    <3>q. QED BY <2>1, <3>1, RingSizes DEF InRange, TxIndex
  <2>7. TailReady'
    BY <2>1, Zenon DEF TailReady, TypeOK
  <2>q. QED BY <2>4, <2>5, <2>6, <2>7, Zenon
<1>2. CASE NicReceive
  <2>1. RxNext(RDH) \in RxIndex /\ RDH \in RxIndex
    BY RxNextType, Zenon DEF TypeOK
  <2>a. irq' \in BOOLEAN /\ ICR' \in BOOLEAN
    BY <1>2, Zenon DEF NicReceive
  <2>b. /\ rxDD' \in [RxIndex -> BOOLEAN] /\ rxFrame' \in [RxIndex -> Nat]
        /\ accepted' \in Nat
    BY <1>2, <2>1 DEF NicReceive, TypeOK
  <2>2. TypeOK'
    BY <1>2, <2>1, <2>a, <2>b, Zenon DEF NicReceive, TypeOK, txVars, memVars, Contexts
  <2>3. LockHeld' /\ Locals' /\ TxDmaSafe' /\ TailReady'
    BY <1>2, Zenon DEF NicReceive, LockHeld, Locals, TxDmaSafe, TailReady, CardOwnsTx,
       txVars
  <2>q. QED BY <2>2, <2>3, Zenon
<1>q. QED BY <1>1, <1>2, Zenon

LEMMA BaseStep == Base /\ [Next]_vars => Base'
<1> SUFFICES ASSUME Base, [Next]_vars PROVE Base'
  OBVIOUS
<1>1. CASE UNCHANGED vars
  BY <1>1 DEF Base, TypeOK, LockHeld, Locals, TxDmaSafe, TailReady, CardOwnsTx,
              vars, txVars, rxVars, irqVars, memVars
<1>2. ASSUME NEW c \in Callers, e1000_transmit(c) \/ TakeBack(c) PROVE Base'
  BY <1>2, BaseTransmit, Zenon
<1>3. ASSUME NEW c \in Callers, NEW p \in Pages, CallTransmit(c, p) PROVE Base'
  BY <1>3, BaseStack, Zenon
<1>4. ASSUME NEW p \in Pages, NEW n \in Payloads \cup {Junk}, StackAlloc(p, n)
      PROVE  Base'
  BY <1>4, BaseStack, Zenon
<1>5. ASSUME NEW p \in Pages, StackFree(p) PROVE Base'
  BY <1>5, BaseStack, Zenon
<1>6. CASE e1000_intr \/ e1000_recv
  BY <1>6, BaseRecv, Zenon
<1>7. CASE NicSend \/ NicReceive
  BY <1>7, BaseNic, Zenon
<1>q. QED BY <1>1, <1>2, <1>3, <1>4, <1>5, <1>6, <1>7, Zenon DEF Next

LEMMA BaseInvariant == Spec => []Base
  BY BaseInit, BaseStep, PTL DEF Spec

\* Every variable keeps its type.
THEOREM TypeCorrect == Spec => []TypeOK
<1>1. Base => TypeOK
  BY Zenon DEF Base
<1>q. QED BY <1>1, BaseInvariant, PTL

\* e1000_lock excludes: whoever is between its acquire and its release holds
\* it, be it a transmitter on another CPU or the receive loop.
THEOREM LockExcludes == Spec => []LockHeld
<1>1. Base => LockHeld
  BY Zenon DEF Base
<1>q. QED BY <1>1, BaseInvariant, PTL

\* The card only reads descriptors that are programmed, not done, and whose
\* page is still in tx_bufs.
THEOREM TxDmaIsSafe == Spec => []TxDmaSafe
<1>1. Base => TxDmaSafe
  BY Zenon DEF Base
<1>q. QED BY <1>1, BaseInvariant, PTL

-----------------------------------------------------------------------------
(* Pages *)

owners == <<freelist, tx_bufs, rx_bufs, txbuf, dst, stack>>

LEMMA OwnershipInit == Init => PageOwnership
  BY NullNotPage
  DEF Init, PageOwnership, TxBufs, RxBufs, Passed, Copied

LEMMA OwnershipStep == Base /\ PageOwnership /\ [Next]_vars => PageOwnership'
<1> SUFFICES ASSUME Base, PageOwnership, [Next]_vars PROVE PageOwnership'
  OBVIOUS
<1>t. /\ tx_bufs \in [TxIndex -> Pages \cup {NULL}]
      /\ txbuf \in [Callers -> Pages \cup {NULL}]
  BY Zenon DEF Base, TypeOK
<1>u. ASSUME UNCHANGED owners PROVE PageOwnership'
  <2>1. UNCHANGED <<TxBufs, RxBufs, Passed, Copied, freelist, stack>>
    BY <1>u, Zenon DEF owners, TxBufs, RxBufs, Passed, Copied
  <2>2. UNCHANGED <<tx_bufs, rx_bufs, txbuf>>
    BY <1>u, Zenon DEF owners
  <2>q. QED BY <2>1, <2>2, Zenon DEF PageOwnership
<1>1. ASSUME NEW c \in Callers, TransmitTest(c) \/ TransmitTail(c)
      PROVE  PageOwnership'
  BY <1>1, <1>u, Zenon DEF TransmitTest, TransmitTail, owners, memVars, rxVars
<1>2. ASSUME NEW c \in Callers, TransmitProgram(c) PROVE PageOwnership'
  <2>1. kfree(tx_bufs[TDT]) /\ Program(c, TDT, FALSE)
    BY <1>2, TxNextType, Zenon DEF TransmitProgram, Base, TypeOK
  <2>2. txbuf[c] \in Pages /\ TDT \in TxIndex
    BY <2>1, Zenon DEF Program, Base, TypeOK, Locals
  <2>3. /\ tx_bufs' = [tx_bufs EXCEPT ![TDT] = txbuf[c]]
        /\ txbuf' = [txbuf EXCEPT ![c] = NULL]
        /\ UNCHANGED <<rx_bufs, dst, stack>>
        /\ freelist' = freelist \cup ({tx_bufs[TDT]} \ {NULL})
    BY <2>1, Zenon DEF Program, kfree, rxVars
  <2>4. txbuf[c] \in Passed /\ \A i \in TxIndex : tx_bufs[i] # txbuf[c]
    BY <2>2, NullNotPage DEF PageOwnership, TxBufs, Passed
  <2>5. TxBufs' = (TxBufs \ {tx_bufs[TDT]}) \cup {txbuf[c]}
    BY <1>t, <2>2, <2>3, NullNotPage DEF TxBufs, PageOwnership
  <2>6. Passed' = Passed \ {txbuf[c]}
    BY <1>t, <2>2, <2>3, NullNotPage DEF Passed, PageOwnership
  <2>7. UNCHANGED <<RxBufs, Copied>>
    BY <2>3, Zenon DEF RxBufs, Copied
  <2>8. {tx_bufs[TDT]} \ {NULL} \subseteq TxBufs /\ NULL \notin TxBufs
    BY <2>2, Zenon DEF TxBufs
  <2>9. \A i, j \in TxIndex : (tx_bufs[i] = tx_bufs[j] /\ tx_bufs[i] # NULL)' => i = j
    BY <1>t, <2>2, <2>3, <2>4, Zenon DEF PageOwnership
  <2>10. \A a, d \in Callers : (txbuf[a] = txbuf[d] /\ txbuf[a] # NULL)' => a = d
    BY <1>t, <2>3, Zenon DEF PageOwnership
  <2>q. QED BY <2>3, <2>4, <2>5, <2>6, <2>7, <2>8, <2>9, <2>10 DEF PageOwnership
<1>3. ASSUME NEW c \in Callers, TakeBack(c) PROVE PageOwnership'
  <2>1. txbuf[c] \in Pages
    BY <1>3, Zenon DEF TakeBack, Base, TypeOK, Locals
  <2>2. /\ stack' = stack \cup {txbuf[c]} /\ txbuf' = [txbuf EXCEPT ![c] = NULL]
        /\ UNCHANGED <<freelist, tx_bufs, rx_bufs, dst>>
    BY <1>3, Zenon DEF TakeBack, rxVars
  <2>3. Passed' = Passed \ {txbuf[c]} /\ txbuf[c] \in Passed
    BY <1>t, <2>1, <2>2, NullNotPage DEF Passed, PageOwnership
  <2>4. \A a, d \in Callers : (txbuf[a] = txbuf[d] /\ txbuf[a] # NULL)' => a = d
    BY <1>t, <2>2, Zenon DEF PageOwnership
  <2>5. UNCHANGED <<TxBufs, RxBufs, Copied>>
    BY <2>2, Zenon DEF TxBufs, RxBufs, Copied
  <2>q. QED BY <2>2, <2>3, <2>4, <2>5 DEF PageOwnership
<1>4. ASSUME NEW c \in Callers, NEW p \in Pages, CallTransmit(c, p)
      PROVE  PageOwnership'
  <2>1. txbuf[c] = NULL
    BY <1>4, Zenon DEF CallTransmit, Base, TypeOK, Locals
  <2>2. /\ p \in stack /\ stack' = stack \ {p}
        /\ txbuf' = [txbuf EXCEPT ![c] = p]
        /\ UNCHANGED <<freelist, tx_bufs, rx_bufs, dst>>
    BY <1>4, Zenon DEF CallTransmit, rxVars
  <2>3. Passed' = Passed \cup {p} /\ p \notin Passed
    BY <1>t, <2>1, <2>2, NullNotPage DEF Passed, PageOwnership
  <2>4. \A a, d \in Callers : (txbuf[a] = txbuf[d] /\ txbuf[a] # NULL)' => a = d
    BY <1>t, <2>2, <2>3 DEF PageOwnership, Passed
  <2>5. UNCHANGED <<TxBufs, RxBufs, Copied>>
    BY <2>2, Zenon DEF TxBufs, RxBufs, Copied
  <2>q. QED BY <2>2, <2>3, <2>4, <2>5 DEF PageOwnership
<1>5. ASSUME NEW p \in Pages, NEW n \in Payloads \cup {Junk}, StackAlloc(p, n)
      PROVE  PageOwnership'
  <2>1. /\ p \in freelist /\ freelist' = freelist \ {p}
        /\ stack' = stack \cup {p}
        /\ UNCHANGED <<tx_bufs, rx_bufs, txbuf, dst>>
    BY <1>5, Zenon DEF StackAlloc, kalloc, txVars, rxVars
  <2>2. UNCHANGED <<TxBufs, RxBufs, Passed, Copied>>
    BY <2>1, Zenon DEF TxBufs, RxBufs, Passed, Copied
  <2>q. QED BY <2>1, <2>2 DEF PageOwnership
<1>6. ASSUME NEW p \in Pages, StackFree(p) PROVE PageOwnership'
  <2>1. /\ p \in stack /\ stack' = stack \ {p}
        /\ freelist' = freelist \cup {p}
        /\ UNCHANGED <<tx_bufs, rx_bufs, txbuf, dst>>
    BY <1>6, NullNotPage, Zenon DEF StackFree, kfree, txVars, rxVars
  <2>2. UNCHANGED <<TxBufs, RxBufs, Passed, Copied>>
    BY <2>1, Zenon DEF TxBufs, RxBufs, Passed, Copied
  <2>q. QED BY <2>1, <2>2 DEF PageOwnership
<1>7. CASE e1000_intr \/ RecvTest \/ RecvClear \/ RecvReturn
  BY <1>7, <1>u, Zenon DEF e1000_intr, RecvTest, RecvClear, RecvReturn, owners,
                    txVars, memVars
<1>8. CASE RecvCopy
  <2>1. dst = NULL /\ Copied = {}
    BY <1>8, Zenon DEF RecvCopy, Base, Locals, Copied
  <2>2. UNCHANGED <<tx_bufs, rx_bufs, txbuf, stack>>
    BY <1>8, Zenon DEF RecvCopy, txVars
  <2>3. UNCHANGED <<TxBufs, RxBufs, Passed>>
    BY <2>2, Zenon DEF TxBufs, RxBufs, Passed
  <2>4. \/ \E p \in freelist : freelist' = freelist \ {p} /\ Copied' = {p} \ {NULL}
        \/ freelist' = freelist /\ Copied' = {}
    BY <1>8, Zenon DEF RecvCopy, kalloc, Copied
  <2>5. NULL \notin freelist
    BY NullNotPage, Zenon DEF Base, TypeOK
  <2>q. QED BY <2>1, <2>2, <2>3, <2>4, <2>5 DEF PageOwnership
<1>9. CASE RecvDeliver
  <2>1. dst \in Pages
    BY <1>9, Zenon DEF RecvDeliver, Base, TypeOK, Locals
  <2>2. /\ stack' = stack \cup {dst}
        /\ UNCHANGED <<freelist, tx_bufs, rx_bufs, txbuf>>
    BY <1>9, Zenon DEF RecvDeliver, txVars
  <2>3. Copied = {dst} /\ Copied' = {}
    BY <1>9, <2>1, NullNotPage, Zenon DEF RecvDeliver, Copied
  <2>4. UNCHANGED <<TxBufs, RxBufs, Passed>>
    BY <2>2, Zenon DEF TxBufs, RxBufs, Passed
  <2>q. QED BY <2>2, <2>3, <2>4, Zenon DEF PageOwnership
<1>10. CASE NicSend \/ NicReceive
  BY <1>10, <1>u, Zenon DEF NicSend, NicReceive, owners, txVars, rxVars, memVars
<1>11. CASE UNCHANGED vars
  BY <1>11, <1>u, Zenon DEF vars, owners, txVars, rxVars, memVars
<1>q. QED BY <1>1, <1>2, <1>3, <1>4, <1>5, <1>6, <1>7, <1>8, <1>9, <1>10, <1>11, Zenon
          DEF Next, e1000_transmit, e1000_recv

\* Every page has exactly one owner at all times: none is freed twice, freed
\* in use, or lost by the driver.
THEOREM PagesHaveOneOwner == Spec => []PageOwnership
  BY BaseInvariant, OwnershipInit, OwnershipStep, PTL DEF Spec

\* The card never reads a page that is free or that the code above writes to.
CardReadsTxBufs ==
  \A i \in TxIndex :
    CardOwnsTx(i) => txAddr[i] \in Pages \ (freelist \cup RxBufs \cup stack)

\* e1000_transmit frees or reuses no page the card may still read.
THEOREM CardReadsOwnPages == Spec => []CardReadsTxBufs
<1>1. Base /\ PageOwnership => CardReadsTxBufs
  BY DEF Base, TypeOK, TxDmaSafe, PageOwnership, CardReadsTxBufs, TxBufs
<1>q. QED BY <1>1, BaseInvariant, PagesHaveOneOwner, PTL

\* The driver and the card never disturb each other's memory, for every size of
\* the rings and every number of callers.
THEOREM DriverIsSafe == Spec => []DriverSafe
<1>1. TypeOK /\ TxDmaSafe /\ PageOwnership => DriverSafe
  BY Zenon DEF DriverSafe
<1>q. QED BY <1>1, TypeCorrect, TxDmaIsSafe, PagesHaveOneOwner, PTL

-----------------------------------------------------------------------------
(* Receive *)

LEMMA RxRingInit == Init => RxRing
<1> SUFFICES ASSUME Init PROVE RxRing
  OBVIOUS
<1>1. RxNext(RDT) = 0 /\ RDH = 0
  BY RingSizes DEF Init, RxNext
<1>q. QED BY <1>1 DEF Init, RxRing, DoneRx, RxIndex, InRange, Distance, RxHolding

\* What the receive ring's invariant speaks of.
ringRx == <<RDH, RDT, rxDD, rxFrame, rxpc, rxi, accepted, taken>>

LEMMA RxRingStep == Base /\ RxRing /\ [Next]_vars => RxRing'
<1> SUFFICES ASSUME Base, RxRing, [Next]_vars PROVE RxRing'
  OBVIOUS
<1> DEFINE s == RxNext(RDT)
<1>t. /\ RDH \in RxIndex /\ RDT \in RxIndex /\ s \in RxIndex /\ rxi \in RxIndex
      /\ s = IF RDT + 1 = RX_RING_SIZE THEN 0 ELSE RDT + 1
      /\ RxNext(RDH) = IF RDH + 1 = RX_RING_SIZE THEN 0 ELSE RDH + 1
      /\ RxNext(s) = IF s + 1 = RX_RING_SIZE THEN 0 ELSE s + 1
      /\ taken \in Nat /\ accepted \in Nat
      /\ rxDD \in [RxIndex -> BOOLEAN] /\ rxFrame \in [RxIndex -> Nat]
  BY RxNextType, Zenon DEF Base, TypeOK
<1>n. RX_RING_SIZE \in Nat \ {0} /\ RxIndex = 0 .. RX_RING_SIZE - 1
  BY RingSizes, Zenon DEF RxIndex
<1> HIDE DEF s
<1>u. ASSUME UNCHANGED ringRx PROVE RxRing'
  BY <1>u, Zenon DEF RxRing, DoneRx, ringRx
<1>1. ASSUME NEW c \in Callers, e1000_transmit(c) \/ TakeBack(c) PROVE RxRing'
  BY <1>1, <1>u, Zenon DEF e1000_transmit, TransmitTest, TransmitProgram, Program,
                    TransmitTail, TakeBack, rxVars, ringRx
<1>2. ASSUME NEW c \in Callers, NEW p \in Pages, CallTransmit(c, p)
      PROVE  RxRing'
  BY <1>2, <1>u, Zenon DEF CallTransmit, rxVars, ringRx
<1>3. ASSUME NEW p \in Pages, NEW n \in Payloads \cup {Junk}, StackAlloc(p, n)
      PROVE  RxRing'
  BY <1>3, <1>u, Zenon DEF StackAlloc, rxVars, ringRx
<1>4. ASSUME NEW p \in Pages, StackFree(p) PROVE RxRing'
  BY <1>4, <1>u, Zenon DEF StackFree, rxVars, ringRx
<1>5. CASE e1000_intr
  BY <1>5, Zenon DEF e1000_intr, RxRing, DoneRx, RxHolding
<1>6. CASE RecvTest
  BY <1>6, <1>t, Zenon DEF RecvTest, RxRing, DoneRx, RxHolding, s
<1>7. CASE RecvCopy
  BY <1>7, Zenon DEF RecvCopy, RxRing, DoneRx, RxHolding
<1>8. CASE RecvClear
  BY <1>8, <1>t, Zenon DEF RecvClear, RxRing, DoneRx, RxHolding
<1>9. CASE RecvReturn
  <2>1. /\ RDT' = s /\ rxi = s /\ taken' = taken + 1 /\ rxpc = "return"
        /\ rxpc' \in {"test", "deliver"}
        /\ UNCHANGED <<RDH, rxDD, rxFrame, accepted, rxi>>
        /\ InRange(s, RDH, s)
    BY <1>9, Zenon DEF RecvReturn, RxRing, RxHolding, DoneRx, s
  <2>2. s # RDH
    BY <2>1, <1>t, <1>n DEF InRange
  <2>3. RxNext(RDT)' = RxNext(s)
    BY <2>1, Zenon DEF RxNext
  <2>4. ASSUME NEW i \in RxIndex PROVE DoneRx(i)' <=> DoneRx(i) /\ i # s
    <3>1. DoneRx(i)' <=> InRange(RxNext(s), RDH, i)
      BY <2>1, <2>3, Zenon DEF DoneRx
    <3>q. QED BY <1>t, <1>n, <2>2, <3>1 DEF DoneRx, InRange, s
  <2>5. ASSUME NEW i \in RxIndex, i # s
        PROVE  Distance(RxNext(s), i, RX_RING_SIZE) = Distance(s, i, RX_RING_SIZE) - 1
    <3>1. /\ i \in Int /\ s \in Int /\ RX_RING_SIZE \in Int
          /\ i < RX_RING_SIZE /\ s < RX_RING_SIZE /\ (i < s \/ s < i)
      BY <1>t, RingSizes, <2>5 DEF RxIndex
    <3>2. RxNext(s) = IF s + 1 = RX_RING_SIZE THEN 0 ELSE s + 1
      BY <1>t, Zenon
    <3>3. i >= 0
      BY DEF RxIndex
    <3>q. QED BY <3>1, <3>2, <3>3 DEF Distance
  <2>6. Distance(RxNext(s), RDH, RX_RING_SIZE) = Distance(s, RDH, RX_RING_SIZE) - 1
    BY <1>t, <2>2, <2>5, Zenon
  <2>7. \A i \in RxIndex : Distance(s, i, RX_RING_SIZE) \in Nat
    BY <1>t, <1>n DEF Distance
  <2>8. accepted = taken + Distance(s, RDH, RX_RING_SIZE)
    BY Zenon DEF RxRing, s
  <2>9. accepted' = (taken + Distance(RxNext(RDT), RDH, RX_RING_SIZE))'
    BY <2>1, <2>3, <2>6, <2>7, <2>8, <1>t
  <2>10. ASSUME NEW i \in RxIndex
         PROVE  /\ rxDD'[i] <=> DoneRx(i)'
                /\ DoneRx(i)' => rxFrame'[i] =
                     taken' + 1 + Distance(RxNext(s), i, RX_RING_SIZE)
    <3>1. rxDD'[i] <=> DoneRx(i)'
      BY <2>1, <2>4, Zenon DEF RxRing
    <3>2. DoneRx(i) => rxFrame[i] = taken + 1 + Distance(s, i, RX_RING_SIZE)
      BY Zenon DEF RxRing, s
    <3>q. QED BY <3>1, <3>2, <2>1, <2>4, <2>5, <2>7, <1>t
  <2>q. QED BY <2>1, <2>3, <2>9, <2>10, Zenon DEF RxRing, RxHolding
<1>10. CASE RecvDeliver
  BY <1>10, Zenon DEF RecvDeliver, RxRing, DoneRx, RxHolding
<1>11. CASE NicSend
  BY <1>11, <1>u, Zenon DEF NicSend, rxVars, ringRx
<1>12. CASE NicReceive
  <2>1. /\ RDH # RDT /\ RDH' = RxNext(RDH) /\ accepted' = accepted + 1
        /\ rxDD' = [rxDD EXCEPT ![RDH] = TRUE]
        /\ rxFrame' = [rxFrame EXCEPT ![RDH] = accepted + 1]
        /\ UNCHANGED <<RDT, rxpc, rxi, taken>>
    BY <1>12, Zenon DEF NicReceive
  <2>2. RxNext(RDH) # s
    BY <1>t, <1>n, <2>1
  <2>3. RxNext(RDT)' = s
    BY <2>1, Zenon DEF s
  <2>4. ASSUME NEW i \in RxIndex
        PROVE  /\ DoneRx(i)' <=> DoneRx(i) \/ i = RDH
               /\ ~DoneRx(RDH)
    <3>1. DoneRx(i)' <=> InRange(s, RxNext(RDH), i)
      BY <2>1, <2>3, Zenon DEF DoneRx
    <3>q. QED BY <1>t, <1>n, <2>2, <3>1 DEF DoneRx, InRange, s
  <2>5. /\ Distance(s, RxNext(RDH), RX_RING_SIZE) = Distance(s, RDH, RX_RING_SIZE) + 1
        /\ Distance(s, RDH, RX_RING_SIZE) \in Nat
    <3>1. /\ RDH \in Int /\ s \in Int /\ RX_RING_SIZE \in Int
          /\ 0 <= RDH /\ RDH < RX_RING_SIZE /\ 0 <= s /\ s < RX_RING_SIZE
      BY <1>t, RingSizes DEF RxIndex
    <3>2. RxNext(RDH) = IF RDH + 1 = RX_RING_SIZE THEN 0 ELSE RDH + 1
      BY <1>t, Zenon
    <3>q. QED BY <2>2, <3>1, <3>2 DEF Distance
  <2>6. accepted = taken + Distance(s, RDH, RX_RING_SIZE)
    BY Zenon DEF RxRing, s
  <2>7. accepted' = (taken + Distance(RxNext(RDT), RDH, RX_RING_SIZE))'
    BY <2>1, <2>3, <2>5, <2>6, <1>t
  <2>8. rxpc \in RxHolding => rxi = s /\ DoneRx(rxi)
    BY Zenon DEF RxRing, s
  <2>9. ASSUME NEW i \in RxIndex
        PROVE  /\ rxDD'[i] <=> DoneRx(i)' /\ ~(rxpc' = "return" /\ i = rxi')
               /\ DoneRx(i)' => rxFrame'[i] =
                    taken' + 1 + Distance(s, i, RX_RING_SIZE)
    <3>1. rxDD[i] <=> DoneRx(i) /\ ~(rxpc = "return" /\ i = rxi)
      BY Zenon DEF RxRing
    <3>2. DoneRx(i) => rxFrame[i] = taken + 1 + Distance(s, i, RX_RING_SIZE)
      BY Zenon DEF RxRing, s
    <3>3. rxpc = "return" => rxi # RDH
      BY <2>4, <2>8, Zenon DEF RxHolding
    <3>4. CASE i = RDH
      BY <3>4, <3>3, <2>1, <2>4, <2>5, <2>6, <1>t
    <3>5. CASE i # RDH
      BY <3>5, <3>1, <3>2, <2>1, <2>4, <1>t, Zenon
    <3>q. QED BY <3>4, <3>5, Zenon
  <2>q. QED BY <2>1, <2>3, <2>4, <2>7, <2>8, <2>9, <1>t, Zenon DEF RxRing
<1>13. CASE UNCHANGED vars
  BY <1>13, <1>u, Zenon DEF vars, rxVars, ringRx
<1>q. QED BY <1>1, <1>2, <1>3, <1>4, <1>5, <1>6, <1>7, <1>8, <1>9, <1>10, <1>11,
             <1>12, <1>13, Zenon DEF Next, e1000_recv

\* The card's range and the driver's never overlap, DD tells them apart, and
\* the ring holds exactly the frames accepted and not yet taken, in order.
THEOREM RxRingDiscipline == Spec => []RxRing
  BY BaseInvariant, RxRingInit, RxRingStep, PTL DEF Spec

-----------------------------------------------------------------------------
(* The interrupt *)

\* Until it is acknowledged the cause is never set without the interrupt being
\* latched, because e1000_intr takes the one and clears the other together.
CauseLatched == ICR => irq

InterruptInv == CauseLatched /\ NoLostInterrupt

LEMMA InterruptStep ==
  Base /\ RxRing /\ InterruptInv /\ [Next]_vars => InterruptInv'
<1> SUFFICES ASSUME Base, RxRing, InterruptInv, [Next]_vars PROVE InterruptInv'
  OBVIOUS
<1> USE DEF InterruptInv, CauseLatched, NoLostInterrupt
<1>u. ASSUME UNCHANGED <<ICR, irq, rxDD, rxpc>> PROVE InterruptInv'
  BY <1>u, Zenon
<1>1. ASSUME NEW c \in Callers, e1000_transmit(c) \/ TakeBack(c)
      PROVE  InterruptInv'
  BY <1>1, <1>u, Zenon DEF e1000_transmit, TransmitTest, TransmitProgram, Program,
                    TransmitTail, TakeBack, rxVars, irqVars
<1>2. ASSUME NEW c \in Callers, NEW p \in Pages, CallTransmit(c, p)
      PROVE  InterruptInv'
  BY <1>2, <1>u, Zenon DEF CallTransmit, rxVars, irqVars
<1>3. ASSUME NEW p \in Pages, NEW n \in Payloads \cup {Junk}, StackAlloc(p, n)
      PROVE  InterruptInv'
  BY <1>3, <1>u, Zenon DEF StackAlloc, rxVars, irqVars
<1>4. ASSUME NEW p \in Pages, StackFree(p) PROVE InterruptInv'
  BY <1>4, <1>u, Zenon DEF StackFree, rxVars, irqVars
<1>5. CASE e1000_intr
  BY <1>5, Zenon DEF e1000_intr
<1>6. CASE RecvTest
  <2>1. RxNext(RDT) \in RxIndex /\ RDH \in RxIndex
    BY RxNextType, Zenon DEF Base, TypeOK
  <2>2. CASE rxDD[RxNext(RDT)]
    BY <1>6, <2>2, Zenon DEF RecvTest, irqVars
  <2>3. CASE ~rxDD[RxNext(RDT)]
    <3>1. ~DoneRx(RxNext(RDT))
      BY <1>6, <2>1, <2>3, Zenon DEF RecvTest, RxRing
    <3>2. RxNext(RDT) = RDH
      BY <2>1, <3>1 DEF DoneRx, InRange, RxIndex
    <3>3. \A i \in RxIndex : ~DoneRx(i)
      BY <2>1, <3>2 DEF DoneRx, InRange, RxIndex
    <3>4. \A i \in RxIndex : ~rxDD[i]
      BY <3>3, Zenon DEF RxRing
    <3>q. QED BY <1>6, <3>4, Zenon DEF RecvTest, irqVars
  <2>q. QED BY <2>2, <2>3, Zenon
<1>7. CASE RecvCopy \/ RecvClear \/ RecvReturn \/ RecvDeliver
  BY <1>7 DEF RecvCopy, RecvClear, RecvReturn, RecvDeliver, irqVars
<1>8. CASE NicSend
  BY <1>8, <1>u, Zenon DEF NicSend, rxVars, irqVars
<1>9. CASE NicReceive
  <2>1. irq'
    BY <1>9, Zenon DEF NicReceive
  <2>q. QED BY <2>1, Zenon
<1>10. CASE UNCHANGED vars
  BY <1>10, <1>u, Zenon DEF vars, rxVars, irqVars
<1>q. QED BY <1>1, <1>2, <1>3, <1>4, <1>5, <1>6, <1>7, <1>8, <1>9, <1>10, Zenon
          DEF Next, e1000_recv

\* A frame in the ring always has an interrupt latched for it or e1000_recv
\* about to look, because the cause is acknowledged before the loop.
THEOREM InterruptNotLost == Spec => []NoLostInterrupt
<1>1. Init => InterruptInv
  BY Zenon DEF Init, InterruptInv, CauseLatched, NoLostInterrupt
<1>2. InterruptInv => NoLostInterrupt
  BY Zenon DEF InterruptInv
<1>q. QED BY <1>1, <1>2, InterruptStep, BaseInvariant, RxRingDiscipline, PTL DEF Spec

-----------------------------------------------------------------------------
(* Order *)

\* The copy is of the frame being taken, from the copy on.
OrderInv ==
  /\ DeliveredInOrder
  /\ rxpc = "deliver" => \A k \in 1 .. Len(delivered) : delivered[k] < taken
  /\ dst # NULL /\ rxpc \in {"clear", "return"} => content[dst] = taken + 1

LEMMA OrderStep ==
  Base /\ PageOwnership /\ RxRing /\ OrderInv /\ [Next]_vars => OrderInv'
<1> SUFFICES ASSUME Base, PageOwnership, RxRing, OrderInv, [Next]_vars
             PROVE  OrderInv'
  OBVIOUS
<1> USE DEF OrderInv, DeliveredInOrder
<1>t. /\ taken \in Nat /\ delivered \in Seq(Nat) /\ dst \in Pages \cup {NULL}
      /\ content \in [Pages -> Nat] /\ rxi \in RxIndex
      /\ rxFrame \in [RxIndex -> Nat]
  BY Zenon DEF Base, TypeOK
<1>u. ASSUME UNCHANGED <<rxpc, dst, taken, delivered>>,
             dst # NULL => content'[dst] = content[dst]
      PROVE  OrderInv'
  <2>1. rxpc = "deliver" => dst # NULL
    BY Zenon DEF Base, Locals
  <2>q. QED BY <1>u, <2>1, Zenon
<1>f. ASSUME NEW p \in Pages \cup {NULL}, kfree(p), p # dst,
             UNCHANGED <<rxpc, dst, taken, delivered>>
      PROVE  OrderInv'
  <2>1. dst # NULL => content'[dst] = content[dst]
    BY <1>f, <1>t, Zenon DEF kfree
  <2>q. QED BY <1>f, <2>1, <1>u, Zenon
<1>1. ASSUME NEW c \in Callers, TransmitTest(c) \/ TransmitTail(c) \/ TakeBack(c)
      PROVE  OrderInv'
  BY <1>1, <1>u, Zenon DEF TransmitTest, TransmitTail, TakeBack, rxVars, memVars
<1>2. ASSUME NEW c \in Callers, TransmitProgram(c) PROVE OrderInv'
  <2>1. /\ kfree(tx_bufs[TDT]) /\ TDT \in TxIndex
        /\ UNCHANGED <<rxpc, dst, taken, delivered>>
    BY <1>2, TxNextType, Zenon DEF TransmitProgram, Program, rxVars, Base, TypeOK
  <2>2. CASE tx_bufs[TDT] = NULL
    BY <2>1, <2>2, <1>u, Zenon DEF kfree
  <2>3. CASE tx_bufs[TDT] # NULL
    <3>1. tx_bufs[TDT] # dst /\ tx_bufs[TDT] \in Pages
      BY <2>1, <2>3 DEF PageOwnership, TxBufs, Copied, Base, TypeOK
    <3>q. QED BY <2>1, <3>1, <1>f, Zenon
  <2>q. QED BY <2>2, <2>3, Zenon
<1>3. ASSUME NEW c \in Callers, NEW p \in Pages, CallTransmit(c, p)
      PROVE  OrderInv'
  BY <1>3, <1>u, Zenon DEF CallTransmit, rxVars
<1>4. ASSUME NEW p \in Pages, NEW n \in Payloads \cup {Junk}, StackAlloc(p, n)
      PROVE  OrderInv'
  <2>1. dst # NULL => dst # p
    BY <1>4, Zenon DEF StackAlloc, kalloc, PageOwnership, Copied
  <2>2. dst # NULL => content'[dst] = content[dst]
    BY <1>4, <1>t, <2>1, Zenon DEF StackAlloc
  <2>q. QED BY <1>4, <2>2, <1>u, Zenon DEF StackAlloc, rxVars
<1>5. ASSUME NEW p \in Pages, StackFree(p) PROVE OrderInv'
  <2>1. p # dst
    BY <1>5, NullNotPage, Zenon DEF StackFree, PageOwnership, Copied
  <2>q. QED BY <1>5, <2>1, <1>f, Zenon DEF StackFree, rxVars
<1>6. CASE e1000_intr \/ RecvTest
  BY <1>6, Zenon DEF e1000_intr, RecvTest
<1>7. CASE RecvCopy
  <2>1. rxi = RxNext(RDT) /\ DoneRx(rxi) /\ rxpc = "copy"
    BY <1>7, Zenon DEF RecvCopy, RxRing, RxHolding
  <2>2. rxFrame[rxi] = taken + 1 + Distance(rxi, rxi, RX_RING_SIZE)
    BY <1>t, <2>1, Zenon DEF RxRing
  <2>3. rxFrame[rxi] = taken + 1
    BY <1>t, <2>2 DEF Distance, RxIndex
  <2>4. dst' # NULL => content'[dst'] = taken + 1
    BY <1>7, <1>t, <2>3, Zenon DEF RecvCopy
  <2>5. rxpc' = "clear" /\ UNCHANGED <<taken, delivered>>
    BY <1>7, Zenon DEF RecvCopy
  <2>q. QED BY <2>4, <2>5, Zenon
<1>8. CASE RecvClear
  BY <1>8, Zenon DEF RecvClear, memVars
<1>9. CASE RecvReturn
  <2>1. /\ rxpc = "return" /\ taken' = taken + 1
        /\ UNCHANGED <<dst, content, delivered>>
        /\ rxpc' = IF dst = NULL THEN "test" ELSE "deliver"
    BY <1>9, Zenon DEF RecvReturn, memVars
  <2>2. \A k \in 1 .. Len(delivered) : delivered[k] \in Nat
    BY <1>t
  <2>q. QED BY <1>t, <2>1, <2>2
<1>10. CASE RecvDeliver
  <2>1. /\ content[dst] = taken /\ rxpc' = "test" /\ taken' = taken
        /\ delivered' = Append(delivered, content[dst])
        /\ \A k \in 1 .. Len(delivered) : delivered[k] < taken
    BY <1>10, Zenon DEF RecvDeliver
  <2>2. /\ Len(delivered') = Len(delivered) + 1
        /\ delivered'[Len(delivered) + 1] = taken
        /\ \A k \in 1 .. Len(delivered) : delivered'[k] = delivered[k]
    BY <1>t, <2>1
  <2>q. QED BY <1>t, <2>1, <2>2
<1>11. CASE NicSend \/ NicReceive
  BY <1>11, <1>u, Zenon DEF NicSend, NicReceive, rxVars, memVars
<1>12. CASE UNCHANGED vars
  BY <1>12, <1>u, Zenon DEF vars, rxVars, memVars
<1>q. QED BY <1>1, <1>2, <1>3, <1>4, <1>5, <1>6, <1>7, <1>8, <1>9, <1>10, <1>11,
             <1>12, Zenon DEF Next, e1000_transmit, e1000_recv

\* net_rx gets the frames the card accepted, in order, none twice, and each as
\* it was received, although the card goes on writing into the ring.
THEOREM FramesInOrder == Spec => []DeliveredInOrder
<1>1. Init => OrderInv
  BY DEF Init, OrderInv, DeliveredInOrder
<1>2. OrderInv => DeliveredInOrder
  BY Zenon DEF OrderInv
<1>q. QED BY <1>1, <1>2, OrderStep, BaseInvariant, PagesHaveOneOwner,
             RxRingDiscipline, PTL DEF Spec

\* Between the card's ring and net_rx no frame is lost, doubled, reordered or
\* left without an interrupt.
THEOREM RxIsSafe == Spec => []RxSafe
<1>1. RxRing /\ DeliveredInOrder /\ NoLostInterrupt => RxSafe
  BY Zenon DEF RxSafe
<1>q. QED BY <1>1, RxRingDiscipline, FramesInOrder, InterruptNotLost, PTL

-----------------------------------------------------------------------------
(* Transmit *)

InTail == \E c \in Callers : txpc[c] = "tail"

Dist(a, b) == Distance(a, b, TX_RING_SIZE)

\* The frames between head and tail are the last ones submitted, in order.
Flowing ==
  /\ Len(submitted) = Len(wire) + Dist(TDH, TDT) + IF InTail THEN 1 ELSE 0
  /\ \A i \in TxIndex :
       CardOwnsTx(i) => content[txAddr[i]] = submitted[Len(wire) + 1 + Dist(TDH, i)]
  /\ InTail => content[txAddr[TDT]] = submitted[Len(submitted)]
  /\ \A i \in TxIndex : ~CardOwnsTx(i) /\ ~(InTail /\ i = TDT) => txDD[i]

\* The ring was filled to the last descriptor.
Stalled == ~InTail /\ TDH = TDT /\ \A i \in TxIndex : ~txDD[i]

FlightInv ==
  /\ \A c \in Callers : txpc[c] = "program" => txDD[TDT]
  /\ Flowing \/ Stalled
  /\ WireFaithful

\* Steps that leave the transmit ring and the pages in it alone.
LEMMA FlightKeeps ==
  ASSUME Base, FlightInv,
         UNCHANGED <<TDH, TDT, txDD, txAddr, submitted, wire, InTail>>,
         \A c \in Callers : txpc'[c] = "program" => txpc[c] = "program" \/ txDD[TDT],
         \A i \in TxIndex :
           tx_bufs[i] # NULL => content'[tx_bufs[i]] = content[tx_bufs[i]]
  PROVE  FlightInv'
<1>1. ASSUME NEW i \in TxIndex, CardOwnsTx(i) PROVE content'[txAddr[i]] = content[txAddr[i]]
  BY <1>1, Zenon DEF Base, TxDmaSafe
<1>2. InTail => content'[txAddr[TDT]] = content[txAddr[TDT]]
  BY Zenon DEF Base, TailReady, InTail, TypeOK
<1>3. Flowing => Flowing'
  BY <1>1, <1>2, Zenon DEF Flowing, CardOwnsTx
<1>4. Stalled => Stalled'
  BY Zenon DEF Stalled
<1>5. WireFaithful'
  BY Zenon DEF FlightInv, WireFaithful
<1>q. QED BY <1>3, <1>4, <1>5, Zenon DEF FlightInv

LEMMA FlightInit == Init => FlightInv
<1> SUFFICES ASSUME Init PROVE FlightInv
  OBVIOUS
<1>1. 0 \in TxIndex
  BY RingSizes DEF TxIndex
<1>2. \A i \in TxIndex : ~CardOwnsTx(i)
  BY DEF Init, CardOwnsTx, InRange, TxIndex
<1>3. ~InTail
  BY Zenon DEF Init, InTail
<1>4. Len(submitted) = 0 /\ Len(wire) = 0 /\ Dist(TDH, TDT) = 0
  BY DEF Init, Dist, Distance
<1>5. Flowing
  BY <1>2, <1>3, <1>4 DEF Init, Flowing
<1>q. QED BY <1>1, <1>4, <1>5 DEF Init, FlightInv, WireFaithful

\* The descriptor is programmed and its frame counts as submitted.
LEMMA FlightProgram ==
  ASSUME Base, PageOwnership, FlightInv, NEW c \in Callers, TransmitProgram(c)
  PROVE  FlightInv'
<1>t. /\ TDT \in TxIndex /\ TDH \in TxIndex /\ submitted \in Seq(Nat)
      /\ wire \in Seq(Nat) /\ content \in [Pages -> Nat]
      /\ txAddr \in [TxIndex -> Pages \cup {NULL}]
      /\ txDD \in [TxIndex -> BOOLEAN]
      /\ txpc[c] = "program" /\ txbuf[c] \in Pages
      /\ txpc \in [Callers -> {"idle", "transmit", "program", "tail", "failed"}]
  BY Zenon DEF Base, TypeOK, Locals, TransmitProgram, Program
<1>1. /\ kfree(tx_bufs[TDT])
      /\ txAddr' = [txAddr EXCEPT ![TDT] = txbuf[c]]
      /\ txDD' = [txDD EXCEPT ![TDT] = FALSE]
      /\ submitted' = Append(submitted, content[txbuf[c]])
      /\ txpc' = [txpc EXCEPT ![c] = "tail"]
      /\ UNCHANGED <<TDH, TDT, wire>>
  BY <1>t, TxNextType, Zenon DEF TransmitProgram, Program
<1>2. ~InTail /\ InTail' /\ \A d \in Callers : d # c => txpc[d] # "program"
  BY <1>t, <1>1, Zenon DEF InTail, Base, LockHeld, TxHolding
<1>3. Flowing
  BY <1>t, Zenon DEF FlightInv, Stalled
<1>4. ~CardOwnsTx(TDT)
  BY <1>t DEF CardOwnsTx, InRange, TxIndex
<1>5. /\ Len(submitted') = Len(submitted) + 1
      /\ submitted'[Len(submitted')] = content[txbuf[c]]
      /\ \A k \in 1 .. Len(submitted) : submitted'[k] = submitted[k]
      /\ Len(submitted) \in Nat /\ Len(wire) \in Nat
  BY <1>t, <1>1
<1>6. \A p \in Pages : p # tx_bufs[TDT] => content'[p] = content[p]
  BY <1>t, <1>1, Zenon DEF kfree
<1>7. txbuf[c] # tx_bufs[TDT]
  <2>1. txbuf[c] \in Passed
    BY <1>t, NullNotPage, Zenon DEF Passed
  <2>2. tx_bufs[TDT] # NULL => tx_bufs[TDT] \in TxBufs
    BY <1>t, Zenon DEF TxBufs
  <2>q. QED BY <1>t, <2>1, <2>2, NullNotPage, Zenon DEF PageOwnership
<1>8. WireFaithful'
  BY <1>1, <1>5 DEF FlightInv, WireFaithful
<1>d. Dist(TDH, TDT) \in Int /\ Len(submitted) = Len(wire) + Dist(TDH, TDT)
  <2>1. Dist(TDH, TDT) \in Int
    BY <1>t, RingSizes DEF Dist, Distance, TxIndex
  <2>q. QED BY <1>2, <1>3, <1>5, <2>1 DEF Flowing
<1>9. ASSUME NEW i \in TxIndex, CardOwnsTx(i)
      PROVE  content'[txAddr'[i]] = submitted'[Len(wire) + 1 + Dist(TDH, i)]
  <2>1. i # TDT
    BY <1>4, <1>9, Zenon
  <2>2. txAddr[i] \in Pages /\ txAddr[i] # tx_bufs[TDT]
    BY <1>t, <1>9, <2>1 DEF Base, TypeOK, TxDmaSafe, PageOwnership
  <2>3. content'[txAddr'[i]] = content[txAddr[i]]
    BY <1>t, <1>1, <1>6, <2>1, <2>2, Zenon
  <2>4. Dist(TDH, i) \in Nat /\ Dist(TDH, i) < Dist(TDH, TDT)
    BY <1>t, <1>9, RingSizes DEF CardOwnsTx, InRange, Dist, Distance, TxIndex
  <2>6. Len(wire) + 1 + Dist(TDH, i) \in 1 .. Len(submitted)
    BY <1>5, <1>d, <2>4
  <2>q. QED BY <1>3, <1>5, <1>9, <2>3, <2>6, Zenon DEF Flowing
<1>10. content'[txAddr'[TDT]] = submitted'[Len(submitted')]
  BY <1>t, <1>1, <1>5, <1>6, <1>7, Zenon
<1>11. Len(submitted') = Len(wire) + Dist(TDH, TDT) + 1
  BY <1>5, <1>d, Zenon
<1>12. Flowing'
  BY <1>t, <1>1, <1>2, <1>3, <1>9, <1>10, <1>11, Zenon DEF Flowing, CardOwnsTx
<1>q. QED BY <1>t, <1>1, <1>2, <1>8, <1>12, Zenon DEF FlightInv

\* The tail is advanced: one more frame in flight, or the ring is full.
LEMMA FlightTail ==
  ASSUME Base, FlightInv, NEW c \in Callers, TransmitTail(c)
  PROVE  FlightInv'
<1>t. /\ TDT \in TxIndex /\ TDH \in TxIndex /\ TxNext(TDT) \in TxIndex
      /\ TxNext(TDT) = IF TDT + 1 = TX_RING_SIZE THEN 0 ELSE TDT + 1
      /\ submitted \in Seq(Nat) /\ wire \in Seq(Nat)
      /\ txDD \in [TxIndex -> BOOLEAN]
      /\ txpc \in [Callers -> {"idle", "transmit", "program", "tail", "failed"}]
  BY TxNextType, Zenon DEF Base, TypeOK
<1>1. /\ txpc[c] = "tail" /\ TDT' = TxNext(TDT)
      /\ txpc' = [txpc EXCEPT ![c] = "idle"]
      /\ UNCHANGED <<TDH, txDD, txAddr, submitted, wire, content>>
  BY <1>t, TxNextType, Zenon DEF TransmitTail, memVars
<1>2. InTail /\ ~InTail' /\ \A d \in Callers : txpc'[d] # "program"
  BY <1>t, <1>1, Zenon DEF InTail, Base, LockHeld, TxHolding
<1>3. Flowing
  BY <1>2, Zenon DEF FlightInv, Stalled
<1>4. WireFaithful'
  BY <1>1, Zenon DEF FlightInv, WireFaithful
<1>5. ~txDD[TDT]
  BY <1>1, Zenon DEF Base, TailReady
<1>6. CASE TxNext(TDT) = TDH
  <2>1. \A i \in TxIndex : i # TDT => CardOwnsTx(i)
    BY <1>t, <1>6 DEF CardOwnsTx, InRange, TxIndex
  <2>2. \A i \in TxIndex : ~txDD[i]
    BY <1>5, <2>1, Zenon DEF Base, TxDmaSafe
  <2>q. QED BY <1>1, <1>2, <1>4, <1>6, <2>2, Zenon DEF FlightInv, Stalled
<1>7. CASE TxNext(TDT) # TDH
  <2>1. /\ Dist(TDH, TxNext(TDT)) = Dist(TDH, TDT) + 1
        /\ Dist(TDH, TDT) \in Nat
    BY <1>t, <1>7, RingSizes DEF Dist, Distance, TxIndex
  <2>2. ASSUME NEW i \in TxIndex PROVE CardOwnsTx(i)' <=> CardOwnsTx(i) \/ i = TDT
    <3>1. CardOwnsTx(i)' <=> InRange(TDH, TxNext(TDT), i)
      BY <1>1, Zenon DEF CardOwnsTx
    <3>q. QED BY <1>t, <1>7, <3>1 DEF CardOwnsTx, InRange, TxIndex
  <2>3. Len(submitted) = Len(wire) + Dist(TDH, TDT) + 1
    BY <1>2, <1>3, Zenon DEF Flowing
  <2>4. ASSUME NEW i \in TxIndex, CardOwnsTx(i)'
        PROVE  content[txAddr[i]] = submitted[Len(wire) + 1 + Dist(TDH, i)]
    <3>1. CASE i = TDT
      <4>1. Len(wire) + 1 + Dist(TDH, TDT) = Len(submitted)
        BY <1>t, <2>1, <2>3
      <4>q. QED BY <1>2, <1>3, <3>1, <4>1, Zenon DEF Flowing
    <3>2. CASE i # TDT
      BY <1>3, <2>2, <2>4, <3>2, Zenon DEF Flowing
    <3>q. QED BY <3>1, <3>2, Zenon
  <2>5. \A i \in TxIndex : ~CardOwnsTx(i)' => txDD[i]
    BY <1>3, <2>2, Zenon DEF Flowing
  <2>6. Len(submitted)' = Len(wire)' + Dist(TDH, TDT)'
    <3>1. Dist(TDH, TDT)' = Dist(TDH, TxNext(TDT))
      BY <1>1, Zenon DEF Dist
    <3>q. QED BY <1>t, <1>1, <2>1, <2>3, <3>1
  <2>7. Flowing'
    <3>1. \A i \in TxIndex : CardOwnsTx(i)' =>
             content'[txAddr'[i]] = submitted'[Len(wire') + 1 + Dist(TDH', i)]
      BY <1>1, <2>4, Zenon
    <3>2. \A i \in TxIndex : ~CardOwnsTx(i)' => txDD'[i]
      BY <1>1, <2>5, Zenon
    <3>3. Len(wire') + Dist(TDH', TDT') + 0 = Len(submitted')
      BY <1>t, <1>1, <2>1, <2>6
    <3>q. QED BY <1>2, <3>1, <3>2, <3>3, Zenon DEF Flowing
  <2>q. QED BY <1>2, <1>4, <2>7, Zenon DEF FlightInv
<1>q. QED BY <1>6, <1>7, Zenon

\* The card sends the oldest frame in flight.
LEMMA FlightSend ==
  ASSUME Base, FlightInv, NicSend
  PROVE  FlightInv'
<1>t. /\ TDT \in TxIndex /\ TDH \in TxIndex /\ TxNext(TDH) \in TxIndex
      /\ TxNext(TDH) = IF TDH + 1 = TX_RING_SIZE THEN 0 ELSE TDH + 1
      /\ submitted \in Seq(Nat) /\ wire \in Seq(Nat)
      /\ txDD \in [TxIndex -> BOOLEAN]
  BY TxNextType, Zenon DEF Base, TypeOK
<1>1. /\ TDH # TDT /\ TDH' = TxNext(TDH)
      /\ wire' = Append(wire, content[txAddr[TDH]])
      /\ txDD' = [txDD EXCEPT ![TDH] = TRUE]
      /\ UNCHANGED <<TDT, txAddr, submitted, content, txpc>>
  BY Zenon DEF NicSend, memVars
<1>2. Flowing /\ UNCHANGED InTail
  BY <1>1, Zenon DEF FlightInv, Stalled, InTail
<1>3. CardOwnsTx(TDH) /\ Dist(TDH, TDH) = 0 /\ Dist(TDH, TDT) \in Nat \ {0}
  BY <1>t, <1>1, RingSizes DEF CardOwnsTx, InRange, Dist, Distance, TxIndex
<1>4. /\ content[txAddr[TDH]] = submitted[Len(wire) + 1]
      /\ Len(wire) + 1 <= Len(submitted)
      /\ Len(wire) \in Nat /\ Len(submitted) \in Nat
  <2>1. Len(submitted) >= Len(wire) + Dist(TDH, TDT)
    BY <1>t, <1>2, <1>3 DEF Flowing
  <2>2. content[txAddr[TDH]] = submitted[Len(wire) + 1 + Dist(TDH, TDH)]
    BY <1>t, <1>2, <1>3, Zenon DEF Flowing
  <2>3. Len(wire) + 1 + Dist(TDH, TDH) = Len(wire) + 1
    BY <1>t, <1>3
  <2>q. QED BY <1>t, <1>3, <2>1, <2>2, <2>3
<1>5. /\ Len(wire') = Len(wire) + 1
      /\ wire'[Len(wire) + 1] = content[txAddr[TDH]]
      /\ \A k \in 1 .. Len(wire) : wire'[k] = wire[k]
  BY <1>t, <1>1
<1>6. WireFaithful'
  BY <1>1, <1>4, <1>5 DEF FlightInv, WireFaithful
<1>7. Dist(TxNext(TDH), TDT) = Dist(TDH, TDT) - 1
  BY <1>t, <1>1, RingSizes DEF Dist, Distance, TxIndex
<1>8. ASSUME NEW i \in TxIndex PROVE CardOwnsTx(i)' <=> CardOwnsTx(i) /\ i # TDH
  <2>1. CardOwnsTx(i)' <=> InRange(TxNext(TDH), TDT, i)
    BY <1>1, Zenon DEF CardOwnsTx
  <2>q. QED BY <1>t, <1>1, <2>1 DEF CardOwnsTx, InRange, TxIndex
<1>9. ASSUME NEW i \in TxIndex, i # TDH
      PROVE  Dist(TxNext(TDH), i) = Dist(TDH, i) - 1 /\ Dist(TDH, i) \in Nat
  <2>1. /\ i \in Int /\ TDH \in Int /\ TX_RING_SIZE \in Int
        /\ i < TX_RING_SIZE /\ TDH < TX_RING_SIZE /\ (i < TDH \/ TDH < i)
        /\ i >= 0 /\ TDH >= 0
    BY <1>t, <1>9, RingSizes DEF TxIndex
  <2>q. QED BY <1>t, <2>1 DEF Dist, Distance
<1>10. ASSUME NEW i \in TxIndex, CardOwnsTx(i)'
       PROVE  content'[txAddr'[i]] = submitted'[Len(wire') + 1 + Dist(TDH', i)]
  <2>1. CardOwnsTx(i) /\ i # TDH
    BY <1>8, <1>10, Zenon
  <2>2. content[txAddr[i]] = submitted[Len(wire) + 1 + Dist(TDH, i)]
    BY <1>2, <2>1, Zenon DEF Flowing
  <2>3. Len(wire') + 1 + Dist(TxNext(TDH), i) = Len(wire) + 1 + Dist(TDH, i)
    BY <1>4, <1>5, <1>9, <2>1
  <2>q. QED BY <1>1, <2>2, <2>3, Zenon
<1>11. \A i \in TxIndex : ~CardOwnsTx(i)' /\ ~(InTail' /\ i = TDT') => txDD'[i]
  BY <1>t, <1>1, <1>2, <1>8, Zenon DEF Flowing
<1>12. Len(submitted') = Len(wire') + Dist(TDH', TDT') + IF InTail' THEN 1 ELSE 0
  <2>1. Len(submitted) = Len(wire) + Dist(TDH, TDT) + IF InTail THEN 1 ELSE 0
    BY <1>2, Zenon DEF Flowing
  <2>q. QED BY <1>1, <1>2, <1>3, <1>4, <1>5, <1>7, <2>1
<1>13. Flowing'
  <2>1. InTail' => content'[txAddr'[TDT']] = submitted'[Len(submitted')]
    BY <1>1, <1>2, Zenon DEF Flowing
  <2>q. QED BY <1>10, <1>11, <1>12, <2>1, Zenon DEF Flowing
<1>14. \A c \in Callers : txpc'[c] = "program" => txDD'[TDT']
  BY <1>t, <1>1, Zenon DEF FlightInv
<1>q. QED BY <1>6, <1>13, <1>14, Zenon DEF FlightInv

LEMMA FlightStep ==
  Base /\ PageOwnership /\ FlightInv /\ [Next]_vars => FlightInv'
<1> SUFFICES ASSUME Base, PageOwnership, FlightInv, [Next]_vars PROVE FlightInv'
  OBVIOUS
<1>t. /\ txpc \in [Callers -> {"idle", "transmit", "program", "tail", "failed"}]
      /\ content \in [Pages -> Nat] /\ TDT \in TxIndex
      /\ tx_bufs \in [TxIndex -> Pages \cup {NULL}]
  BY Zenon DEF Base, TypeOK
<1>1. ASSUME NEW c \in Callers, TransmitTest(c) PROVE FlightInv'
  <2>1. UNCHANGED InTail
    BY <1>1, <1>t, Zenon DEF TransmitTest, InTail
  <2>2. \A d \in Callers : txpc'[d] = "program" => txpc[d] = "program" \/ txDD[TDT]
    BY <1>1, <1>t, TxNextType, Zenon DEF TransmitTest
  <2>q. QED BY <1>1, <2>1, <2>2, FlightKeeps, Zenon DEF TransmitTest, memVars
<1>2. ASSUME NEW c \in Callers, TransmitProgram(c) PROVE FlightInv'
  BY <1>2, FlightProgram, Zenon
<1>3. ASSUME NEW c \in Callers, TransmitTail(c) PROVE FlightInv'
  BY <1>3, FlightTail, Zenon
<1>4. ASSUME NEW c \in Callers, TakeBack(c) \/ \E p \in Pages : CallTransmit(c, p)
      PROVE  FlightInv'
  <2>1. /\ UNCHANGED InTail
        /\ \A d \in Callers : txpc'[d] = "program" => txpc[d] = "program"
    BY <1>4, <1>t, Zenon DEF TakeBack, CallTransmit, InTail
  <2>q. QED BY <1>4, <2>1, FlightKeeps, Zenon DEF TakeBack, CallTransmit
<1>5. ASSUME NEW p \in Pages, NEW n \in Payloads \cup {Junk}, StackAlloc(p, n)
      PROVE  FlightInv'
  <2>1. \A i \in TxIndex : tx_bufs[i] # p
    BY <1>5, NullNotPage DEF StackAlloc, kalloc, PageOwnership, TxBufs
  <2>2. \A i \in TxIndex :
          tx_bufs[i] # NULL => content'[tx_bufs[i]] = content[tx_bufs[i]]
    BY <1>5, <1>t, <2>1, Zenon DEF StackAlloc
  <2>q. QED BY <1>5, <2>2, FlightKeeps, Zenon DEF StackAlloc, txVars, InTail
<1>6. ASSUME NEW p \in Pages, StackFree(p) PROVE FlightInv'
  <2>1. \A i \in TxIndex : tx_bufs[i] # p
    BY <1>6, NullNotPage DEF StackFree, PageOwnership, TxBufs
  <2>2. \A i \in TxIndex :
          tx_bufs[i] # NULL => content'[tx_bufs[i]] = content[tx_bufs[i]]
    BY <1>6, <1>t, <2>1, Zenon DEF StackFree, kfree
  <2>q. QED BY <1>6, <2>2, FlightKeeps, Zenon DEF StackFree, txVars, InTail
<1>7. CASE RecvCopy
  <2>1. \A i \in TxIndex :
          tx_bufs[i] # NULL => content'[tx_bufs[i]] = content[tx_bufs[i]]
    <3>1. \A i \in TxIndex : tx_bufs[i] # NULL =>
            tx_bufs[i] \in Pages /\ tx_bufs[i] \notin freelist
      BY <1>t DEF PageOwnership, TxBufs
    <3>2. \/ UNCHANGED content
          \/ \E p \in freelist : content' = [content EXCEPT ![p] = rxFrame[rxi]]
      BY <1>7, Zenon DEF RecvCopy, kalloc
    <3>q. QED BY <1>t, <3>1, <3>2, Zenon
  <2>q. QED BY <1>7, <2>1, FlightKeeps, Zenon DEF RecvCopy, txVars, InTail
<1>8. CASE e1000_intr \/ RecvTest \/ RecvClear \/ RecvReturn \/ RecvDeliver \/ NicReceive
  BY <1>8, FlightKeeps, Zenon DEF e1000_intr, RecvTest, RecvClear, RecvReturn,
                           RecvDeliver, NicReceive, txVars, memVars, InTail
<1>9. CASE NicSend
  BY <1>9, FlightSend, Zenon
<1>10. CASE UNCHANGED vars
  BY <1>10, FlightKeeps, Zenon DEF vars, txVars, memVars, InTail
<1>q. QED BY <1>1, <1>2, <1>3, <1>4, <1>5, <1>6, <1>7, <1>8, <1>9, <1>10, Zenon
          DEF Next, e1000_transmit, e1000_recv

LEMMA FlightInvariant == Spec => []FlightInv
  BY BaseInvariant, PagesHaveOneOwner, FlightInit, FlightStep, PTL DEF Spec

\* The wire shows the frames e1000_transmit accepted, in order and unchanged.
THEOREM WireIsFaithful == Spec => []WireFaithful
<1>1. FlightInv => WireFaithful
  BY Zenon DEF FlightInv
<1>q. QED BY <1>1, FlightInvariant, PTL

\* DD tells the card's descriptors from the driver's between calls, but for the
\* one state in which the ring is full and has stalled.
THEOREM StallsOnlyWhenFull == Spec => []TxDoneOrOwned
<1>1. Base /\ FlightInv => TxDoneOrOwned
  <2> SUFFICES ASSUME Base, FlightInv, e1000_lock = NULL
               PROVE  \/ \A i \in TxIndex : txDD[i] <=> ~CardOwnsTx(i)
                      \/ TDH = TDT /\ \A i \in TxIndex : ~txDD[i]
    BY Zenon DEF TxDoneOrOwned
  <2>1. ~InTail
    BY NullNotContext, Zenon DEF InTail, Base, LockHeld, TxHolding
  <2>q. QED BY <2>1, Zenon DEF FlightInv, Flowing, Stalled, Base, TxDmaSafe
<1>q. QED BY <1>1, BaseInvariant, FlightInvariant, PTL

\* The wire shows what e1000_transmit accepted, and DD misjudges only a ring
\* that is full.
THEOREM TxIsFaithful == Spec => []TxFaithful
<1>1. WireFaithful /\ TxDoneOrOwned => TxFaithful
  BY Zenon DEF TxFaithful
<1>q. QED BY <1>1, WireIsFaithful, StallsOnlyWhenFull, PTL
=============================================================================
