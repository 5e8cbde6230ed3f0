------------------------------ MODULE MCE1000 -------------------------------
(***************************************************************************)
(* E1000 for TLC.  Pages are numbers.  Free pages all hold the same junk   *)
(* and nothing refers to them, so an allocation may as well take the       *)
(* lowest one: every behaviour is one of these with its pages renamed.     *)
(***************************************************************************)
EXTENDS E1000, TLC, FiniteSets

CONSTANTS
  PageCount,
  Budget         \* bound: frames sent and received together

MCPages == 1 .. PageCount

FirstPages == Init /\ rx_bufs = [i \in RxIndex |-> i + 1]

LowestFirst == \A p \in freelist \ freelist' : \A q \in freelist : p <= q

\* Frames in both directions, calls under way included.  Only a new call and an
\* arrival are held back: nothing that fairness is about.
Load == Len(submitted) + accepted + Cardinality({c \in Callers : txbuf[c] # NULL})
WithinBudget == Load' <= Budget \/ Load' <= Load

MCSpec == FirstPages /\ [][Next]_vars
MCFairSpec == MCSpec /\ Fairness
=============================================================================
