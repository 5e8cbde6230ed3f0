----------------------------- MODULE PortQueues -----------------------------
(***************************************************************************)
(* What bind, recv and ip_rx promise about UDP ports, without pages, locks *)
(* or sleeping: a port, once bound, has a bounded queue of frames for good *)
(* (sys_unbind does nothing); a datagram is appended or dropped, and a     *)
(* receiver takes the oldest one.                                          *)
(***************************************************************************)
EXTENDS Integers, Sequences

CONSTANTS Ports, Procs, Frames, Limit, NoFrame

VARIABLES
  bound,    \* the ports with a queue
  queue,    \* each port's queue
  got       \* the frame each process's recv is copying out, or NoFrame

vars == <<bound, queue, got>>

Init ==
  /\ bound = {}
  /\ queue = [q \in Ports |-> <<>>]
  /\ got = [p \in Procs |-> NoFrame]

Bind(q) ==
  /\ q \notin bound
  /\ bound' = bound \cup {q}
  /\ UNCHANGED <<queue, got>>

\* A datagram for q arrives and is not dropped.
Arrive(q, f) ==
  /\ q \in bound
  /\ Len(queue[q]) < Limit
  /\ queue' = [queue EXCEPT ![q] = Append(@, f)]
  /\ UNCHANGED <<bound, got>>

Take(p, q) ==
  /\ got[p] = NoFrame
  /\ queue[q] # <<>>
  /\ got' = [got EXCEPT ![p] = Head(queue[q])]
  /\ queue' = [queue EXCEPT ![q] = Tail(@)]
  /\ UNCHANGED bound

Return(p) ==
  /\ got[p] # NoFrame
  /\ got' = [got EXCEPT ![p] = NoFrame]
  /\ UNCHANGED <<bound, queue>>

Next ==
  \/ \E q \in Ports : Bind(q)
  \/ \E q \in Ports, f \in Frames : Arrive(q, f)
  \/ \E p \in Procs, q \in Ports : Take(p, q)
  \/ \E p \in Procs : Return(p)

Spec == Init /\ [][Next]_vars
=============================================================================
