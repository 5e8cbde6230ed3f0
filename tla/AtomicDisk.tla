---------------------------- MODULE AtomicDisk ------------------------------
(***************************************************************************)
(* What the log promises: a disk that changes atomically.  Operations      *)
(* write to the current contents; now and then, with no operation under    *)
(* way, the current contents become durable as a whole; a crash goes back  *)
(* to the durable ones.                                                    *)
(***************************************************************************)
EXTENDS Integers

CONSTANTS Blocks, Data

VARIABLES
  durable, current,   \* [Blocks -> Data]
  active              \* how many operations are under way

vars == <<durable, current, active>>

Init ==
  /\ durable \in [Blocks -> Data]
  /\ current = durable
  /\ active = 0

Begin == active' = active + 1 /\ UNCHANGED <<durable, current>>

Write(b, v) ==
  /\ active > 0
  /\ current' = [current EXCEPT ![b] = v]
  /\ UNCHANGED <<durable, active>>

End ==
  /\ active > 0
  /\ active' = active - 1
  /\ UNCHANGED <<durable, current>>

Commit ==
  /\ active = 0
  /\ durable' = current
  /\ UNCHANGED <<current, active>>

Crash ==
  /\ current' = durable
  /\ active' = 0
  /\ UNCHANGED durable

Next ==
  \/ Begin \/ End \/ Commit \/ Crash
  \/ \E b \in Blocks, v \in Data : Write(b, v)

Spec == Init /\ [][Next]_vars
=============================================================================
