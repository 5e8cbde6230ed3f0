------------------------------ MODULE BytePipe ------------------------------
(***************************************************************************)
(* What a pipe promises: a bounded queue of bytes.  A writer's bytes enter *)
(* it in order, a reader's come out in order, none is lost, invented or    *)
(* duplicated, except what a writer whose call fails had not written yet.  *)
(***************************************************************************)
EXTENDS Integers, Sequences

CONSTANTS
  Procs,
  Requests,      \* what a process may ask to write
  PIPESIZE       \* bytes the pipe holds

VARIABLES
  queue,         \* bytes in the pipe
  todo,          \* each writer's bytes that are not in the pipe yet
  out            \* the bytes the last read returned

vars == <<queue, todo, out>>

Init == queue = <<>> /\ todo = [p \in Procs |-> <<>>] /\ out = <<>>

Ask(p) ==
  \E s \in Requests :
    /\ todo[p] = <<>> /\ todo' = [todo EXCEPT ![p] = s] /\ UNCHANGED <<queue, out>>

Put(p) ==
  \E k \in 1 .. Len(todo[p]) :
    /\ Len(queue) + k <= PIPESIZE
    /\ queue' = queue \o SubSeq(todo[p], 1, k)
    /\ todo' = [todo EXCEPT ![p] = SubSeq(@, k + 1, Len(@))]
    /\ UNCHANGED out

Fail(p) == todo' = [todo EXCEPT ![p] = <<>>] /\ UNCHANGED <<queue, out>>

Take ==
  \E k \in 0 .. Len(queue) :
    /\ out' = SubSeq(queue, 1, k)
    /\ queue' = SubSeq(queue, k + 1, Len(queue))
    /\ UNCHANGED todo

Next == Take \/ \E p \in Procs : Ask(p) \/ Put(p) \/ Fail(p)

Spec == Init /\ [][Next]_vars
=============================================================================
