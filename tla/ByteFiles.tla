----------------------------- MODULE ByteFiles ------------------------------
(***************************************************************************)
(* What the file layer promises: each file is a sequence of bytes, written *)
(* in place or extended at its end, read back, and emptied at once.        *)
(***************************************************************************)
EXTENDS Integers, Sequences

CONSTANTS Procs, Inodes, Requests, MaxSize

VARIABLES content, dst

vars == <<content, dst>>

Init == content = [i \in Inodes |-> <<>>] /\ dst = [p \in Procs |-> <<>>]

\* s with src at offset off, longer if it does not fit.
Splice(s, off, src) ==
  SubSeq(s, 1, off) \o src \o SubSeq(s, off + Len(src) + 1, Len(s))

Write(i) ==
  \E src \in Requests, off \in 0 .. Len(content[i]) :
    /\ off + Len(src) <= MaxSize
    /\ content' = [content EXCEPT ![i] = Splice(@, off, src)] /\ UNCHANGED dst

Truncate(i) == content' = [content EXCEPT ![i] = <<>>] /\ UNCHANGED dst

Read(p, i) ==
  \E off \in 0 .. Len(content[i]), n \in 0 .. Len(content[i]) :
    /\ off + n <= Len(content[i])
    /\ dst' = [dst EXCEPT ![p] = SubSeq(content[i], off + 1, off + n)] /\ UNCHANGED content

Next == \E i \in Inodes : Write(i) \/ Truncate(i) \/ \E p \in Procs : Read(p, i)

Spec == Init /\ [][Next]_vars
=============================================================================
