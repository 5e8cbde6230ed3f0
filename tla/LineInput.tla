----------------------------- MODULE LineInput ------------------------------
(***************************************************************************)
(* What the console promises its readers and its typist: a line is edited  *)
(* until it is committed, committed bytes are read in order, each of them  *)
(* once, and the lines committed last can be recalled.                     *)
(***************************************************************************)
EXTENDS Integers, Sequences

CONSTANTS
  Procs, Chars,
  Capacity,      \* bytes held, committed or not
  Lines          \* lines remembered

VARIABLES
  unread,        \* committed bytes nobody has read
  draft,         \* the bytes typed and not committed
  whole,         \* nothing of the line they belong to is committed
  recent,        \* the lines committed last
  dst            \* what each process's current or last read has returned

vars == <<unread, draft, whole, recent, dst>>

Init ==
  /\ unread = <<>> /\ draft = <<>> /\ whole = TRUE /\ recent = <<>>
  /\ dst = [p \in Procs |-> <<>>]

Last(s, n) == IF Len(s) > n THEN SubSeq(s, Len(s) - n + 1, Len(s)) ELSE s
First(s, n) == IF Len(s) > n THEN SubSeq(s, 1, n) ELSE s

Room == Capacity - Len(unread) - Len(draft)

Commits(c) == c = "nl" \/ c = "eot" \/ (Room = 1 /\ c # "tab")

\* What may be remembered of the line a newline ends: the line, unless a part of
\* it was committed before, and then any bytes.
Remembered ==
  IF whole THEN {draft} ELSE UNION {[1 .. k -> Chars] : k \in 1 .. Capacity - 1}

\* A byte is added; a newline, a ^D and the last byte that fits commit what is
\* not committed, and a newline ends the line.
Type(c) ==
  /\ Room > 0
  /\ IF c = "nl"
     THEN \E s \in Remembered :
            recent' = IF s = <<>> THEN recent ELSE Last(Append(recent, s), Lines)
     ELSE UNCHANGED recent
  /\ unread' = IF Commits(c) THEN unread \o Append(draft, c) ELSE unread
  /\ draft' = IF Commits(c) THEN <<>> ELSE Append(draft, c)
  /\ whole' = IF Commits(c) THEN c = "nl" ELSE whole
  /\ UNCHANGED dst

\* Only what is not committed can be taken back.
Erase ==
  \E n \in 0 .. Len(draft) - 1 :
    draft' = First(draft, n) /\ UNCHANGED <<unread, whole, recent, dst>>

\* A remembered line, or the empty one, replaces a line nothing of which is
\* committed.
Recall ==
  /\ whole
  /\ \E s \in {recent[i] : i \in DOMAIN recent} \cup {<<>>} :
       draft' = First(s, Capacity - Len(unread))
  /\ UNCHANGED <<unread, whole, recent, dst>>

\* A ^D is taken by a read that returns nothing else.
Take(p) ==
  /\ unread # <<>> /\ (Head(unread) = "eot" => dst[p] = <<>>)
  /\ unread' = Tail(unread)
  /\ dst' = [dst EXCEPT ![p] = IF Head(unread) = "eot" THEN @ ELSE Append(@, Head(unread))]
  /\ UNCHANGED <<draft, whole, recent>>

\* A new read starts, or a killed reader's fails.
Clear(p) == dst' = [dst EXCEPT ![p] = <<>>] /\ UNCHANGED <<unread, draft, whole, recent>>

Next ==
  \/ \E c \in Chars : Type(c)
  \/ Erase \/ Recall
  \/ \E p \in Procs : Take(p) \/ Clear(p)

Spec == Init /\ [][Next]_vars
=============================================================================
