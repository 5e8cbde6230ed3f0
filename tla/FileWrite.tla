----------------------------- MODULE FileWrite ------------------------------
(***************************************************************************)
(* fileread and filewrite of file.c on an inode: the loop that cuts a      *)
(* write into log transactions, with the inode's lock, the shared file     *)
(* offset, and the blocks that writei, bmap and balloc log for it.  Each   *)
(* process reads once, then writes once.  The log is reduced to its length *)
(* and the operations outstanding (module Log): a transaction is gone when *)
(* the last of them ends.                                                  *)
(***************************************************************************)
EXTENDS Integers, Sequences, SequencesExt, FiniteSets

CONSTANTS
  Procs, Files, NULL,
  FileOf,         \* [Procs -> Files]: the open file each uses, maybe shared
  Old,            \* the bytes in a file when it is opened
  Wanted, Bytes,  \* how many bytes each reads, and writes
  BSIZE, NDIRECT, MAXFILE, LOGSIZE, MAXOPBLOCKS,
  nlog            \* the log's blocks on disk, the header's included

\* What the constants are assumed to be.
FileWriteConstants ==
  /\ NULL \notin Procs \cup Files
  /\ FileOf \in [Procs -> Files]
  /\ Old \in Nat /\ Wanted \in Nat
  /\ {Bytes, BSIZE, NDIRECT, MAXFILE, LOGSIZE, MAXOPBLOCKS, nlog} \subseteq Nat \ {0}

VARIABLES
  lh, outstanding,     \* the log: blocks logged, operations outstanding
  lock, off, size,     \* each file: who has the inode's lock, offset, size
  pc, i, n1, r, from,  \* each process: where it is, locals, writei's off
  todo,                \* the log_writes its writei has still to make
  chunks,              \* history: what was read or written through each open
                       \* file, as <<from, to>>
  panicked             \* "no", or who called panic

vars == <<lh, outstanding, lock, off, size, pc, i, n1, r, from, todo, chunks,
          panicked>>

\* Blocks: <<f, k>> is the k-th block of f, with -1 for its indirect block.
bitmap == <<NULL, 0>>
inodes == <<NULL, 1>>
indirect(f) == <<f, -1>>

Goto(p, l) == pc' = [pc EXCEPT ![p] = l]

Init ==
  /\ lh = {} /\ outstanding = 0
  /\ lock = [f \in Files |-> NULL]
  /\ off = [f \in Files |-> 0] /\ size = [f \in Files |-> Old]
  /\ pc = [p \in Procs |-> "read"]
  /\ i = [p \in Procs |-> 0] /\ n1 = [p \in Procs |-> 0] /\ r = [p \in Procs |-> 0]
  /\ from = [p \in Procs |-> 0]
  /\ todo = [p \in Procs |-> <<>>]
  /\ chunks = [f \in Files |-> <<>>]
  /\ panicked = "no"

-----------------------------------------------------------------------------
(* fileread *)

\* readi returns what there is, up to the size, or -1 behind it.
Readi(f) == IF off[f] > size[f] THEN -1
            ELSE IF off[f] + Wanted > size[f] THEN size[f] - off[f] ELSE Wanted

\* ilock, readi, the offset advances by what was read, iunlock: nobody else
\* uses the offset meanwhile.
fileread(p) ==
  LET f == FileOf[p]
      n == Readi(f)
  IN /\ pc[p] = "read" /\ lock[f] = NULL
     /\ IF n > 0
        THEN /\ off' = [off EXCEPT ![f] = @ + n]
             /\ chunks' = [chunks EXCEPT ![f] = Append(@, <<off[f], off[f] + n>>)]
        ELSE UNCHANGED <<off, chunks>>
     /\ Goto(p, "begin")
     /\ UNCHANGED <<lh, outstanding, lock, size, i, n1, r, from, todo, panicked>>

-----------------------------------------------------------------------------
(* filewrite *)

\* "to avoid exceeding the maximum log transaction size"
max == ((LOGSIZE - 1 - 1 - 2) \div 2) * BSIZE

\* bmap of the file's k-th block when it is new: balloc marks the bitmap and
\* zeroes the block; the first indirect block brings the block of addresses,
\* and every one an entry in it.
NewBlock(f, k) ==
  LET balloc(b) == <<bitmap, b>>
  IN IF k < NDIRECT THEN balloc(<<f, k>>)
     ELSE (IF k = NDIRECT THEN balloc(indirect(f)) ELSE <<>>)
            \o balloc(<<f, k>>) \o <<indirect(f)>>

\* writei refuses to leave a gap or to exceed the largest file.
Refuses(f, n) == off[f] > size[f] \/ off[f] + n > MAXFILE * BSIZE

\* What writei of n bytes at off logs, in order.
LogWrites(f, n) ==
  LET first == off[f] \div BSIZE
      last == (off[f] + n - 1) \div BSIZE
      isNew(k) == k * BSIZE >= size[f]
      ofBlock(k) == (IF isNew(k) THEN NewBlock(f, k) ELSE <<>>) \o <<<<f, k>>>>
  IN IF Refuses(f, n) THEN <<>> ELSE
     FlattenSeq([j \in 1 .. last - first + 1 |-> ofBlock(first + j - 1)])
       \o (IF off[f] + n > size[f] THEN <<inodes>> ELSE <<>>)

\* The next round of the loop: begin_op, once there is room.
BeginOp(p) ==
  /\ pc[p] = "begin"
  /\ Cardinality(lh) + (outstanding + 1) * MAXOPBLOCKS <= LOGSIZE
  /\ outstanding' = outstanding + 1
  /\ n1' = [n1 EXCEPT ![p] = IF Bytes - i[p] > max THEN max ELSE Bytes - i[p]]
  /\ Goto(p, "ilock")
  /\ UNCHANGED <<lh, lock, off, size, i, r, from, todo, chunks, panicked>>

\* Fault: the offset is read and the inode unlocked.
ILockFault(p) ==
  /\ pc[p] = "ilock" /\ lock[FileOf[p]] = NULL
  /\ from' = [from EXCEPT ![p] = off[FileOf[p]]]
  /\ todo' = [todo EXCEPT ![p] = LogWrites(FileOf[p], n1[p])]
  /\ r' = [r EXCEPT ![p] = IF Refuses(FileOf[p], n1[p]) THEN -1 ELSE n1[p]]
  /\ Goto(p, "write")
  /\ UNCHANGED <<lh, outstanding, lock, off, size, i, n1, chunks, panicked>>

\* ilock, and writei called with the offset.
ILock(p) ==
  /\ pc[p] = "ilock"
  /\ lock[FileOf[p]] = NULL
  /\ lock' = [lock EXCEPT ![FileOf[p]] = p]
  /\ from' = [from EXCEPT ![p] = off[FileOf[p]]]
  /\ todo' = [todo EXCEPT ![p] = LogWrites(FileOf[p], n1[p])]
  /\ r' = [r EXCEPT ![p] = IF Refuses(FileOf[p], n1[p]) THEN -1 ELSE n1[p]]
  /\ Goto(p, "write")
  /\ UNCHANGED <<lh, outstanding, off, size, i, n1, chunks, panicked>>

\* One log_write of writei.
LogWrite(p) ==
  /\ pc[p] = "write" /\ todo[p] # <<>>
  /\ IF Cardinality(lh) >= LOGSIZE \/ Cardinality(lh) >= nlog - 1
     THEN panicked' = "log_write" /\ UNCHANGED lh
     ELSE lh' = lh \cup {Head(todo[p])} /\ UNCHANGED panicked
  /\ todo' = [todo EXCEPT ![p] = Tail(@)]
  /\ UNCHANGED <<outstanding, lock, off, size, pc, i, n1, r, from, chunks>>

\* The offset advances by what writei, called with from, has written.
Advance(p) ==
  LET f == FileOf[p]
      to == from[p] + r[p]
  IN /\ pc[p] = "write" /\ todo[p] = <<>>
     /\ IF r[p] > 0
        THEN /\ off' = [off EXCEPT ![f] = @ + r[p]]
             /\ size' = [size EXCEPT ![f] = IF to > @ THEN to ELSE @]
             /\ chunks' = [chunks EXCEPT ![f] = Append(@, <<from[p], to>>)]
        ELSE UNCHANGED <<off, size, chunks>>
     /\ Goto(p, "end")
     /\ UNCHANGED <<lh, outstanding, i, n1, r, from, todo, panicked>>

\* writei returns; the offset advances under the inode's lock; iunlock.
IUnlock(p) == Advance(p) /\ lock' = [lock EXCEPT ![FileOf[p]] = NULL]

\* end_op: the last operation commits; then the rest of the bytes, if any, unless
\* writei refused them.
EndOp(p) ==
  /\ pc[p] = "end"
  /\ outstanding' = outstanding - 1
  /\ lh' = IF outstanding = 1 THEN {} ELSE lh
  /\ IF r[p] < 0 THEN Goto(p, "done") /\ UNCHANGED <<i, panicked>>
     ELSE IF r[p] # n1[p] THEN panicked' = "short filewrite" /\ UNCHANGED <<pc, i>>
     ELSE /\ i' = [i EXCEPT ![p] = @ + r[p]]
          /\ Goto(p, IF i[p] + r[p] < Bytes THEN "begin" ELSE "done")
          /\ UNCHANGED panicked
  /\ UNCHANGED <<lock, off, size, n1, r, from, todo, chunks>>

filewrite(p) == BeginOp(p) \/ ILock(p) \/ LogWrite(p) \/ IUnlock(p) \/ EndOp(p)

\* A panic stops the machine.
Step(p) == panicked = "no" /\ (fileread(p) \/ filewrite(p))

Next == \E p \in Procs : Step(p)

Spec == Init /\ [][Next]_vars

-----------------------------------------------------------------------------
(* Properties *)

\* The type of the state.
TypeOK ==
  /\ outstanding \in 0 .. Cardinality(Procs)
  /\ lock \in [Files -> Procs \cup {NULL}]
  /\ off \in [Files -> Nat] /\ size \in [Files -> Nat]
  /\ pc \in [Procs -> {"read", "begin", "ilock", "write", "end", "done"}]
  /\ i \in [Procs -> 0 .. Bytes] /\ n1 \in [Procs -> 0 .. Bytes]
  /\ r \in [Procs -> -1 .. Bytes]
  /\ panicked \in {"no", "log_write", "short filewrite"}

\* Processes that read and write through one open file never use the same bytes
\* and leave no gap: each read or write starts where the one before ended, also
\* after one that failed, and none is short (file.c:104-106, 141-150).
ChunksAdjoin ==
  /\ \A f \in Files :
       /\ \A k \in 1 .. Len(chunks[f]) :
            chunks[f][k][1] = IF k = 1 THEN 0 ELSE chunks[f][k - 1][2]
       /\ off[f] = IF chunks[f] = <<>> THEN 0 ELSE Last(chunks[f])[2]
       /\ off[f] <= size[f]
  /\ panicked # "short filewrite"

\* "write a few blocks at a time to avoid exceeding the maximum log transaction
\* size" (file.c:127-128): log_write does not find the log full (log.c:216).
FitsLog == panicked # "log_write"

-----------------------------------------------------------------------------
(* The instance for TLC *)

\* Each process has a file of its own, named after it.
OwnFile == [p \in Procs |-> p]
=============================================================================
