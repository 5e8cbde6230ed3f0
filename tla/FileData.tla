------------------------------ MODULE FileData ------------------------------
(***************************************************************************)
(* The content of files (fs.c): the bitmap of free blocks (balloc, bfree), *)
(* the direct and indirect blocks of an inode (bmap, itrunc), and readi    *)
(* and writei on top of them.                                              *)
(*                                                                         *)
(* A call holds its inode's lock throughout, and the buffer of the bitmap  *)
(* while it looks for a free bit, so each balloc, bfree and block copied   *)
(* is one step between which calls on other inodes run.  A block is BSIZE  *)
(* cells, each of which holds a byte or a block number.                    *)
(***************************************************************************)
EXTENDS Integers, Sequences, FiniteSets, FiniteSetsExt

CONSTANTS
  Procs, NULL, Inodes,
  NBLOCK,                \* data blocks of the disk
  NDIRECT, BSIZE,
  Requests,              \* byte sequences a process may write ...
  Offsets,               \* ... bound: and where it writes and reads
  MaxRead

Blocks == 1 .. NBLOCK
MAXFILE == NDIRECT + BSIZE

\* What the constants are assumed to be.
DataSizes ==
  {NBLOCK, BSIZE} \subseteq Nat \ {0} /\ {NDIRECT, MaxRead} \subseteq Nat /\ NULL \notin Procs

VARIABLES
  bitmap,                \* blocks marked in use
  data,                  \* what each block holds
  addrs, size,           \* inodes, in memory ...
  dinode,                \* ... and as iupdate wrote them
  owner,                 \* who has the inode locked
  saved,                 \* its content when it was locked
  pc, ip, off, src, j,   \* each call's inode, offset, source and loop index
  dst,                   \* what a process has read
  panicked

blockVars == <<bitmap, data>>
inodeVars == <<addrs, size, dinode>>
callVars == <<pc, ip, off, src, j, dst>>
vars == <<blockVars, inodeVars, owner, saved, callVars, panicked>>

NoBlock == 0
Zero == [k \in 0 .. BSIZE - 1 |-> 0]

\* The block that bmap returns for block bn of an inode, if there is one.
Lookup(i, bn) ==
  IF bn < NDIRECT THEN addrs[i][bn + 1]
  ELSE IF bn >= MAXFILE \/ addrs[i][NDIRECT + 1] = NoBlock THEN NoBlock
  ELSE data[addrs[i][NDIRECT + 1]][bn - NDIRECT]

\* The bytes readi copies.
Bytes(i, o, n) ==
  [k \in 1 .. n |-> data[Lookup(i, (o + k - 1) \div BSIZE)][(o + k - 1) % BSIZE]]
Content(i) == Bytes(i, 0, size[i])

NoAddrs == [k \in 1 .. NDIRECT + 1 |-> NoBlock]
Init ==
  /\ bitmap = {} /\ data = [b \in Blocks |-> Zero]
  /\ addrs = [i \in Inodes |-> NoAddrs] /\ size = [i \in Inodes |-> 0]
  /\ dinode = [i \in Inodes |-> [addrs |-> NoAddrs, size |-> 0]]
  /\ owner = [i \in Inodes |-> NULL] /\ saved = [i \in Inodes |-> <<>>]
  /\ pc = [p \in Procs |-> "idle"] /\ ip = [p \in Procs |-> NULL]
  /\ off = [p \in Procs |-> 0] /\ src = [p \in Procs |-> <<>>] /\ j = [p \in Procs |-> 0]
  /\ dst = [p \in Procs |-> <<>>] /\ panicked = FALSE

Runs(p, l) == ~panicked /\ pc[p] = l

\* ilock
Lock(p, i, l) ==
  /\ Runs(p, "idle") /\ owner[i] = NULL
  /\ owner' = [owner EXCEPT ![i] = p] /\ saved' = [saved EXCEPT ![i] = Content(i)]
  /\ pc' = [pc EXCEPT ![p] = l] /\ ip' = [ip EXCEPT ![p] = i]

\* iunlock
Unlock(p) ==
  /\ owner' = [owner EXCEPT ![ip[p]] = NULL] /\ saved' = [saved EXCEPT ![ip[p]] = <<>>]
  /\ pc' = [pc EXCEPT ![p] = "idle"] /\ ip' = [ip EXCEPT ![p] = NULL]

-----------------------------------------------------------------------------
(* balloc and bfree *)

\* bzero
Bzero(b) == [data EXCEPT ![b] = Zero]

FreeBlock == Min(Blocks \ bitmap)

\* bfree; a block that is free already stops the kernel.
Free(b) ==
  IF b \in bitmap THEN bitmap' = bitmap \ {b} /\ UNCHANGED panicked
  ELSE panicked' = TRUE /\ UNCHANGED bitmap

-----------------------------------------------------------------------------
(* writei *)

\* off + n <= MAXFILE * BSIZE
Fits(o, n) == o + n <= MAXFILE * BSIZE

\* Calls that start beyond the end of the file, or end beyond the largest
\* file, change nothing.
WriteStart(p, i, o, s) ==
  /\ o <= size[i] /\ Fits(o, Len(s))
  /\ Lock(p, i, "write")
  /\ off' = [off EXCEPT ![p] = o] /\ src' = [src EXCEPT ![p] = s]
  /\ UNCHANGED <<blockVars, inodeVars, j, dst, panicked>>

\* bmap of a block that is missing: the indirect block first, then the block;
\* each is marked in the bitmap and zeroed.  A full disk, or a block that no
\* file can have, stops the kernel.
WriteAlloc(p) ==
  LET i == ip[p]
      bn == off[p] \div BSIZE
      b == FreeBlock
  IN /\ Runs(p, "write") /\ src[p] # <<>> /\ Lookup(i, bn) = NoBlock
     /\ IF Blocks = bitmap \/ bn >= MAXFILE THEN panicked' = TRUE /\ UNCHANGED <<blockVars, addrs>>
        ELSE /\ bitmap' = bitmap \cup {b}
             /\ IF bn < NDIRECT \/ addrs[i][NDIRECT + 1] = NoBlock
                THEN /\ addrs' = [addrs EXCEPT ![i][IF bn < NDIRECT THEN bn + 1 ELSE NDIRECT + 1] = b]
                     /\ data' = Bzero(b)
                ELSE /\ data' = [Bzero(b) EXCEPT ![addrs[i][NDIRECT + 1]][bn - NDIRECT] = b]
                     /\ UNCHANGED addrs
             /\ UNCHANGED panicked
     /\ UNCHANGED <<size, dinode, owner, saved, callVars>>

\* min(n - tot, BSIZE - off % BSIZE)
Chunk(o, n) == IF n < BSIZE - (o % BSIZE) THEN n ELSE BSIZE - (o % BSIZE)

\* Fault: the next block is copied from the start of the source again.
RestFault(s, m) == SubSeq(s, 1, Len(s) - m)

\* tot += m, src += m
Rest(s, m) == SubSeq(s, m + 1, Len(s))

\* The part of the block that the source covers.
WriteCopy(p) ==
  LET b == Lookup(ip[p], off[p] \div BSIZE)
      o == off[p] % BSIZE
      m == Chunk(off[p], Len(src[p]))
  IN /\ Runs(p, "write") /\ src[p] # <<>> /\ b # NoBlock
     /\ data' = [data EXCEPT ![b] =
          [k \in 0 .. BSIZE - 1 |-> IF k \in o .. o + m - 1 THEN src[p][k - o + 1] ELSE @[k]]]
     /\ off' = [off EXCEPT ![p] = @ + m]
     /\ src' = [src EXCEPT ![p] = Rest(@, m)]
     /\ UNCHANGED <<bitmap, inodeVars, owner, saved, pc, ip, j, dst, panicked>>

\* iupdate
Update(i, s) == [addrs |-> addrs[i], size |-> s]

\* A file that has grown is written back.
WriteDone(p) ==
  LET i == ip[p] IN
  /\ Runs(p, "write") /\ src[p] = <<>>
  /\ IF off[p] > size[i]
     THEN /\ size' = [size EXCEPT ![i] = off[p]]
          /\ dinode' = [dinode EXCEPT ![i] = Update(i, off[p])]
     ELSE UNCHANGED <<size, dinode>>
  /\ Unlock(p) /\ off' = [off EXCEPT ![p] = 0]
  /\ UNCHANGED <<blockVars, addrs, src, j, dst, panicked>>

writei(p) == WriteAlloc(p) \/ WriteCopy(p) \/ WriteDone(p)

\* readi, on an inode nobody else has locked.
readi(p, i, o, n) ==
  LET m == IF o + n > size[i] THEN size[i] - o ELSE n IN
  /\ Runs(p, "idle") /\ owner[i] = NULL /\ o <= size[i]
  /\ dst' = [dst EXCEPT ![p] = Bytes(i, o, m)]
  /\ UNCHANGED <<blockVars, inodeVars, owner, saved, pc, ip, off, src, j, panicked>>

-----------------------------------------------------------------------------
(* itrunc *)

\* ip->addrs[k] = 0
Cleared(i, k) == [addrs EXCEPT ![i][k] = NoBlock]

TruncStart(p, i) ==
  /\ Lock(p, i, "direct")
  /\ UNCHANGED <<blockVars, inodeVars, off, src, j, dst, panicked>>

\* The direct blocks, one after the other.
TruncDirect(p) ==
  LET i == ip[p]
      left == {k \in 1 .. NDIRECT : addrs[i][k] # NoBlock}
  IN /\ Runs(p, "direct")
     /\ IF left = {} THEN pc' = [pc EXCEPT ![p] = "indirect"] /\ UNCHANGED <<bitmap, addrs, panicked>>
        ELSE /\ Free(addrs[i][Min(left)])
             /\ addrs' = Cleared(i, Min(left)) /\ UNCHANGED pc
     /\ UNCHANGED <<data, size, dinode, owner, saved, ip, off, src, j, dst>>

\* Fault: the blocks listed in the indirect block are not freed.
ListedFault(i) == {}

Listed(i) ==
  {k \in 0 .. BSIZE - 1 : addrs[i][NDIRECT + 1] # NoBlock /\ data[addrs[i][NDIRECT + 1]][k] # NoBlock}

\* The blocks listed in the indirect block, whose entries stay ...
TruncListed(p) ==
  LET i == ip[p]
      left == {k \in Listed(i) : k >= j[p]}
  IN /\ Runs(p, "indirect") /\ left # {}
     /\ Free(data[addrs[i][NDIRECT + 1]][Min(left)])
     /\ j' = [j EXCEPT ![p] = Min(left) + 1]
     /\ UNCHANGED <<data, inodeVars, owner, saved, pc, ip, off, src, dst>>

\* ... then the indirect block itself; size = 0, iupdate.
TruncDone(p) ==
  LET i == ip[p]
      b == addrs[i][NDIRECT + 1]
  IN /\ Runs(p, "indirect") /\ \A k \in Listed(i) : k < j[p]
     /\ IF b = NoBlock THEN UNCHANGED <<bitmap, panicked>> ELSE Free(b)
     /\ addrs' = Cleared(i, NDIRECT + 1)
     /\ size' = [size EXCEPT ![i] = 0]
     /\ dinode' = [dinode EXCEPT ![i] = [addrs |-> addrs'[i], size |-> 0]]
     /\ Unlock(p) /\ j' = [j EXCEPT ![p] = 0]
     /\ UNCHANGED <<data, off, src, dst>>

itrunc(p) == TruncDirect(p) \/ TruncListed(p) \/ TruncDone(p)

Next ==
  \E p \in Procs :
    \/ writei(p) \/ itrunc(p)
    \/ \E i \in Inodes :
         \/ TruncStart(p, i)
         \/ \E o \in Offsets :
              \/ \E s \in Requests : WriteStart(p, i, o, s)
              \/ \E n \in 1 .. MaxRead : readi(p, i, o, n)

Spec == Init /\ [][Next]_vars

-----------------------------------------------------------------------------
(* Properties *)

\* Types, and: what an indirect block lists are blocks.
TypeOK ==
  /\ bitmap \subseteq Blocks
  /\ addrs \in [Inodes -> [1 .. NDIRECT + 1 -> Blocks \cup {NoBlock}]]
  /\ \A i \in Inodes : \A k \in Listed(i) : data[addrs[i][NDIRECT + 1]][k] \in Blocks
  /\ size \in [Inodes -> 0 .. MAXFILE * BSIZE]
  /\ owner \in [Inodes -> Procs \cup {NULL}]
  /\ pc \in [Procs -> {"idle", "write", "direct", "indirect"}]

\* The blocks an inode has, of which itrunc under way has freed some.
Has(i) ==
  LET p == owner[i]
      done == IF p # NULL /\ pc[p] = "indirect" THEN j[p] ELSE 0
      listed == {k \in Listed(i) : k >= done}
  IN [direct |-> {k \in 1 .. NDIRECT + 1 : addrs[i][k] # NoBlock}, listed |-> listed,
      blocks |-> ({addrs[i][k] : k \in 1 .. NDIRECT + 1} \ {NoBlock})
                 \cup {data[addrs[i][NDIRECT + 1]][k] : k \in listed}]

\* The bitmap marks exactly the blocks of the inodes, and no block belongs to
\* two of them or twice to one: also while calls allocate and free blocks,
\* and though an indirect block is freed with its entries in it.
BitmapExact ==
  LET count(i) == Cardinality(Has(i).direct) + Cardinality(Has(i).listed)
  IN /\ bitmap = UNION {Has(i).blocks : i \in Inodes}
     /\ Cardinality(bitmap) = MapThenSumSet(count, Inodes)

\* An inode that is not locked is on disk as it is in memory, so the entry
\* of the inode cache can be dropped and read again.
DiskMatches ==
  \A i \in Inodes : owner[i] = NULL => dinode[i] = [addrs |-> addrs[i], size |-> size[i]]

\* The kernel stops only on a full disk: bmap is not asked for a block that
\* is out of range, and bfree never finds its block free.
OnlyFullDiskPanics == [][panicked' => bitmap = Blocks]_panicked

Bytewise == INSTANCE ByteFiles WITH
  MaxSize <- MAXFILE * BSIZE,
  content <- [i \in Inodes |-> IF owner[i] = NULL THEN Content(i) ELSE saved[i]]

\* What readi returns is what the writei calls before it wrote, byte by byte,
\* whatever blocks the files took and gave back in between.
ImplementsByteFiles == Bytewise!Spec
=============================================================================
