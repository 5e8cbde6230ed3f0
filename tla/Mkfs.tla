-------------------------------- MODULE Mkfs --------------------------------
(***************************************************************************)
(* mkfs.c: the file system image that the kernel starts from, made of a    *)
(* root directory and the files given, at the level of disk blocks.        *)
(*                                                                         *)
(* A block is a function from its units, BSIZE of them for data; a         *)
(* directory entry is one unit, so is a dinode in its block, and the bits  *)
(* of the bitmap block are one set.  Files are read in pieces of any size  *)
(* up to a block.  Byte order (xint, xshort) is left out.                  *)
(***************************************************************************)
EXTENDS Integers, Sequences, FiniteSets

CONSTANTS
  BSIZE, NDIRECT, NINDIRECT, IPB, NINODES, BPB, FSSIZE,
  nlog, nbitmap,
  Inputs         \* the lengths of the files of a run, a sequence

ninodeblocks == NINODES \div IPB + 1
nmeta == 2 + nlog + ninodeblocks + nbitmap
inodestart == 2 + nlog
bmapstart == 2 + nlog + ninodeblocks
MAXFILE == NDIRECT + NINDIRECT
ROOTINO == 1

MkfsSizes ==
  /\ {BSIZE, NDIRECT, NINDIRECT, IPB, NINODES, BPB, FSSIZE} \subseteq Nat \ {0}
  /\ nmeta < FSSIZE /\ FSSIZE <= BPB
  /\ \A in \in Inputs : Len(in) + 2 <= NINODES

VARIABLES
  files,                 \* the lengths of the files given
  disk, freeinode, freeblock,
  pc, i, done            \* main's place, its file and what is read of it

vars == <<files, disk, freeinode, freeblock, pc, i, done>>

Zero == <<>>             \* a unit of zeroes
Blocks == 0 .. FSSIZE - 1
Slots == 0 .. BSIZE + IPB + NINDIRECT
zeroes == [b \in Blocks |-> [k \in Slots |-> Zero]]

\* A dinode, a block number in an indirect block, and a directory entry.
Dinode(type, size, addrs) == <<type, size, addrs>>
NoAddrs == [k \in 0 .. NDIRECT |-> 0]
Dirent(name, inum) == <<name, inum>>
Name(f) == <<f>>
Content(f, from, to) == [k \in 1 .. to - from |-> <<"byte", f, from + k>>]

-----------------------------------------------------------------------------
(* Inodes and blocks.  st is the disk with freeblock. *)

IBLOCK(inum) == inum \div IPB + inodestart

rinode(d, inum) == d[IBLOCK(inum)][inum % IPB]
winode(d, inum, din) == [d EXCEPT ![IBLOCK(inum)][inum % IPB] = din]

\* din.addrs[k], given the next free block if it is 0.
Direct(st, addrs, k) ==
  IF addrs[k] # 0 THEN [disk |-> st.disk, free |-> st.free, addrs |-> addrs, x |-> addrs[k]]
  ELSE [disk |-> st.disk, free |-> st.free + 1, addrs |-> [addrs EXCEPT ![k] = st.free],
        x |-> st.free]

\* The block fbn of a file, direct or through the indirect block.
FileBlock(st, addrs, fbn) ==
  LET ind == Direct(st, addrs, NDIRECT)
      k == fbn - NDIRECT
      at == ind.disk[ind.x][k]
  IN IF fbn < NDIRECT THEN Direct(st, addrs, fbn)
     ELSE IF at # Zero THEN [ind EXCEPT !.x = at[1]]
     ELSE [ind EXCEPT !.disk[ind.x][k] = <<ind.free>>, !.free = @ + 1, !.x = ind.free]

\* Fault: the piece is as long as a block wherever it starts.
RoomFault(off) == BSIZE

\* (fbn + 1) * BSIZE - off
Room(off) == (off \div BSIZE + 1) * BSIZE - off

\* The loop of iappend: the bytes of s from off on, a block at a time.
RECURSIVE AppendLoop(_, _, _, _)
AppendLoop(st, addrs, off, s) ==
  LET fbn == off \div BSIZE
      b == FileBlock(st, addrs, fbn)
      n1 == IF Len(s) < Room(off) THEN Len(s) ELSE Room(off)
      start == off - fbn * BSIZE
      block == [k \in Slots |-> IF k \in start .. start + n1 - 1 THEN s[k - start + 1]
                                ELSE b.disk[b.x][k]]
  IN IF s = <<>> THEN [disk |-> st.disk, free |-> st.free, addrs |-> addrs, off |-> off]
     ELSE AppendLoop([disk |-> [b.disk EXCEPT ![b.x] = block], free |-> b.free], b.addrs,
                     off + n1, SubSeq(s, n1 + 1, Len(s)))

\* iappend, which asserts that the file is not too long.
Fits(d, inum, s) == rinode(d, inum)[2] + Len(s) <= MAXFILE * BSIZE
iappend(st, inum, s) ==
  LET din == rinode(st.disk, inum)
      r == AppendLoop(st, din[3], din[2], s)
  IN [disk |-> winode(r.disk, inum, Dinode(din[1], r.off, r.addrs)), free |-> r.free]

ialloc(d, type) == winode(d, freeinode, Dinode(type, 0, NoAddrs))

\* balloc: the bits of the bitmap, for which one block is enough.
Used(used) == 0 .. used - 1

-----------------------------------------------------------------------------
(* main *)

Init ==
  /\ files = <<>> /\ disk = zeroes /\ freeinode = 1 /\ freeblock = nmeta
  /\ pc = "format" /\ i = 1 /\ done = 0

Write(st) == disk' = st.disk /\ freeblock' = st.free
State(d) == [disk |-> d, free |-> freeblock]

\* The files given; the super block, and the root directory with "." and "..".
Format ==
  LET d == [disk EXCEPT ![1][0] = <<FSSIZE, nlog, inodestart, bmapstart>>]
      st == iappend(State(ialloc(d, "T_DIR")), ROOTINO, <<Dirent(".", ROOTINO)>>)
  IN /\ pc = "format" /\ freeinode = ROOTINO
     /\ Write(iappend(st, ROOTINO, <<Dirent("..", ROOTINO)>>))
     /\ freeinode' = freeinode + 1 /\ pc' = "next" /\ files' \in Inputs /\ UNCHANGED <<i, done>>

\* An inode for the next file, and its entry in the root.
AddFile ==
  /\ pc = "next" /\ i <= Len(files)
  /\ Write(iappend(State(ialloc(disk, "T_FILE")), ROOTINO, <<Dirent(Name(i), freeinode)>>))
  /\ freeinode' = freeinode + 1 /\ pc' = "copy" /\ done' = 0 /\ UNCHANGED <<files, i>>

\* read gives n bytes more, which are appended.
Copy(n) ==
  LET s == Content(i, done, done + n) IN
  /\ pc = "copy" /\ done + n <= files[i] /\ n <= BSIZE
  /\ IF Fits(disk, freeinode - 1, s)
     THEN Write(iappend(State(disk), freeinode - 1, s)) /\ done' = done + n /\ UNCHANGED pc
     ELSE pc' = "aborted" /\ UNCHANGED <<disk, freeblock, done>>
  /\ UNCHANGED <<files, freeinode, i>>

CopyDone ==
  /\ pc = "copy" /\ done = files[i] /\ pc' = "next" /\ i' = i + 1
  /\ UNCHANGED <<files, disk, freeinode, freeblock, done>>

\* The root's size goes to the end of a block, and balloc.
Finish ==
  LET din == rinode(disk, ROOTINO)
      size == (din[2] \div BSIZE + 1) * BSIZE
  IN /\ pc = "next" /\ i > Len(files) /\ pc' = "done"
     /\ disk' = [winode(disk, ROOTINO, Dinode(din[1], size, din[3]))
                   EXCEPT ![bmapstart][0] = <<Used(freeblock)>>]
     /\ UNCHANGED <<files, freeinode, freeblock, i, done>>

Next == Format \/ AddFile \/ (\E n \in 1 .. BSIZE : Copy(n)) \/ CopyDone \/ Finish

Spec == Init /\ [][Next]_vars

-----------------------------------------------------------------------------
(* Properties *)

\* What the kernel finds at an offset of a file, holes being zeroes.
BlockAt(din, fbn) ==
  IF fbn < NDIRECT THEN din[3][fbn]
  ELSE IF din[3][NDIRECT] = 0 THEN 0
  ELSE LET at == disk[din[3][NDIRECT]][fbn - NDIRECT] IN IF at = Zero THEN 0 ELSE at[1]
Contents(inum) ==
  LET din == rinode(disk, inum) IN
  [k \in 1 .. din[2] |-> LET b == BlockAt(din, (k - 1) \div BSIZE) IN
                         IF b = 0 THEN Zero ELSE disk[b][(k - 1) % BSIZE]]

\* The image holds the files given: the root lists ".", ".." and each file once,
\* with zeroes after them, and every file reads as it was given.
ImageHoldsFiles ==
  LET entries == <<Dirent(".", ROOTINO), Dirent("..", ROOTINO)>>
                 \o [f \in 1 .. Len(files) |-> Dirent(Name(f), ROOTINO + f)]
      root == Contents(ROOTINO)
  IN pc = "done" =>
       /\ Len(root) >= Len(entries)
       /\ \A k \in 1 .. Len(root) : root[k] = IF k <= Len(entries) THEN entries[k] ELSE Zero
       /\ rinode(disk, ROOTINO)[1] = "T_DIR"
       /\ \A f \in 1 .. Len(files) : /\ rinode(disk, ROOTINO + f)[1] = "T_FILE"
                                     /\ Contents(ROOTINO + f) = Content(f, 0, files[f])

\* The blocks of an inode, with the place each is named at.
BlocksOf(inum) ==
  LET din == rinode(disk, inum) IN
  {<<inum, k, BlockAt(din, k)>> : k \in 0 .. MAXFILE - 1} \cup {<<inum, MAXFILE, din[3][NDIRECT]>>}

\* The bitmap has a bit exactly for the blocks before the data and for the
\* blocks of files, and no block belongs to two.
ImageBitmap ==
  LET owned == {o \in UNION {BlocksOf(k) : k \in 1 .. freeinode - 1} : o[3] # 0}
  IN pc = "done" =>
       /\ disk[bmapstart][0] = <<0 .. nmeta - 1 \cup {o[3] : o \in owned}>>
       /\ \A o, q \in owned : o[3] = q[3] => o = q
       /\ \A o \in owned : o[3] \in nmeta .. FSSIZE - 1
=============================================================================
