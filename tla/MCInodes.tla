------------------------------ MODULE MCInodes ------------------------------
(***************************************************************************)
(* The inode cache, the blocks of inodes, the directory tree and the       *)
(* buffer cache, for TLC.  They share no variable: each behaviour is one   *)
(* of a component among Parts, and the others stay as they start.          *)
(* Processes and inodes are interchangeable.                               *)
(***************************************************************************)
EXTENDS Icache, TLC

CONSTANTS
  Parts, Inodes,
  DiskBlocks     \* the buffer cache's

VARIABLES
  part,          \* the component this behaviour is of
  bitmap, fdata, addrs, size, dinode, owner, saved, fpc, fip, off, src, j, dst,
  fpanicked,
  ntype, links, ent, refs, nlock, cwd, npc, kind, elems, cur, nip, npanicked,
  blockno, refcnt, bvalid, dirty, bdata, block, mru, idequeue, disk, cmd, irq,
  bpc, want, buf, current, bpanicked

\* One direct and two indirect blocks of two cells; bytes are larger than every
\* block number.
D == INSTANCE FileData WITH
  NBLOCK <- 4, NDIRECT <- 1, BSIZE <- 2, Requests <- {<<8, 9, 8>>}, Offsets <- {0, 3},
  MaxRead <- 3,
  data <- fdata, pc <- fpc, ip <- fip, panicked <- fpanicked

\* A directory, one in it, and calls on them from the root and from inside.
Abs(k, s) == [kind |-> k, abs |-> TRUE, elems |-> s]
Rel(k, s) == [kind |-> k, abs |-> FALSE, elems |-> s]
TreeCalls ==
  {Abs("mkdir", <<"a">>), Abs("unlink", <<"a">>), Abs("mkdir", <<"a", "b">>),
   Abs("unlink", <<"a", "b">>), Abs("chdir", <<"a">>), Abs("chdir", <<"a", "b">>),
   Abs("chdir", <<>>), Abs("mkdir", <<>>), Rel("mknod", <<"b">>), Rel("chdir", <<"..">>),
   Rel("unlink", <<"..", "a">>), Rel("unlink", <<"..">>)}

N == INSTANCE Namespace WITH
  ninodes <- 3, Names <- {"a", "b"}, SysCalls <- TreeCalls,
  type <- ntype, nlink <- links, ref <- refs, lock <- nlock, pc <- npc, ip <- nip,
  panicked <- npanicked

B == INSTANCE Bcache WITH
  Blocks <- DiskBlocks,
  Vals <- {0, 1}, Zero <- 0, NBUF <- 2, DiskFails <- FALSE,
  valid <- bvalid, data <- bdata, lock <- block, pc <- bpc, panicked <- bpanicked

ASSUME D!DataSizes
ASSUME N!NamespaceSizes
ASSUME B!BcacheConstants

dvars == <<bitmap, fdata, addrs, size, dinode, owner, saved, fpc, fip, off, src,
           j, dst, fpanicked>>
nvars == <<ntype, links, ent, refs, nlock, cwd, npc, kind, elems, cur, nip,
           npanicked>>
bvars == <<blockno, refcnt, bvalid, dirty, bdata, block, mru, idequeue, disk,
           cmd, irq, bpc, want, buf, current, bpanicked>>
all == <<part, vars, dvars, nvars, bvars>>

MCInit == part \in Parts /\ Init /\ D!Init /\ N!Init /\ B!Init
MCNext ==
  \/ part = "icache" /\ Next /\ UNCHANGED <<part, dvars, nvars, bvars>>
  \/ part = "data" /\ D!Next /\ UNCHANGED <<part, vars, nvars, bvars>>
  \/ part = "tree" /\ N!Next /\ UNCHANGED <<part, vars, dvars, bvars>>
  \/ part = "bcache" /\ B!Next /\ UNCHANGED <<part, vars, dvars, nvars>>

MCSpec == MCInit /\ [][MCNext]_all

\* The inode an iput is freeing has been found in the cache: what follows is the
\* subject of LinkedIsAllocated alone.
UntilReuse == ~raced

\* What a free block holds makes no difference: balloc clears the block it
\* takes.  (all = all makes TLC evaluate the state in full before it stores it.)
UpToFreeBlocks ==
  <<[b \in bitmap |-> fdata[b]], part, vars, nvars, bvars, bitmap, addrs, size, dinode,
    owner, saved, fpc, fip, off, src, j, dst, fpanicked, all = all>>

Symmetry == Permutations(Procs) \cup Permutations(Inodes)

\* The bitmap marks exactly the blocks of the inodes, each of them once, also
\* while calls allocate and free, and an unlocked inode is on disk as it is in
\* memory (fs.c:51-89, 201-218, 346-411).
BlocksSafe == part = "data" => D!TypeOK /\ D!BitmapExact /\ D!DiskMatches

\* readi returns what writei wrote, byte by byte, and only a full disk stops
\* them (fs.c:51-89, 346-484).
ImplementsByteFiles == D!OnlyFullDiskPanics /\ D!ImplementsByteFiles

\* The tree, its references and its link counts are right whatever calls
\* interleave (fs.c:570-640, sysfile.c:184-280).
TreeSafe == part = "tree" => N!TreeSafe

\* Locks are taken from parent to child, so that no calls wait for each other in
\* a circle (fs.c:605-640, sysfile.c:199-220).
NoCircularWait == part = "tree" => N!NoCircularWait

\* A block has one buffer, not recycled under a process that waits for it, and
\* bread returns what the block was last given; no request of the IDE queue is
\* lost or served twice; whoever sleeps for a buffer sleeps while another has it
\* (bio.c:58-116, ide.c:100-165, sleeplock.c:22-41).
BuffersSafe ==
  part = "bcache" =>
    B!TypeOK /\ B!OneBuffer /\ B!Coherent /\ B!QueueServed /\ B!AsleepMeansLocked
=============================================================================
