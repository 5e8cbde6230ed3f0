------------------------------- MODULE Icache -------------------------------
(***************************************************************************)
(* The life of inodes (fs.c: ialloc, iget, ilock, iunlock, iput) under the *)
(* system calls of sysfile.c that create, open, link, unlink and close     *)
(* files, in one directory.                                                *)
(*                                                                         *)
(* An inode on disk is its type and link count, read and written under its *)
(* block's buffer lock, one step each.  A cache entry is shared by all     *)
(* users of the inode; ref is changed under icache.lock, the copy of the   *)
(* inode under the entry's sleep lock -- but for iput, which frees an      *)
(* inode without that lock.  dirlock is the directory's own.               *)
(***************************************************************************)
EXTENDS Integers, FiniteSets, FiniteSetsExt

CONSTANTS
  Procs, Names, NULL,
  ninodes,       \* inodes on disk are 1 .. ninodes; 0 is none
  NINODE         \* entries of the cache

ASSUME IcacheSizes == ninodes \in Nat \ {0} /\ NINODE \in Nat \ {0}
ASSUME NullNotProc == NULL \notin Procs
ASSUME FiniteSystem == IsFiniteSet(Procs) /\ IsFiniteSet(Names)

VARIABLES
  dtype, dnlink,         \* inodes on disk: allocated or not, link count
  dir, dirlock,          \* the directory: its entries, who has its lock
  inum, ref, valid, type, nlink, lock,   \* cache entries
  pc, name, ip,          \* each process: where it is, and its locals
  num,                   \* the inode number ialloc has found
  fd,                    \* the entry of the file it has open, or 0
  panicked,
  raced                  \* history: an inode being freed was found in the cache

diskVars == <<dtype, dnlink>>
dirVars == <<dir, dirlock>>
copyVars == <<type, nlink, lock>>
entryVars == <<inum, ref, valid>>
procVars == <<pc, name, ip, num, fd>>
vars == <<diskVars, dirVars, copyVars, entryVars, procVars, panicked, raced>>

Inums == 1 .. ninodes
Slots == 1 .. NINODE

Init ==
  /\ dtype = [i \in Inums |-> 0] /\ dnlink = [i \in Inums |-> 0]
  /\ dir = [n \in Names |-> 0] /\ dirlock = NULL
  /\ inum = [s \in Slots |-> 0] /\ ref = [s \in Slots |-> 0]
  /\ valid = [s \in Slots |-> FALSE]
  /\ type = [s \in Slots |-> 0] /\ nlink = [s \in Slots |-> 0]
  /\ lock = [s \in Slots |-> NULL]
  /\ pc = [p \in Procs |-> "idle"] /\ name = [p \in Procs |-> NULL]
  /\ ip = [p \in Procs |-> 0] /\ num = [p \in Procs |-> 0]
  /\ fd = [p \in Procs |-> 0]
  /\ panicked = FALSE /\ raced = FALSE

Labels ==
  {"idle", "open", "opened", "iput", "itrunc", "ifree", "irelse", "ialloc", "iget", "create",
   "setlink", "dirlink", "unlink", "erase", "drop", "link", "addlink", "newlink", "badlink"}

Goto(p, l) == pc' = [pc EXCEPT ![p] = l]

-----------------------------------------------------------------------------
(* fs.c *)

Cached(i) == {s \in Slots : ref[s] > 0 /\ inum[s] = i}
Empty == {s \in Slots : ref[s] = 0}

\* iget, under icache.lock: the entry of i, or the first empty one, recycled.
iget(p, i) ==
  \/ \E s \in Cached(i) :
       /\ ref' = [ref EXCEPT ![s] = @ + 1]
       /\ ip' = [ip EXCEPT ![p] = s]
       /\ raced' = (raced \/ \E q \in Procs : pc[q] = "irelse" /\ ip[q] = s)
       /\ UNCHANGED <<inum, valid, panicked>>
  \/ /\ Cached(i) = {} /\ Empty # {}
     /\ LET s == Min(Empty) IN
        /\ ref' = [ref EXCEPT ![s] = 1] /\ inum' = [inum EXCEPT ![s] = i]
        /\ valid' = [valid EXCEPT ![s] = FALSE]
        /\ ip' = [ip EXCEPT ![p] = s]
     /\ UNCHANGED <<panicked, raced>>
  \/ /\ Cached(i) = {} /\ Empty = {}
     /\ panicked' = TRUE
     /\ UNCHANGED <<entryVars, ip, raced>>

\* ilock: the sleep lock, and the inode read from disk if it is not valid.
ilock(p) ==
  LET s == ip[p] IN
  /\ lock[s] = NULL
  /\ lock' = [lock EXCEPT ![s] = p]
  /\ IF valid[s] THEN UNCHANGED <<valid, type, nlink, panicked>>
     ELSE /\ valid' = [valid EXCEPT ![s] = TRUE]
          /\ type' = [type EXCEPT ![s] = dtype[inum[s]]]
          /\ nlink' = [nlink EXCEPT ![s] = dnlink[inum[s]]]
          /\ panicked' = (dtype[inum[s]] = 0)

\* iupdate of entry s.
iupdate(s, t, n) ==
  /\ dtype' = [dtype EXCEPT ![inum[s]] = t]
  /\ dnlink' = [dnlink EXCEPT ![inum[s]] = n]

\* nlink changes by d, iupdate.
AddLink(p, d) ==
  /\ nlink' = [nlink EXCEPT ![ip[p]] = @ + d]
  /\ iupdate(ip[p], type[ip[p]], nlink[ip[p]] + d)

\* Fault: the reference count is not looked at.
UnusedFault(s) == valid[s] /\ nlink[s] = 0

\* "inode has no links and no other references"
Unused(s) == ref[s] = 1 /\ valid[s] /\ nlink[s] = 0

\* iput, the first part under icache.lock.
IputTest(p) ==
  LET s == ip[p] IN
  /\ pc[p] = "iput"
  /\ IF Unused(s)
     THEN Goto(p, "itrunc") /\ UNCHANGED <<ref, ip>>
     ELSE /\ ref' = [ref EXCEPT ![s] = @ - 1]
          /\ ip' = [ip EXCEPT ![p] = 0]
          /\ Goto(p, "idle")
  /\ UNCHANGED <<diskVars, dirVars, copyVars, inum, valid, name, num, fd,
                 panicked, raced>>

\* itrunc, with its iupdate.
IputTrunc(p) ==
  /\ pc[p] = "itrunc"
  /\ iupdate(ip[p], type[ip[p]], nlink[ip[p]])
  /\ Goto(p, "ifree")
  /\ UNCHANGED <<dirVars, copyVars, entryVars, name, ip, num, fd, panicked, raced>>

\* type = 0; iupdate: the inode is free on disk.
IputFree(p) ==
  /\ pc[p] = "ifree"
  /\ type' = [type EXCEPT ![ip[p]] = 0]
  /\ iupdate(ip[p], 0, nlink[ip[p]])
  /\ Goto(p, "irelse")
  /\ UNCHANGED <<dirVars, nlink, lock, entryVars, name, ip, num, fd, panicked, raced>>

\* flags = 0 and ref--, under icache.lock.
IputRelease(p) ==
  /\ pc[p] = "irelse"
  /\ valid' = [valid EXCEPT ![ip[p]] = FALSE]
  /\ ref' = [ref EXCEPT ![ip[p]] = @ - 1]
  /\ ip' = [ip EXCEPT ![p] = 0]
  /\ Goto(p, "idle")
  /\ UNCHANGED <<diskVars, dirVars, copyVars, inum, name, num, fd, panicked, raced>>

iput(p) == IputTest(p) \/ IputTrunc(p) \/ IputFree(p) \/ IputRelease(p)

-----------------------------------------------------------------------------
(* sysfile.c *)

\* namei, or create of a name that exists: dirlookup under the directory's lock.
Lookup(p, n, l) ==
  /\ pc[p] = "idle" /\ dirlock = NULL /\ dir[n] # 0
  /\ iget(p, dir[n])
  /\ Goto(p, l)
  /\ UNCHANGED <<diskVars, dirVars, copyVars, num, fd>>

OpenLookup(p, n) == fd[p] = 0 /\ Lookup(p, n, "open") /\ UNCHANGED name
LinkLookup(p, n, new) == Lookup(p, n, "link") /\ name' = [name EXCEPT ![p] = new]

\* sys_open: ilock, a look at the type, iunlock; the file keeps the reference.
OpenLock(p) ==
  /\ pc[p] = "open"
  /\ ilock(p)
  /\ Goto(p, "opened")
  /\ UNCHANGED <<diskVars, dirVars, inum, ref, name, ip, num, fd, raced>>
OpenDone(p) ==
  /\ pc[p] = "opened"
  /\ lock' = [lock EXCEPT ![ip[p]] = NULL]
  /\ fd' = [fd EXCEPT ![p] = ip[p]] /\ ip' = [ip EXCEPT ![p] = 0]
  /\ Goto(p, "idle")
  /\ UNCHANGED <<diskVars, dirVars, type, nlink, entryVars, name, num, panicked, raced>>

\* ... or there is no struct file or descriptor left: iunlockput.
OpenFails(p) ==
  /\ pc[p] = "opened"
  /\ lock' = [lock EXCEPT ![ip[p]] = NULL]
  /\ Goto(p, "iput")
  /\ UNCHANGED <<diskVars, dirVars, type, nlink, entryVars, name, ip, num, fd, panicked, raced>>

\* sys_close: the file's iput.
Close(p) ==
  /\ pc[p] = "idle" /\ fd[p] # 0
  /\ ip' = [ip EXCEPT ![p] = fd[p]] /\ fd' = [fd EXCEPT ![p] = 0]
  /\ Goto(p, "iput")
  /\ UNCHANGED <<diskVars, dirVars, copyVars, entryVars, name, num, panicked, raced>>

\* create of a new name: locks the directory and finds no entry ...
Create(p, n) ==
  /\ pc[p] = "idle" /\ fd[p] = 0 /\ dirlock = NULL /\ dir[n] = 0
  /\ dirlock' = p
  /\ name' = [name EXCEPT ![p] = n] /\ num' = [num EXCEPT ![p] = 1]
  /\ Goto(p, "ialloc")
  /\ UNCHANGED <<diskVars, dir, copyVars, entryVars, ip, fd, panicked, raced>>

\* ... ialloc looks at one inode after the other and marks a free one allocated ...
ialloc(p) ==
  /\ pc[p] = "ialloc"
  /\ \/ /\ num[p] \in Inums /\ dtype[num[p]] = 0
        /\ dtype' = [dtype EXCEPT ![num[p]] = 1]
        /\ dnlink' = [dnlink EXCEPT ![num[p]] = 0]
        /\ Goto(p, "iget")
        /\ UNCHANGED <<num, panicked>>
     \/ /\ num[p] \in Inums /\ dtype[num[p]] # 0
        /\ num' = [num EXCEPT ![p] = @ + 1]
        /\ UNCHANGED <<diskVars, pc, panicked>>
     \/ /\ num[p] \notin Inums
        /\ panicked' = TRUE
        /\ UNCHANGED <<diskVars, pc, num>>
  /\ UNCHANGED <<dirVars, copyVars, entryVars, name, ip, fd, raced>>

\* ... and igets it ...
CreateGet(p) ==
  /\ pc[p] = "iget"
  /\ iget(p, num[p])
  /\ Goto(p, "create")
  /\ UNCHANGED <<diskVars, dirVars, copyVars, name, num, fd>>

\* ... ilock ...
CreateLock(p) ==
  /\ pc[p] = "create"
  /\ ilock(p)
  /\ Goto(p, "setlink")
  /\ UNCHANGED <<diskVars, dirVars, inum, ref, name, ip, num, fd, raced>>

\* ... nlink = 1; iupdate ...
CreateUpdate(p) ==
  /\ pc[p] = "setlink"
  /\ nlink' = [nlink EXCEPT ![ip[p]] = 1]
  /\ iupdate(ip[p], type[ip[p]], 1)
  /\ Goto(p, "dirlink")
  /\ UNCHANGED <<dirVars, type, lock, entryVars, name, ip, num, fd, panicked, raced>>

\* ... dirlink, iunlockput of the directory; the caller goes on to iunlock.
CreateLink(p) ==
  /\ pc[p] = "dirlink"
  /\ dir' = [dir EXCEPT ![name[p]] = inum[ip[p]]]
  /\ dirlock' = NULL
  /\ name' = [name EXCEPT ![p] = NULL] /\ num' = [num EXCEPT ![p] = 0]
  /\ Goto(p, "opened")
  /\ UNCHANGED <<diskVars, copyVars, entryVars, ip, fd, panicked, raced>>

\* sys_unlink: the directory locked, the entry found ...
Unlink(p, n) ==
  /\ pc[p] = "idle" /\ dirlock = NULL /\ dir[n] # 0
  /\ iget(p, dir[n])
  /\ dirlock' = p
  /\ name' = [name EXCEPT ![p] = n]
  /\ Goto(p, "unlink")
  /\ UNCHANGED <<diskVars, dir, copyVars, num, fd>>

\* ... the inode locked ...
UnlinkLock(p) ==
  /\ pc[p] = "unlink"
  /\ ilock(p)
  /\ Goto(p, "erase")
  /\ UNCHANGED <<diskVars, dirVars, inum, ref, name, ip, num, fd, raced>>

\* ... the entry erased and the directory unlocked ...
UnlinkErase(p) ==
  /\ pc[p] = "erase"
  /\ dir' = [dir EXCEPT ![name[p]] = 0]
  /\ dirlock' = NULL
  /\ name' = [name EXCEPT ![p] = NULL]
  /\ panicked' = (nlink[ip[p]] < 1)
  /\ Goto(p, "drop")
  /\ UNCHANGED <<diskVars, copyVars, entryVars, ip, num, fd, raced>>

\* ... nlink--, iupdate, iunlockput; also the end of a sys_link that failed.
DropLink(p) ==
  /\ pc[p] = "drop"
  /\ AddLink(p, -1)
  /\ lock' = [lock EXCEPT ![ip[p]] = NULL]
  /\ Goto(p, "iput")
  /\ UNCHANGED <<dirVars, type, entryVars, name, ip, num, fd, panicked, raced>>

\* sys_link: ilock ...
LinkLock(p) ==
  /\ pc[p] = "link"
  /\ ilock(p)
  /\ Goto(p, "addlink")
  /\ UNCHANGED <<diskVars, dirVars, inum, ref, name, ip, num, fd, raced>>

\* ... nlink++, iupdate, iunlock ...
LinkAdd(p) ==
  /\ pc[p] = "addlink"
  /\ AddLink(p, 1)
  /\ lock' = [lock EXCEPT ![ip[p]] = NULL]
  /\ Goto(p, "newlink")
  /\ UNCHANGED <<dirVars, type, entryVars, name, ip, num, fd, panicked, raced>>

\* ... dirlink of the new name, unless it exists: then dirlookup's entry is
\* got and put again.
LinkNew(p) ==
  /\ pc[p] = "newlink" /\ dirlock = NULL
  /\ IF dir[name[p]] = 0
     THEN dir' = [dir EXCEPT ![name[p]] = inum[ip[p]]] /\ Goto(p, "iput") /\ UNCHANGED panicked
     ELSE /\ panicked' = (Cached(dir[name[p]]) = {} /\ Empty = {})
          /\ Goto(p, "badlink") /\ UNCHANGED dir
  /\ name' = [name EXCEPT ![p] = NULL]
  /\ UNCHANGED <<diskVars, dirlock, copyVars, entryVars, ip, num, fd, raced>>

\* bad: ilock again, to undo the link.
LinkBad(p) ==
  /\ pc[p] = "badlink"
  /\ ilock(p)
  /\ Goto(p, "drop")
  /\ UNCHANGED <<diskVars, dirVars, inum, ref, name, ip, num, fd, raced>>

create(p) == ialloc(p) \/ CreateGet(p) \/ CreateLock(p) \/ CreateUpdate(p) \/ CreateLink(p)
sys_open(p) == OpenLock(p) \/ OpenDone(p) \/ OpenFails(p)
sys_unlink(p) == UnlinkLock(p) \/ UnlinkErase(p) \/ DropLink(p)
sys_link(p) == LinkLock(p) \/ LinkAdd(p) \/ LinkNew(p) \/ LinkBad(p)

Next ==
  /\ ~panicked
  /\ \/ \E p \in Procs :
          iput(p) \/ create(p) \/ sys_open(p) \/ sys_unlink(p) \/ sys_link(p) \/ Close(p)
     \/ \E p \in Procs, n \in Names : OpenLookup(p, n) \/ Create(p, n) \/ Unlink(p, n)
     \/ \E p \in Procs, n, m \in Names : LinkLookup(p, n, m)

Spec == Init /\ [][Next]_vars

-----------------------------------------------------------------------------
(* Properties *)

TypeOK ==
  /\ dtype \in [Inums -> {0, 1}] /\ dnlink \in [Inums -> Int]
  /\ dir \in [Names -> 0 .. ninodes] /\ dirlock \in Procs \cup {NULL}
  /\ inum \in [Slots -> 0 .. ninodes] /\ ref \in [Slots -> 0 .. 2 * Cardinality(Procs)]
  /\ valid \in [Slots -> BOOLEAN] /\ lock \in [Slots -> Procs \cup {NULL}]
  /\ type \in [Slots -> {0, 1}] /\ nlink \in [Slots -> Int]
  /\ pc \in [Procs -> Labels] /\ name \in [Procs -> Names \cup {NULL}]
  /\ ip \in [Procs -> 0 .. NINODE] /\ fd \in [Procs -> 0 .. NINODE]
  /\ num \in [Procs -> 0 .. ninodes + 1]
  /\ panicked \in BOOLEAN /\ raced \in BOOLEAN

Links(i) == {n \in Names : dir[n] = i}
Calls(s) == {p \in Procs : ip[p] = s}
Files(s) == {p \in Procs : fd[p] = s}

\* "ip->ref tracks the number of in-memory pointers to the entry": an entry's
\* count is the number of system calls and open files that hold it, and an
\* inode in use has one entry.
RefsCounted ==
  /\ \A s \in Slots : ref[s] = Cardinality(Calls(s)) + Cardinality(Files(s))
  /\ \A s, t \in Slots : ref[s] > 0 /\ ref[t] > 0 /\ inum[s] = inum[t] => s = t

\* iput truncates and frees an inode only when the inode has no name and the
\* call holds the only reference, through to the write that frees it -- though
\* it holds neither icache.lock nor the inode's lock from its test on.
FreedAlone ==
  ~raced => \A p \in Procs : pc[p] \in {"itrunc", "ifree"} =>
    /\ ref[ip[p]] = 1 /\ lock[ip[p]] = NULL
    /\ Links(inum[ip[p]]) = {}

\* The calls that have counted a link to i and not made its entry yet, or have
\* erased the entry and not counted it off.
Owing(i) ==
  {p \in Procs : /\ pc[p] \in {"dirlink", "drop", "newlink", "badlink"}
                 /\ ip[p] # 0 /\ inum[ip[p]] = i}

\* i has a name, or an open file or a call has it, other than an iput that has
\* freed it.
Live(i) ==
  \/ Links(i) # {}
  \/ \E p \in Procs :
       \/ fd[p] # 0 /\ inum[fd[p]] = i
       \/ ip[p] # 0 /\ inum[ip[p]] = i /\ pc[p] # "irelse"
       \/ pc[p] = "iget" /\ num[p] = i

\* An inode's link count is the number of its names, but for the calls that are
\* between the count and the entry, and an inode is allocated exactly while it
\* is in use: neither link, unlink and close racing on the same file nor one
\* that fails half-way leaks an inode or frees a file that has a name.
\* (Until an inode being freed is reused: LinkedIsAllocated.)
LinksCounted ==
  ~raced => \A i \in Inums :
    /\ dnlink[i] = Cardinality(Links(i)) + Cardinality(Owing(i))
    /\ ~panicked => (dtype[i] # 0 <=> Live(i))

\* fs.c: "an inode is allocated if its type (on disk) is non-zero" and "iput()
\* frees if the link count has fallen to zero": an inode with a name in an
\* unlocked directory is allocated.
LinkedIsAllocated ==
  dirlock = NULL => \A n \in Names : dir[n] # 0 => dtype[dir[n]] # 0

\* References and links are counted exactly, and an inode is freed only by the
\* last one to have it (fs.c:165-325, sysfile.c:121-180).
InodesSafe == TypeOK /\ RefsCounted /\ FreedAlone /\ LinksCounted
=============================================================================
