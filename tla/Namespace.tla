----------------------------- MODULE Namespace ------------------------------
(***************************************************************************)
(* The directory tree (fs.c, sysfile.c): path lookup (namex, dirlookup),   *)
(* create with mkdir, unlink and chdir, by processes that run at the same  *)
(* time.                                                                   *)
(*                                                                         *)
(* A step is what a process does while it holds the locks of inodes;       *)
(* unlink, which waits for the lock of the inode holding the directory's,  *)
(* takes two.  iput frees an inode whose last reference and last link are  *)
(* gone, in the step that drops the last of them (Icache has its steps).   *)
(* A directory is its entries, with "." and ".."; a path is its elements.  *)
(***************************************************************************)
EXTENDS Integers, Sequences, FiniteSets, FiniteSetsExt

CONSTANTS
  Procs, NULL,
  ninodes,               \* inodes, numbered from 1, ROOTINO
  Names,                 \* names of directory entries
  SysCalls               \* calls made: kind, and a path, absolute or relative

Inums == 1 .. ninodes
ROOTINO == 1
Absent == 0
Dots == {".", ".."}

\* What the constants are assumed to be.
NamespaceSizes ==
  /\ ninodes \in Nat \ {0} /\ NULL \notin Procs
  /\ \A c \in SysCalls :
       /\ c.kind \in {"mkdir", "mknod", "unlink", "chdir"}
       /\ c.abs \in BOOLEAN /\ c.elems \in Seq(Names \cup Dots)

VARIABLES
  type, nlink, ent,      \* inodes; ent is what a directory holds
  ref,                   \* in-memory references
  lock,                  \* who holds an inode's lock between steps
  cwd,
  pc, kind, elems,       \* each call and what is left of its path
  cur, ip,               \* the inode it is at, and unlink's second one
  panicked

inodeVars == <<type, nlink, ent>>
callVars == <<pc, kind, elems, cur, ip>>
vars == <<inodeVars, ref, lock, cwd, callVars, panicked>>

Empty == [nm \in Names \cup Dots |-> Absent]

\* mkfs: the root directory, with one link.
Init ==
  /\ type = [i \in Inums |-> IF i = ROOTINO THEN "dir" ELSE "free"]
  /\ nlink = [i \in Inums |-> IF i = ROOTINO THEN 1 ELSE 0]
  /\ ent = [i \in Inums |-> IF i = ROOTINO
             THEN [Empty EXCEPT !["."] = ROOTINO, ![".."] = ROOTINO] ELSE Empty]
  /\ ref = [i \in Inums |-> IF i = ROOTINO THEN Cardinality(Procs) ELSE 0]
  /\ lock = [i \in Inums |-> NULL] /\ cwd = [p \in Procs |-> ROOTINO]
  /\ pc = [p \in Procs |-> "user"] /\ kind = [p \in Procs |-> "none"]
  /\ elems = [p \in Procs |-> <<>>]
  /\ cur = [p \in Procs |-> 0] /\ ip = [p \in Procs |-> 0] /\ panicked = "no"

Runs(p, l) == panicked = "no" /\ pc[p] = l
Panic(s) == panicked' = s /\ UNCHANGED <<inodeVars, ref, lock, cwd, callVars>>

\* The call returns.
Return(p) ==
  /\ pc' = [pc EXCEPT ![p] = "user"] /\ kind' = [kind EXCEPT ![p] = "none"]
  /\ elems' = [elems EXCEPT ![p] = <<>>]
  /\ cur' = [cur EXCEPT ![p] = 0] /\ ip' = [ip EXCEPT ![p] = 0]

\* The inodes without a reference and without a link.
Gone(r, nl) == {i \in Inums : r[i] = 0 /\ nl[i] = 0}

\* References r, links nl, types ty and entries en, and what iput makes of
\* them: itrunc, type = 0.
Settle(r, nl, ty, en) ==
  /\ ref' = r /\ nlink' = nl
  /\ type' = [i \in Inums |-> IF i \in Gone(r, nl) THEN "free" ELSE ty[i]]
  /\ ent' = [i \in Inums |-> IF i \in Gone(r, nl) THEN Empty ELSE en[i]]

Put(r, i) == [r EXCEPT ![i] = @ - 1]

Get(r, i) == [r EXCEPT ![i] = @ + 1]

-----------------------------------------------------------------------------
(* namex *)

Call(p, c) ==
  /\ Runs(p, "user")
  /\ LET i == IF c.abs THEN ROOTINO ELSE cwd[p] IN
     cur' = [cur EXCEPT ![p] = i] /\ ref' = Get(ref, i)
  /\ pc' = [pc EXCEPT ![p] = "walk"] /\ kind' = [kind EXCEPT ![p] = c.kind]
  /\ elems' = [elems EXCEPT ![p] = c.elems]
  /\ UNCHANGED <<inodeVars, lock, cwd, ip, panicked>>

WantsParent(p) == kind[p] # "chdir"

\* ip is not a directory, has no such entry, or is the parent of nothing:
\* iput and fail.
WalkFails(p) ==
  LET i == cur[p] IN
  /\ Runs(p, "walk")
  /\ IF elems[p] = <<>> THEN WantsParent(p)
     ELSE /\ lock[i] = NULL /\ type[i] # "free"
          /\ type[i] = "dir" => /\ ~(WantsParent(p) /\ Len(elems[p]) = 1)
                                /\ ent[i][Head(elems[p])] = Absent
  /\ Settle(Put(ref, i), nlink, type, ent) /\ Return(p)
  /\ UNCHANGED <<lock, cwd, panicked>>

\* The next inode is referenced before this one is put.
WalkOn(p) ==
  LET i == cur[p]
      next == ent[i][Head(elems[p])]
  IN /\ Runs(p, "walk") /\ lock[i] = NULL /\ elems[p] # <<>>
     /\ ~(WantsParent(p) /\ Len(elems[p]) = 1)
     /\ IF type[i] = "free" THEN Panic("ilock: no type")
        ELSE /\ type[i] = "dir" /\ next # Absent
             /\ Settle(Put(Get(ref, next), i), nlink, type, ent)
             /\ cur' = [cur EXCEPT ![p] = next] /\ elems' = [elems EXCEPT ![p] = Tail(@)]
             /\ UNCHANGED <<lock, cwd, pc, kind, ip, panicked>>

\* The end of the path, or one level before it.
WalkDone(p) ==
  LET i == cur[p] IN
  /\ Runs(p, "walk") /\ (WantsParent(p) => lock[i] = NULL)
  /\ Len(elems[p]) = IF WantsParent(p) THEN 1 ELSE 0
  /\ IF WantsParent(p) /\ type[i] = "free" THEN Panic("ilock: no type")
     ELSE /\ WantsParent(p) => type[i] = "dir"
          /\ pc' = [pc EXCEPT ![p] = kind[p]]
          /\ UNCHANGED <<inodeVars, ref, lock, cwd, kind, elems, cur, ip, panicked>>

namex(p) == WalkFails(p) \/ WalkOn(p) \/ WalkDone(p)

-----------------------------------------------------------------------------
(* sys_chdir *)

sys_chdir(p) ==
  LET i == cur[p] IN
  /\ Runs(p, "chdir") /\ lock[i] = NULL
  /\ IF type[i] = "free" THEN Panic("ilock: no type")
     ELSE /\ IF type[i] = "dir"
             THEN /\ Settle(Put(ref, cwd[p]), nlink, type, ent)
                  /\ cwd' = [cwd EXCEPT ![p] = i]
             ELSE Settle(Put(ref, i), nlink, type, ent) /\ UNCHANGED cwd
          /\ Return(p) /\ UNCHANGED <<lock, panicked>>

-----------------------------------------------------------------------------
(* create, called by sys_mkdir and sys_mknod, which put the inode again *)

\* The name is there: the directory is put, then the inode is locked.
CreateFound(p) ==
  LET dp == cur[p]
      i == ent[dp][Head(elems[p])]
  IN /\ pc[p] \in {"mkdir", "mknod"} /\ Runs(p, pc[p]) /\ lock[dp] = NULL /\ i # Absent
     /\ Settle(Put(Get(ref, i), dp), nlink, type, ent)
     /\ cur' = [cur EXCEPT ![p] = i] /\ pc' = [pc EXCEPT ![p] = "found"]
     /\ UNCHANGED <<lock, cwd, kind, elems, ip, panicked>>

CreateFails(p) ==
  /\ Runs(p, "found") /\ lock[cur[p]] = NULL
  /\ IF type[cur[p]] = "free" THEN Panic("ilock: no type")
     ELSE /\ Settle(Put(ref, cur[p]), nlink, type, ent) /\ Return(p)
          /\ UNCHANGED <<lock, cwd, panicked>>

\* dp->nlink++ for ".."
ParentLinks(dp, k) == IF k = "mkdir" THEN nlink[dp] + 1 ELSE nlink[dp]

\* ialloc, nlink = 1, the entries "." and "..", and the entry in dp.
CreateNew(p) ==
  LET dp == cur[p]
      nm == Head(elems[p])
      free == {i \in Inums : type[i] = "free"}
      i == Min(free)
      dots == IF kind[p] = "mkdir" THEN [Empty EXCEPT !["."] = i, ![".."] = dp] ELSE Empty
  IN /\ pc[p] \in {"mkdir", "mknod"} /\ Runs(p, pc[p]) /\ lock[dp] = NULL /\ ent[dp][nm] = Absent
     /\ IF free = {} THEN Panic("ialloc: no inodes")
        ELSE /\ Settle(Put(ref, dp), [nlink EXCEPT ![i] = 1, ![dp] = ParentLinks(dp, kind[p])],
                       [type EXCEPT ![i] = IF kind[p] = "mkdir" THEN "dir" ELSE "dev"],
                       [ent EXCEPT ![i] = dots, ![dp][nm] = i])
             /\ Return(p) /\ UNCHANGED <<lock, cwd, panicked>>

create(p) == CreateFound(p) \/ CreateFails(p) \/ CreateNew(p)

-----------------------------------------------------------------------------
(* sys_unlink *)

\* Fault: the directory is unlocked once its entry is read.
HeldFault(dp, p) == lock

\* The directory's lock is kept.
Held(dp, p) == [lock EXCEPT ![dp] = p]

\* Fault: ".." can be unlinked.
IsDotFault(nm) == nm = "."

\* namecmp(name, ".") == 0 || namecmp(name, "..") == 0
IsDot(nm) == nm \in Dots

\* The directory is locked and stays so while the inode's lock is waited for.
UnlinkParent(p) ==
  LET dp == cur[p]
      nm == Head(elems[p])
      i == ent[dp][nm]
  IN /\ Runs(p, "unlink") /\ lock[dp] = NULL
     /\ IF IsDot(nm) \/ i = Absent
        THEN Settle(Put(ref, dp), nlink, type, ent) /\ Return(p) /\ UNCHANGED lock
        ELSE /\ lock' = Held(dp, p) /\ ref' = Get(ref, i)
             /\ ip' = [ip EXCEPT ![p] = i] /\ pc' = [pc EXCEPT ![p] = "unlink2"]
             /\ UNCHANGED <<inodeVars, kind, elems, cur>>
     /\ UNCHANGED <<cwd, panicked>>

isdirempty(i) == \A nm \in Names : ent[i][nm] = Absent

\* A directory that is not empty stays; else the entry and the links go.
UnlinkChild(p) ==
  LET dp == cur[p]
      i == ip[p]
      nm == Head(elems[p])
      r == Put(Put(ref, i), dp)
  IN /\ Runs(p, "unlink2") /\ lock[i] = NULL
     /\ IF type[i] = "free" THEN Panic("ilock: no type")
        ELSE IF nlink[i] < 1 THEN Panic("unlink: nlink < 1")
        ELSE /\ IF type[i] = "dir" /\ ~isdirempty(i) THEN Settle(r, nlink, type, ent)
                ELSE Settle(r, [nlink EXCEPT ![i] = @ - 1,
                                             ![dp] = IF type[i] = "dir" THEN @ - 1 ELSE @],
                            type, [ent EXCEPT ![dp][nm] = Absent])
             /\ lock' = [lock EXCEPT ![dp] = NULL] /\ Return(p)
             /\ UNCHANGED <<cwd, panicked>>

sys_unlink(p) == UnlinkParent(p) \/ UnlinkChild(p)

Next ==
  \E p \in Procs :
    \/ \E c \in SysCalls : Call(p, c)
    \/ namex(p) \/ sys_chdir(p) \/ create(p) \/ sys_unlink(p)

Spec == Init /\ [][Next]_vars

-----------------------------------------------------------------------------
(* Properties *)

TypeOK ==
  /\ type \in [Inums -> {"free", "dir", "dev"}]
  /\ nlink \in [Inums -> Nat] /\ ref \in [Inums -> Nat]
  /\ ent \in [Inums -> [Names \cup Dots -> Inums \cup {Absent}]]
  /\ lock \in [Inums -> Procs \cup {NULL}] /\ cwd \in [Procs -> Inums]

\* References are those of current directories and of calls.
RefsCounted ==
  \A i \in Inums :
    ref[i] = Cardinality({p \in Procs : cwd[p] = i}) + Cardinality({p \in Procs : cur[p] = i})
             + Cardinality({p \in Procs : ip[p] = i})

\* What has a path from an inode of S.
ReachedFrom(S) ==
  LET below(T) == {ent[i][nm] : i \in {x \in T : type[x] = "dir"}, nm \in Names} \ {Absent}
      R[k \in 0 .. ninodes] == IF k = 0 THEN S ELSE R[k - 1] \cup below(R[k - 1])
  IN R[ninodes]

\* Where an inode is named.
Entries(i) == {dn \in Inums \X Names : ent[dn[1]][dn[2]] = i}

\* What has a path from the root is a tree of allocated inodes: each has one
\* entry, its "..", if it is a directory, is where that entry is, and its
\* link count is that of its entry and of the ".." entries that refer to it.
\* No interleaving of lookups, creations and removals breaks it.
TreeWellFormed ==
  \A i \in ReachedFrom({ROOTINO}) :
    /\ type[i] # "free"
    /\ i # ROOTINO => Cardinality(Entries(i)) = 1
    /\ type[i] = "dir" => /\ ent[i]["."] = i
                          /\ i # ROOTINO => \E nm \in Names : <<ent[i][".."], nm>> \in Entries(i)
    /\ nlink[i] = 1 + Cardinality({nm \in Names : ent[i][nm] # Absent /\ type[ent[i][nm]] = "dir"})

\* unlink finds a link count of at least one.
NoLinkPanic == panicked # "unlink: nlink < 1"

\* The inode whose lock a process needs for its next step; none if it has no call
\* or namex is at the end of its path.
Needs(p) ==
  CASE pc[p] = "user" \/ (pc[p] = "walk" /\ elems[p] = <<>>) -> Absent
    [] pc[p] = "unlink2" -> ip[p]
    [] OTHER -> cur[p]

\* Processes never wait for each other's locks in a circle, nor one for a lock of
\* its own: whoever waits for an inode waits, in the end, for a process that can
\* go on.  unlink takes a second lock with the first in hand; that is safe since
\* it goes from parent to child only.
NoCircularWait ==
  \A W \in SUBSET Procs \ {{}} :
    \E p \in W : Needs(p) = Absent \/ lock[Needs(p)] \notin W

\* The tree, its references and its link counts are right whatever calls
\* interleave (fs.c:570-640, sysfile.c:184-280).
TreeSafe == TypeOK /\ RefsCounted /\ TreeWellFormed /\ NoLinkPanic
=============================================================================
