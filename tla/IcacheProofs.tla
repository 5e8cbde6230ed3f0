---------------------------- MODULE IcacheProofs ----------------------------
(***************************************************************************)
(* The inode cache, for any number of processes, names, inodes and entries.*)
(***************************************************************************)
EXTENDS Icache, FiniteSetTheorems, WellFoundedInduction, TLAPS

-----------------------------------------------------------------------------
(* Numbers and finite sets *)

\* A set of numbers has a least one.
LEMMA LeastNat ==
  ASSUME NEW S \in SUBSET Nat, S # {}
  PROVE  \E n \in S : \A m \in S : n <= m
<1>1. \E x \in S : \A y \in S : ~(<<y, x>> \in OpToRel(<, Nat))
  BY NatLessThanWellFounded, WFMin, Zenon
<1>2. ASSUME NEW x \in S, NEW y \in S, ~(<<y, x>> \in OpToRel(<, Nat)) PROVE x <= y
  BY <1>2 DEF OpToRel
<1>q. QED BY <1>1, <1>2, Zenon

\* iget's first empty entry is empty.
LEMMA MinEmpty ==
  ASSUME Empty # {}
  PROVE  Min(Empty) \in Empty
<1>1. Empty \in SUBSET Nat
  BY DEF Empty, Slots
<1>2. \E n \in Empty : \A m \in Empty : n <= m
  BY <1>1, LeastNat, Zenon
<1>q. QED BY <1>2, Zenon DEF Min

\* A set that one element enters or leaves.
LEMMA CardinalityMove ==
  ASSUME NEW S, IsFiniteSet(S), NEW T, NEW x, S \ {x} = T \ {x}
  PROVE  /\ IsFiniteSet(T)
         /\ Cardinality(T) = Cardinality(S) + (IF x \in T THEN 1 ELSE 0)
                                            - (IF x \in S THEN 1 ELSE 0)
<1>0. Cardinality(S) \in Nat
  BY FS_CardinalityType, Zenon
<1>1. IsFiniteSet(S \ {x}) /\ Cardinality(S \ {x}) = Cardinality(S) - (IF x \in S THEN 1 ELSE 0)
  BY <1>0, FS_RemoveElement
<1>2. CASE x \in T
  <2>1. T = (S \ {x}) \cup {x} /\ x \notin S \ {x}
    BY <1>2, Zenon
  <2>q. QED BY <1>0, <1>1, <1>2, <2>1, FS_AddElement
<1>3. CASE x \notin T
  <2>1. T = S \ {x}
    BY <1>3, Zenon
  <2>q. QED BY <1>0, <1>1, <1>3, <2>1
<1>q. QED BY <1>2, <1>3, Zenon

-----------------------------------------------------------------------------
(* The inductive invariant *)

\* Where a call has an entry, before and after its ilock; has its lock; has the
\* directory's; makes a new file.
Before == {"open", "link", "create", "unlink"}
Locked == {"opened", "setlink", "dirlink", "erase", "addlink", "drop"}
After == Locked \cup {"iput", "itrunc", "ifree", "irelse", "newlink", "badlink"}
InDir == {"ialloc", "iget", "create", "setlink", "dirlink", "unlink", "erase"}
Making == {"ialloc", "iget", "create", "setlink", "dirlink"}

\* Each call's locals, and the directory's lock.
Local(p) ==
  /\ pc[p] \in {"idle", "ialloc", "iget"} => ip[p] = 0
  /\ pc[p] \in Before => ip[p] # 0 \/ panicked
  /\ pc[p] \in After => ip[p] # 0
  /\ pc[p] = "iget" => num[p] \in Inums
  /\ pc[p] = "ialloc" => num[p] \in 1 .. ninodes + 1
  /\ pc[p] \in Making \cup {"open", "opened"} => fd[p] = 0
  /\ pc[p] \in InDir \cup {"link", "addlink", "newlink"} => name[p] \in Names
  /\ dirlock = p <=> pc[p] \in InDir

CallInv == \A p \in Procs : Local(p)

\* The name a call works on, while it has the directory's lock.
NameInv ==
  \A p \in Procs :
    /\ pc[p] \in Making => dir[name[p]] = 0
    /\ pc[p] \in {"unlink", "erase"} /\ ip[p] # 0 => dir[name[p]] = inum[ip[p]]

EntryInv == \A s \in Slots : ref[s] > 0 => inum[s] \in Inums

LockInv ==
  \A s \in Slots, p \in Procs : lock[s] = p <=> pc[p] \in Locked /\ ip[p] = s

\* An iput has freed the inode of entry s on disk and still holds s.
Freed(s) == \E p \in Procs : pc[p] = "irelse" /\ ip[p] = s

\* Who has locked an entry has made it valid ...
ValidInv ==
  ~raced => \A p \in Procs :
    (pc[p] \in After => valid[ip[p]]) /\ (fd[p] # 0 => valid[fd[p]])

\* ... and a valid entry is the inode on disk ...
CopyInv ==
  ~raced => \A s \in Slots : ref[s] > 0 /\ valid[s] /\ ~Freed(s) =>
    nlink[s] = dnlink[inum[s]] /\ type[s] = dtype[inum[s]]

\* ... who makes or frees an inode is alone with it ...
AloneInv ==
  ~raced => \A p \in Procs :
    /\ pc[p] \in {"itrunc", "ifree", "irelse"} => ref[ip[p]] = 1
    /\ pc[p] \in {"itrunc", "ifree"} => dnlink[inum[ip[p]]] = 0
    /\ pc[p] \in {"create", "setlink"} /\ ip[p] # 0 =>
         ref[ip[p]] = 1 /\ dnlink[inum[ip[p]]] = 0

\* ... and so is ialloc's caller, before its iget.
NewInv ==
  ~raced => \A p \in Procs : pc[p] = "iget" =>
    /\ dnlink[num[p]] = 0
    /\ \A s \in Slots : ref[s] > 0 /\ inum[s] = num[p] => Freed(s)

IInv ==
  /\ TypeOK /\ CallInv /\ NameInv /\ EntryInv /\ RefsCounted /\ LockInv
  /\ ValidInv /\ CopyInv /\ AloneInv /\ NewInv /\ LinksCounted

\* p takes a step.
Acts(p) ==
  \/ iput(p) \/ create(p) \/ sys_open(p) \/ sys_unlink(p) \/ sys_link(p) \/ Close(p)
  \/ \E n \in Names : OpenLookup(p, n) \/ Create(p, n) \/ Unlink(p, n)
  \/ \E n, m \in Names : LinkLookup(p, n, m)

-----------------------------------------------------------------------------
(* Who holds an entry *)

LEMMA Finite ==
  /\ \A s : IsFiniteSet(Calls(s)) /\ IsFiniteSet(Files(s))
  /\ \A s : Cardinality(Calls(s)) \in Nat /\ Cardinality(Files(s)) \in Nat
  /\ \A i : IsFiniteSet(Links(i)) /\ IsFiniteSet(Owing(i))
  /\ \A i : Cardinality(Links(i)) \in Nat /\ Cardinality(Owing(i)) \in Nat
<1>1. \A s : Calls(s) \in SUBSET Procs /\ Files(s) \in SUBSET Procs
  BY Zenon DEF Calls, Files
<1>2. \A i : Links(i) \in SUBSET Names /\ Owing(i) \in SUBSET Procs
  BY Zenon DEF Links, Owing
<1>q. QED BY <1>1, <1>2, FiniteSystem, FS_Subset, FS_CardinalityType, Zenon

\* An entry that is held is referenced, and one with one reference has one holder.
LEMMA Held ==
  ASSUME RefsCounted, NEW s \in Slots, NEW p \in Procs
  PROVE  /\ ip[p] = s \/ fd[p] = s => ref[s] > 0
         /\ ip[p] = s /\ ref[s] = 1 => \A q \in Procs : fd[q] # s /\ (ip[q] = s => q = p)
<1>1. ref[s] = Cardinality(Calls(s)) + Cardinality(Files(s))
  BY Zenon DEF RefsCounted
<1>2. /\ Cardinality(Calls(s)) \in Nat /\ Cardinality(Files(s)) \in Nat
      /\ IsFiniteSet(Calls(s)) /\ IsFiniteSet(Files(s))
  BY Finite, Zenon
<1>3. /\ Cardinality(Calls(s)) = 0 <=> Calls(s) = {}
      /\ Cardinality(Files(s)) = 0 <=> Files(s) = {}
  BY <1>2, FS_EmptySet, Zenon
<1>4. ip[p] = s \/ fd[p] = s => ref[s] > 0
  BY <1>1, <1>2, <1>3 DEF Calls, Files
<1>5. ASSUME ip[p] = s, ref[s] = 1 PROVE \A q \in Procs : fd[q] # s /\ (ip[q] = s => q = p)
  <2>1. p \in Calls(s)
    BY <1>5, Zenon DEF Calls
  <2>2. Cardinality(Calls(s)) = 1 /\ Cardinality(Files(s)) = 0
    BY <1>1, <1>2, <1>3, <1>5, <2>1
  <2>3. PICK x : Calls(s) = {x}
    BY <1>2, <2>2, FS_Singleton, Zenon
  <2>q. QED BY <1>3, <2>1, <2>2, <2>3, Zenon DEF Calls, Files
<1>q. QED BY <1>4, <1>5, Zenon

\* g is f but for x, where it is y.
Moves(f, x, y, g) == g = [f EXCEPT ![x] = y]

LEMMA CallsMove ==
  ASSUME TypeOK, NEW p \in Procs, NEW t, Moves(ip, p, t, ip'), NEW s
  PROVE  Cardinality(Calls(s))' = Cardinality(Calls(s)) + (IF s = t THEN 1 ELSE 0)
                                                        - (IF s = ip[p] THEN 1 ELSE 0)
<1>1. ip \in [Procs -> 0 .. NINODE]
  BY Zenon DEF TypeOK
<1>2. Calls(s) \ {p} = Calls(s)' \ {p} /\ (p \in Calls(s)' <=> s = t) /\ (p \in Calls(s) <=> s = ip[p])
  BY <1>1, Zenon DEF Calls, Moves
<1>3. IsFiniteSet(Calls(s))
  BY Finite, Zenon
<1>q. QED BY <1>2, <1>3, CardinalityMove, Zenon

LEMMA FilesMove ==
  ASSUME TypeOK, NEW p \in Procs, NEW t, Moves(fd, p, t, fd'), NEW s
  PROVE  Cardinality(Files(s))' = Cardinality(Files(s)) + (IF s = t THEN 1 ELSE 0)
                                                        - (IF s = fd[p] THEN 1 ELSE 0)
<1>1. fd \in [Procs -> 0 .. NINODE]
  BY Zenon DEF TypeOK
<1>2. Files(s) \ {p} = Files(s)' \ {p} /\ (p \in Files(s)' <=> s = t) /\ (p \in Files(s) <=> s = fd[p])
  BY <1>1, Zenon DEF Files, Moves
<1>3. IsFiniteSet(Files(s))
  BY Finite, Zenon
<1>q. QED BY <1>2, <1>3, CardinalityMove, Zenon

LEMMA LinksMove ==
  ASSUME TypeOK, NEW n \in Names, NEW j, Moves(dir, n, j, dir'), NEW i
  PROVE  Cardinality(Links(i))' = Cardinality(Links(i)) + (IF i = j THEN 1 ELSE 0)
                                                        - (IF i = dir[n] THEN 1 ELSE 0)
<1>1. dir \in [Names -> 0 .. ninodes]
  BY Zenon DEF TypeOK
<1>2. Links(i) \ {n} = Links(i)' \ {n} /\ (n \in Links(i)' <=> i = j) /\ (n \in Links(i) <=> i = dir[n])
  BY <1>1, Zenon DEF Links, Moves
<1>3. IsFiniteSet(Links(i))
  BY Finite, Zenon
<1>q. QED BY <1>2, <1>3, CardinalityMove, Zenon

\* What iget does, in one of its three cases.
LEMMA IgetCases ==
  ASSUME TypeOK, NEW p \in Procs, NEW i, iget(p, i), ~panicked
  PROVE  \/ panicked' /\ UNCHANGED <<inum, ref, valid, ip, raced>>
         \/ \E s \in Slots :
              /\ ip' = [ip EXCEPT ![p] = s] /\ ref' = [ref EXCEPT ![s] = @ + 1] /\ UNCHANGED panicked
              /\ \/ /\ ref[s] > 0 /\ inum[s] = i /\ UNCHANGED <<inum, valid>>
                    /\ raced' = (raced \/ Freed(s))
                 \/ /\ ref[s] = 0 /\ \A t \in Slots : ref[t] > 0 => inum[t] # i
                    /\ inum' = [inum EXCEPT ![s] = i] /\ valid' = [valid EXCEPT ![s] = FALSE]
                    /\ UNCHANGED raced
<1>1. CASE Cached(i) = {} /\ Empty # {} /\ iget(p, i)
  <2>1. Min(Empty) \in Empty
    BY <1>1, MinEmpty, Zenon
  <2>2. PICK s \in Empty : s = Min(Empty)
    BY <2>1, Zenon
  <2>3. s \in Slots /\ ref[s] = 0 /\ \A t \in Slots : ref[t] > 0 => inum[t] # i
    BY <1>1, <2>2, Zenon DEF Empty, Cached
  <2>4. /\ ref' = [ref EXCEPT ![s] = 1] /\ inum' = [inum EXCEPT ![s] = i]
        /\ valid' = [valid EXCEPT ![s] = FALSE] /\ ip' = [ip EXCEPT ![p] = s]
        /\ UNCHANGED <<panicked, raced>>
    BY <1>1, <2>2, Zenon DEF iget
  <2>5. ref' = [ref EXCEPT ![s] = @ + 1]
    BY <2>3, <2>4
  <2>q. QED BY <2>3, <2>4, <2>5, Zenon
<1>2. CASE Cached(i) = {} /\ Empty = {} /\ iget(p, i)
  BY <1>2, Zenon DEF iget, entryVars
<1>3. CASE Cached(i) # {} /\ iget(p, i)
  BY <1>3, Zenon DEF iget, Cached, Freed
<1>q. QED BY <1>1, <1>2, <1>3, Zenon

Gets(p, i, s) ==
  /\ ip' = [ip EXCEPT ![p] = s] /\ ref' = [ref EXCEPT ![s] = @ + 1] /\ UNCHANGED panicked
  /\ \/ /\ ref[s] > 0 /\ inum[s] = i /\ UNCHANGED <<inum, valid>>
        /\ raced' = (raced \/ Freed(s))
     \/ /\ ref[s] = 0 /\ \A t \in Slots : ref[t] > 0 => inum[t] # i
        /\ inum' = [inum EXCEPT ![s] = i] /\ valid' = [valid EXCEPT ![s] = FALSE]
        /\ UNCHANGED raced

LEMMA IgetGets ==
  ASSUME TypeOK, NEW p \in Procs, NEW i, iget(p, i), ~panicked
  PROVE  (panicked' /\ UNCHANGED <<inum, ref, valid, ip, raced>>) \/ \E s \in Slots : Gets(p, i, s)
BY IgetCases, Zenon DEF Gets

-----------------------------------------------------------------------------
(* Types, locals and locks *)

\* A step of p changes no other process's locals, and no entry in use changes
\* its inode.
Only(p) ==
  \A q \in Procs : q # p =>
    /\ pc'[q] = pc[q] /\ ip'[q] = ip[q] /\ fd'[q] = fd[q]
    /\ num'[q] = num[q] /\ name'[q] = name[q]

EntriesKept == \A s \in Slots : ref[s] > 0 => inum'[s] = inum[s]

LEMMA StepOnly ==
  ASSUME TypeOK, ~panicked, NEW p \in Procs, Acts(p)
  PROVE  Only(p) /\ EntriesKept
<1>1. CASE iput(p)
  BY <1>1, Zenon DEF TypeOK, iput, IputTest, IputTrunc, IputFree, IputRelease, Goto,
     Only, EntriesKept,
              entryVars
<1>2. CASE ialloc(p) \/ CreateLock(p) \/ CreateUpdate(p) \/ CreateLink(p)
  BY <1>2, Zenon DEF TypeOK, ialloc, CreateLock, CreateUpdate, CreateLink, Goto, Only,
     EntriesKept, entryVars
<1>3. CASE sys_open(p) \/ Close(p)
  BY <1>3, Zenon DEF TypeOK, sys_open, OpenLock, OpenDone, OpenFails, Close, Goto,
     Only, EntriesKept, entryVars
<1>4. CASE sys_unlink(p)
  BY <1>4, Zenon DEF TypeOK, sys_unlink, UnlinkLock, UnlinkErase, DropLink, Goto, Only,
     EntriesKept, entryVars
<1>5. CASE sys_link(p)
  BY <1>5, Zenon DEF TypeOK, sys_link, LinkLock, LinkAdd, LinkNew, LinkBad, Goto, Only,
     EntriesKept, entryVars
<1>6. ASSUME NEW i, iget(p, i) PROVE EntriesKept /\ \A q \in Procs : q # p => ip'[q] = ip[q]
  BY <1>6, IgetCases DEF TypeOK, EntriesKept
<1>7. CASE CreateGet(p)
  BY <1>6, <1>7, Zenon DEF TypeOK, CreateGet, Goto, Only
<1>8. ASSUME NEW n \in Names, OpenLookup(p, n) \/ Create(p, n) \/ Unlink(p, n) PROVE Only(p) /\ EntriesKept
  BY <1>6, <1>8, Zenon DEF TypeOK, OpenLookup, Lookup, Create, Unlink, Goto, Only,
     EntriesKept, entryVars
<1>9. ASSUME NEW n \in Names, NEW m \in Names, LinkLookup(p, n, m) PROVE Only(p) /\ EntriesKept
  BY <1>6, <1>9, Zenon DEF TypeOK, LinkLookup, Lookup, Goto, Only
<1>q. QED BY <1>1, <1>2, <1>3, <1>4, <1>5, <1>7, <1>8, <1>9, Zenon DEF Acts, create

\* The directory's lock is taken when it is free and released by its holder.
DirlockStep(p) ==
  \/ UNCHANGED dirlock
  \/ dirlock = NULL /\ dirlock' = p
  \/ dirlock = p /\ dirlock' = NULL

LEMMA IgetLocal ==
  ASSUME TypeOK, ~panicked, NEW p \in Procs, NEW i, iget(p, i)
  PROVE  ip'[p] # 0 \/ panicked'
BY IgetCases DEF TypeOK, Slots

LEMMA LocalStep ==
  ASSUME TypeOK, ~panicked, NEW p \in Procs, Local(p), Acts(p)
  PROVE  Local(p)' /\ DirlockStep(p)
<1> USE NullNotProc DEF Before, After, Locked, InDir, Making, Goto, DirlockStep
<1>0. /\ pc \in [Procs -> Labels] /\ name \in [Procs -> Names \cup {NULL}]
      /\ ip \in [Procs -> 0 .. NINODE] /\ fd \in [Procs -> 0 .. NINODE]
      /\ num \in [Procs -> 0 .. ninodes + 1]
  BY Zenon DEF TypeOK
<1>1. CASE iput(p)
  BY <1>0, <1>1, Zenon DEF Local, iput, IputTest, IputTrunc, IputFree, IputRelease,
     dirVars
<1>2. CASE ialloc(p)
  BY <1>0, <1>2, IcacheSizes DEF Local, ialloc, dirVars, Inums
<1>3. CASE CreateLock(p) \/ CreateUpdate(p) \/ CreateLink(p)
  BY <1>0, <1>3, Zenon DEF Local, CreateLock, CreateUpdate, CreateLink, dirVars
<1>4. CASE OpenLock(p) \/ OpenDone(p) \/ OpenFails(p)
  BY <1>0, <1>4, Zenon DEF Local, OpenLock, OpenDone, OpenFails, dirVars
<1>5. CASE Close(p)
  BY <1>0, <1>5, Zenon DEF Local, Close, dirVars
<1>6. CASE sys_unlink(p)
  BY <1>0, <1>6, Zenon DEF Local, sys_unlink, UnlinkLock, UnlinkErase, DropLink, dirVars
<1>7. CASE sys_link(p)
  BY <1>0, <1>7 DEF Local, sys_link, LinkLock, LinkAdd, LinkNew, LinkBad, dirVars
<1>8. CASE CreateGet(p)
  <2>1. ip'[p] # 0 \/ panicked'
    BY <1>8, IgetLocal, Zenon DEF CreateGet
  <2>q. QED BY <1>0, <1>8, <2>1, Zenon DEF Local, CreateGet, dirVars
<1>9. ASSUME NEW n \in Names, OpenLookup(p, n) PROVE Local(p)' /\ DirlockStep(p)
  <2>1. ip'[p] # 0 \/ panicked'
    BY <1>9, IgetLocal, Zenon DEF OpenLookup, Lookup
  <2>q. QED BY <1>0, <1>9, <2>1, Zenon DEF Local, OpenLookup, Lookup, dirVars
<1>10. ASSUME NEW n \in Names, Unlink(p, n) PROVE Local(p)' /\ DirlockStep(p)
  <2>1. ip'[p] # 0 \/ panicked'
    BY <1>10, IgetLocal, Zenon DEF Unlink
  <2>q. QED BY <1>0, <1>10, <2>1, Zenon DEF Local, Unlink
<1>11. ASSUME NEW n \in Names, Create(p, n) PROVE Local(p)' /\ DirlockStep(p)
  BY <1>0, <1>11, IcacheSizes DEF Local, Create
<1>12. ASSUME NEW n \in Names, NEW m \in Names, LinkLookup(p, n, m) PROVE Local(p)' /\ DirlockStep(p)
  <2>1. ip'[p] # 0 \/ panicked'
    BY <1>12, IgetLocal, Zenon DEF LinkLookup, Lookup
  <2>q. QED BY <1>0, <1>12, <2>1, Zenon DEF Local, LinkLookup, Lookup, dirVars
<1>q. QED BY <1>1, <1>2, <1>3, <1>4, <1>5, <1>6, <1>7, <1>8, <1>9, <1>10, <1>11, <1>12,
             Zenon
         DEF Acts, create, sys_open

LEMMA CallInvStep ==
  ASSUME TypeOK, CallInv, ~panicked, NEW p \in Procs, Acts(p)
  PROVE  CallInv'
<1>1. Local(p)' /\ DirlockStep(p) /\ Only(p)
  BY LocalStep, StepOnly, Zenon DEF CallInv
<1>2. ASSUME NEW q \in Procs, q # p PROVE Local(q)'
  BY <1>1, <1>2, NullNotProc, Zenon DEF CallInv, Local, DirlockStep, Only
<1>q. QED BY <1>1, <1>2, Zenon DEF CallInv


-----------------------------------------------------------------------------
(* References *)

LEMMA RefsKept ==
  ASSUME RefsCounted, EntryInv, EntriesKept, UNCHANGED <<ref, ip, fd>>
  PROVE  RefsCounted' /\ EntryInv'
<1>1. \A s : Calls(s)' = Calls(s) /\ Files(s)' = Files(s)
  BY Zenon DEF Calls, Files
<1>2. \A s \in Slots : ref'[s] = Cardinality(Calls(s)') + Cardinality(Files(s)')
  BY <1>1, Zenon DEF RefsCounted
<1>3. \A s, t \in Slots : ref'[s] > 0 /\ ref'[t] > 0 /\ inum'[s] = inum'[t] => s = t
  BY Zenon DEF RefsCounted, EntriesKept
<1>q. QED BY <1>2, <1>3, Zenon DEF RefsCounted, EntryInv, EntriesKept

\* iget's reference is the caller's.
LEMMA RefsGet ==
  ASSUME TypeOK, RefsCounted, EntryInv, ~panicked, NEW p \in Procs, ip[p] = 0,
         NEW i \in Inums, iget(p, i), UNCHANGED fd
  PROVE  RefsCounted' /\ EntryInv'
<1>1. CASE UNCHANGED <<inum, ref, ip>>
  BY <1>1, RefsKept, Zenon DEF EntriesKept
<1>2. ASSUME NEW s \in Slots, ip' = [ip EXCEPT ![p] = s], ref' = [ref EXCEPT ![s] = @ + 1],
             \/ ref[s] > 0 /\ inum[s] = i /\ UNCHANGED inum
             \/ /\ ref[s] = 0 /\ \A t \in Slots : ref[t] > 0 => inum[t] # i
                /\ inum' = [inum EXCEPT ![s] = i]
      PROVE  RefsCounted' /\ EntryInv'
  <2>0. s # 0 /\ ref \in [Slots -> Nat] /\ inum \in [Slots -> 0 .. ninodes]
    BY FiniteSystem, FS_CardinalityType DEF Slots, TypeOK
  <2>1. \A t \in Slots : Cardinality(Calls(t))' = Cardinality(Calls(t)) + (IF t = s THEN 1 ELSE 0)
    <3>1. ASSUME NEW t \in Slots
          PROVE Cardinality(Calls(t))' = Cardinality(Calls(t)) + (IF t = s THEN 1 ELSE 0)
                                                              - (IF t = ip[p] THEN 1 ELSE 0)
      <4>1. Moves(ip, p, s, ip')
        BY <1>2, Zenon DEF Moves
      <4>q. QED BY <4>1, CallsMove
    <3>2. \A t \in Slots : t # ip[p] /\ Cardinality(Calls(t)) \in Nat
      BY Finite DEF Slots
    <3>q. QED BY <3>1, <3>2
  <2>2. \A t \in Slots : Files(t)' = Files(t)
    BY Zenon DEF Files
  <2>3. \A t \in Slots : /\ ref'[t] = ref[t] + (IF t = s THEN 1 ELSE 0)
                         /\ inum'[t] = IF t = s THEN i ELSE inum[t]
                         /\ Cardinality(Calls(t)) \in Nat /\ Cardinality(Files(t)) \in Nat
    BY <1>2, <2>0, Finite
  <2>4. \A t \in Slots : ref'[t] = Cardinality(Calls(t))' + Cardinality(Files(t))'
    BY <2>1, <2>2, <2>3 DEF RefsCounted
  <2>5. \A u, t \in Slots : ref'[u] > 0 /\ ref'[t] > 0 /\ inum'[u] = inum'[t] => u = t
    BY <1>2, <2>0, <2>3 DEF RefsCounted
  <2>6. EntryInv'
    BY <2>0, <2>3 DEF EntryInv
  <2>q. QED BY <2>4, <2>5, <2>6, Zenon DEF RefsCounted
<1>q. QED BY <1>1, <1>2, IgetCases

\* iput gives it back.
LEMMA RefsPut ==
  ASSUME TypeOK, RefsCounted, EntryInv, NEW p \in Procs, ip[p] # 0,
         ref' = [ref EXCEPT ![ip[p]] = @ - 1], NEW z, z = 0, Moves(ip, p, z, ip'),
         UNCHANGED <<inum, fd>>
  PROVE  RefsCounted' /\ EntryInv'
<1>0. ip[p] \in Slots /\ ref \in [Slots -> Nat] /\ 0 \notin Slots
  BY FiniteSystem, FS_CardinalityType DEF Slots, TypeOK
<1>1. \A t \in Slots : Cardinality(Calls(t))' = Cardinality(Calls(t)) - (IF t = ip[p] THEN 1 ELSE 0)
  <2>1. ASSUME NEW t \in Slots
        PROVE Cardinality(Calls(t))' = Cardinality(Calls(t)) + (IF t = z THEN 1 ELSE 0)
                                                            - (IF t = ip[p] THEN 1 ELSE 0)
    BY CallsMove, ZenonT(30)
  <2>2. \A t \in Slots : t # z /\ Cardinality(Calls(t)) \in Nat
    BY Finite DEF Slots
  <2>q. QED BY <2>1, <2>2
<1>2. \A t \in Slots : Files(t)' = Files(t)
  BY Zenon DEF Files
<1>3. \A t \in Slots : /\ ref'[t] = ref[t] - (IF t = ip[p] THEN 1 ELSE 0)
                       /\ Cardinality(Calls(t)) \in Nat /\ Cardinality(Files(t)) \in Nat
  BY <1>0, Finite
<1>4. \A t \in Slots : ref'[t] = Cardinality(Calls(t))' + Cardinality(Files(t))'
  BY <1>1, <1>2, <1>3 DEF RefsCounted
<1>5. \A t \in Slots : ref'[t] > 0 => ref[t] > 0
  BY <1>0, <1>3
<1>q. QED BY <1>4, <1>5, Zenon DEF RefsCounted, EntryInv

\* open and close pass it on between the call and the file.
LEMMA RefsPass ==
  ASSUME TypeOK, RefsCounted, EntryInv, NEW p \in Procs, UNCHANGED <<inum, ref>>,
         NEW x, NEW y, x = ip[p], y = fd[p], Moves(ip, p, y, ip'), Moves(fd, p, x, fd')
  PROVE  RefsCounted' /\ EntryInv'
<1>1. ASSUME NEW t \in Slots
      PROVE Cardinality(Calls(t))' + Cardinality(Files(t))' = Cardinality(Calls(t)) + Cardinality(Files(t))
  <2>1. Cardinality(Calls(t))' = Cardinality(Calls(t)) + (IF t = y THEN 1 ELSE 0)
                                                       - (IF t = ip[p] THEN 1 ELSE 0)
    BY CallsMove
  <2>2. Cardinality(Files(t))' = Cardinality(Files(t)) + (IF t = x THEN 1 ELSE 0)
                                                       - (IF t = fd[p] THEN 1 ELSE 0)
    BY FilesMove
  <2>3. Cardinality(Calls(t)) \in Nat /\ Cardinality(Files(t)) \in Nat
    BY Finite, Zenon
  <2>q. QED BY <2>1, <2>2, <2>3
<1>q. QED BY <1>1, Zenon DEF RefsCounted, EntryInv

LEMMA RefsStep ==
  ASSUME TypeOK, CallInv, EntryInv, RefsCounted, ~panicked, NEW p \in Procs, Acts(p)
  PROVE  RefsCounted' /\ EntryInv'
<1> DEFINE Goal == RefsCounted' /\ EntryInv'
<1>0. Local(p) /\ Only(p) /\ EntriesKept
  BY StepOnly, Zenon DEF CallInv
<1>a. /\ ip \in [Procs -> 0 .. NINODE] /\ fd \in [Procs -> 0 .. NINODE] /\ dir \in [Names -> 0 .. ninodes]
      /\ \A n \in Names : dir[n] # 0 => dir[n] \in Inums
  BY DEF TypeOK, Inums
<1>1. CASE UNCHANGED <<ref, ip, fd>>
  BY <1>0, <1>1, RefsKept, Zenon
<1>2. CASE IputTest(p) \/ IputRelease(p)
  <2>1. ip[p] # 0
    BY <1>0, <1>2, Zenon DEF Local, After, IputTest, IputRelease
  <2>2. CASE UNCHANGED <<ref, ip>>
    BY <1>1, <1>2, <2>2, Zenon DEF IputTest, IputRelease
  <2>3. CASE ref' = [ref EXCEPT ![ip[p]] = @ - 1] /\ ip' = [ip EXCEPT ![p] = 0]
    <3>1. PICK z : z = 0
      BY Zenon
    <3>2. Moves(ip, p, z, ip') /\ UNCHANGED <<inum, fd>>
      BY <1>2, <2>3, <3>1, Zenon DEF IputTest, IputRelease, Moves
    <3>q. QED BY <2>1, <2>3, <3>1, <3>2, RefsPut, Zenon
  <2>q. QED BY <1>2, <2>2, <2>3, Zenon DEF IputTest, IputRelease
<1>3. CASE OpenDone(p)
  <2>1. fd[p] = 0
    BY <1>0, <1>3, Zenon DEF Local, OpenDone
  <2>2. PICK x, y : x = ip[p] /\ y = fd[p]
    OBVIOUS
  <2>3. Moves(ip, p, y, ip') /\ Moves(fd, p, x, fd') /\ UNCHANGED <<inum, ref>>
    BY <1>3, <2>1, <2>2, Zenon DEF OpenDone, entryVars, Moves
  <2>q. QED BY <2>2, <2>3, RefsPass, Zenon
<1>4. CASE Close(p)
  <2>1. ip[p] = 0
    BY <1>0, <1>4, Zenon DEF Local, Close
  <2>2. PICK x, y : x = ip[p] /\ y = fd[p]
    OBVIOUS
  <2>3. Moves(ip, p, y, ip') /\ Moves(fd, p, x, fd') /\ UNCHANGED <<inum, ref>>
    BY <1>4, <2>1, <2>2, Zenon DEF Close, entryVars, Moves
  <2>q. QED BY <2>2, <2>3, RefsPass, Zenon
<1>5. CASE CreateGet(p)
  <2>1. ip[p] = 0 /\ num[p] \in Inums
    BY <1>0, <1>5, Zenon DEF Local, CreateGet
  <2>q. QED BY <1>5, <2>1, RefsGet, Zenon DEF CreateGet
<1>6. ASSUME NEW n \in Names, OpenLookup(p, n) \/ Unlink(p, n) PROVE Goal
  <2>1. ip[p] = 0 /\ dir[n] \in Inums
    BY <1>0, <1>6, <1>a, Zenon DEF Local, OpenLookup, Lookup, Unlink
  <2>q. QED BY <1>6, <2>1, RefsGet, Zenon DEF OpenLookup, Lookup, Unlink
<1>7. ASSUME NEW n \in Names, NEW m \in Names, LinkLookup(p, n, m) PROVE Goal
  <2>1. ip[p] = 0 /\ dir[n] \in Inums
    BY <1>0, <1>7, <1>a, Zenon DEF Local, LinkLookup, Lookup
  <2>q. QED BY <1>7, <2>1, RefsGet, Zenon DEF LinkLookup, Lookup
<1>8. CASE \/ IputTrunc(p) \/ IputFree(p) \/ ialloc(p) \/ CreateLock(p) \/ CreateUpdate(p)
           \/ CreateLink(p) \/ OpenLock(p) \/ OpenFails(p) \/ sys_unlink(p) \/ sys_link(p)
  BY <1>1, <1>8, Zenon DEF IputTrunc, IputFree, ialloc, CreateLock, CreateUpdate,
     CreateLink, OpenLock, OpenFails,
       sys_unlink, UnlinkLock, UnlinkErase, DropLink, sys_link, LinkLock, LinkAdd,
       LinkNew, LinkBad,
       entryVars
<1>9. ASSUME NEW n \in Names, Create(p, n) PROVE Goal
  BY <1>1, <1>9, Zenon DEF Create, entryVars
<1>q. QED BY <1>2, <1>3, <1>4, <1>5, <1>6, <1>7, <1>8, <1>9, Zenon DEF Acts, iput,
             create, sys_open


\* Each field keeps its type; a reference count stays in bounds because it counts.
LEMMA TypeStep ==
  ASSUME TypeOK, CallInv, EntryInv, RefsCounted, RefsCounted', ~panicked, NEW p \in Procs, Acts(p)
  PROVE  TypeOK'
<1> DEFINE Typed == /\ dtype \in [Inums -> {0, 1}] /\ dnlink \in [Inums -> Int]
                    /\ dir \in [Names -> Inums \cup {0}] /\ dirlock \in Procs \cup {NULL}
                    /\ inum \in [Slots -> Inums \cup {0}] /\ ref \in [Slots -> Int]
                    /\ valid \in [Slots -> BOOLEAN] /\ lock \in [Slots -> Procs \cup {NULL}]
                    /\ type \in [Slots -> {0, 1}] /\ nlink \in [Slots -> Int]
                    /\ pc \in [Procs -> Labels] /\ name \in [Procs -> Names \cup {NULL}]
                    /\ ip \in [Procs -> Slots \cup {0}] /\ fd \in [Procs -> Slots \cup {0}]
                    /\ num \in [Procs -> 0 .. ninodes + 1]
                    /\ panicked \in BOOLEAN /\ raced \in BOOLEAN
<1>0. Local(p) /\ 0 .. ninodes = Inums \cup {0} /\ 0 .. NINODE = Slots \cup {0}
  BY IcacheSizes DEF CallInv, Inums, Slots
<1>1. Typed
  <2>1. 0 .. 2 * Cardinality(Procs) \subseteq Int
    BY FiniteSystem, FS_CardinalityType
  <2>q. QED BY <1>0, <2>1, Zenon DEF TypeOK
<1>2. ip[p] # 0 => ip[p] \in Slots /\ inum[ip[p]] \in Inums
  <2>1. ip[p] # 0 => ip[p] \in Slots
    BY <1>1, Zenon
  <2>q. QED BY <2>1, Held, Zenon DEF EntryInv
<1>3. ASSUME NEW i \in Inums, iget(p, i)
      PROVE  /\ inum' \in [Slots -> Inums \cup {0}] /\ ref' \in [Slots -> Int]
             /\ valid' \in [Slots -> BOOLEAN] /\ ip' \in [Procs -> Slots \cup {0}]
             /\ panicked' \in BOOLEAN /\ raced' \in BOOLEAN
  <2>0. panicked' \in BOOLEAN
    BY <1>1, <1>3, Zenon DEF iget
  <2>1. CASE panicked' /\ UNCHANGED <<inum, ref, valid, ip, raced>>
    BY <1>1, <2>0, <2>1, Zenon
  <2>2. ASSUME NEW s \in Slots, Gets(p, i, s)
        PROVE  /\ inum' \in [Slots -> Inums \cup {0}] /\ ref' \in [Slots -> Int]
               /\ valid' \in [Slots -> BOOLEAN] /\ ip' \in [Procs -> Slots \cup {0}]
               /\ panicked' \in BOOLEAN /\ raced' \in BOOLEAN
    <3>1. raced' \in BOOLEAN /\ panicked' \in BOOLEAN
      BY <1>1, <2>2, Zenon DEF Gets
    <3>2. ip' = [ip EXCEPT ![p] = s] /\ ref' = [ref EXCEPT ![s] = @ + 1]
      BY <2>2, Zenon DEF Gets
    <3>4. ref' \in [Slots -> Int] /\ ip' \in [Procs -> Slots \cup {0}]
      BY <1>1, <3>2
    <3>3. \/ UNCHANGED <<inum, valid>>
          \/ inum' = [inum EXCEPT ![s] = i] /\ valid' = [valid EXCEPT ![s] = FALSE]
      BY <2>2, Zenon DEF Gets
    <3>5. inum' \in [Slots -> Inums \cup {0}] /\ valid' \in [Slots -> BOOLEAN]
      BY <1>1, <1>3, <3>3, ZenonT(30)
    <3>q. QED BY <3>1, <3>4, <3>5, Zenon
  <2>q. QED BY <1>3, <2>1, <2>2, IgetGets, Zenon
<1>4. ASSUME ilock(p), ip[p] # 0
      PROVE  /\ valid' \in [Slots -> BOOLEAN] /\ lock' \in [Slots -> Procs \cup {NULL}]
             /\ type' \in [Slots -> {0, 1}] /\ nlink' \in [Slots -> Int] /\ panicked' \in BOOLEAN
  <2>1. panicked' \in BOOLEAN
    BY <1>1, <1>4, Zenon DEF ilock
  <2>2. dtype[inum[ip[p]]] \in {0, 1} /\ dnlink[inum[ip[p]]] \in Int
    BY <1>1, <1>2, <1>4, Zenon
  <2>3. CASE valid[ip[p]]
    BY <1>1, <1>2, <1>4, <2>1, <2>3, Zenon DEF ilock
  <2>4. CASE ~valid[ip[p]]
    BY <1>1, <1>2, <1>4, <2>1, <2>2, <2>4, Zenon DEF ilock
  <2>q. QED BY <2>3, <2>4, Zenon
<1>5. ASSUME Typed' PROVE TypeOK'
  <2>1. ASSUME NEW s \in Slots PROVE ref'[s] \in 0 .. 2 * Cardinality(Procs)
    <3>1. Calls(s)' \in SUBSET Procs /\ Files(s)' \in SUBSET Procs
      BY Zenon DEF Calls, Files
    <3>2. /\ Cardinality(Calls(s)') \in Nat /\ Cardinality(Files(s)') \in Nat
          /\ Cardinality(Calls(s)') <= Cardinality(Procs) /\ Cardinality(Files(s)') <= Cardinality(Procs)
          /\ Cardinality(Procs) \in Nat
      BY <3>1, FiniteSystem, FS_Subset, FS_CardinalityType, Zenon
    <3>3. ref'[s] = Cardinality(Calls(s)') + Cardinality(Files(s)')
      BY Zenon DEF RefsCounted
    <3>q. QED BY <3>2, <3>3
  <2>2. ref' \in [Slots -> 0 .. 2 * Cardinality(Procs)]
    BY <1>5, <2>1, Zenon
  <2>q. QED BY <1>0, <1>5, <2>2, Zenon DEF TypeOK
<1>6. pc[p] \in After => ip[p] # 0
  BY <1>0, Zenon DEF Local
<1>7. pc[p] \in Before => ip[p] # 0
  BY <1>0, Zenon DEF Local
<1>8. \A l \in Labels : Goto(p, l) => pc' \in [Procs -> Labels]
  BY <1>1, Zenon DEF Goto
<1> USE DEF Labels, After, Locked, Before
<1>11. CASE IputTest(p)
  <2>1. Typed'
    BY <1>1, <1>2, <1>6, <1>8, <1>11 DEF IputTest, diskVars, dirVars, copyVars
  <2>q. QED BY <1>5, <2>1, Zenon
<1>12. CASE IputTrunc(p) \/ IputFree(p)
  <2>1. Typed'
    BY <1>1, <1>2, <1>6, <1>8, <1>12 DEF IputTrunc, IputFree, iupdate, dirVars,
       copyVars, entryVars
  <2>q. QED BY <1>5, <2>1, Zenon
<1>13. CASE IputRelease(p)
  <2>1. Typed'
    BY <1>1, <1>2, <1>6, <1>8, <1>13 DEF IputRelease, diskVars, dirVars, copyVars
  <2>q. QED BY <1>5, <2>1, Zenon
<1>14. CASE ialloc(p)
  <2>0. num[p] \in Inums => num[p] + 1 \in 0 .. ninodes + 1
    BY IcacheSizes DEF Inums
  <2>1. panicked' \in BOOLEAN
    BY <1>1, <1>14, Zenon DEF ialloc
  <2>2. num' \in [Procs -> 0 .. ninodes + 1] /\ dtype' \in [Inums -> {0, 1}] /\ dnlink' \in [Inums -> Int]
    BY <1>1, <1>14, <2>0 DEF ialloc, diskVars
  <2>3. pc' \in [Procs -> Labels]
    BY <1>1, <1>8, <1>14, Zenon DEF ialloc
  <2>4. Typed'
    BY <1>1, <1>14, <2>1, <2>2, <2>3, Zenon DEF ialloc, dirVars, copyVars, entryVars
  <2>q. QED BY <1>5, <2>4, Zenon
<1>15. CASE CreateGet(p)
  <2>1. num[p] \in Inums
    BY <1>0, <1>15, Zenon DEF Local, CreateGet
  <2>2. Typed'
    BY <1>1, <1>3, <1>8, <1>15, <2>1, Zenon DEF CreateGet, diskVars, dirVars, copyVars
  <2>q. QED BY <1>5, <2>2, Zenon
<1>16. CASE CreateLock(p) \/ OpenLock(p) \/ UnlinkLock(p) \/ LinkLock(p) \/ LinkBad(p)
  <2>1. Typed'
    BY <1>1, <1>4, <1>6, <1>7, <1>8, <1>16, Zenon
       DEF CreateLock, OpenLock, UnlinkLock, LinkLock, LinkBad, diskVars, dirVars
  <2>q. QED BY <1>5, <2>1, Zenon
<1>17. CASE CreateUpdate(p)
  <2>1. Typed'
    BY <1>1, <1>2, <1>6, <1>8, <1>17 DEF CreateUpdate, iupdate, dirVars, entryVars
  <2>q. QED BY <1>5, <2>1, Zenon
<1>18. CASE DropLink(p) \/ LinkAdd(p)
  <2>1. Typed'
    BY <1>1, <1>2, <1>6, <1>8, <1>18 DEF DropLink, LinkAdd, AddLink, iupdate, dirVars,
       entryVars
  <2>q. QED BY <1>5, <2>1, Zenon
<1>19. CASE CreateLink(p) \/ UnlinkErase(p) \/ LinkNew(p)
  <2>1. name[p] \in Names
    BY <1>0, <1>19, Zenon DEF Local, InDir, CreateLink, UnlinkErase, LinkNew
  <2>2. panicked' \in BOOLEAN
    <3>1. CASE CreateLink(p) \/ LinkNew(p)
      BY <1>1, <3>1, Zenon DEF CreateLink, LinkNew
    <3>2. CASE UnlinkErase(p)
      <4>1. panicked' = (nlink[ip[p]] < 1)
        BY <3>2, Zenon DEF UnlinkErase
      <4>q. QED BY <4>1
    <3>q. QED BY <1>19, <3>1, <3>2, Zenon
  <2>3. num' \in [Procs -> 0 .. ninodes + 1]
    BY <1>1, <1>19, IcacheSizes DEF CreateLink, UnlinkErase, LinkNew
  <2>4. dir' \in [Names -> Inums \cup {0}] /\ pc' \in [Procs -> Labels]
    BY <1>1, <1>2, <1>6, <1>8, <1>19, <2>1, Zenon DEF CreateLink, UnlinkErase, LinkNew
  <2>5. Typed'
    BY <1>1, <1>19, <2>2, <2>3, <2>4, Zenon
       DEF CreateLink, UnlinkErase, LinkNew, diskVars, copyVars, entryVars
  <2>q. QED BY <1>5, <2>5, Zenon
<1>20. CASE OpenDone(p) \/ OpenFails(p) \/ Close(p)
  <2>1. Typed'
    BY <1>1, <1>2, <1>6, <1>8, <1>20 DEF OpenDone, OpenFails, Close, diskVars, dirVars,
       copyVars, entryVars
  <2>q. QED BY <1>5, <2>1, Zenon
<1>21. ASSUME NEW n \in Names, OpenLookup(p, n) \/ Unlink(p, n) PROVE TypeOK'
  <2>1. dir[n] \in Inums
    BY <1>1, <1>21, Zenon DEF OpenLookup, Lookup, Unlink
  <2>2. Typed'
    BY <1>1, <1>3, <1>8, <1>21, <2>1 DEF OpenLookup, Lookup, Unlink, diskVars, dirVars,
       copyVars
  <2>q. QED BY <1>5, <2>2, Zenon
<1>22. ASSUME NEW n \in Names, Create(p, n) PROVE TypeOK'
  <2>1. Typed'
    BY <1>1, <1>8, <1>22, IcacheSizes DEF Create, diskVars, copyVars, entryVars
  <2>q. QED BY <1>5, <2>1, Zenon
<1>23. ASSUME NEW n \in Names, NEW m \in Names, LinkLookup(p, n, m) PROVE TypeOK'
  <2>1. dir[n] \in Inums
    BY <1>1, <1>23, Zenon DEF LinkLookup, Lookup
  <2>2. Typed'
    BY <1>1, <1>3, <1>8, <1>23, <2>1, Zenon DEF LinkLookup, Lookup, diskVars, dirVars,
       copyVars
  <2>q. QED BY <1>5, <2>2, Zenon
<1>q. QED BY <1>11, <1>12, <1>13, <1>14, <1>15, <1>16, <1>17, <1>18, <1>19, <1>20,
             <1>21, <1>22, <1>23, Zenon
         DEF Acts, iput, create, sys_open, sys_unlink, sys_link

-----------------------------------------------------------------------------
(* Locks and names *)

LEMMA LockTaken ==
  ASSUME TypeOK, LockInv, NEW p \in Procs, Only(p), ip[p] \in Slots, lock[ip[p]] = NULL,
         lock' = [lock EXCEPT ![ip[p]] = p], ip'[p] = ip[p], pc'[p] \in Locked
  PROVE  LockInv'
BY NullNotProc DEF TypeOK, LockInv, Only

LEMMA LockReleased ==
  ASSUME TypeOK, LockInv, NEW p \in Procs, Only(p), ip[p] \in Slots, pc[p] \in Locked,
         lock' = [lock EXCEPT ![ip[p]] = NULL], pc'[p] \notin Locked
  PROVE  LockInv'
BY NullNotProc DEF TypeOK, LockInv, Only

LEMMA LockKept ==
  ASSUME LockInv, NEW p \in Procs, Only(p), UNCHANGED lock,
         \/ pc[p] \notin Locked /\ pc'[p] \notin Locked
         \/ pc[p] \in Locked /\ pc'[p] \in Locked /\ ip'[p] = ip[p]
  PROVE  LockInv'
BY DEF LockInv, Only

LEMMA LockStep ==
  ASSUME TypeOK, CallInv, LockInv, ~panicked, NEW p \in Procs, Acts(p)
  PROVE  LockInv'
<1>0. Local(p) /\ Only(p) /\ pc \in [Procs -> Labels] /\ ip[p] \in 0 .. NINODE
      /\ (ip[p] # 0 => ip[p] \in Slots)
  BY StepOnly DEF CallInv, TypeOK, Slots
<1>1. CASE CreateLock(p) \/ OpenLock(p) \/ UnlinkLock(p) \/ LinkLock(p) \/ LinkBad(p)
  <2>1. ip[p] \in Slots
    BY <1>0, <1>1, Zenon DEF Local, Before, After, CreateLock, OpenLock, UnlinkLock,
       LinkLock, LinkBad
  <2>2. lock[ip[p]] = NULL /\ lock' = [lock EXCEPT ![ip[p]] = p] /\ ip'[p] = ip[p] /\ pc'[p] \in Locked
    BY <1>0, <1>1, Zenon DEF CreateLock, OpenLock, UnlinkLock, LinkLock, LinkBad,
       ilock, Goto, Locked
  <2>q. QED BY <1>0, <2>1, <2>2, LockTaken, Zenon
<1>2. CASE OpenDone(p) \/ OpenFails(p) \/ DropLink(p) \/ LinkAdd(p)
  <2>1. ip[p] \in Slots
    BY <1>0, <1>2, Zenon DEF Local, After, Locked, OpenDone, OpenFails, DropLink,
       LinkAdd
  <2>2. lock' = [lock EXCEPT ![ip[p]] = NULL] /\ pc[p] \in Locked /\ pc'[p] \notin Locked
    BY <1>0, <1>2, Zenon DEF OpenDone, OpenFails, DropLink, LinkAdd, Goto, Locked
  <2>q. QED BY <1>0, <2>1, <2>2, LockReleased, Zenon
<1>3. CASE CreateUpdate(p) \/ CreateLink(p) \/ UnlinkErase(p)
  <2>1. UNCHANGED lock /\ pc[p] \in Locked /\ pc'[p] \in Locked /\ ip'[p] = ip[p]
    BY <1>0, <1>3, Zenon DEF CreateUpdate, CreateLink, UnlinkErase, copyVars, Goto,
       Locked
  <2>q. QED BY <1>0, <2>1, LockKept, Zenon
<1>4. CASE UNCHANGED lock /\ pc[p] \notin Locked /\ pc'[p] \notin Locked
  BY <1>0, <1>4, LockKept, Zenon
<1>5. CASE iput(p) \/ Close(p) \/ LinkNew(p) \/ ialloc(p) \/ CreateGet(p)
  BY <1>0, <1>4, <1>5, Zenon
     DEF iput, IputTest, IputTrunc, IputFree, IputRelease, Close, LinkNew, ialloc,
     CreateGet,
         copyVars, Goto, Locked
<1>6. ASSUME NEW n \in Names, OpenLookup(p, n) \/ Create(p, n) \/ Unlink(p, n) PROVE LockInv'
  BY <1>0, <1>4, <1>6, Zenon DEF OpenLookup, Lookup, Create, Unlink, copyVars, Goto,
     Locked
<1>7. ASSUME NEW n \in Names, NEW m \in Names, LinkLookup(p, n, m) PROVE LockInv'
  BY <1>0, <1>4, <1>7, Zenon DEF LinkLookup, Lookup, copyVars, Goto, Locked
<1>q. QED BY <1>1, <1>2, <1>3, <1>5, <1>6, <1>7, Zenon DEF Acts, create, sys_open,
             sys_unlink, sys_link

\* What iget returns is an entry of the inode it was asked for.
LEMMA IgetEntry ==
  ASSUME TypeOK, ~panicked, NEW p \in Procs, ip[p] = 0, NEW i \in Inums, iget(p, i)
  PROVE  ip'[p] # 0 => inum'[ip'[p]] = i
<1>1. CASE UNCHANGED ip
  BY <1>1, Zenon
<1>2. ASSUME NEW s \in Slots, ip' = [ip EXCEPT ![p] = s],
             (inum[s] = i /\ UNCHANGED inum) \/ inum' = [inum EXCEPT ![s] = i]
      PROVE  inum'[ip'[p]] = i
  BY <1>2, Zenon DEF TypeOK
<1>q. QED BY <1>1, <1>2, IgetCases

LEMMA NameStep ==
  ASSUME TypeOK, CallInv, RefsCounted, NameInv, ~panicked, NEW p \in Procs, Acts(p)
  PROVE  NameInv'
<1> DEFINE Goal(q) == /\ pc'[q] \in Making => dir'[name'[q]] = 0
                      /\ pc'[q] \in {"unlink", "erase"} /\ ip'[q] # 0 => dir'[name'[q]] = inum'[ip'[q]]
<1>0. Local(p) /\ Only(p) /\ EntriesKept /\ pc \in [Procs -> Labels] /\ name \in [Procs -> Names \cup {NULL}]
  BY StepOnly, Zenon DEF CallInv, TypeOK
<1>1. ASSUME NEW q \in Procs, ip[q] # 0 PROVE inum'[ip[q]] = inum[ip[q]]
  <2>1. ip[q] \in Slots
    BY <1>1 DEF TypeOK, Slots
  <2>q. QED BY <1>0, <2>1, Held, Zenon DEF EntriesKept
<1>2. ASSUME NEW q \in Procs, q # p PROVE Goal(q)
  <2>1. pc[q] \in InDir => UNCHANGED dir
    <3>1. pc[q] \in InDir => dirlock = q /\ q # NULL
      BY NullNotProc, Zenon DEF CallInv, Local
    <3>2. CASE CreateLink(p) \/ UnlinkErase(p) \/ LinkNew(p)
      BY <1>0, <1>2, <3>1, <3>2, Zenon DEF CreateLink, UnlinkErase, LinkNew, Local,
         InDir
    <3>3. ASSUME NEW n \in Names, OpenLookup(p, n) \/ Create(p, n) \/ Unlink(p, n) PROVE UNCHANGED dir
      BY <3>3, Zenon DEF OpenLookup, Lookup, Create, Unlink, dirVars
    <3>4. ASSUME NEW n \in Names, NEW m \in Names, LinkLookup(p, n, m) PROVE UNCHANGED dir
      BY <3>4, Zenon DEF LinkLookup, Lookup, dirVars
    <3>5. CASE \/ iput(p) \/ ialloc(p) \/ CreateGet(p) \/ CreateLock(p) \/ CreateUpdate(p) \/ sys_open(p)
               \/ UnlinkLock(p) \/ DropLink(p) \/ LinkLock(p) \/ LinkAdd(p) \/ LinkBad(p) \/ Close(p)
      BY <3>5, Zenon DEF iput, IputTest, IputTrunc, IputFree, IputRelease, ialloc,
         CreateGet, CreateLock,
           CreateUpdate, sys_open, OpenLock, OpenDone, OpenFails, UnlinkLock, DropLink,
           LinkLock, LinkAdd,
           LinkBad, Close, dirVars
    <3>q. QED BY <3>2, <3>3, <3>4, <3>5, Zenon DEF Acts, create, sys_unlink, sys_link
  <2>2. Making \subseteq InDir /\ {"unlink", "erase"} \subseteq InDir
    BY Zenon DEF Making, InDir
  <2>q. QED BY <1>0, <1>1, <1>2, <2>1, <2>2 DEF NameInv, Only
<1>3. Goal(p)
  <2> USE DEF Making, Goto
  <2>1. CASE pc'[p] \notin Making \cup {"unlink", "erase"}
    BY <2>1, Zenon
  <2>2. CASE ialloc(p) \/ CreateGet(p) \/ CreateLock(p) \/ CreateUpdate(p)
    BY <1>0, <2>2, Zenon DEF ialloc, CreateGet, CreateLock, CreateUpdate, NameInv,
       dirVars
  <2>3. CASE UnlinkLock(p)
    BY <1>0, <1>1, <2>3, Zenon DEF UnlinkLock, NameInv, dirVars
  <2>4. ASSUME NEW n \in Names, Create(p, n) PROVE Goal(p)
    BY <1>0, <2>4, Zenon DEF Create
  <2>5. ASSUME NEW n \in Names, Unlink(p, n) PROVE Goal(p)
    <3>1. ip[p] = 0 /\ dir[n] \in Inums
      BY <1>0, <2>5 DEF Local, Unlink, TypeOK, Inums
    <3>2. ip'[p] # 0 => inum'[ip'[p]] = dir[n]
      BY <2>5, <3>1, IgetEntry, Zenon DEF Unlink
    <3>q. QED BY <1>0, <2>5, <3>2, Zenon DEF Unlink
  <2>6. ASSUME NEW n \in Names, OpenLookup(p, n) PROVE Goal(p)
    BY <1>0, <2>1, <2>6, Zenon DEF OpenLookup, Lookup
  <2>7. ASSUME NEW n \in Names, NEW m \in Names, LinkLookup(p, n, m) PROVE Goal(p)
    BY <1>0, <2>1, <2>7, Zenon DEF LinkLookup, Lookup
  <2>8. CASE iput(p) \/ CreateLink(p) \/ sys_open(p) \/ Close(p) \/ sys_link(p)
    BY <1>0, <2>1, <2>8, Zenon DEF iput, IputTest, IputTrunc, IputFree, IputRelease,
       CreateLink, sys_open, OpenLock,
         OpenDone, OpenFails, Close, sys_link, LinkLock, LinkAdd, LinkNew, LinkBad
  <2>9. CASE UnlinkErase(p) \/ DropLink(p)
    BY <1>0, <2>1, <2>9, Zenon DEF UnlinkErase, DropLink
  <2>q. QED BY <2>2, <2>3, <2>4, <2>5, <2>6, <2>7, <2>8, <2>9, Zenon DEF Acts, create,
               sys_unlink
<1>q. QED BY <1>2, <1>3, Zenon DEF NameInv

-----------------------------------------------------------------------------
(* Inodes that are made and freed *)

LEMMA RacedStays ==
  ASSUME TypeOK, ~panicked, NEW p \in Procs, Acts(p), ~raced'
  PROVE  ~raced
<1>1. ASSUME NEW i, iget(p, i) PROVE ~raced
  BY <1>1, IgetCases, Zenon
<1>2. CASE CreateGet(p)
  BY <1>1, <1>2, Zenon DEF CreateGet
<1>3. ASSUME NEW n \in Names, OpenLookup(p, n) \/ Create(p, n) \/ Unlink(p, n) PROVE ~raced
  BY <1>1, <1>3, Zenon DEF OpenLookup, Lookup, Create, Unlink
<1>4. ASSUME NEW n \in Names, NEW m \in Names, LinkLookup(p, n, m) PROVE ~raced
  BY <1>1, <1>4, Zenon DEF LinkLookup, Lookup
<1>5. CASE \/ iput(p) \/ ialloc(p) \/ CreateLock(p) \/ CreateUpdate(p) \/ CreateLink(p) \/ sys_open(p)
           \/ sys_unlink(p) \/ sys_link(p) \/ Close(p)
  BY <1>5, Zenon DEF iput, IputTest, IputTrunc, IputFree, IputRelease, ialloc,
     CreateLock, CreateUpdate,
       CreateLink, sys_open, OpenLock, OpenDone, OpenFails, sys_unlink, UnlinkLock,
       UnlinkErase, DropLink,
       sys_link, LinkLock, LinkAdd, LinkNew, LinkBad, Close
<1>q. QED BY <1>2, <1>3, <1>4, <1>5, Zenon DEF Acts, create

\* A referenced entry has a holder, and a call with an entry that has further
\* references shares it.
LEMMA Holder ==
  ASSUME RefsCounted, NEW s \in Slots
  PROVE  /\ ref[s] > 0 => \E q \in Procs : ip[q] = s \/ fd[q] = s
         /\ \A p \in Procs : ref[s] > 0 /\ ref[s] # 1 /\ ip[p] = s =>
              \E q \in Procs : fd[q] = s \/ (q # p /\ ip[q] = s)
<1>1. ref[s] = Cardinality(Calls(s)) + Cardinality(Files(s))
  BY Zenon DEF RefsCounted
<1>2. /\ Cardinality(Calls(s)) \in Nat /\ Cardinality(Files(s)) \in Nat
      /\ IsFiniteSet(Calls(s)) /\ IsFiniteSet(Files(s))
  BY Finite, Zenon
<1>3. /\ Calls(s) = {} => Cardinality(Calls(s)) = 0
      /\ Files(s) = {} => Cardinality(Files(s)) = 0
  BY FS_EmptySet, Zenon
<1>4. ref[s] > 0 => \E q \in Procs : ip[q] = s \/ fd[q] = s
  BY <1>1, <1>2, <1>3 DEF Calls, Files
<1>5. ASSUME NEW p \in Procs, ref[s] > 0, ref[s] # 1, ip[p] = s,
             ~\E q \in Procs : fd[q] = s \/ (q # p /\ ip[q] = s)
      PROVE  FALSE
  <2>1. Files(s) = {} /\ Calls(s) = {p}
    BY <1>5, Zenon DEF Files, Calls
  <2>2. Cardinality({p}) = 1
    BY FS_Singleton, Zenon
  <2>q. QED BY <1>1, <1>3, <1>5, <2>1, <2>2
<1>q. QED BY <1>4, <1>5, Zenon

\* p owes a link of i; p uses i.
Owes(p, i) ==
  /\ pc[p] \in {"dirlink", "drop", "newlink", "badlink"}
  /\ ip[p] # 0 /\ inum[ip[p]] = i

Uses(p, i) ==
  \/ fd[p] # 0 /\ inum[fd[p]] = i
  \/ ip[p] # 0 /\ inum[ip[p]] = i /\ pc[p] # "irelse"
  \/ pc[p] = "iget" /\ num[p] = i

LEMMA LiveIs == \A i : Live(i) <=> Links(i) # {} \/ \E p \in Procs : Uses(p, i)
BY Zenon DEF Live, Uses

\* No other process comes to owe or use an inode by a step of p.
LEMMA OthersKept ==
  ASSUME TypeOK, RefsCounted, NEW p \in Procs, Only(p), EntriesKept
  PROVE  \A q \in Procs : q # p => \A i : (Owes(q, i)' <=> Owes(q, i)) /\ (Uses(q, i)' <=> Uses(q, i))
<1>1. ASSUME NEW q \in Procs, q # p, NEW i PROVE (Owes(q, i)' <=> Owes(q, i)) /\ (Uses(q, i)' <=> Uses(q, i))
  <2>1. ip[q] # 0 => inum'[ip[q]] = inum[ip[q]]
    <3>1. ip[q] # 0 => ip[q] \in Slots
      BY DEF TypeOK, Slots
    <3>q. QED BY <3>1, Held, Zenon DEF EntriesKept
  <2>2. fd[q] # 0 => inum'[fd[q]] = inum[fd[q]]
    <3>1. fd[q] # 0 => fd[q] \in Slots
      BY DEF TypeOK, Slots
    <3>q. QED BY <3>1, Held, Zenon DEF EntriesKept
  <2>3. pc'[q] = pc[q] /\ ip'[q] = ip[q] /\ fd'[q] = fd[q] /\ num'[q] = num[q]
    BY <1>1, Zenon DEF Only
  <2>q. QED BY <2>1, <2>2, <2>3, Zenon DEF Owes, Uses
<1>q. QED BY <1>1, Zenon

LEMMA OwingMove ==
  ASSUME NEW p \in Procs, NEW i, \A q \in Procs : q # p => (Owes(q, i)' <=> Owes(q, i))
  PROVE  Cardinality(Owing(i))' = Cardinality(Owing(i)) + (IF Owes(p, i)' THEN 1 ELSE 0)
                                                        - (IF Owes(p, i) THEN 1 ELSE 0)
<1>1. Owing(i) = {q \in Procs : Owes(q, i)} /\ Owing(i)' = {q \in Procs : Owes(q, i)'}
  BY Zenon DEF Owing, Owes
<1>2. /\ Owing(i) \ {p} = Owing(i)' \ {p} /\ (p \in Owing(i)' <=> Owes(p, i)')
      /\ (p \in Owing(i) <=> Owes(p, i))
  BY <1>1, Zenon
<1>3. IsFiniteSet(Owing(i))
  BY Finite, Zenon
<1>q. QED BY <1>2, <1>3, CardinalityMove, Zenon

-----------------------------------------------------------------------------
(* Valid entries *)

\* A step invalidates no entry in use but the one that iput releases.
ValidKept(p) ==
  \A s \in Slots : valid[s] /\ ref[s] > 0 /\ ~(s = ip[p] /\ pc[p] = "irelse") => valid'[s]

LEMMA IlockValid ==
  ASSUME TypeOK, NEW p \in Procs, ip[p] \in Slots, ilock(p)
  PROVE  ValidKept(p) /\ valid'[ip[p]]
BY Zenon DEF TypeOK, ilock, ValidKept

LEMMA IgetValid ==
  ASSUME TypeOK, ~panicked, NEW p \in Procs, NEW i, iget(p, i)
  PROVE  ValidKept(p)
BY IgetCases DEF TypeOK, ValidKept

LEMMA ValidStep ==
  ASSUME TypeOK, CallInv, RefsCounted, AloneInv, ValidInv, ~panicked, NEW p \in Procs, Acts(p)
  PROVE  ValidInv'
<1> DEFINE Goal(q) == (pc'[q] \in After => valid'[ip'[q]]) /\ (fd'[q] # 0 => valid'[fd'[q]])
<1>s. SUFFICES ASSUME ~raced' PROVE \A q \in Procs : Goal(q)
  BY Zenon DEF ValidInv
<1>0. /\ ~raced /\ Local(p) /\ Only(p) /\ pc \in [Procs -> Labels]
      /\ ip \in [Procs -> 0 .. NINODE] /\ fd \in [Procs -> 0 .. NINODE]
      /\ \A q \in Procs : (ip[q] # 0 => ip[q] \in Slots) /\ (fd[q] # 0 => fd[q] \in Slots)
  <2>0. ~raced
    BY <1>s, RacedStays, Zenon
  <2>1. ~raced /\ Local(p) /\ Only(p)
    BY <2>0, StepOnly, Zenon DEF CallInv
  <2>q. QED BY <2>1 DEF TypeOK, Slots
<1>1. \A q \in Procs : (pc[q] \in After => valid[ip[q]]) /\ (fd[q] # 0 => valid[fd[q]])
  BY <1>0, Zenon DEF ValidInv
<1>2. \A q \in Procs : pc[q] \in After => ip[q] \in Slots
  BY <1>0, Zenon DEF CallInv, Local
<1>3. \A q \in Procs : (pc[q] \in After => ref[ip[q]] > 0) /\ (fd[q] # 0 => ref[fd[q]] > 0)
  BY <1>0, <1>2, Held, Zenon
<1>4. pc[p] = "irelse" => \A q \in Procs : fd[q] # ip[p] /\ (ip[q] = ip[p] => q = p)
  <2>1. pc[p] = "irelse" => ref[ip[p]] = 1 /\ ip[p] \in Slots
    BY <1>0, <1>2, Zenon DEF AloneInv, After
  <2>q. QED BY <2>1, Held
\* Where p is, and what it holds.
<1>5. ASSUME ValidKept(p),
             \/ pc'[p] \notin After /\ (fd'[p] = fd[p] \/ (pc[p] \in After \ {"irelse"} /\ fd'[p] = ip[p]))
             \/ fd'[p] = fd[p] /\ ip'[p] = ip[p] /\ pc[p] # "irelse" /\ (pc[p] \in After \/ valid'[ip[p]])
             \/ fd'[p] = 0 /\ ip'[p] = fd[p] /\ fd[p] # 0 /\ pc[p] # "irelse"
      PROVE  \A q \in Procs : Goal(q)
  <2>1. ASSUME NEW q \in Procs, q # p PROVE Goal(q)
    <3>1. pc[q] \in After => valid'[ip[q]]
      BY <1>1, <1>2, <1>3, <1>4, <1>5, <2>1, Zenon DEF ValidKept
    <3>2. fd[q] # 0 => valid'[fd[q]]
      BY <1>0, <1>1, <1>3, <1>4, <1>5, <2>1, Zenon DEF ValidKept
    <3>q. QED BY <1>0, <2>1, <3>1, <3>2, Zenon DEF Only
  <2>2. fd[p] # 0 => valid'[fd[p]]
    BY <1>0, <1>1, <1>3, <1>4, <1>5, Zenon DEF ValidKept
  <2>3. pc[p] \in After /\ pc[p] # "irelse" => valid'[ip[p]]
    BY <1>1, <1>2, <1>3, <1>5, Zenon DEF ValidKept
  <2>4. Goal(p)
    BY <1>5, <2>2, <2>3, Zenon
  <2>q. QED BY <2>1, <2>4, Zenon
<1> USE DEF After, Locked, Goto
<1>6. CASE OpenLock(p) \/ CreateLock(p) \/ UnlinkLock(p) \/ LinkLock(p) \/ LinkBad(p)
  <2>1. ip[p] \in Slots /\ ilock(p) /\ UNCHANGED <<ip, fd>> /\ pc[p] # "irelse"
    BY <1>0, <1>6, Zenon DEF OpenLock, CreateLock, UnlinkLock, LinkLock, LinkBad,
       Local, Before
  <2>2. ValidKept(p) /\ valid'[ip[p]]
    BY <2>1, IlockValid, Zenon
  <2>q. QED BY <1>5, <2>1, <2>2, Zenon
<1>7. ASSUME NEW i, iget(p, i), pc[p] \in {"idle", "iget"}, pc'[p] \in Before, UNCHANGED fd
      PROVE  \A q \in Procs : Goal(q)
  BY <1>5, <1>7, IgetValid, Zenon DEF Before
<1>8. CASE CreateGet(p)
  BY <1>0, <1>7, <1>8, Zenon DEF CreateGet, Before
<1>9. ASSUME NEW n \in Names, OpenLookup(p, n) \/ Unlink(p, n) PROVE \A q \in Procs : Goal(q)
  BY <1>0, <1>7, <1>9, Zenon DEF OpenLookup, Lookup, Unlink, Before
<1>10. ASSUME NEW n \in Names, NEW m \in Names, LinkLookup(p, n, m) PROVE \A q \in Procs : Goal(q)
  BY <1>0, <1>7, <1>10, Zenon DEF LinkLookup, Lookup, Before
<1>11. ASSUME NEW n \in Names, Create(p, n) PROVE \A q \in Procs : Goal(q)
  BY <1>0, <1>5, <1>11, Zenon DEF Create, ValidKept, entryVars
<1>12. CASE IputRelease(p)
  <2>1. ValidKept(p)
    BY <1>0, <1>12, Zenon DEF IputRelease, ValidKept, TypeOK
  <2>2. pc'[p] \notin After /\ fd'[p] = fd[p]
    BY <1>0, <1>12, Zenon DEF IputRelease
  <2>q. QED BY <1>5, <2>1, <2>2, Zenon
<1>13. CASE ialloc(p) \/ CreateUpdate(p) \/ CreateLink(p) \/ OpenDone(p) \/ OpenFails(p) \/ Close(p)
  <2>1. ValidKept(p)
    BY <1>13, Zenon DEF ialloc, CreateUpdate, CreateLink, OpenDone, OpenFails, Close,
       entryVars, ValidKept
  <2>q. QED
    BY <1>0, <1>5, <1>13, <2>1, Zenon DEF ialloc, CreateUpdate, CreateLink, OpenDone,
       OpenFails, Close
<1>14. CASE IputTest(p) \/ IputTrunc(p) \/ IputFree(p) \/ UnlinkErase(p) \/ DropLink(p) \/ LinkAdd(p) \/ LinkNew(p)
  <2>1. ValidKept(p)
    BY <1>14, Zenon DEF IputTest, IputTrunc, IputFree, UnlinkErase, DropLink, LinkAdd,
       LinkNew, entryVars, ValidKept
  <2>q. QED
    BY <1>0, <1>5, <1>14, <2>1, Zenon DEF IputTest, IputTrunc, IputFree, UnlinkErase,
       DropLink, LinkAdd, LinkNew
<1>q. QED BY <1>6, <1>8, <1>9, <1>10, <1>11, <1>12, <1>13, <1>14, Zenon
           DEF Acts, create, iput, sys_open, sys_unlink, sys_link

-----------------------------------------------------------------------------
(* Entries are copies of what is on disk *)

\* A step ends a release only by finishing it.
LEMMA FreedKept ==
  ASSUME NEW p \in Procs, Only(p), pc[p] # "irelse", NEW s, Freed(s)
  PROVE  Freed(s)'
BY Zenon DEF Freed, Only

\* Before iput's release no entry of an inode held by one call only is Freed.
LEMMA NotFreed ==
  ASSUME RefsCounted, AloneInv, ~raced, NEW p \in Procs, ip[p] \in Slots, pc[p] # "irelse"
  PROVE  ~Freed(ip[p])
<1>1. ASSUME NEW q \in Procs, pc[q] = "irelse", ip[q] = ip[p] PROVE FALSE
  <2>1. ref[ip[p]] = 1
    BY <1>1, Zenon DEF AloneInv
  <2>q. QED BY <1>1, <2>1, Held, Zenon
<1>q. QED BY <1>1, Zenon DEF Freed

\* Steps that write neither the disk nor a copy.
LEMMA CopyKept ==
  ASSUME CopyInv, AloneInv, ~raced, NEW p \in Procs, Only(p), EntriesKept,
         UNCHANGED <<dtype, dnlink, type, nlink>>,
         \A s \in Slots : ref'[s] > 0 /\ valid'[s] => ref[s] > 0 /\ valid[s],
         pc[p] = "irelse" => ~(ref'[ip[p]] > 0)
  PROVE  CopyInv'
<1>1. ASSUME NEW s \in Slots, ref'[s] > 0, valid'[s], ~Freed(s)'
      PROVE  nlink'[s] = dnlink'[inum'[s]] /\ type'[s] = dtype'[inum'[s]]
  <2>1. ref[s] > 0 /\ valid[s] /\ inum'[s] = inum[s]
    BY <1>1, Zenon DEF EntriesKept
  <2>2. ~Freed(s)
    BY <1>1, Zenon DEF Freed, Only
  <2>q. QED BY <2>1, <2>2, Zenon DEF CopyInv
<1>q. QED BY <1>1, Zenon DEF CopyInv

LEMMA CopyLock ==
  ASSUME TypeOK, CopyInv, ~raced, NEW p \in Procs, Only(p), pc[p] # "irelse",
         UNCHANGED <<dtype, dnlink, inum, ref>>, ip[p] \in Slots, ilock(p)
  PROVE  CopyInv'
<1>1. ASSUME NEW s \in Slots, ref'[s] > 0, valid'[s], ~Freed(s)'
      PROVE  nlink'[s] = dnlink'[inum'[s]] /\ type'[s] = dtype'[inum'[s]]
  <2>1. ~Freed(s)
    BY <1>1, FreedKept, Zenon
  <2>2. CASE s = ip[p] /\ ~valid[s]
    BY <2>2, Zenon DEF ilock, TypeOK
  <2>3. CASE s # ip[p] \/ valid[s]
    <3>1. valid[s] /\ type'[s] = type[s] /\ nlink'[s] = nlink[s]
      BY <1>1, <2>3, Zenon DEF ilock, TypeOK
    <3>q. QED BY <1>1, <2>1, <3>1, Zenon DEF CopyInv
  <2>q. QED BY <2>2, <2>3, Zenon
<1>q. QED BY <1>1, Zenon DEF CopyInv

\* An iupdate of what the entry holds.
LEMMA CopyUpdate ==
  ASSUME TypeOK, EntryInv, RefsCounted, CopyInv, ~raced, NEW p \in Procs, Only(p), pc[p] # "irelse",
         UNCHANGED <<inum, ref, valid>>, ip[p] \in Slots, ref[ip[p]] > 0,
         NEW t \in {0, 1}, NEW n \in Int, Moves(type, ip[p], t, type'), Moves(nlink, ip[p], n, nlink'),
         iupdate(ip[p], t, n)
  PROVE  CopyInv'
<1>0. inum[ip[p]] \in Inums
  BY Zenon DEF EntryInv
<1>1. ASSUME NEW s \in Slots, ref'[s] > 0, valid'[s], ~Freed(s)'
      PROVE  nlink'[s] = dnlink'[inum'[s]] /\ type'[s] = dtype'[inum'[s]]
  <2>1. ~Freed(s)
    BY <1>1, FreedKept, Zenon
  <2>2. CASE s = ip[p]
    BY <1>0, <2>2, Zenon DEF Moves, iupdate, TypeOK
  <2>3. CASE s # ip[p]
    <3>1. inum[s] # inum[ip[p]] /\ inum[s] \in Inums
      BY <1>1, <2>3, Zenon DEF RefsCounted, EntryInv
    <3>2. /\ nlink'[s] = nlink[s] /\ type'[s] = type[s]
          /\ dtype'[inum[s]] = dtype[inum[s]] /\ dnlink'[inum[s]] = dnlink[inum[s]]
      BY <1>0, <2>3, <3>1, Zenon DEF Moves, iupdate, TypeOK
    <3>q. QED BY <1>1, <2>1, <3>2, Zenon DEF CopyInv
  <2>q. QED BY <2>2, <2>3, Zenon
<1>q. QED BY <1>1, Zenon DEF CopyInv

\* No call but an iput that has freed it has an inode that is free.
LEMMA FreeHeld ==
  ASSUME TypeOK, RefsCounted, LinksCounted, ~raced, ~panicked,
         NEW i \in Inums, dtype[i] = 0, NEW s \in Slots, ref[s] > 0, inum[s] = i
  PROVE  Freed(s)
<1>1. ~Live(i)
  BY Zenon DEF LinksCounted
<1>2. PICK q \in Procs : ip[q] = s \/ fd[q] = s
  BY Holder, Zenon
<1>3. s # 0
  BY DEF Slots
<1>q. QED BY <1>1, <1>2, <1>3, Zenon DEF Live, Freed

LEMMA CopyStep ==
  ASSUME TypeOK, CallInv, EntryInv, RefsCounted, ValidInv, AloneInv, CopyInv, LinksCounted,
         ~panicked, NEW p \in Procs, Acts(p)
  PROVE  CopyInv'
<1>s. SUFFICES ASSUME ~raced' PROVE CopyInv'
  BY Zenon DEF CopyInv
<1>0. ~raced /\ Local(p) /\ Only(p) /\ EntriesKept
  <2>0. ~raced
    BY <1>s, RacedStays, Zenon
  <2>q. QED BY <2>0, StepOnly, Zenon DEF CallInv
<1>1. ip[p] # 0 => ip[p] \in Slots /\ ref[ip[p]] > 0
  <2>1. ip[p] # 0 => ip[p] \in Slots
    BY DEF TypeOK, Slots
  <2>q. QED BY <2>1, Held, Zenon
<1>2. CASE OpenLock(p) \/ CreateLock(p) \/ UnlinkLock(p) \/ LinkLock(p) \/ LinkBad(p)
  <2>1. /\ ip[p] \in Slots /\ ilock(p) /\ UNCHANGED <<dtype, dnlink, inum, ref>>
        /\ pc[p] # "irelse"
    BY <1>0, <1>1, <1>2, Zenon DEF OpenLock, CreateLock, UnlinkLock, LinkLock, LinkBad,
       Local, Before, After,
         Locked, diskVars
  <2>q. QED BY <1>0, <2>1, CopyLock, Zenon
<1>3. ASSUME NEW i, iget(p, i), pc[p] # "irelse", UNCHANGED <<dtype, dnlink, type, nlink>> PROVE CopyInv'
  <2>1. \A s \in Slots : ref'[s] > 0 /\ valid'[s] => ref[s] > 0 /\ valid[s]
    BY <1>3, IgetCases DEF TypeOK
  <2>q. QED BY <1>0, <1>3, <2>1, CopyKept, Zenon
<1>4. CASE CreateGet(p)
  BY <1>3, <1>4, Zenon DEF CreateGet, diskVars, copyVars
<1>5. ASSUME NEW n \in Names, OpenLookup(p, n) \/ Unlink(p, n) PROVE CopyInv'
  BY <1>3, <1>5, Zenon DEF OpenLookup, Lookup, Unlink, diskVars, copyVars
<1>6. ASSUME NEW n \in Names, NEW m \in Names, LinkLookup(p, n, m) PROVE CopyInv'
  BY <1>3, <1>6, Zenon DEF LinkLookup, Lookup, diskVars, copyVars
<1>7. ASSUME UNCHANGED <<dtype, dnlink, type, nlink, ref, valid>>, pc[p] # "irelse" PROVE CopyInv'
  BY <1>0, <1>7, CopyKept, Zenon
<1>8. CASE \/ \E n \in Names : Create(p, n)
           \/ CreateLink(p) \/ OpenDone(p) \/ OpenFails(p) \/ Close(p) \/ UnlinkErase(p) \/ LinkNew(p)
  BY <1>7, <1>8, Zenon DEF Create, CreateLink, OpenDone, OpenFails, Close, UnlinkErase,
     LinkNew, diskVars, copyVars,
       entryVars
<1>9. CASE IputTest(p)
  <2>1. /\ UNCHANGED <<dtype, dnlink, type, nlink, valid>> /\ pc[p] = "iput"
        /\ \A s \in Slots : ref'[s] > 0 => ref[s] > 0
    BY <1>9 DEF IputTest, TypeOK, diskVars, copyVars
  <2>q. QED BY <1>0, <2>1, CopyKept, Zenon
<1>10. CASE IputRelease(p)
  <2>1. ref[ip[p]] = 1 /\ ip[p] \in Slots
    BY <1>0, <1>1, <1>10, Zenon DEF IputRelease, AloneInv, Local, After
  <2>2. /\ UNCHANGED <<dtype, dnlink, type, nlink>> /\ ~(ref'[ip[p]] > 0)
        /\ \A s \in Slots : ref'[s] > 0 /\ valid'[s] => ref[s] > 0 /\ valid[s]
    BY <1>10, <2>1 DEF IputRelease, TypeOK, diskVars, copyVars
  <2>q. QED BY <1>0, <2>2, CopyKept, Zenon
<1>11. CASE ialloc(p)
  <2>1. CASE UNCHANGED <<dtype, dnlink>>
    BY <1>7, <1>11, <2>1, Zenon DEF ialloc, copyVars, entryVars
  <2>2. CASE ~UNCHANGED <<dtype, dnlink>>
    <3>1. /\ num[p] \in Inums /\ dtype[num[p]] = 0 /\ pc[p] = "ialloc"
          /\ dtype' = [dtype EXCEPT ![num[p]] = 1] /\ dnlink' = [dnlink EXCEPT ![num[p]] = 0]
          /\ UNCHANGED <<type, nlink, inum, ref, valid>>
      BY <1>11, <2>2, Zenon DEF ialloc, diskVars, copyVars, entryVars
    <3>2. ASSUME NEW s \in Slots, ref'[s] > 0, valid'[s], ~Freed(s)'
          PROVE  nlink'[s] = dnlink'[inum'[s]] /\ type'[s] = dtype'[inum'[s]]
      <4>1. ~Freed(s)
        BY <1>0, <3>1, <3>2, FreedKept, Zenon
      <4>2. inum[s] # num[p]
        BY <1>0, <3>1, <3>2, <4>1, FreeHeld, Zenon
      <4>3. nlink[s] = dnlink[inum[s]] /\ type[s] = dtype[inum[s]]
        BY <1>0, <3>1, <3>2, <4>1, Zenon DEF CopyInv
      <4>4. dtype'[inum[s]] = dtype[inum[s]] /\ dnlink'[inum[s]] = dnlink[inum[s]]
        BY <3>1, <4>2 DEF TypeOK
      <4>q. QED BY <3>1, <4>3, <4>4, Zenon
    <3>q. QED BY <3>2, Zenon DEF CopyInv
  <2>q. QED BY <2>1, <2>2, Zenon
<1>12. ASSUME ip[p] \in Slots, pc[p] # "irelse", UNCHANGED <<inum, ref, valid>>,
              NEW t \in {0, 1}, NEW n \in Int, Moves(type, ip[p], t, type'), Moves(nlink, ip[p], n, nlink'),
              iupdate(ip[p], t, n)
       PROVE  CopyInv'
  <2>1. ref[ip[p]] > 0
    BY <1>12, Held, Zenon
  <2>q. QED BY <1>0, <1>12, <2>1, CopyUpdate, Zenon
<1>13. ip[p] \in Slots => /\ type[ip[p]] \in {0, 1} /\ nlink[ip[p]] \in Int
                          /\ Moves(type, ip[p], type[ip[p]], type) /\ Moves(nlink, ip[p], nlink[ip[p]], nlink)
  BY Zenon DEF TypeOK, Moves
<1>14. CASE CreateUpdate(p) \/ DropLink(p) \/ LinkAdd(p)
  <2>1. /\ ip[p] \in Slots /\ pc[p] # "irelse" /\ UNCHANGED <<inum, ref, valid, type>>
    BY <1>0, <1>1, <1>14, Zenon DEF CreateUpdate, DropLink, LinkAdd, Local, After,
       Locked, entryVars
  <2>2. \E n \in Int : Moves(nlink, ip[p], n, nlink') /\ iupdate(ip[p], type[ip[p]], n)
    <3>1. CASE CreateUpdate(p)
      <4>1. Moves(nlink, ip[p], 1, nlink') /\ iupdate(ip[p], type[ip[p]], 1) /\ 1 \in Int
        BY <3>1 DEF CreateUpdate, Moves
      <4>q. QED BY <4>1, Zenon
    <3>2. nlink[ip[p]] + 1 \in Int /\ nlink[ip[p]] + (-1) \in Int
      BY <1>13, <2>1
    <3>3. CASE DropLink(p)
      BY <3>2, <3>3, Zenon DEF DropLink, AddLink, Moves
    <3>4. CASE LinkAdd(p)
      BY <3>2, <3>4, Zenon DEF LinkAdd, AddLink, Moves
    <3>q. QED BY <1>14, <3>1, <3>3, <3>4, Zenon
  <2>q. QED BY <1>12, <1>13, <2>1, <2>2, Zenon
<1>15. CASE IputTrunc(p)
  <2>1. /\ ip[p] \in Slots /\ pc[p] # "irelse" /\ UNCHANGED <<inum, ref, valid, type, nlink>>
        /\ iupdate(ip[p], type[ip[p]], nlink[ip[p]])
    BY <1>0, <1>1, <1>15, Zenon DEF IputTrunc, Local, After, entryVars, copyVars
  <2>q. QED BY <1>12, <1>13, <2>1, Zenon
<1>16. CASE IputFree(p)
  <2>1. /\ ip[p] \in Slots /\ pc[p] # "irelse" /\ UNCHANGED <<inum, ref, valid, nlink>>
        /\ Moves(type, ip[p], 0, type') /\ iupdate(ip[p], 0, nlink[ip[p]])
    BY <1>0, <1>1, <1>16, Zenon DEF IputFree, Local, After, entryVars, copyVars, Moves
  <2>q. QED BY <1>12, <1>13, <2>1, Zenon
<1>q. QED BY <1>2, <1>4, <1>5, <1>6, <1>8, <1>9, <1>10, <1>11, <1>14, <1>15, <1>16,
             Zenon
           DEF Acts, create, iput, sys_open, sys_unlink, sys_link

-----------------------------------------------------------------------------
(* Who makes or frees an inode is alone *)

\* The counts a step changes.
LEMMA RefCases ==
  ASSUME TypeOK, CallInv, ~panicked, NEW p \in Procs, Acts(p)
  PROVE  \/ UNCHANGED ref /\ pc[p] # "irelse"
         \/ /\ ip[p] \in Slots /\ pc[p] \in {"iput", "irelse"}
            /\ ref' = [ref EXCEPT ![ip[p]] = @ - 1] /\ UNCHANGED inum
         \/ /\ pc[p] \in {"idle", "iget"} /\ pc'[p] \in Before /\ ip[p] = 0
            /\ \E i \in Inums : /\ iget(p, i)
                                /\ \/ Links(i) # {} /\ pc[p] = "idle"
                                   \/ pc[p] = "iget" /\ i = num[p]
<1>0. /\ Local(p) /\ (ip[p] # 0 => ip[p] \in Slots) /\ pc \in [Procs -> Labels]
      /\ \A n \in Names : dir[n] # 0 => dir[n] \in Inums
  <2>1. Local(p)
    BY Zenon DEF CallInv
  <2>q. QED BY <2>1 DEF TypeOK, Slots, Inums
<1>1. CASE \/ IputTrunc(p) \/ IputFree(p) \/ ialloc(p) \/ CreateLock(p) \/ CreateUpdate(p) \/ CreateLink(p)
           \/ sys_open(p) \/ sys_unlink(p) \/ sys_link(p) \/ Close(p) \/ \E n \in Names : Create(p, n)
  BY <1>1, Zenon DEF IputTrunc, IputFree, ialloc, CreateLock, CreateUpdate, CreateLink,
     sys_open, OpenLock, OpenDone,
       OpenFails, sys_unlink, UnlinkLock, UnlinkErase, DropLink, sys_link, LinkLock,
       LinkAdd, LinkNew,
       LinkBad, Close, Create, entryVars
<1>2. CASE IputTest(p) \/ IputRelease(p)
  BY <1>0, <1>2, Zenon DEF IputTest, IputRelease, Local, After
<1>3. CASE CreateGet(p)
  BY <1>0, <1>3, Zenon DEF CreateGet, Local, Goto, Before
<1>4. ASSUME NEW n \in Names, OpenLookup(p, n) \/ Unlink(p, n)
      PROVE  /\ pc[p] = "idle" /\ pc'[p] \in Before /\ ip[p] = 0
             /\ \E i \in Inums : iget(p, i) /\ Links(i) # {}
  <2>1. iget(p, dir[n]) /\ dir[n] # 0 /\ pc[p] = "idle" /\ pc'[p] \in Before
    BY <1>0, <1>4, Zenon DEF OpenLookup, Lookup, Unlink, Goto, Before
  <2>2. n \in Links(dir[n])
    BY Zenon DEF Links
  <2>q. QED BY <1>0, <2>1, <2>2, Zenon DEF Local
<1>5. ASSUME NEW n \in Names, NEW m \in Names, LinkLookup(p, n, m)
      PROVE  /\ pc[p] = "idle" /\ pc'[p] \in Before /\ ip[p] = 0
             /\ \E i \in Inums : iget(p, i) /\ Links(i) # {}
  <2>1. iget(p, dir[n]) /\ dir[n] # 0 /\ pc[p] = "idle" /\ pc'[p] \in Before
    BY <1>0, <1>5, Zenon DEF LinkLookup, Lookup, Goto, Before
  <2>2. n \in Links(dir[n])
    BY Zenon DEF Links
  <2>q. QED BY <1>0, <2>1, <2>2, Zenon DEF Local
<1>q. QED BY <1>1, <1>2, <1>3, <1>4, <1>5, Zenon DEF Acts, create, iput

\* What a step writes to disk.
LEMMA DiskCases ==
  ASSUME TypeOK, CallInv, ~panicked, NEW p \in Procs, Acts(p)
  PROVE  \/ UNCHANGED <<dtype, dnlink>>
         \/ /\ ip[p] \in Slots /\ pc[p] \in {"itrunc", "ifree", "setlink", "drop", "addlink"}
            /\ \E t, n : iupdate(ip[p], t, n)
         \/ /\ pc[p] = "ialloc" /\ num[p] \in Inums /\ dtype[num[p]] = 0
            /\ dtype' = [dtype EXCEPT ![num[p]] = 1] /\ dnlink' = [dnlink EXCEPT ![num[p]] = 0]
<1>0. Local(p) /\ (ip[p] # 0 => ip[p] \in Slots)
  <2>1. Local(p)
    BY Zenon DEF CallInv
  <2>q. QED BY <2>1 DEF TypeOK, Slots
<1>1. CASE IputTrunc(p) \/ IputFree(p) \/ CreateUpdate(p) \/ DropLink(p) \/ LinkAdd(p)
  <2>1. ip[p] \in Slots /\ pc[p] \in {"itrunc", "ifree", "setlink", "drop", "addlink"}
    BY <1>0, <1>1, Zenon DEF IputTrunc, IputFree, CreateUpdate, DropLink, LinkAdd,
       Local, After, Locked
  <2>2. \E t, n : iupdate(ip[p], t, n)
    BY <1>1, Zenon DEF IputTrunc, IputFree, CreateUpdate, DropLink, LinkAdd, AddLink
  <2>q. QED BY <2>1, <2>2, Zenon
<1>2. CASE ialloc(p)
  BY <1>2, Zenon DEF ialloc, diskVars
<1>3. CASE \/ IputTest(p) \/ IputRelease(p) \/ CreateGet(p) \/ CreateLock(p) \/ CreateLink(p) \/ sys_open(p)
           \/ UnlinkLock(p) \/ UnlinkErase(p) \/ LinkLock(p) \/ LinkNew(p) \/ LinkBad(p) \/ Close(p)
  BY <1>3, Zenon DEF IputTest, IputRelease, CreateGet, CreateLock, CreateLink,
     sys_open, OpenLock, OpenDone, OpenFails,
       UnlinkLock, UnlinkErase, LinkLock, LinkNew, LinkBad, Close, diskVars
<1>4. ASSUME NEW n \in Names, OpenLookup(p, n) \/ Create(p, n) \/ Unlink(p, n) PROVE UNCHANGED <<dtype, dnlink>>
  BY <1>4, Zenon DEF OpenLookup, Lookup, Create, Unlink, diskVars
<1>5. ASSUME NEW n \in Names, NEW m \in Names, LinkLookup(p, n, m) PROVE UNCHANGED <<dtype, dnlink>>
  BY <1>5, Zenon DEF LinkLookup, Lookup, diskVars
<1>q. QED BY <1>1, <1>2, <1>3, <1>4, <1>5, Zenon DEF Acts, create, iput, sys_unlink,
             sys_link

\* An inode that counts no links has no name and no call owes it one.
LEMMA NoLinks ==
  ASSUME LinksCounted, ~raced, NEW i \in Inums, dnlink[i] = 0
  PROVE  Links(i) = {} /\ Owing(i) = {}
<1>1. Cardinality(Links(i)) + Cardinality(Owing(i)) = 0
  BY Zenon DEF LinksCounted
<1>2. Cardinality(Links(i)) = 0 /\ Cardinality(Owing(i)) = 0
  BY <1>1, Finite
<1>q. QED BY <1>2, Finite, FS_EmptySet, Zenon

\* The one call with an inode without links keeps it for itself.
Sole(q) == pc[q] \in {"itrunc", "ifree", "irelse", "create", "setlink"} /\ ip[q] # 0

LEMMA SoleKept ==
  ASSUME TypeOK, CallInv, EntryInv, RefsCounted, AloneInv, NewInv, LinksCounted, ~panicked, ~raced,
         ~raced', NEW p \in Procs, Acts(p), NEW q \in Procs, q # p, Sole(q)
  PROVE  /\ ref'[ip[q]] = 1 /\ inum'[ip[q]] = inum[ip[q]]
         /\ dnlink[inum[ip[q]]] = 0 => dnlink'[inum[ip[q]]] = 0
<1>0. ip[q] \in Slots /\ ref[ip[q]] = 1 /\ EntriesKept
  <2>1. ip[q] \in Slots
    BY DEF TypeOK, Slots, Sole
  <2>2. ref[ip[q]] = 1
    BY Zenon DEF AloneInv, Sole
  <2>q. QED BY <2>1, <2>2, StepOnly, Zenon
<1>1. ip[p] # ip[q] /\ inum[ip[q]] \in Inums
  BY <1>0, Held, Zenon DEF EntryInv
<1>2. inum'[ip[q]] = inum[ip[q]]
  BY <1>0 DEF EntriesKept
<1>3. dnlink[inum[ip[q]]] = 0 => dnlink'[inum[ip[q]]] = 0
  <2>1. ASSUME ip[p] \in Slots PROVE inum[ip[p]] # inum[ip[q]]
    <3>1. ref[ip[p]] > 0
      BY <2>1, Held, Zenon
    <3>q. QED BY <1>0, <1>1, <2>1, <3>1 DEF RefsCounted
  <2>2. dnlink \in [Inums -> Int]
    BY Zenon DEF TypeOK
  <2>q. QED BY <1>1, <2>1, <2>2, DiskCases, Zenon DEF iupdate
<1>4. ref'[ip[q]] = 1
  <2>1. ASSUME ip[p] = 0, NEW i \in Inums, iget(p, i), Links(i) # {} \/ (pc[p] = "iget" /\ i = num[p])
        PROVE  ref'[ip[q]] = 1
    <3>1. ASSUME ref[ip[q]] > 0, inum[ip[q]] = i, raced' = (raced \/ Freed(ip[q])) PROVE FALSE
      <4>1. ~Freed(ip[q])
        BY <3>1, Zenon
      <4>2. pc[q] # "irelse"
        BY <4>1, Zenon DEF Freed
      <4>3. dnlink[i] = 0
        BY <3>1, <4>2, Zenon DEF AloneInv, Sole
      <4>4. Links(i) = {}
        BY <4>3, NoLinks, Zenon
      <4>q. QED BY <1>0, <2>1, <3>1, <4>1, <4>4, Zenon DEF NewInv
    <3>q. QED BY <1>0, <2>1, <3>1, IgetCases DEF TypeOK
  <2>2. ref \in [Slots -> Int]
    BY DEF TypeOK
  <2>q. QED BY <1>0, <1>1, <2>1, <2>2, RefCases, Zenon
<1>q. QED BY <1>2, <1>3, <1>4, Zenon

LEMMA AloneStep ==
  ASSUME TypeOK, CallInv, EntryInv, RefsCounted, ValidInv, CopyInv, AloneInv, NewInv, LinksCounted, ~panicked,
         NEW p \in Procs, Acts(p)
  PROVE  AloneInv'
<1> DEFINE Goal(q) == /\ pc'[q] \in {"itrunc", "ifree", "irelse"} => ref'[ip'[q]] = 1
                      /\ pc'[q] \in {"itrunc", "ifree"} => dnlink'[inum'[ip'[q]]] = 0
                      /\ pc'[q] \in {"create", "setlink"} /\ ip'[q] # 0 =>
                           ref'[ip'[q]] = 1 /\ dnlink'[inum'[ip'[q]]] = 0
<1>s. SUFFICES ASSUME ~raced' PROVE \A q \in Procs : Goal(q)
  BY Zenon DEF AloneInv
<1>r. ~raced
  BY <1>s, RacedStays, Zenon
<1>0. Local(p) /\ Only(p) /\ EntriesKept /\ pc \in [Procs -> Labels] /\ (ip[p] # 0 => ip[p] \in Slots)
  <2>1. Local(p) /\ Only(p) /\ EntriesKept
    BY StepOnly, Zenon DEF CallInv
  <2>q. QED BY <2>1 DEF TypeOK, Slots
<1>1. ASSUME NEW q \in Procs, q # p PROVE Goal(q)
  <2>1. pc'[q] = pc[q] /\ ip'[q] = ip[q]
    BY <1>0, <1>1, Zenon DEF Only
  <2>2. pc[q] \in {"itrunc", "ifree", "irelse"} => ip[q] # 0
    BY Zenon DEF CallInv, Local, After
  <2>3. CASE Sole(q)
    <3>1. /\ ref'[ip[q]] = 1 /\ inum'[ip[q]] = inum[ip[q]]
          /\ dnlink[inum[ip[q]]] = 0 => dnlink'[inum[ip[q]]] = 0
      BY <1>r, <1>s, <1>1, <2>3, SoleKept, Zenon
    <3>2. pc[q] # "irelse" => dnlink[inum[ip[q]]] = 0
      BY <1>r, <2>3, Zenon DEF AloneInv, Sole
    <3>q. QED BY <2>1, <3>1, <3>2, Zenon
  <2>4. CASE ~Sole(q)
    BY <2>1, <2>2, <2>4, Zenon DEF Sole
  <2>q. QED BY <2>3, <2>4, Zenon
<1>2. Goal(p)
  <2>1. CASE IputTest(p)
    <3>1. ip[p] \in Slots /\ ~Freed(ip[p])
      BY <1>r, <1>0, <2>1, NotFreed, Zenon DEF IputTest, Local, After
    <3>2. ASSUME Unused(ip[p]) PROVE ref[ip[p]] = 1 /\ dnlink[inum[ip[p]]] = 0
      BY <1>r, <3>1, <3>2 DEF Unused, CopyInv
    <3>q. QED BY <1>0, <2>1, <3>2, Zenon DEF IputTest, Goto, diskVars
  <2>2. CASE IputTrunc(p)
    <3>1. ip[p] \in Slots /\ ~Freed(ip[p])
      BY <1>r, <1>0, <2>2, NotFreed, Zenon DEF IputTrunc, Local, After
    <3>2. ref[ip[p]] = 1 /\ valid[ip[p]] /\ dnlink[inum[ip[p]]] = 0
      BY <1>r, <2>2, Zenon DEF IputTrunc, AloneInv, ValidInv, After
    <3>3. nlink[ip[p]] = 0 /\ inum[ip[p]] \in Inums
      BY <1>r, <3>1, <3>2 DEF CopyInv, EntryInv
    <3>4. UNCHANGED <<ref, inum, ip>> /\ pc'[p] = "ifree" /\ dnlink'[inum[ip[p]]] = 0
      BY <1>0, <2>2, <3>3, Zenon DEF IputTrunc, iupdate, Goto, entryVars, TypeOK
    <3>q. QED BY <3>2, <3>4, Zenon
  <2>3. CASE IputFree(p)
    <3>1. ref[ip[p]] = 1
      BY <1>r, <2>3, Zenon DEF IputFree, AloneInv
    <3>2. UNCHANGED <<ref, ip>> /\ pc'[p] = "irelse"
      BY <1>0, <2>3, Zenon DEF IputFree, Goto, entryVars
    <3>q. QED BY <3>1, <3>2, Zenon
  <2>4. CASE CreateGet(p)
    <3>1. /\ pc[p] = "iget" /\ iget(p, num[p]) /\ pc'[p] = "create" /\ UNCHANGED dnlink
          /\ num[p] \in Inums /\ ip[p] = 0
      BY <1>0, <2>4, Zenon DEF CreateGet, Goto, diskVars, Local
    <3>2. /\ dnlink[num[p]] = 0
          /\ \A s \in Slots : ref[s] > 0 /\ inum[s] = num[p] => Freed(s)
      BY <1>r, <3>1, Zenon DEF NewInv
    <3>3. CASE UNCHANGED ip
      BY <3>1, <3>3, Zenon
    <3>4. ASSUME NEW s \in Slots, ip' = [ip EXCEPT ![p] = s], ref' = [ref EXCEPT ![s] = @ + 1],
                 ref[s] = 0, inum' = [inum EXCEPT ![s] = num[p]]
          PROVE  Goal(p)
      BY <3>1, <3>2, <3>4 DEF TypeOK
    <3>5. ASSUME NEW s \in Slots, ref[s] > 0, inum[s] = num[p], raced' = (raced \/ Freed(s)) PROVE FALSE
      BY <1>s, <3>2, <3>5, Zenon
    <3>q. QED BY <3>1, <3>3, <3>4, <3>5, IgetCases
  <2>5. CASE CreateLock(p)
    <3>1. pc[p] = "create" /\ ip[p] # 0 /\ UNCHANGED <<ref, inum, ip, dnlink>> /\ pc'[p] = "setlink"
      BY <1>0, <2>5, Zenon DEF CreateLock, Goto, diskVars, Local, Before
    <3>q. QED BY <1>r, <3>1, Zenon DEF AloneInv
  <2>6. CASE \/ IputRelease(p) \/ ialloc(p) \/ CreateUpdate(p) \/ CreateLink(p) \/ sys_open(p)
             \/ sys_unlink(p) \/ sys_link(p) \/ Close(p)
    <3>1. pc'[p] \notin {"itrunc", "ifree", "irelse", "create", "setlink"}
      BY <1>0, <2>6, Zenon DEF IputRelease, ialloc, CreateUpdate, CreateLink, sys_open,
         OpenLock, OpenDone, OpenFails,
           sys_unlink, UnlinkLock, UnlinkErase, DropLink, sys_link, LinkLock, LinkAdd,
           LinkNew, LinkBad,
           Close, Goto
    <3>q. QED BY <3>1, Zenon
  <2>7. ASSUME NEW n \in Names, OpenLookup(p, n) \/ Create(p, n) \/ Unlink(p, n) PROVE Goal(p)
    BY <1>0, <2>7, Zenon DEF OpenLookup, Lookup, Create, Unlink, Goto
  <2>8. ASSUME NEW n \in Names, NEW m \in Names, LinkLookup(p, n, m) PROVE Goal(p)
    BY <1>0, <2>8, Zenon DEF LinkLookup, Lookup, Goto
  <2>q. QED BY <2>1, <2>2, <2>3, <2>4, <2>5, <2>6, <2>7, <2>8, Zenon DEF Acts, create,
               iput
<1>q. QED BY <1>1, <1>2, Zenon

LEMMA NewStep ==
  ASSUME TypeOK, CallInv, EntryInv, RefsCounted, AloneInv, NewInv, LinksCounted, ~panicked,
         NEW p \in Procs, Acts(p)
  PROVE  NewInv'
<1>s. SUFFICES ASSUME ~raced', NEW q \in Procs, pc'[q] = "iget"
               PROVE  /\ dnlink'[num'[q]] = 0
                      /\ \A s \in Slots : ref'[s] > 0 /\ inum'[s] = num'[q] => Freed(s)'
  BY Zenon DEF NewInv
<1>r. ~raced
  BY <1>s, RacedStays, Zenon
<1>0. Local(p) /\ Only(p) /\ EntriesKept /\ pc \in [Procs -> Labels] /\ (ip[p] # 0 => ip[p] \in Slots)
  <2>1. Local(p) /\ Only(p) /\ EntriesKept
    BY StepOnly, Zenon DEF CallInv
  <2>q. QED BY <2>1 DEF TypeOK, Slots
<1>1. ASSUME NEW s \in Slots, Freed(s), ref'[s] > 0 PROVE Freed(s)'
  <2>1. PICK r \in Procs : pc[r] = "irelse" /\ ip[r] = s
    BY <1>1, Zenon DEF Freed
  <2>2. CASE r = p
    <3>1. ref[s] = 1 /\ ip[p] = s /\ pc[p] = "irelse"
      BY <1>r, <2>1, <2>2, Zenon DEF AloneInv
    <3>2. ref \in [Slots -> Int]
      BY DEF TypeOK
    <3>q. QED BY <1>1, <3>1, <3>2, RefCases
  <2>q. QED BY <1>0, <2>1, <2>2, Zenon DEF Only, Freed
<1>2. CASE q # p
  <2>1. pc[q] = "iget" /\ num'[q] = num[q] /\ num[q] \in Inums /\ dirlock = q
    BY <1>s, <1>0, <1>2, Zenon DEF Only, CallInv, Local, InDir
  <2>2. /\ dnlink[num[q]] = 0
        /\ \A s \in Slots : ref[s] > 0 /\ inum[s] = num[q] => Freed(s)
    BY <1>r, <2>1, Zenon DEF NewInv
  <2>3. dnlink'[num[q]] = 0
    <3>1. ASSUME ip[p] \in Slots, pc[p] # "irelse" PROVE inum[ip[p]] # num[q]
      BY <1>r, <2>2, <3>1, NotFreed, Held, Zenon
    <3>2. dnlink \in [Inums -> Int]
      BY Zenon DEF TypeOK
    <3>q. QED BY <2>1, <2>2, <3>1, <3>2, DiskCases, Zenon DEF iupdate
  <2>4. ASSUME NEW s \in Slots, ref'[s] > 0, inum'[s] = num[q] PROVE Freed(s)'
    <3>1. CASE ref[s] > 0
      BY <1>0, <1>1, <2>2, <2>4, <3>1, Zenon DEF EntriesKept
    <3>2. CASE ~(ref[s] > 0)
      <4>1. pc[p] # "iget"
        BY <1>0, <1>2, <2>1, Zenon DEF Local, InDir
      <4>2. ref \in [Slots -> Nat] /\ inum \in [Slots -> 0 .. ninodes]
        BY DEF TypeOK
      <4>3. PICK i \in Inums : iget(p, i) /\ Links(i) # {}
        BY <2>4, <3>2, <4>1, <4>2, RefCases
      <4>4. i = num[q]
        BY <2>4, <3>2, <4>2, <4>3, IgetCases
      <4>q. QED BY <1>r, <2>1, <2>2, <4>3, <4>4, NoLinks, Zenon
    <3>q. QED BY <3>1, <3>2, Zenon
  <2>q. QED BY <2>1, <2>3, <2>4, Zenon
<1>3. CASE q = p
  <2>1. ialloc(p)
    <3>1. CASE iput(p) \/ CreateGet(p) \/ CreateLock(p) \/ CreateUpdate(p) \/ CreateLink(p) \/ sys_open(p)
               \/ sys_unlink(p) \/ sys_link(p) \/ Close(p)
      BY <1>s, <1>0, <1>3, <3>1, Zenon DEF iput, IputTest, IputTrunc, IputFree,
         IputRelease, CreateGet, CreateLock,
           CreateUpdate, CreateLink, sys_open, OpenLock, OpenDone, OpenFails,
           sys_unlink, UnlinkLock, UnlinkErase, DropLink, sys_link, LinkLock, LinkAdd,
           LinkNew, LinkBad,
           Close, Goto
    <3>2. ASSUME NEW n \in Names, OpenLookup(p, n) \/ Create(p, n) \/ Unlink(p, n) PROVE FALSE
      BY <1>s, <1>0, <1>3, <3>2, Zenon DEF OpenLookup, Lookup, Create, Unlink, Goto
    <3>3. ASSUME NEW n \in Names, NEW m \in Names, LinkLookup(p, n, m) PROVE FALSE
      BY <1>s, <1>0, <1>3, <3>3, Zenon DEF LinkLookup, Lookup, Goto
    <3>q. QED BY <3>1, <3>2, <3>3, Zenon DEF Acts, create
  <2>2. /\ num[p] \in Inums /\ dtype[num[p]] = 0 /\ UNCHANGED <<num, ref, inum>> /\ pc[p] = "ialloc"
        /\ dnlink' = [dnlink EXCEPT ![num[p]] = 0]
    BY <1>s, <1>0, <1>3, <2>1, Zenon DEF ialloc, entryVars
  <2>3. dnlink'[num'[q]] = 0
    BY <1>3, <2>2, Zenon DEF TypeOK
  <2>4. ASSUME NEW s \in Slots, ref'[s] > 0, inum'[s] = num'[q] PROVE Freed(s)'
    <3>1. Freed(s)
      BY <1>r, <1>3, <2>2, <2>4, FreeHeld, Zenon
    <3>q. QED BY <1>1, <2>4, <3>1, Zenon
  <2>q. QED BY <2>3, <2>4, Zenon
<1>q. QED BY <1>2, <1>3, Zenon

-----------------------------------------------------------------------------
(* Links are counted, and inodes allocated while they are in use *)

Counted(i) == dnlink[i] = Cardinality(Links(i)) + Cardinality(Owing(i))
InUse(i) == ~panicked => (dtype[i] # 0 <=> Live(i))

\* Steps that keep an inode's count in step with its names and owed links ...
LEMMA CountedMove ==
  ASSUME TypeOK, RefsCounted, NEW p \in Procs, Only(p), EntriesKept, NEW i \in Inums, Counted(i),
         NEW l \in Int, Cardinality(Links(i))' = Cardinality(Links(i)) + l,
         dnlink'[i] = dnlink[i] + l + (IF Owes(p, i)' THEN 1 ELSE 0) - (IF Owes(p, i) THEN 1 ELSE 0)
  PROVE  Counted(i)'
<1>1. \A q \in Procs : q # p => (Owes(q, i)' <=> Owes(q, i))
  BY OthersKept, Zenon
<1>2. Cardinality(Owing(i))' = Cardinality(Owing(i)) + (IF Owes(p, i)' THEN 1 ELSE 0)
                                                     - (IF Owes(p, i) THEN 1 ELSE 0)
  BY <1>1, OwingMove, Zenon
<1>3. Cardinality(Links(i)) \in Nat /\ Cardinality(Owing(i)) \in Nat
  BY Finite, Zenon
<1>q. QED BY <1>2, <1>3 DEF Counted

\* ... and those that keep it in use, or out of use.
LEMMA LiveKept ==
  ASSUME TypeOK, RefsCounted, NEW p \in Procs, Only(p), EntriesKept, NEW i,
         Links(i)' # {} \/ Uses(p, i)' <=> Links(i) # {} \/ Uses(p, i)
  PROVE  Live(i)' <=> Live(i)
<1>1. \A q \in Procs : q # p => (Uses(q, i)' <=> Uses(q, i))
  BY OthersKept, Zenon
<1>2. Live(i)' <=> Links(i)' # {} \/ \E q \in Procs : Uses(q, i)'
  BY Zenon DEF Live, Uses
<1>3. Live(i) <=> Links(i) # {} \/ \E q \in Procs : Uses(q, i)
  BY LiveIs, Zenon
<1>4. ASSUME Live(i) PROVE Live(i)'
  <2>1. CASE \E q \in Procs : q # p /\ Uses(q, i)
    BY <1>1, <1>2, <2>1, Zenon
  <2>2. CASE Links(i) # {} \/ Uses(p, i)
    BY <1>2, <2>2, Zenon
  <2>q. QED BY <1>3, <1>4, <2>1, <2>2, Zenon
<1>5. ASSUME Live(i)' PROVE Live(i)
  <2>1. CASE \E q \in Procs : q # p /\ Uses(q, i)'
    BY <1>1, <1>3, <2>1, Zenon
  <2>2. CASE Links(i)' # {} \/ Uses(p, i)'
    BY <1>3, <2>2, Zenon
  <2>q. QED BY <1>2, <1>5, <2>1, <2>2, Zenon
<1>q. QED BY <1>4, <1>5, Zenon

\* An inode that a step does not touch, or keeps in use.
LEMMA QuietAt ==
  ASSUME TypeOK, RefsCounted, LinksCounted, ~raced, ~panicked, NEW p \in Procs, Only(p), EntriesKept,
         NEW i \in Inums, dnlink'[i] = dnlink[i], dtype'[i] = dtype[i], Links(i)' = Links(i),
         Owes(p, i)' <=> Owes(p, i),
         panicked' \/ Links(i) # {} \/ (Uses(p, i)' <=> Uses(p, i))
  PROVE  Counted(i)' /\ InUse(i)'
<1>0. Counted(i) /\ (dtype[i] # 0 <=> Live(i))
  BY Zenon DEF LinksCounted, Counted
<1>1. dnlink[i] \in Int /\ Cardinality(Links(i)) \in Nat
  BY Finite, Zenon DEF TypeOK
<1>2. Counted(i)'
  <2>0. PICK l \in Int : l = 0
    OBVIOUS
  <2>1. Cardinality(Links(i))' = Cardinality(Links(i)) + l
    BY <1>1, <2>0
  <2>2. dnlink'[i] = dnlink[i] + l + (IF Owes(p, i)' THEN 1 ELSE 0) - (IF Owes(p, i) THEN 1 ELSE 0)
    BY <1>1, <2>0
  <2>q. QED BY <1>0, <2>1, <2>2, CountedMove, Zenon
<1>3. InUse(i)'
  <2>1. ASSUME ~panicked' PROVE Live(i)' <=> Live(i)
    <3>1. Links(i)' # {} \/ Uses(p, i)' <=> Links(i) # {} \/ Uses(p, i)
      BY <2>1, Zenon
    <3>q. QED BY <3>1, LiveKept, Zenon
  <2>q. QED BY <1>0, <2>1, Zenon DEF InUse
<1>q. QED BY <1>2, <1>3, Zenon

LEMMA AllCounted ==
  ASSUME \A i \in Inums : Counted(i)' /\ InUse(i)'
  PROVE  LinksCounted'
BY Zenon DEF LinksCounted, Counted, InUse

\* Names and the disk stay as they are.
LEMMA LinksQuiet ==
  ASSUME TypeOK, RefsCounted, LinksCounted, ~raced, ~panicked, NEW p \in Procs, Only(p), EntriesKept,
         UNCHANGED <<dtype, dnlink, dir>>,
         \A i \in Inums : /\ Owes(p, i)' <=> Owes(p, i)
                          /\ panicked' \/ Links(i) # {} \/ (Uses(p, i)' <=> Uses(p, i))
  PROVE  LinksCounted'
<1>1. ASSUME NEW i \in Inums PROVE Counted(i)' /\ InUse(i)'
  <2>1. Links(i)' = Links(i)
    BY Zenon DEF Links
  <2>q. QED BY <1>1, <2>1, QuietAt, Zenon
<1>q. QED BY <1>1, AllCounted, Zenon

\* p's call goes on with its entry.
Owing4 == {"dirlink", "drop", "newlink", "badlink"}

LEMMA StayUses ==
  ASSUME NEW p \in Procs, NEW k, ip[p] # 0, ip'[p] = ip[p], fd'[p] = fd[p],
         inum[ip[p]] = k, inum'[ip[p]] = k, fd[p] # 0 => inum'[fd[p]] = inum[fd[p]], NEW i
  PROVE  /\ Owes(p, i) <=> pc[p] \in Owing4 /\ i = k
         /\ Owes(p, i)' <=> pc'[p] \in Owing4 /\ i = k
         /\ pc[p] \notin {"irelse", "iget"} /\ pc'[p] \notin {"irelse", "iget"} =>
              /\ Uses(p, i)' <=> Uses(p, i)
              /\ i = k => Uses(p, i)
BY Zenon DEF Owes, Uses, Owing4

\* It counts links.
LEMMA LinksCount ==
  ASSUME TypeOK, EntryInv, RefsCounted, LinksCounted, ~raced, ~panicked, NEW p \in Procs, Only(p), EntriesKept,
         NEW k \in Inums, NEW d \in Int, dtype' = [dtype EXCEPT ![k] = @], dnlink' = [dnlink EXCEPT ![k] = @ + d],
         UNCHANGED dir,
         \A i : /\ Owes(p, i) <=> pc[p] \in Owing4 /\ i = k
                /\ Owes(p, i)' <=> pc'[p] \in Owing4 /\ i = k
                /\ Uses(p, i)' <=> Uses(p, i),
         d = (IF pc'[p] \in Owing4 THEN 1 ELSE 0) - (IF pc[p] \in Owing4 THEN 1 ELSE 0)
  PROVE  LinksCounted'
<1>1. ASSUME NEW i \in Inums PROVE Counted(i)' /\ InUse(i)'
  <2>0. Counted(i) /\ (dtype[i] # 0 <=> Live(i))
    BY Zenon DEF LinksCounted, Counted
  <2>1. Links(i)' = Links(i)
    BY Zenon DEF Links
  <2>2. dnlink \in [Inums -> Int] /\ dnlink[i] \in Int /\ Cardinality(Links(i)) \in Nat /\ dtype'[i] = dtype[i]
    BY Finite, Zenon DEF TypeOK
  <2>3. Counted(i)'
    <3>1. Cardinality(Links(i))' = Cardinality(Links(i)) + 0
      BY <2>1, <2>2
    <3>2. dnlink'[i] = dnlink[i] + 0 + (IF Owes(p, i)' THEN 1 ELSE 0) - (IF Owes(p, i) THEN 1 ELSE 0)
      BY <2>2
    <3>q. QED BY <2>0, <3>1, <3>2, CountedMove
  <2>4. Live(i)' <=> Live(i)
    BY <2>1, LiveKept, Zenon
  <2>q. QED BY <2>0, <2>2, <2>3, <2>4, Zenon DEF InUse
<1>q. QED BY <1>1, AllCounted, Zenon

\* It makes or erases the name m.
LEMMA LinksName ==
  ASSUME TypeOK, EntryInv, RefsCounted, LinksCounted, ~raced, ~panicked, NEW p \in Procs, Only(p), EntriesKept,
         NEW k \in Inums, UNCHANGED <<dtype, dnlink>>,
         NEW m \in Names, NEW j \in {0, k}, Moves(dir, m, j, dir'), dir[m] = k - j,
         \A i : /\ Owes(p, i) <=> pc[p] \in Owing4 /\ i = k
                /\ Owes(p, i)' <=> pc'[p] \in Owing4 /\ i = k
                /\ Uses(p, i)' <=> Uses(p, i),
         Uses(p, k),
         pc[p] \in Owing4 <=> j = k, pc'[p] \in Owing4 <=> j = 0
  PROVE  LinksCounted'
<1>1. ASSUME NEW i \in Inums PROVE Counted(i)' /\ InUse(i)'
  <2>0. Counted(i) /\ (dtype[i] # 0 <=> Live(i))
    BY Zenon DEF LinksCounted, Counted
  <2>1. i \in Nat \ {0} /\ k \in Nat \ {0} /\ j \in Nat
    BY DEF Inums
  <2>2. dnlink[i] \in Int /\ Cardinality(Links(i)) \in Nat
    BY Finite, Zenon DEF TypeOK
  <2>3. Cardinality(Links(i))' = Cardinality(Links(i)) + (IF i = j THEN 1 ELSE 0)
                                                       - (IF i = dir[m] THEN 1 ELSE 0)
    BY LinksMove
  <2>4. Counted(i)'
    <3> DEFINE l == (IF i = j THEN 1 ELSE 0) - (IF i = dir[m] THEN 1 ELSE 0)
    <3>0. l \in Int
      OBVIOUS
    <3>1. Cardinality(Links(i))' = Cardinality(Links(i)) + l
      BY <2>2, <2>3, Zenon
    <3>2. dnlink'[i] = dnlink[i] + l + (IF Owes(p, i)' THEN 1 ELSE 0) - (IF Owes(p, i) THEN 1 ELSE 0)
      BY <2>1, <2>2
    <3> HIDE DEF l
    <3>q. QED BY <2>0, <3>0, <3>1, <3>2, CountedMove, Zenon
  <2>5. Live(i)' <=> Live(i)
    <3>1. CASE i = k
      BY <3>1, LiveKept, Zenon
    <3>2. CASE i # k
      <4>1. Links(i)' = Links(i)
        BY <2>1, <3>2 DEF Links, Moves, TypeOK
      <4>q. QED BY <4>1, LiveKept, Zenon
    <3>q. QED BY <3>1, <3>2, Zenon
  <2>q. QED BY <2>0, <2>4, <2>5, Zenon DEF InUse
<1>q. QED BY <1>1, AllCounted, Zenon

LEMMA LinksStep ==
  ASSUME IInv, ~panicked, NEW p \in Procs, Acts(p)
  PROVE  LinksCounted'
<1>s. SUFFICES ASSUME ~raced' PROVE LinksCounted'
  BY Zenon DEF LinksCounted
<1>i. /\ TypeOK /\ CallInv /\ NameInv /\ EntryInv /\ RefsCounted /\ LockInv
      /\ ValidInv /\ CopyInv /\ AloneInv /\ NewInv /\ LinksCounted
  BY Zenon DEF IInv
<1>r. ~raced
  BY <1>s, <1>i, RacedStays, Zenon
<1>0. /\ Local(p) /\ Only(p) /\ EntriesKept /\ pc \in [Procs -> Labels] /\ (ip[p] # 0 => ip[p] \in Slots)
      /\ (fd[p] # 0 => fd[p] \in Slots) /\ ip \in [Procs -> 0 .. NINODE] /\ fd \in [Procs -> 0 .. NINODE]
  <2>1. Local(p) /\ Only(p) /\ EntriesKept
    BY <1>i, StepOnly, Zenon DEF CallInv
  <2>q. QED BY <1>i, <2>1 DEF TypeOK, Slots
<1>1. fd[p] # 0 => inum'[fd[p]] = inum[fd[p]]
  BY <1>i, <1>0, Held, Zenon DEF EntriesKept
<1>2. ASSUME ip[p] # 0
      PROVE  /\ ip[p] \in Slots /\ ref[ip[p]] > 0 /\ inum[ip[p]] \in Inums /\ inum'[ip[p]] = inum[ip[p]]
             /\ pc[p] \in After \ {"irelse"} =>
                  nlink[ip[p]] = dnlink[inum[ip[p]]] /\ type[ip[p]] = dtype[inum[ip[p]]]
  <2>1. ip[p] \in Slots /\ ref[ip[p]] > 0
    BY <1>i, <1>0, <1>2, Held, Zenon
  <2>2. inum[ip[p]] \in Inums /\ inum'[ip[p]] = inum[ip[p]]
    BY <1>i, <1>0, <2>1, Zenon DEF EntryInv, EntriesKept
  <2>3. ASSUME pc[p] \in After \ {"irelse"}
        PROVE  nlink[ip[p]] = dnlink[inum[ip[p]]] /\ type[ip[p]] = dtype[inum[ip[p]]]
    <3>1. valid[ip[p]]
      BY <1>i, <1>r, <2>3, Zenon DEF ValidInv
    <3>2. ~Freed(ip[p])
      BY <1>i, <1>r, <2>1, <2>3, NotFreed, Zenon
    <3>q. QED BY <1>i, <1>r, <2>1, <3>1, <3>2, Zenon DEF CopyInv
  <2>q. QED BY <2>1, <2>2, <2>3, Zenon
<1>3. ASSUME ip[p] # 0, ip'[p] = ip[p], fd'[p] = fd[p],
             pc[p] \notin {"irelse", "iget"}, pc'[p] \notin {"irelse", "iget"}
      PROVE  \A i : /\ Owes(p, i) <=> pc[p] \in Owing4 /\ i = inum[ip[p]]
                    /\ Owes(p, i)' <=> pc'[p] \in Owing4 /\ i = inum[ip[p]]
                    /\ Uses(p, i)' <=> Uses(p, i)
                    /\ i = inum[ip[p]] => Uses(p, i)
  <2>1. PICK k : k = inum[ip[p]]
    OBVIOUS
  <2>2. inum[ip[p]] = k /\ inum'[ip[p]] = k
    BY <1>2, <1>3, <2>1, Zenon
  <2>q. QED BY <1>1, <1>3, <2>1, <2>2, StayUses
\* Calls that go on with their entry: they lock or unlock it ...
<1>4. ASSUME ip[p] # 0, UNCHANGED <<ip, fd, dtype, dnlink, dir>>,
             pc[p] \notin {"irelse", "iget"}, pc'[p] \notin {"irelse", "iget"},
             pc[p] \in Owing4 <=> pc'[p] \in Owing4
      PROVE  LinksCounted'
  BY <1>i, <1>r, <1>0, <1>3, <1>4, LinksQuiet, Zenon
<1>5. CASE OpenLock(p) \/ CreateLock(p) \/ UnlinkLock(p) \/ LinkLock(p) \/ LinkBad(p) \/ OpenFails(p)
  BY <1>0, <1>4, <1>5, Zenon DEF OpenLock, CreateLock, UnlinkLock, LinkLock, LinkBad,
     OpenFails, Local, Before, After,
       Locked, diskVars, dirVars, Goto, Owing4
<1>6. CASE IputTest(p) /\ Unused(ip[p])
  BY <1>0, <1>4, <1>6, Zenon DEF IputTest, Local, After, diskVars, dirVars, Goto, Owing4
<1>7. CASE LinkNew(p) /\ dir[name[p]] # 0
  BY <1>0, <1>4, <1>7, Zenon DEF LinkNew, Local, After, diskVars, dirVars, Goto, Owing4
\* ... or count a link ...
<1>8. ASSUME ip[p] # 0, UNCHANGED <<ip, fd, dir>>, pc[p] \in After \ {"irelse"},
             pc'[p] \notin {"irelse", "iget"}, NEW d \in Int, iupdate(ip[p], type[ip[p]], dnlink[inum[ip[p]]] + d),
             d = (IF pc'[p] \in Owing4 THEN 1 ELSE 0) - (IF pc[p] \in Owing4 THEN 1 ELSE 0)
      PROVE  LinksCounted'
  <2>1. PICK k \in Inums : k = inum[ip[p]]
    BY <1>2, <1>8, Zenon
  <2>2. dtype' = [dtype EXCEPT ![k] = @] /\ dnlink' = [dnlink EXCEPT ![k] = @ + d]
    BY <1>2, <1>8, <2>1, Zenon DEF iupdate
  <2>3. \A i : /\ Owes(p, i) <=> pc[p] \in Owing4 /\ i = k
               /\ Owes(p, i)' <=> pc'[p] \in Owing4 /\ i = k
               /\ Uses(p, i)' <=> Uses(p, i)
    BY <1>3, <1>8, <2>1, Zenon DEF After, Locked
  <2>q. QED BY <1>i, <1>r, <1>0, <1>8, <2>2, <2>3, LinksCount, Zenon
<1>9. CASE CreateUpdate(p)
  <2>1. ip[p] # 0 /\ pc[p] = "setlink" /\ pc'[p] = "dirlink" /\ UNCHANGED <<ip, fd, dir>>
        /\ iupdate(ip[p], type[ip[p]], 1)
    BY <1>0, <1>9, Zenon DEF CreateUpdate, Local, After, Locked, dirVars, Goto
  <2>2. dnlink[inum[ip[p]]] = 0
    BY <1>i, <1>r, <2>1, Zenon DEF AloneInv
  <2>3. iupdate(ip[p], type[ip[p]], dnlink[inum[ip[p]]] + 1)
    <3>1. dnlink[inum[ip[p]]] + 1 = 1
      BY <2>2
    <3>q. QED BY <2>1, <3>1, Zenon
  <2>q. QED BY <1>8, <2>1, <2>3 DEF After, Locked, Owing4
<1>10. CASE DropLink(p)
  <2>1. ip[p] # 0 /\ pc[p] = "drop" /\ pc'[p] = "iput" /\ UNCHANGED <<ip, fd, dir>>
        /\ iupdate(ip[p], type[ip[p]], nlink[ip[p]] + (-1))
    BY <1>0, <1>10, Zenon DEF DropLink, AddLink, Local, After, Locked, dirVars, Goto
  <2>2. nlink[ip[p]] = dnlink[inum[ip[p]]]
    BY <1>2, <2>1, Zenon DEF After, Locked
  <2>3. iupdate(ip[p], type[ip[p]], dnlink[inum[ip[p]]] + (-1))
    BY <2>1, <2>2, Zenon
  <2>q. QED BY <1>8, <2>1, <2>3 DEF After, Locked, Owing4
<1>11. CASE LinkAdd(p)
  <2>1. ip[p] # 0 /\ pc[p] = "addlink" /\ pc'[p] = "newlink" /\ UNCHANGED <<ip, fd, dir>>
        /\ iupdate(ip[p], type[ip[p]], nlink[ip[p]] + 1)
    BY <1>0, <1>11, Zenon DEF LinkAdd, AddLink, Local, After, Locked, dirVars, Goto
  <2>2. nlink[ip[p]] = dnlink[inum[ip[p]]]
    BY <1>2, <2>1, Zenon DEF After, Locked
  <2>3. iupdate(ip[p], type[ip[p]], dnlink[inum[ip[p]]] + 1)
    BY <2>1, <2>2, Zenon
  <2>q. QED BY <1>8, <2>1, <2>3 DEF After, Locked, Owing4
<1>12. CASE IputTrunc(p)
  <2>1. ip[p] # 0 /\ pc[p] = "itrunc" /\ pc'[p] = "ifree" /\ UNCHANGED <<ip, fd, dir>>
        /\ iupdate(ip[p], type[ip[p]], nlink[ip[p]])
    BY <1>0, <1>12, Zenon DEF IputTrunc, Local, After, Locked, dirVars, Goto
  <2>2. nlink[ip[p]] = dnlink[inum[ip[p]]]
    BY <1>2, <2>1, Zenon DEF After
  <2>3. dnlink[inum[ip[p]]] + 0 = nlink[ip[p]]
    <3>1. nlink[ip[p]] \in Int
      BY <1>i, <1>2, <2>1, Zenon DEF TypeOK
    <3>q. QED BY <2>2, <3>1
  <2>4. iupdate(ip[p], type[ip[p]], dnlink[inum[ip[p]]] + 0)
    BY <2>1, <2>3, Zenon
  <2>q. QED BY <1>8, <2>1, <2>4 DEF After, Owing4
\* ... or make or erase its name.
<1>13. ASSUME ip[p] # 0, UNCHANGED <<ip, fd, dtype, dnlink>>,
              pc[p] \notin {"irelse", "iget"}, pc'[p] \notin {"irelse", "iget"},
              NEW m \in Names, NEW j, Moves(dir, m, j, dir'),
              \/ j = inum[ip[p]] /\ dir[m] = 0 /\ pc[p] \in Owing4 /\ pc'[p] \notin Owing4
              \/ j = 0 /\ dir[m] = inum[ip[p]] /\ pc[p] \notin Owing4 /\ pc'[p] \in Owing4
       PROVE  LinksCounted'
  <2>1. PICK k \in Inums : k = inum[ip[p]]
    BY <1>2, <1>13, Zenon
  <2>2. \A i : /\ Owes(p, i) <=> pc[p] \in Owing4 /\ i = k
               /\ Owes(p, i)' <=> pc'[p] \in Owing4 /\ i = k
               /\ Uses(p, i)' <=> Uses(p, i)
    BY <1>3, <1>13, <2>1, Zenon
  <2>3. Uses(p, k)
    BY <1>3, <1>13, <2>1, Zenon
  <2>4. j \in {0, k} /\ dir[m] = k - j /\ (pc[p] \in Owing4 <=> j = k) /\ (pc'[p] \in Owing4 <=> j = 0)
    BY <1>13, <2>1 DEF Inums
  <2>q. QED BY <1>i, <1>r, <1>0, <1>13, <2>2, <2>3, <2>4, LinksName, Zenon
<1>14. CASE CreateLink(p)
  BY <1>i, <1>0, <1>13, <1>14, Zenon DEF CreateLink, NameInv, Local, Making, InDir,
     After, Locked, diskVars, Goto,
       Moves, Owing4
<1>15. CASE UnlinkErase(p)
  BY <1>i, <1>0, <1>13, <1>15, Zenon DEF UnlinkErase, NameInv, Local, InDir, After,
     Locked, diskVars, Goto,
       Moves, Owing4
<1>16. CASE LinkNew(p) /\ dir[name[p]] = 0
  BY <1>0, <1>13, <1>16, Zenon DEF LinkNew, Local, After, diskVars, Goto, Moves, Owing4
\* A file takes the call's reference, or gives it.
<1>z. 0 \notin Slots
  BY DEF Slots
<1>17. CASE OpenDone(p)
  <2>1. /\ pc[p] = "opened" /\ pc'[p] = "idle" /\ ip[p] # 0 /\ fd[p] = 0 /\ ip'[p] = 0 /\ fd'[p] = ip[p]
        /\ UNCHANGED <<dtype, dnlink, dir, inum>>
    BY <1>0, <1>17, Zenon DEF OpenDone, Local, After, Locked, diskVars, dirVars,
       entryVars, Goto
  <2>2. \A i \in Inums : (Owes(p, i)' <=> Owes(p, i)) /\ (Uses(p, i)' <=> Uses(p, i))
    BY <2>1, Zenon DEF Owes, Uses
  <2>q. QED BY <1>i, <1>r, <1>0, <2>1, <2>2, LinksQuiet, Zenon
<1>18. CASE Close(p)
  <2>1. /\ pc[p] = "idle" /\ pc'[p] = "iput" /\ ip[p] = 0 /\ fd[p] # 0 /\ fd'[p] = 0 /\ ip'[p] = fd[p]
        /\ UNCHANGED <<dtype, dnlink, dir, inum>>
    BY <1>0, <1>18, Zenon DEF Close, Local, diskVars, dirVars, entryVars, Goto
  <2>2. \A i \in Inums : (Owes(p, i)' <=> Owes(p, i)) /\ (Uses(p, i)' <=> Uses(p, i))
    BY <2>1, Zenon DEF Owes, Uses
  <2>q. QED BY <1>i, <1>r, <1>0, <2>1, <2>2, LinksQuiet
\* create and ialloc, until it finds a free inode ...
<1>19. ASSUME ip[p] = 0, pc[p] \in {"idle", "ialloc"}, pc'[p] = "ialloc", UNCHANGED <<ip, fd, inum, dtype, dnlink, dir>>
       PROVE  LinksCounted'
  <2>1. \A i \in Inums : (Owes(p, i)' <=> Owes(p, i)) /\ (Uses(p, i)' <=> Uses(p, i))
    BY <1>19, Zenon DEF Owes, Uses
  <2>q. QED BY <1>i, <1>r, <1>0, <1>19, <2>1, LinksQuiet, Zenon
<1>20. ASSUME NEW n \in Names, Create(p, n) PROVE LinksCounted'
  BY <1>0, <1>19, <1>20, Zenon DEF Create, Local, diskVars, entryVars, Goto
<1>21. CASE ialloc(p) /\ UNCHANGED pc
  BY <1>0, <1>19, <1>21, Zenon DEF ialloc, Local, diskVars, dirVars, entryVars, Goto
\* ... and allocates it.
<1>22. CASE ialloc(p) /\ pc' # pc
  <2>1. PICK k \in Inums : k = num[p]
    BY <1>22, Zenon DEF ialloc
  <2>2. /\ pc[p] = "ialloc" /\ pc'[p] = "iget" /\ ip[p] = 0 /\ fd[p] = 0 /\ dtype[k] = 0
        /\ dtype' = [dtype EXCEPT ![k] = 1] /\ dnlink' = [dnlink EXCEPT ![k] = 0]
        /\ UNCHANGED <<dir, ip, fd, num, inum>>
    BY <1>0, <1>22, <2>1, Zenon DEF ialloc, Local, Making, dirVars, entryVars, Goto
  <2>3. dtype'[k] = 1 /\ dnlink'[k] = 0 /\ \A i \in Inums : i # k => dtype'[i] = dtype[i] /\ dnlink'[i] = dnlink[i]
    BY <1>i, <2>2, Zenon DEF TypeOK
  <2>4. \A i : Links(i)' = Links(i)
    BY <2>2, Zenon DEF Links
  <2>5. ASSUME NEW i \in Inums, i # k PROVE Counted(i)' /\ InUse(i)'
    <3>1. (Owes(p, i)' <=> Owes(p, i)) /\ (Uses(p, i)' <=> Uses(p, i))
      BY <2>1, <2>2, <2>5, Zenon DEF Owes, Uses
    <3>q. QED BY <1>i, <1>r, <1>0, <2>3, <2>4, <2>5, <3>1, QuietAt, Zenon
  <2>6. ~Live(k)
    BY <1>i, <1>r, <2>2, Zenon DEF LinksCounted
  <2>7. Links(k)' = {} /\ Owing(k)' = {}
    <3>1. Links(k) = {} /\ \A q \in Procs : ~Uses(q, k)
      BY <2>6, LiveIs, Zenon
    <3>2. \A q \in Procs : q # p => (Owes(q, k)' <=> Owes(q, k))
      BY <1>i, <1>0, OthersKept, Zenon
    <3>3. \A q \in Procs : Owes(q, k) => Uses(q, k)
      BY Zenon DEF Owes, Uses
    <3>4. ~Owes(p, k)'
      BY <2>2, Zenon DEF Owes
    <3>5. \A q \in Procs : ~Owes(q, k)'
      BY <3>1, <3>2, <3>3, <3>4, Zenon
    <3>6. Owing(k)' = {q \in Procs : Owes(q, k)'}
      BY Zenon DEF Owing, Owes
    <3>q. QED BY <2>4, <3>1, <3>5, <3>6, Zenon
  <2>8. Counted(k)'
    BY <2>3, <2>7, FS_EmptySet DEF Counted
  <2>9. InUse(k)'
    <3>1. Uses(p, k)'
      BY <2>1, <2>2, Zenon DEF Uses
    <3>2. Live(k)'
      BY <3>1, Zenon DEF Live, Uses
    <3>q. QED BY <2>3, <3>2 DEF InUse
  <2>q. QED BY <2>5, <2>8, <2>9, AllCounted
\* The iget of an inode with a name, and of the new one.
<1>23. ASSUME pc[p] = "idle", pc'[p] \in Before, ip[p] = 0, NEW k \in Inums, iget(p, k), Links(k) # {},
              UNCHANGED <<dtype, dnlink, dir, fd>>
       PROVE  LinksCounted'
  <2>1. ip'[p] # 0 => inum'[ip'[p]] = k
    BY <1>i, <1>23, IgetEntry, Zenon
  <2>2. \A i \in Inums : /\ Owes(p, i)' <=> Owes(p, i)
                         /\ Links(i) # {} \/ (Uses(p, i)' <=> Uses(p, i))
    BY <1>1, <1>23, <2>1, Zenon DEF Owes, Uses, Before
  <2>q. QED BY <1>i, <1>r, <1>0, <1>23, <2>2, LinksQuiet, Zenon
<1>24. ASSUME NEW n \in Names, OpenLookup(p, n) \/ Unlink(p, n) PROVE LinksCounted'
  <2>1. /\ iget(p, dir[n]) /\ dir[n] # 0 /\ pc[p] = "idle" /\ pc'[p] \in Before
        /\ UNCHANGED <<dtype, dnlink, dir, fd>>
    BY <1>0, <1>24, Zenon DEF OpenLookup, Lookup, Unlink, Goto, Before, diskVars,
       dirVars
  <2>2. n \in Links(dir[n]) /\ dir[n] \in Inums
    BY <1>i, <2>1 DEF Links, TypeOK, Inums
  <2>q. QED BY <1>0, <1>23, <2>1, <2>2, Zenon DEF Local
<1>25. ASSUME NEW n \in Names, NEW m \in Names, LinkLookup(p, n, m) PROVE LinksCounted'
  <2>1. /\ iget(p, dir[n]) /\ dir[n] # 0 /\ pc[p] = "idle" /\ pc'[p] \in Before
        /\ UNCHANGED <<dtype, dnlink, dir, fd>>
    BY <1>0, <1>25, Zenon DEF LinkLookup, Lookup, Goto, Before, diskVars, dirVars
  <2>2. n \in Links(dir[n]) /\ dir[n] \in Inums
    BY <1>i, <2>1 DEF Links, TypeOK, Inums
  <2>q. QED BY <1>0, <1>23, <2>1, <2>2, Zenon DEF Local
<1>26. CASE CreateGet(p)
  <2>1. /\ pc[p] = "iget" /\ iget(p, num[p]) /\ pc'[p] = "create" /\ UNCHANGED <<dtype, dnlink, dir, fd, num>>
        /\ num[p] \in Inums /\ ip[p] = 0 /\ fd[p] = 0
    BY <1>0, <1>26, Zenon DEF CreateGet, Goto, diskVars, dirVars, Local, Making
  <2>2. (ip'[p] # 0 => inum'[ip'[p]] = num[p]) /\ (ip'[p] # 0 \/ panicked')
    BY <1>i, <2>1, IgetEntry, IgetLocal, Zenon
  <2>3. \A i \in Inums : /\ Owes(p, i)' <=> Owes(p, i)
                         /\ panicked' \/ (Uses(p, i)' <=> Uses(p, i))
    BY <2>1, <2>2, Zenon DEF Owes, Uses
  <2>q. QED BY <1>i, <1>r, <1>0, <2>1, <2>3, LinksQuiet
\* An iput that is not the last leaves a name or a holder, for which it is
\* ref, and then nlink, that it has looked at ...
<1>27. CASE IputTest(p) /\ ~Unused(ip[p])
  <2>1. /\ pc[p] = "iput" /\ pc'[p] = "idle" /\ ip[p] # 0 /\ ip'[p] = 0
        /\ UNCHANGED <<dtype, dnlink, dir, fd, inum>>
    BY <1>0, <1>27, Zenon DEF IputTest, Local, After, diskVars, dirVars, Goto
  <2>2. PICK s \in Slots : s = ip[p] /\ ref[s] > 0
    BY <1>2, <2>1, Zenon
  <2>3. PICK k \in Inums : k = inum[s]
    BY <1>2, <2>1, <2>2, Zenon
  <2>4. \A i : Links(i)' = Links(i)
    BY <2>1, Zenon DEF Links
  <2>5. \A i : ~Owes(p, i) /\ ~Owes(p, i)'
    BY <2>1, Zenon DEF Owes
  <2>6. ASSUME NEW i \in Inums, i # k PROVE Counted(i)' /\ InUse(i)'
    <3>1. Uses(p, i)' <=> Uses(p, i)
      BY <2>1, <2>2, <2>3, <2>6, Zenon DEF Uses
    <3>q. QED BY <1>i, <1>r, <1>0, <2>1, <2>4, <2>5, <3>1, QuietAt, Zenon
  <2>7. Links(k) # {} \/ (\E q \in Procs : fd[q] = s \/ (q # p /\ ip[q] = s /\ pc[q] # "irelse"))
    <3>1. CASE ref[s] # 1
      <4>1. \A q \in Procs : ip[q] = s => pc[q] # "irelse"
        BY <1>i, <1>r, <3>1, Zenon DEF AloneInv
      <4>q. QED BY <1>i, <2>2, <3>1, <4>1, Holder
    <3>2. CASE ref[s] = 1
      <4>1. valid[s] /\ nlink[s] # 0
        BY <1>i, <1>r, <1>27, <2>1, <2>2, <3>2, Zenon DEF ValidInv, After, Unused
      <4>2. dnlink[k] # 0
        BY <1>2, <2>1, <2>2, <2>3, <4>1, Zenon DEF After
      <4>3. dnlink[k] = Cardinality(Links(k)) + Cardinality(Owing(k))
        BY <1>i, <1>r, Zenon DEF LinksCounted
      <4>4. Owing(k) = {}
        <5>1. ASSUME NEW q \in Procs, Owes(q, k) PROVE FALSE
          <6>1. ip[q] \in Slots /\ inum[ip[q]] = k /\ pc[q] # "iput"
            BY <1>i, <5>1 DEF Owes, TypeOK, Slots
          <6>2. ip[q] = s
            <7>1. PICK t \in Slots : t = ip[q] /\ inum[t] = k
              BY <6>1, Zenon
            <7>2. ref[t] > 0
              BY <1>i, <7>1, Held, Zenon
            <7>q. QED BY <1>i, <2>2, <2>3, <7>1, <7>2, Zenon DEF RefsCounted
          <6>3. q = p
            BY <1>i, <2>2, <3>2, <6>2, Held, Zenon
          <6>q. QED BY <2>1, <6>1, <6>3, Zenon
        <5>q. QED BY <5>1, Zenon DEF Owing, Owes
      <4>5. Links(k) # {}
        BY <4>2, <4>3, <4>4, FS_EmptySet
      <4>q. QED BY <4>5, Zenon
    <3>q. QED BY <3>1, <3>2, Zenon
  <2>8. Live(k)'
    <3>1. ASSUME NEW q \in Procs, fd[q] = s PROVE Live(k)'
      <4>1. fd'[q] = s /\ inum'[s] = k /\ s # 0
        BY <1>z, <2>1, <2>2, <2>3, <3>1, Zenon
      <4>q. QED BY <4>1, Zenon DEF Live
    <3>2. ASSUME NEW q \in Procs, q # p, ip[q] = s, pc[q] # "irelse" PROVE Live(k)'
      <4>1. ip'[q] = s /\ pc'[q] # "irelse" /\ inum'[s] = k /\ s # 0
        BY <1>z, <1>0, <2>1, <2>2, <2>3, <3>2, Zenon DEF Only
      <4>q. QED BY <4>1, Zenon DEF Live
    <3>3. CASE Links(k) # {}
      BY <2>4, <3>3, Zenon DEF Live
    <3>q. QED BY <2>7, <3>1, <3>2, <3>3, Zenon
  <2>9. Live(k)
    BY <2>1, <2>2, <2>3, Zenon DEF Live
  <2>10. InUse(k)'
    BY <1>i, <1>r, <2>1, <2>8, <2>9, Zenon DEF InUse, LinksCounted
  <2>11. Counted(k)'
    <3>0. PICK l \in Int : l = 0
      OBVIOUS
    <3>1. dnlink[k] \in Int /\ Cardinality(Links(k)) \in Nat /\ Counted(k)
      BY <1>i, <1>r, Finite, Zenon DEF TypeOK, LinksCounted, Counted
    <3>2. Cardinality(Links(k))' = Cardinality(Links(k)) + l
      BY <2>4, <3>0, <3>1
    <3>3. dnlink'[k] = dnlink[k] + l + (IF Owes(p, k)' THEN 1 ELSE 0) - (IF Owes(p, k) THEN 1 ELSE 0)
      BY <2>1, <2>5, <3>0, <3>1
    <3>q. QED BY <1>i, <1>0, <3>1, <3>2, <3>3, CountedMove, Zenon
  <2>q. QED BY <2>6, <2>10, <2>11, AllCounted
\* ... the last frees the inode, which nobody else uses ...
<1>28. CASE IputFree(p)
  <2>1. /\ pc[p] = "ifree" /\ pc'[p] = "irelse" /\ ip[p] # 0
        /\ UNCHANGED <<dir, ip, fd, inum>> /\ iupdate(ip[p], 0, nlink[ip[p]])
    BY <1>0, <1>28, Zenon DEF IputFree, Local, After, dirVars, entryVars, Goto
  <2>2. PICK s \in Slots : s = ip[p] /\ ref[s] = 1
    BY <1>i, <1>r, <1>2, <2>1, Zenon DEF AloneInv
  <2>3. PICK k \in Inums : k = inum[s]
    BY <1>2, <2>1, <2>2, Zenon
  <2>4. dnlink[k] = 0 /\ nlink[s] = 0
    BY <1>i, <1>r, <1>2, <2>1, <2>2, <2>3, Zenon DEF AloneInv, After
  <2>5. /\ dtype'[k] = 0 /\ dnlink'[k] = 0
        /\ \A i \in Inums : i # k => dtype'[i] = dtype[i] /\ dnlink'[i] = dnlink[i]
    BY <1>i, <2>1, <2>2, <2>3, <2>4, Zenon DEF iupdate, TypeOK
  <2>6. \A i : Links(i)' = Links(i)
    BY <2>1, Zenon DEF Links
  <2>7. \A i : ~Owes(p, i) /\ ~Owes(p, i)'
    BY <2>1, Zenon DEF Owes
  <2>8. ASSUME NEW i \in Inums, i # k PROVE Counted(i)' /\ InUse(i)'
    <3>1. Uses(p, i)' <=> Uses(p, i)
      BY <2>1, <2>2, <2>3, <2>8, Zenon DEF Uses
    <3>q. QED BY <1>i, <1>r, <1>0, <2>5, <2>6, <2>7, <2>8, <3>1, QuietAt, Zenon
  <2>9. Links(k) = {} /\ Owing(k) = {}
    BY <1>i, <1>r, <2>4, NoLinks, Zenon
  <2>10. Counted(k)'
    <3>0. PICK l \in Int : l = 0
      OBVIOUS
    <3>1. dnlink[k] \in Int /\ Cardinality(Links(k)) \in Nat /\ Counted(k)
      BY <1>i, <1>r, Finite, Zenon DEF TypeOK, LinksCounted, Counted
    <3>2. Cardinality(Links(k))' = Cardinality(Links(k)) + l
      BY <2>6, <3>0, <3>1
    <3>3. dnlink'[k] = dnlink[k] + l + (IF Owes(p, k)' THEN 1 ELSE 0) - (IF Owes(p, k) THEN 1 ELSE 0)
      BY <2>4, <2>5, <2>7, <3>0, <3>1
    <3>q. QED BY <1>i, <1>0, <3>1, <3>2, <3>3, CountedMove, Zenon
  <2>11. ASSUME NEW q \in Procs, Uses(q, k)' PROVE FALSE
    <3>1. \A r \in Procs : fd[r] # s /\ (ip[r] = s => r = p)
      BY <1>i, <2>2, Held, Zenon
    <3>2. \A t \in Slots : ref[t] > 0 /\ inum[t] = k => t = s
      BY <1>i, <2>2, <2>3 DEF RefsCounted
    <3>3. fd[q] # 0 => inum[fd[q]] # k
      <4>1. fd[q] # 0 => fd[q] \in Slots
        BY <1>i DEF TypeOK, Slots
      <4>q. QED BY <1>i, <3>1, <3>2, <4>1, Held, ZenonT(30)
    <3>4. q # p /\ ip[q] # 0 => inum[ip[q]] # k
      <4>1. ip[q] # 0 => ip[q] \in Slots
        BY <1>i DEF TypeOK, Slots
      <4>q. QED BY <1>i, <3>1, <3>2, <4>1, Held, ZenonT(30)
    <3>5. q # p => ~(pc[q] = "iget" /\ num[q] = k)
      <4>1. ~Freed(s)
        BY <1>i, <1>r, <2>1, <2>2, NotFreed, Zenon
      <4>q. QED BY <1>i, <1>r, <2>2, <2>3, <4>1 DEF NewInv
    <3>6. CASE q = p
      BY <2>1, <2>11, <3>3, <3>6, Zenon DEF Uses
    <3>7. CASE q # p
      <4>1. Uses(q, k)
        BY <1>i, <1>0, <2>11, <3>7, OthersKept, Zenon
      <4>q. QED BY <3>3, <3>4, <3>5, <3>7, <4>1, Zenon DEF Uses
    <3>q. QED BY <3>6, <3>7, Zenon
  <2>12. ~Live(k)'
    BY <2>6, <2>9, <2>11, Zenon DEF Live, Uses
  <2>q. QED BY <2>5, <2>8, <2>10, <2>12, AllCounted, Zenon DEF InUse
\* ... and then lets go of its entry.
<1>29. CASE IputRelease(p)
  <2>1. /\ pc[p] = "irelse" /\ pc'[p] = "idle" /\ ip'[p] = 0
        /\ UNCHANGED <<dtype, dnlink, dir, fd, inum>>
    BY <1>0, <1>29, Zenon DEF IputRelease, diskVars, dirVars, Goto
  <2>2. \A i \in Inums : (Owes(p, i)' <=> Owes(p, i)) /\ (Uses(p, i)' <=> Uses(p, i))
    BY <2>1, Zenon DEF Owes, Uses
  <2>q. QED BY <1>i, <1>r, <1>0, <2>1, <2>2, LinksQuiet, Zenon
<1>30. CASE LinkNew(p)
  BY <1>7, <1>16, <1>30, Zenon
<1>31. CASE iput(p)
  BY <1>6, <1>12, <1>27, <1>28, <1>29, <1>31, Zenon DEF iput
<1>32. CASE create(p)
  BY <1>5, <1>9, <1>14, <1>21, <1>22, <1>26, <1>32, Zenon DEF create
<1>q. QED BY <1>5, <1>10, <1>11, <1>15, <1>17, <1>18, <1>20, <1>24, <1>25, <1>30,
             <1>31, <1>32, Zenon
           DEF Acts, sys_open, sys_unlink, sys_link

-----------------------------------------------------------------------------
(* The theorem *)

LEMMA InitInv == Init => IInv
<1>s. SUFFICES ASSUME Init PROVE IInv
  OBVIOUS
<1>0. \A p \in Procs : pc[p] = "idle" /\ ip[p] = 0 /\ fd[p] = 0 /\ name[p] = NULL /\ num[p] = 0
  BY <1>s, Zenon DEF Init
<1>1. TypeOK
  <2>1. Cardinality(Procs) \in Nat
    BY FiniteSystem, FS_CardinalityType, Zenon
  <2>2. /\ dtype \in [Inums -> {0, 1}] /\ dnlink \in [Inums -> Int]
        /\ dir \in [Names -> 0 .. ninodes] /\ dirlock \in Procs \cup {NULL}
        /\ inum \in [Slots -> 0 .. ninodes] /\ ref \in [Slots -> 0 .. 2 * Cardinality(Procs)]
        /\ type \in [Slots -> {0, 1}] /\ nlink \in [Slots -> Int]
    BY <1>s, <2>1, IcacheSizes DEF Init
  <2>3. /\ pc \in [Procs -> Labels] /\ name \in [Procs -> Names \cup {NULL}]
        /\ ip \in [Procs -> 0 .. NINODE] /\ fd \in [Procs -> 0 .. NINODE]
        /\ num \in [Procs -> 0 .. ninodes + 1]
    BY <1>s, IcacheSizes DEF Init, Labels
  <2>4. /\ valid \in [Slots -> BOOLEAN] /\ lock \in [Slots -> Procs \cup {NULL}]
        /\ panicked \in BOOLEAN /\ raced \in BOOLEAN
    BY <1>s, Zenon DEF Init
  <2>q. QED BY <2>2, <2>3, <2>4, Zenon DEF TypeOK
<1>2. \A s \in Slots : Calls(s) = {} /\ Files(s) = {} /\ ref[s] = 0
  BY <1>s, <1>0 DEF Init, Calls, Files, Slots
<1>3. RefsCounted
  BY <1>2, FS_EmptySet DEF RefsCounted
<1>4. CallInv
  BY <1>s, <1>0, NullNotProc, Zenon DEF CallInv, Local, Init, Before, After, Locked,
     InDir, Making
<1>5. NameInv /\ EntryInv
  BY <1>0, <1>2 DEF NameInv, EntryInv, Making
<1>6. LockInv
  BY <1>s, <1>0, NullNotProc, Zenon DEF LockInv, Init, Locked
<1>7. ValidInv /\ AloneInv /\ NewInv /\ CopyInv
  BY <1>0, <1>2 DEF ValidInv, AloneInv, NewInv, CopyInv, After, Locked
<1>8. LinksCounted
  <2>1. ASSUME NEW i \in Inums
        PROVE  Links(i) = {} /\ Owing(i) = {} /\ ~Live(i) /\ dtype[i] = 0 /\ dnlink[i] = 0
    BY <1>s, <1>0 DEF Init, Links, Owing, Live, Inums
  <2>q. QED BY <2>1, FS_EmptySet DEF LinksCounted
<1>q. QED BY <1>1, <1>3, <1>4, <1>5, <1>6, <1>7, <1>8, Zenon DEF IInv

LEMMA StepInv ==
  ASSUME IInv, ~panicked, NEW p \in Procs, Acts(p)
  PROVE  IInv'
<1>i. /\ TypeOK /\ CallInv /\ NameInv /\ EntryInv /\ RefsCounted /\ LockInv
      /\ ValidInv /\ CopyInv /\ AloneInv /\ NewInv /\ LinksCounted
  BY Zenon DEF IInv
<1>1. RefsCounted' /\ EntryInv'
  BY <1>i, RefsStep, Zenon
<1>2. TypeOK'
  BY <1>i, <1>1, TypeStep, Zenon
<1>3. CallInv' /\ NameInv' /\ LockInv'
  BY <1>i, CallInvStep, NameStep, LockStep, Zenon
<1>4. ValidInv' /\ CopyInv'
  BY <1>i, ValidStep, CopyStep, Zenon
<1>5. AloneInv' /\ NewInv'
  BY <1>i, AloneStep, NewStep, Zenon
<1>6. LinksCounted'
  BY LinksStep, Zenon
<1>q. QED BY <1>1, <1>2, <1>3, <1>4, <1>5, <1>6, Zenon DEF IInv

LEMMA NextInv == IInv /\ [Next]_vars => IInv'
<1>1. ASSUME IInv, Next PROVE IInv'
  <2>1. PICK p \in Procs : Acts(p)
    BY <1>1, Zenon DEF Next, Acts
  <2>q. QED BY <1>1, <2>1, StepInv, Zenon DEF Next
<1>2. ASSUME IInv, UNCHANGED vars PROVE IInv'
  <2>0. /\ UNCHANGED <<dtype, dnlink, dir, dirlock, inum, ref, valid, type, nlink, lock>>
        /\ UNCHANGED <<pc, name, ip, num, fd, panicked, raced>>
    BY <1>2, Zenon DEF vars, diskVars, dirVars, copyVars, entryVars, procVars
  <2>1. TypeOK'
    BY <1>2, <2>0, Zenon DEF IInv, TypeOK
  <2>2. CallInv' /\ NameInv' /\ EntryInv' /\ LockInv' /\ ValidInv'
    BY <1>2, <2>0, Zenon DEF IInv, CallInv, Local, NameInv, EntryInv, LockInv, ValidInv
  <2>3. CopyInv' /\ AloneInv' /\ NewInv'
    BY <1>2, <2>0, Zenon DEF IInv, CopyInv, AloneInv, NewInv, Freed
  <2>4. RefsCounted'
    BY <1>2, <2>0, Zenon DEF IInv, RefsCounted, Calls, Files
  <2>5. LinksCounted'
    BY <1>2, <2>0 DEF IInv, LinksCounted, Links, Owing, Live
  <2>q. QED BY <2>1, <2>2, <2>3, <2>4, <2>5, Zenon DEF IInv
<1>q. QED BY <1>1, <1>2, Zenon

LEMMA InvSafe == IInv => InodesSafe
<1>s. SUFFICES ASSUME IInv PROVE InodesSafe
  OBVIOUS
<1>i. TypeOK /\ CallInv /\ EntryInv /\ RefsCounted /\ LockInv /\ AloneInv /\ LinksCounted
  BY <1>s, Zenon DEF IInv
<1>1. ASSUME ~raced, NEW p \in Procs, pc[p] \in {"itrunc", "ifree"}
      PROVE  ref[ip[p]] = 1 /\ lock[ip[p]] = NULL /\ Links(inum[ip[p]]) = {}
  <2>1. ref[ip[p]] = 1 /\ dnlink[inum[ip[p]]] = 0
    BY <1>i, <1>1, Zenon DEF AloneInv
  <2>2. ip[p] \in Slots
    BY <1>i, <1>1 DEF CallInv, Local, After, TypeOK, Slots
  <2>3. inum[ip[p]] \in Inums
    BY <1>i, <2>1, <2>2 DEF EntryInv
  <2>4. lock[ip[p]] = NULL
    <3>1. ASSUME NEW q \in Procs, lock[ip[p]] = q PROVE FALSE
      <4>1. pc[q] \in Locked /\ ip[q] = ip[p]
        BY <1>i, <2>2, <3>1, Zenon DEF LockInv
      <4>2. q = p
        BY <1>i, <2>1, <2>2, <4>1, Held, Zenon
      <4>q. QED BY <1>1, <4>1, <4>2, Zenon DEF Locked
    <3>q. QED BY <1>i, <2>2, <3>1, Zenon DEF TypeOK
  <2>q. QED BY <1>i, <1>1, <2>1, <2>3, <2>4, NoLinks, Zenon
<1>q. QED BY <1>i, <1>1, Zenon DEF InodesSafe, FreedAlone

\* fs.c:165-325, sysfile.c:121-180: whatever processes open, create, link,
\* unlink and close files at the same time, an inode cache entry's ref is the
\* number of its users and an inode has one entry; iput frees an inode only
\* when it has no name and no other user; and, until an inode being freed is
\* found in the cache by another iget, link counts are exact and an inode is
\* allocated exactly while it is in use.
THEOREM InodesSafety == Spec => []InodesSafe
<1>1. Spec => []IInv
  BY InitInv, NextInv, PTL DEF Spec
<1>q. QED BY <1>1, InvSafe, PTL
=============================================================================
