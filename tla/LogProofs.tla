----------------------------- MODULE LogProofs ------------------------------
(***************************************************************************)
(* The log, for a log of any size and any number of processes, operations  *)
(* and crashes: commits are alone, durable and have room, and the log      *)
(* implements a disk that changes atomically.  The inductive invariant,    *)
(* the steps of file system operations, begin_op, log_write and end_op     *)
(* that keep it, then those of commit, crash and recovery.                 *)
(***************************************************************************)
EXTENDS Log, FiniteSetTheorems, WellFoundedInduction, TLAPS

-----------------------------------------------------------------------------
(* Finite sets *)

\* A family of subsets of a finite set has a minimal one: induction over sets.
LEMMA MinimalSubset ==
  ASSUME NEW S, IsFiniteSet(S), NEW F \in SUBSET SUBSET S, F # {}
  PROVE  \E R \in F : \A Q \in F : Q \subseteq R => Q = R
<1>1. IsWellFoundedOn(StrictSubsetOrdering(S), SUBSET S)
  BY FS_StrictSubsetOrderingWellFounded, FS_FiniteSubsetsOfFinite, Zenon
<1>2. PICK R \in F : \A Q \in F : ~(<<Q, R>> \in StrictSubsetOrdering(S))
  BY <1>1, WFMin, Zenon
<1>3. ASSUME NEW Q \in F, Q \subseteq R PROVE Q = R
  BY <1>2, <1>3, Zenon DEF StrictSubsetOrdering
<1>q. QED BY <1>3, Zenon

\* A union of finitely many finite sets.
LEMMA UnionFinite ==
  ASSUME NEW S, IsFiniteSet(S), NEW f, \A p \in S : IsFiniteSet(f[p])
  PROVE  IsFiniteSet(UNION {f[p] : p \in S})
<1> DEFINE U(R) == UNION {f[p] : p \in R}
           Bad == {R \in SUBSET S : ~IsFiniteSet(U(R))}
<1>1. ASSUME NEW R \in SUBSET S, NEW p \in R, IsFiniteSet(U(R \ {p})) PROVE IsFiniteSet(U(R))
  <2>1. U(R) = U(R \ {p}) \cup f[p]
    OBVIOUS
  <2> HIDE DEF U
  <2>q. QED BY <1>1, <2>1, FS_Union, Zenon
<1>2. IsFiniteSet(U({}))
  BY FS_EmptySet
<1>3. Bad = {}
  <2>1. SUFFICES ASSUME Bad # {} PROVE FALSE
    OBVIOUS
  <2> HIDE DEF U
  <2>2. Bad \in SUBSET SUBSET S
    OBVIOUS
  <2>3. PICK R \in Bad : \A Q \in Bad : Q \subseteq R => Q = R
    <3> HIDE DEF Bad
    <3>q. QED BY <2>1, <2>2, MinimalSubset
  <2>4. PICK p \in R : TRUE
    BY <1>2, Zenon
  <2>5. IsFiniteSet(U(R \ {p}))
    BY <2>3, <2>4
  <2>q. QED BY <1>1, <2>4, <2>5, Zenon
<1>q. QED BY <1>3, Zenon

\* A union of n sets of at most k elements.
LEMMA UnionBound ==
  ASSUME NEW S, IsFiniteSet(S), NEW f, NEW k \in Nat,
         \A p \in S : IsFiniteSet(f[p]) /\ Cardinality(f[p]) <= k
  PROVE  /\ IsFiniteSet(UNION {f[p] : p \in S})
         /\ Cardinality(UNION {f[p] : p \in S}) <= k * Cardinality(S)
<1> DEFINE U(R) == UNION {f[p] : p \in R}
           Good(R) == IsFiniteSet(U(R)) /\ Cardinality(U(R)) <= k * Cardinality(R)
           Bad == {R \in SUBSET S : ~Good(R)}
<1>1. ASSUME NEW R \in SUBSET S, NEW p \in R, Good(R \ {p}) PROVE Good(R)
  <2> DEFINE V == U(R \ {p})
  <2>1. U(R) = V \cup f[p]
    OBVIOUS
  <2>2. IsFiniteSet(f[p]) /\ Cardinality(f[p]) <= k /\ IsFiniteSet(V) /\ IsFiniteSet(R)
    BY <1>1, FS_Subset, Zenon
  <2>3. Cardinality(V) <= k * Cardinality(R \ {p})
    BY <1>1, Zenon
  <2> HIDE DEF V, U
  <2>4. /\ IsFiniteSet(U(R)) /\ IsFiniteSet(V \cap f[p])
        /\ Cardinality(U(R)) = Cardinality(V) + Cardinality(f[p]) - Cardinality(V \cap f[p])
    BY <2>1, <2>2, FS_Union, FS_Subset, Zenon
  <2>5. /\ Cardinality(V \cap f[p]) \in Nat /\ Cardinality(V) \in Nat
        /\ Cardinality(f[p]) \in Nat /\ Cardinality(U(R)) \in Nat /\ Cardinality(R) \in Nat
    BY <2>2, <2>4, FS_CardinalityType, Zenon
  <2>6. Cardinality(R \ {p}) = Cardinality(R) - 1
    BY <2>2, FS_RemoveElement, Zenon
  <2>7. k * (Cardinality(R) - 1) = k * Cardinality(R) - k
    BY <2>5
  <2>q. QED BY <2>2, <2>3, <2>4, <2>5, <2>6, <2>7
<1>2. Good({})
  BY FS_EmptySet
<1>3. Bad = {}
  <2>1. SUFFICES ASSUME Bad # {} PROVE FALSE
    OBVIOUS
  <2> HIDE DEF Good
  <2>2. Bad \in SUBSET SUBSET S
    OBVIOUS
  <2>3. PICK R \in Bad : \A Q \in Bad : Q \subseteq R => Q = R
    <3> HIDE DEF Bad
    <3>q. QED BY <2>1, <2>2, MinimalSubset
  <2>4. PICK p \in R : TRUE
    BY <1>2, Zenon
  <2>5. Good(R \ {p})
    BY <2>3, <2>4
  <2>q. QED BY <1>1, <2>4, <2>5, Zenon
<1>q. QED BY <1>3, Zenon

-----------------------------------------------------------------------------
(* The inductive invariant *)

Distinct(s) == \A i, j \in 1 .. Len(s) : s[i] = s[j] => i = j
Somewhere(l) == \E p \in Procs : pc[p] = l

\* Operations are counted, one process commits and none of them is under way;
\* none at all before recovery ends.
ControlInv ==
  /\ ~Stopped
  /\ outstanding = Cardinality(InOp)
  /\ \A p, q \in Committer : p = q
  /\ committing <=> Committer # {}
  /\ committing => InOp = {}
  /\ boot # "up" => \A p \in Procs : pc[p] = "idle"

\* Buffers are locked by the process that logs them; one that is neither locked
\* nor dirty is as on disk; the dirty ones are those logged and not installed.
BufferInv ==
  /\ \A p \in Procs : pc[p] \in {"log_write", "append"} =>
       cur[p] \in Blocks /\ holder[cur[p]] = p
  /\ \A b \in Blocks : holder[b] # NULL =>
       pc[holder[b]] \in {"log_write", "append"} /\ cur[holder[b]] = b
  /\ \A b \in Blocks : ~dirty[b] /\ holder[b] = NULL => cache[b] = disk[b]
  /\ \A b \in Blocks : dirty[b] <=>
       /\ boot = "up"
       /\ \E i \in 1 .. Len(lh) : lh[i] = b /\ (Somewhere("install") => i > tail)

\* The blocks logged by p are in the header, and unless oversize says otherwise
\* they are no more than its share.
WroteInv(p) ==
  /\ \A b \in wrote[p] : \E i \in 1 .. Len(lh) : lh[i] = b
  /\ IsFiniteSet(wrote[p]) /\ (~oversize => WithinShare(wrote[p]))

\* What operations under way have logged is in the header, once, and they leave
\* room for the rest; the header is empty when nothing is under way.
RoomInv ==
  /\ Distinct(lh) /\ Distinct(dhead) /\ Len(lh) < nlog /\ Len(dhead) < nlog
  /\ \A p \in InOp : WroteInv(p)
  /\ RoomReserved
  /\ boot = "up" /\ outstanding = 0 /\ ~committing => lh = <<>>
  /\ SleeperHasWaker

\* How far commit or recovery has come.
PhaseInv ==
  /\ boot = "up" /\ ~Somewhere("install") /\ ~Somewhere("clear") => dhead = <<>>
  /\ Somewhere("write_log") =>
       tail < Len(lh) /\ \A i \in 1 .. tail : dlog[i] = cache[lh[i]]
  /\ Somewhere("write_head") =>
       tail = 0 /\ lh # <<>> /\ \A i \in 1 .. Len(lh) : dlog[i] = cache[lh[i]]
  /\ Somewhere("install") =>
       /\ tail < Len(lh) /\ dhead = lh
       /\ \A i \in 1 .. Len(lh) : dlog[i] = cache[lh[i]]
       /\ \A i \in 1 .. tail : disk[lh[i]] = dlog[i]
  /\ Somewhere("clear") \/ boot = "clear" =>
       lh = <<>> /\ \A i \in 1 .. Len(dhead) : disk[dhead[i]] = dlog[i]
  /\ Somewhere("done") => lh = <<>>
  /\ boot = "install" =>
       /\ tail < Len(lh) /\ lh = dhead
       /\ \A i \in 1 .. tail : disk[lh[i]] = dlog[i]

\* Of a machine that runs ...
IInv == TypeOK /\ ControlInv /\ BufferInv /\ RoomInv /\ PhaseInv

\* ... and of one that log_write has stopped: the disk can be recovered.
HaltInv == TypeOK /\ Stopped /\ oversize /\ Distinct(dhead) /\ Len(dhead) < nlog

LogInv == IInv \/ HaltInv

-----------------------------------------------------------------------------
(* What the steps have in common *)

Labels == {"idle", "asleep", "retry", "op", "log_write", "append",
           "write_log", "write_head", "install", "clear", "done"}

LEMMA Finite ==
  ASSUME NEW S \in SUBSET Procs
  PROVE  IsFiniteSet(S) /\ Cardinality(S) \in Nat /\ (Cardinality(S) = 0 <=> S = {})
         /\ Cardinality(S) <= Cardinality(Procs) /\ Cardinality(Procs) \in Nat
  BY LogProcs, FS_Subset, FS_CardinalityType, FS_EmptySet, Zenon

\* With no commit there is no committing process.
LEMMA NoCommit ==
  ASSUME ControlInv, ~committing
  PROVE  Committer = {} /\ \A l \in Labels : Somewhere(l) => l \in {"idle", "asleep",
           "retry", "op", "log_write", "append"}
  BY Zenon DEF ControlInv, Committer, Somewhere, Labels

\* The blocks of operations under way are in the header, and no more than the
\* operations' shares.
LEMMA LoggedSet ==
  ASSUME IInv
  PROVE  /\ IsFiniteSet(Logged) /\ Cardinality(Logged) \in Nat
         /\ ~oversize => Cardinality(Logged) <= (MAXOPBLOCKS - 2) * outstanding
         /\ \A b \in Logged : \E i \in 1 .. Len(lh) : lh[i] = b
<1>1. InOp \in SUBSET Procs
  BY Zenon DEF InOp
<1>2. IsFiniteSet(InOp) /\ MAXOPBLOCKS - 2 \in Nat
  BY <1>1, Finite, LogSizes
<1>3. \A p \in InOp : IsFiniteSet(wrote[p])
  BY Zenon DEF IInv, RoomInv, WroteInv
<1>4. IsFiniteSet(Logged)
  BY <1>2, <1>3, UnionFinite, Zenon DEF Logged
<1>5. Cardinality(Logged) \in Nat
  BY <1>4, FS_CardinalityType, Zenon
<1>6. \A b \in Logged : \E i \in 1 .. Len(lh) : lh[i] = b
  BY DEF Logged, IInv, RoomInv, WroteInv
<1>7. ASSUME ~oversize PROVE Cardinality(Logged) <= (MAXOPBLOCKS - 2) * outstanding
  <2>1. ASSUME NEW p \in InOp PROVE Cardinality(wrote[p]) <= MAXOPBLOCKS - 2
    <3>1. Cardinality(wrote[p]) + 2 <= MAXOPBLOCKS
      BY <1>7, Zenon DEF IInv, RoomInv, WroteInv, WithinShare
    <3>2. Cardinality(wrote[p]) \in Nat
      BY <1>3, FS_CardinalityType, Zenon
    <3>q. QED BY <3>1, <3>2, LogSizes
  <2>2. Cardinality(Logged) <= (MAXOPBLOCKS - 2) * Cardinality(InOp)
    BY <1>2, <1>3, <2>1, UnionBound, Zenon DEF Logged
  <2>q. QED BY <2>2, Zenon DEF IInv, ControlInv
<1>q. QED BY <1>4, <1>5, <1>6, <1>7, Zenon

\* While an operation is under way there is room for two blocks more, if all
\* keep to their share.
LEMMA RoomLeft ==
  ASSUME IInv, boot = "up", NEW p \in InOp
  PROVE  outstanding >= 1 /\ ~committing /\ (~oversize => Len(lh) + 2 <= LOGSIZE)
<1>1. InOp \in SUBSET Procs /\ InOp # {} /\ outstanding = Cardinality(InOp) /\ ~committing
  BY Zenon DEF InOp, IInv, ControlInv
<1>2. outstanding \in Nat /\ outstanding >= 1
  BY <1>1, Finite
<1>3. ASSUME ~oversize PROVE Len(lh) + 2 <= LOGSIZE
  <2>1. Len(lh) + outstanding * MAXOPBLOCKS <= LOGSIZE + Cardinality(Logged)
    BY <1>1, <1>3, Zenon DEF IInv, RoomInv, RoomReserved
  <2>2. Cardinality(Logged) \in Nat /\ Cardinality(Logged) <= (MAXOPBLOCKS - 2) * outstanding
    BY <1>3, LoggedSet, Zenon
  <2>3. Len(lh) \in Nat
    BY DEF IInv, TypeOK
  <2>4. (MAXOPBLOCKS - 2) * outstanding = outstanding * MAXOPBLOCKS - 2 * outstanding
    BY <1>2, LogSizes
  <2>5. outstanding * MAXOPBLOCKS \in Nat
    BY <1>2, LogSizes
  <2> HIDE DEF Logged
  <2>q. QED BY <1>2, <2>1, <2>2, <2>3, <2>4, <2>5, LogSizes
<1>q. QED BY <1>1, <1>2, <1>3, Zenon

\* Steps that leave the disk and the buffers alone.
LEMMA BufferFrame ==
  ASSUME BufferInv, UNCHANGED <<disk, cache, dirty, holder, lh, tail, boot>>,
         \A p \in Procs : \/ pc[p] \in {"log_write", "append"} /\ pc'[p] \in {"log_write", "append"}
                             /\ cur'[p] = cur[p]
                          \/ ~(pc[p] \in {"log_write", "append"}) /\ ~(pc'[p] \in {"log_write", "append"}),
         holder \in [Blocks -> Procs \cup {NULL}],
         Somewhere("install")' <=> Somewhere("install")
  PROVE  BufferInv'
<1>1. (\A p \in Procs : pc[p] \in {"log_write", "append"} =>
         cur[p] \in Blocks /\ holder[cur[p]] = p)'
  BY DEF BufferInv
<1>2. (\A b \in Blocks : holder[b] # NULL =>
         pc[holder[b]] \in {"log_write", "append"} /\ cur[holder[b]] = b)'
  BY DEF BufferInv
<1>3. (\A b \in Blocks : ~dirty[b] /\ holder[b] = NULL => cache[b] = disk[b])'
  BY Zenon DEF BufferInv
<1>4. ASSUME NEW b \in Blocks
      PROVE  (dirty[b] <=> /\ boot = "up"
                           /\ \E i \in 1 .. Len(lh) : lh[i] = b /\ (Somewhere("install") => i > tail))'
  BY Zenon DEF BufferInv
<1>q. QED BY <1>1, <1>2, <1>3, <1>4, Zenon DEF BufferInv

LEMMA PhaseFrame ==
  ASSUME PhaseInv, UNCHANGED <<disk, dlog, dhead, cache, lh, tail, boot>>,
         \A l \in Labels : l \in {"write_log", "write_head", "install", "clear", "done"} =>
           (Somewhere(l)' <=> Somewhere(l))
  PROVE  PhaseInv'
  BY Zenon DEF PhaseInv, Labels

\* What the operations under way have logged, after an action.
LEMMA LoggedNext == \A b : b \in Logged' <=> \E p \in InOp' : b \in wrote'[p]
  BY Zenon DEF Logged

-----------------------------------------------------------------------------
(* Operations *)

LEMMA InitInv == Init => IInv
<1> SUFFICES ASSUME Init PROVE IInv
  OBVIOUS
<1> USE DEF Init
<1>1. InOp = {} /\ Committer = {} /\ \A l \in Labels : Somewhere(l) => l = "idle"
  BY Zenon DEF InOp, Committer, Somewhere, Labels
<1>2. Cardinality(Procs) \in Nat /\ Cardinality({}) = 0
  BY Finite, FS_EmptySet, Zenon
<1>3. TypeOK
  <2>1. 0 \in Data /\ 0 \in 0 .. MaxCrashes /\ 0 \in 0 .. nlog - 1 /\ 0 \in 0 .. Cardinality(Procs)
    BY <1>2, LogSizes, LogRoom, LogBounds DEF Data
  <2>2. /\ disk \in [Blocks -> Data] /\ cache \in [Blocks -> Data] /\ dlog \in [1 .. nlog - 1 -> Data]
        /\ dhead \in Seq(Blocks) /\ lh \in Seq(Blocks) /\ stamp \in [Procs -> Data]
    BY <2>1
  <2>3. dirty \in [Blocks -> BOOLEAN] /\ committing \in BOOLEAN
    OBVIOUS
  <2>q. QED BY <2>1, <2>2, <2>3, Zenon DEF TypeOK
<1>4. ControlInv
  BY <1>1, <1>2, Zenon DEF ControlInv, Stopped
<1>5. BufferInv
  BY Zenon DEF BufferInv
<1>6. RoomInv
  BY <1>1, LogSizes, LogRoom DEF RoomInv, Distinct, RoomReserved, SleeperHasWaker
<1>7. PhaseInv
  BY <1>1, Zenon DEF PhaseInv, Labels
<1>q. QED BY <1>3, <1>4, <1>5, <1>6, <1>7, Zenon DEF IInv

LEMMA BeginOpInv ==
  ASSUME IInv, NEW p \in Procs, begin_op(p)
  PROVE  IInv'
<1> USE DEF begin_op, Goto, diskVars, bufVars
<1>0. boot = "up" /\ boot' = "up" /\ p \notin InOp /\ p \notin Committer /\ InOp \in SUBSET Procs
  BY Zenon DEF InOp, Committer
<1>s. stamp' \in [Procs -> Data] /\ ops' \in Data
  <2>1. ops \in Data /\ stamp \in [Procs -> Data]
    BY Zenon DEF IInv, TypeOK
  <2>2. CASE pc[p] = "idle"
    <3>1. ops < MaxOps /\ ops' = ops + 1 /\ stamp' = [stamp EXCEPT ![p] = ops + 1]
      BY <2>2, Zenon
    <3>2. ops + 1 \in Data
      BY <2>1, <3>1, LogBounds DEF Data
    <3>q. QED BY <2>1, <3>1, <3>2, Zenon
  <2>3. CASE pc[p] # "idle"
    BY <2>1, <2>3, Zenon
  <2>q. QED BY <2>2, <2>3, Zenon
<1>1. CASE committing \/ NoRoom
  <2>1. /\ InOp' = InOp /\ Committer' = Committer /\ outstanding' = outstanding
        /\ \A q \in InOp : pc'[q] = pc[q] /\ wrote'[q] = wrote[q]
    BY <1>0, <1>1, Zenon DEF IInv, TypeOK, InOp, Committer
  <2>2. \A l \in Labels : l \notin {"idle", "asleep", "retry"} => (Somewhere(l)' <=> Somewhere(l))
    BY <1>0, <1>1, Zenon DEF IInv, TypeOK, Somewhere, Labels
  <2>3. TypeOK'
    BY <1>s, <1>1, Zenon DEF IInv, TypeOK
  <2>4. ControlInv'
    BY <1>0, <2>1, Zenon DEF IInv, ControlInv, Stopped
  <2>5. BufferInv'
    BY <1>0, <1>1, <2>2, BufferFrame, Zenon DEF IInv, TypeOK, Labels
  <2>6. RoomInv'
    <3>1. SleeperHasWaker'
      <4>1. CASE ~committing /\ outstanding = 0
        BY <1>0, <1>1, <4>1, LogRoom, LogSizes DEF IInv, RoomInv, NoRoom
      <4>2. CASE committing \/ outstanding > 0
        BY <2>1, <4>2, Zenon DEF SleeperHasWaker
      <4>q. QED BY <4>1, <4>2 DEF IInv, TypeOK
    <3>2. RoomReserved'
      <4>1. Logged' = Logged
        BY <2>1, LoggedNext DEF Logged
      <4>q. QED BY <1>0, <2>1, <4>1, Zenon DEF IInv, RoomInv, RoomReserved
    <3>3. \A q \in InOp' : WroteInv(q)'
      BY <2>1 DEF IInv, RoomInv, WroteInv
    <3>q. QED BY <1>0, <2>1, <3>1, <3>2, <3>3 DEF IInv, RoomInv, Distinct
  <2>7. PhaseInv'
    BY <1>0, <2>2, PhaseFrame, Zenon DEF IInv
  <2>q. QED BY <2>3, <2>4, <2>5, <2>6, <2>7, Zenon DEF IInv
<1>2. CASE ~committing /\ ~NoRoom
  <2>1. /\ InOp' = InOp \cup {p} /\ Committer' = Committer /\ outstanding' = outstanding + 1
        /\ \A q \in InOp : pc'[q] = pc[q] /\ wrote'[q] = wrote[q]
        /\ wrote'[p] = {} /\ pc'[p] = "op"
    BY <1>0, <1>2 DEF IInv, TypeOK, InOp, Committer
  <2>2. \A l \in Labels : l \notin {"idle", "retry", "op"} => (Somewhere(l)' <=> Somewhere(l))
    BY <1>0, <1>2, Zenon DEF IInv, TypeOK, Somewhere, Labels
  <2>3. Cardinality(InOp') = Cardinality(InOp) + 1 /\ Cardinality(InOp') <= Cardinality(Procs)
        /\ Cardinality(Procs) \in Nat /\ Cardinality(InOp) \in Nat
    <3>1. Cardinality(InOp \cup {p}) = Cardinality(InOp) + 1
      BY <1>0, Finite, FS_AddElement, Zenon
    <3>q. QED BY <1>0, <2>1, <3>1, Finite, Zenon
  <2>4. ControlInv'
    BY <1>0, <1>2, <2>1, <2>3, NoCommit, Zenon DEF IInv, ControlInv, Stopped
  <2>5. TypeOK'
    <3>1. outstanding' \in 0 .. Cardinality(Procs)
      BY <2>1, <2>3 DEF IInv, ControlInv
    <3>q. QED BY <1>s, <1>2, <3>1, Zenon DEF IInv, TypeOK
  <2>6. BufferInv'
    BY <1>0, <1>2, <2>2, BufferFrame, Zenon DEF IInv, TypeOK, Labels
  <2>7. RoomInv'
    <3>1. RoomReserved'
      <4>1. Logged' = Logged
        <5>1. \A b : b \in Logged' => b \in Logged
          BY <2>1, LoggedNext, Zenon DEF Logged
        <5>2. \A b : b \in Logged => b \in Logged'
          BY <2>1, LoggedNext DEF Logged
        <5>q. QED BY <5>1, <5>2, Zenon
      <4>2. Len(lh) + (outstanding + 1) * MAXOPBLOCKS <= LOGSIZE
        BY <1>2, LogSizes DEF NoRoom, IInv, TypeOK
      <4>3. Cardinality(Logged) \in Nat /\ Len(lh) \in Nat /\ outstanding \in Nat
        BY LoggedSet, <2>3 DEF IInv, TypeOK, ControlInv
      <4>q. QED BY <2>1, <4>1, <4>2, <4>3, LogSizes DEF RoomReserved
    <3>2. SleeperHasWaker'
      BY <2>1, <2>3 DEF IInv, ControlInv, SleeperHasWaker
    <3>3. \A q \in InOp' : WroteInv(q)'
      <4>1. WroteInv(p)'
        <5>1. IsFiniteSet({}) /\ WithinShare({})
          BY FS_EmptySet, LogSizes DEF WithinShare
        <5>q. QED BY <2>1, <5>1, Zenon DEF WroteInv
      <4>2. \A q \in InOp : WroteInv(q)'
        BY <2>1 DEF IInv, RoomInv, WroteInv
      <4>q. QED BY <2>1, <4>1, <4>2, Zenon
    <3>4. outstanding' # 0
      BY <2>1, <2>3 DEF IInv, ControlInv
    <3>q. QED BY <1>0, <2>1, <3>1, <3>2, <3>3, <3>4 DEF IInv, RoomInv, Distinct
  <2>8. PhaseInv'
    BY <1>0, <2>2, PhaseFrame, Zenon DEF IInv
  <2>q. QED BY <2>4, <2>5, <2>6, <2>7, <2>8, Zenon DEF IInv
<1>q. QED BY <1>1, <1>2, Zenon

LEMMA ModifyInv ==
  ASSUME IInv, NEW p \in Procs, NEW b \in Blocks, Modify(p, b)
  PROVE  IInv'
<1> USE DEF Modify, Goto, diskVars, logVars
<1>1. /\ boot = "up" /\ boot' = "up" /\ p \in InOp /\ pc[p] = "op" /\ pc'[p] = "log_write"
      /\ holder[b] = NULL /\ cur'[p] = b
      /\ \A q \in Procs \ {p} : pc'[q] = pc[q] /\ cur'[q] = cur[q]
  BY Zenon DEF InOp, IInv, TypeOK
<1>2. InOp' = InOp /\ Committer' = Committer /\ Committer = {} /\ ~committing
  BY <1>1, RoomLeft, NoCommit, Zenon DEF InOp, Committer, IInv
<1>3. \A l \in Labels : l \notin {"op", "log_write"} => (Somewhere(l)' <=> Somewhere(l))
  BY <1>1, Zenon DEF Somewhere
<1>4. TypeOK'
  BY Zenon DEF IInv, TypeOK
<1>5. ControlInv'
  BY <1>1, <1>2, Zenon DEF IInv, ControlInv, Stopped
<1>6. BufferInv'
  <2>1. /\ holder'[b] = p /\ \A c \in Blocks \ {b} : holder'[c] = holder[c] /\ cache'[c] = cache[c]
        /\ holder \in [Blocks -> Procs \cup {NULL}] /\ NULL \notin Procs
    BY LogProcs, Zenon DEF IInv, TypeOK
  <2>2. (\A q \in Procs : pc[q] \in {"log_write", "append"} =>
           cur[q] \in Blocks /\ holder[cur[q]] = q)'
    BY <1>1, <2>1 DEF IInv, BufferInv
  <2>3. (\A c \in Blocks : holder[c] # NULL =>
           pc[holder[c]] \in {"log_write", "append"} /\ cur[holder[c]] = c)'
    BY <1>1, <2>1 DEF IInv, BufferInv
  <2>4. (\A c \in Blocks : ~dirty[c] /\ holder[c] = NULL => cache[c] = disk[c])'
    BY <1>1, <2>1 DEF IInv, BufferInv
  <2>5. Somewhere("install")' <=> Somewhere("install")
    BY <1>3, Zenon DEF Labels
  <2>6. ASSUME NEW c \in Blocks
        PROVE  (dirty[c] <=> /\ boot = "up"
                             /\ \E i \in 1 .. Len(lh) : lh[i] = c /\ (Somewhere("install") => i > tail))'
    BY <1>1, <2>5 DEF IInv, BufferInv
  <2>q. QED BY <2>2, <2>3, <2>4, <2>6, Zenon DEF BufferInv
<1>7. RoomInv'
  <2>1. \A q \in InOp' : WroteInv(q)'
    BY <1>1, <1>2 DEF IInv, RoomInv, WroteInv, InOp
  <2>2. Logged' = Logged
    BY <1>2, Zenon DEF Logged
  <2>3. RoomReserved'
    BY <2>2, Zenon DEF IInv, RoomInv, RoomReserved
  <2>4. SleeperHasWaker'
    BY <1>1, Zenon DEF IInv, RoomInv, SleeperHasWaker
  <2>q. QED BY <1>1, <2>1, <2>3, <2>4 DEF IInv, RoomInv, Distinct
<1>8. PhaseInv'
  <2>1. \A l \in {"write_log", "write_head", "install", "clear", "done"} : ~Somewhere(l)'
    BY <1>2, Zenon DEF Somewhere, Committer
  <2>2. dhead = <<>>
    BY <1>1, <1>2, Zenon DEF IInv, PhaseInv, Somewhere, Committer
  <2>q. QED BY <1>1, <2>1, <2>2, Zenon DEF PhaseInv
<1>q. QED BY <1>4, <1>5, <1>6, <1>7, <1>8, Zenon DEF IInv

\* With no room left for two blocks an operation has logged more than its share.
LEMMA NoRoomLeft ==
  ASSUME IInv, boot = "up", NEW p \in InOp, Len(lh) >= LOGSIZE \/ Len(lh) >= nlog - 1
  PROVE  oversize
<1>1. Len(lh) \in Nat
  BY DEF IInv, TypeOK
<1>2. ~(Len(lh) + 2 <= LOGSIZE)
  BY <1>1, LogRoom, LogSizes
<1>q. QED BY <1>2, RoomLeft, Zenon

LEMMA HaltStep ==
  ASSUME IInv, oversize, boot' \in {"panic", "overrun"},
         UNCHANGED <<diskVars, bufVars, logVars, procVars, tail, crashes, oversize>>
  PROVE  HaltInv'
<1>1. TypeOK'
  BY Zenon DEF IInv, TypeOK, diskVars, bufVars, logVars, procVars
<1>2. (Distinct(dhead) /\ Len(dhead) < nlog)'
  BY Zenon DEF IInv, RoomInv, Distinct, diskVars
<1>q. QED BY <1>1, <1>2, Zenon DEF HaltInv, Stopped

LEMMA LogWriteTestInv ==
  ASSUME IInv, NEW p \in Procs, LogWriteTest(p)
  PROVE  LogInv'
<1>1. p \in InOp /\ boot = "up" /\ pc[p] = "log_write"
  BY Zenon DEF LogWriteTest, InOp
<1>t. CASE Len(lh) >= LOGSIZE \/ Len(lh) >= nlog - 1 \/ outstanding < 1
  <2>1. outstanding \in Nat /\ outstanding >= 1
    BY <1>1, RoomLeft DEF IInv, TypeOK
  <2>2. ~(outstanding < 1)
    BY <2>1
  <2>3. oversize
    BY <1>1, <1>t, <2>2, NoRoomLeft, Zenon
  <2>q. QED BY <1>t, <2>3, HaltStep, Zenon DEF LogWriteTest, LogInv, procVars
<1> SUFFICES ASSUME ~(Len(lh) >= LOGSIZE \/ Len(lh) >= nlog - 1 \/ outstanding < 1)
             PROVE  IInv'
  BY <1>t, Zenon DEF LogInv
<1>3. pc' = [pc EXCEPT ![p] = "append"] /\ boot' = boot
  BY Zenon DEF LogWriteTest, Goto
<1>4. UNCHANGED <<disk, dlog, dhead, cache, dirty, holder, lh, outstanding, committing, cur,
                  wrote, stamp, ops, tail, crashes, oversize>>
  BY Zenon DEF LogWriteTest, diskVars, bufVars, logVars
<1>5. TypeOK'
  BY <1>3, <1>4, Zenon DEF IInv, TypeOK
<1>6. pc'[p] = "append" /\ \A q \in Procs \ {p} : pc'[q] = pc[q]
  BY <1>3, Zenon DEF IInv, TypeOK
<1>7. InOp' = InOp /\ Committer' = Committer
  BY <1>1, <1>6, Zenon DEF InOp, Committer
<1>8. \A l \in Labels : l \notin {"append", "log_write"} => (Somewhere(l)' <=> Somewhere(l))
  BY <1>1, <1>6, Zenon DEF Somewhere
<1>9. ControlInv'
  BY <1>1, <1>3, <1>4, <1>7, Zenon DEF IInv, ControlInv, Stopped
<1>10. BufferInv'
  BY <1>1, <1>3, <1>4, <1>6, <1>8, BufferFrame, Zenon DEF IInv, TypeOK, Labels
<1>11. RoomInv'
  <2>1. \A q \in InOp' : WroteInv(q)'
    BY <1>1, <1>4, <1>6, <1>7 DEF IInv, RoomInv, WroteInv, InOp
  <2>2. Logged' = Logged
    BY <1>4, <1>7, Zenon DEF Logged
  <2>3. RoomReserved'
    BY <1>3, <1>4, <2>2, Zenon DEF IInv, RoomInv, RoomReserved
  <2>4. SleeperHasWaker'
    BY <1>1, <1>4, <1>6, Zenon DEF IInv, RoomInv, SleeperHasWaker
  <2>q. QED BY <1>3, <1>4, <2>1, <2>3, <2>4 DEF IInv, RoomInv, Distinct
<1>12. PhaseInv'
  BY <1>3, <1>4, <1>8, PhaseFrame, Zenon DEF IInv
<1>q. QED BY <1>5, <1>9, <1>10, <1>11, <1>12, Zenon DEF IInv

LEMMA LogWriteAppendInv ==
  ASSUME IInv, NEW p \in Procs, LogWriteAppend(p)
  PROVE  LogInv'
<1>o. CASE Overruns(p)
  <2>1. p \in InOp /\ boot = "up" /\ (Len(lh) >= LOGSIZE \/ Len(lh) >= nlog - 1)
    BY <1>o, Zenon DEF LogWriteAppend, InOp, Overruns
  <2>q. QED BY <1>o, <2>1, NoRoomLeft, HaltStep, Zenon DEF LogWriteAppend, LogInv
<1> SUFFICES ASSUME ~Overruns(p) PROVE IInv'
  BY <1>o, Zenon DEF LogInv
<1> DEFINE b == cur[p]
<1>1. /\ p \in InOp /\ boot = "up" /\ boot' = "up" /\ pc[p] = "append" /\ b \in Blocks
      /\ holder[b] = p /\ WroteInv(p)
  BY Zenon DEF LogWriteAppend, AddBlock, InOp, IInv, BufferInv, RoomInv
<1>2. /\ lh' = IF Absorbed(b) THEN lh ELSE Append(lh, b)
      /\ dirty' = [dirty EXCEPT ![b] = TRUE] /\ holder' = [holder EXCEPT ![b] = NULL]
      /\ wrote' = [wrote EXCEPT ![p] = @ \cup {b}] /\ cur' = [cur EXCEPT ![p] = NULL]
      /\ pc' = [pc EXCEPT ![p] = "op"]
      /\ oversize' = (oversize \/ ~WithinShare(wrote[p] \cup {b}))
      /\ ~Absorbed(b) => Len(lh) < nlog - 1
      /\ UNCHANGED <<disk, dlog, dhead, cache, outstanding, committing, stamp, ops, tail, crashes>>
  <2>1. ~Absorbed(b) => ~(Len(lh) >= nlog - 1)
    BY Zenon DEF Overruns
  <2>2. Len(lh) \in Nat
    BY DEF IInv, TypeOK
  <2>3. ~Absorbed(b) => Len(lh) < nlog - 1
    BY <2>1, <2>2, LogSizes
  <2>q. QED BY <2>3, Zenon DEF LogWriteAppend, AddBlock, Goto, diskVars
<1> HIDE DEF b
<1>3. /\ pc'[p] = "op" /\ wrote'[p] = wrote[p] \cup {b}
      /\ \A q \in Procs \ {p} : pc'[q] = pc[q] /\ cur'[q] = cur[q] /\ wrote'[q] = wrote[q]
      /\ dirty'[b] = TRUE /\ holder'[b] = NULL
      /\ \A c \in Blocks \ {b} : dirty'[c] = dirty[c] /\ holder'[c] = holder[c]
  BY <1>1, <1>2, Zenon DEF IInv, TypeOK
<1>4. /\ InOp' = InOp /\ Committer' = Committer /\ Committer = {} /\ ~committing
      /\ \A l \in {"write_log", "write_head", "install", "clear", "done"} :
           ~Somewhere(l) /\ ~Somewhere(l)'
  BY <1>1, <1>3, RoomLeft, NoCommit DEF InOp, Committer, IInv, Somewhere
<1>5. /\ lh' \in Seq(Blocks) /\ Len(lh) \in Nat
      /\ \A c \in Blocks : (\E i \in 1 .. Len(lh') : lh'[i] = c)
                            <=> c = b \/ \E i \in 1 .. Len(lh) : lh[i] = c
      /\ Distinct(lh') /\ Len(lh') < nlog
      /\ Len(lh') = Len(lh) + IF Absorbed(b) THEN 0 ELSE 1
  <2>1. lh \in Seq(Blocks) /\ Len(lh) < nlog /\ Distinct(lh)
    BY Zenon DEF IInv, TypeOK, RoomInv
  <2>2. CASE Absorbed(b)
    BY <1>1, <1>2, <2>1, <2>2, LogSizes DEF Absorbed
  <2>3. CASE ~Absorbed(b)
    <3>1. lh' = Append(lh, b) /\ lh' \in Seq(Blocks) /\ Len(lh') = Len(lh) + 1 /\ Len(lh) \in Nat
      BY <1>1, <1>2, <2>1, <2>3
    <3>2. lh'[Len(lh) + 1] = b /\ \A i \in 1 .. Len(lh) : lh'[i] = lh[i]
      BY <1>1, <1>2, <2>1, <2>3
    <3>3. \A i \in 1 .. Len(lh) : lh[i] # b
      BY <2>3, Zenon DEF Absorbed
    <3>4. Distinct(lh')
      BY <2>1, <3>1, <3>2, <3>3 DEF Distinct
    <3>5. \A c \in Blocks : (\E i \in 1 .. Len(lh') : lh'[i] = c)
                            <=> c = b \/ \E i \in 1 .. Len(lh) : lh[i] = c
      BY <3>1, <3>2
    <3>q. QED BY <1>2, <2>1, <2>3, <3>1, <3>4, <3>5, LogSizes
  <2>q. QED BY <2>2, <2>3, Zenon
<1>6. TypeOK'
  BY <1>1, <1>2, <1>5 DEF IInv, TypeOK
<1>7. ControlInv'
  BY <1>1, <1>2, <1>4, Zenon DEF IInv, ControlInv, Stopped
<1>8. BufferInv'
  <2>2. (\A q \in Procs : pc[q] \in {"log_write", "append"} =>
           cur[q] \in Blocks /\ holder[cur[q]] = q)'
    BY <1>1, <1>3 DEF IInv, BufferInv
  <2>3. (\A c \in Blocks : holder[c] # NULL =>
           pc[holder[c]] \in {"log_write", "append"} /\ cur[holder[c]] = c)'
    <3>1. holder \in [Blocks -> Procs \cup {NULL}]
      BY Zenon DEF IInv, TypeOK
    <3>2. ASSUME NEW c \in Blocks, holder'[c] # NULL
          PROVE  pc'[holder'[c]] \in {"log_write", "append"} /\ cur'[holder'[c]] = c
      BY <1>1, <1>3, <3>1, <3>2 DEF b, IInv, BufferInv
    <3>q. QED BY <3>2, Zenon
  <2>4. (\A c \in Blocks : ~dirty[c] /\ holder[c] = NULL => cache[c] = disk[c])'
    BY <1>2, <1>3 DEF IInv, BufferInv
  <2>6. ASSUME NEW c \in Blocks
        PROVE  (dirty[c] <=> /\ boot = "up"
                             /\ \E i \in 1 .. Len(lh) : lh[i] = c /\ (Somewhere("install") => i > tail))'
    BY <1>1, <1>3, <1>4, <1>5 DEF IInv, BufferInv
  <2>q. QED BY <2>2, <2>3, <2>4, <2>6, ZenonT(30) DEF BufferInv
<1>9. RoomInv'
  <2>2. IsFiniteSet(wrote'[p]) /\ (~oversize' => WithinShare(wrote'[p]) /\ ~oversize)
    <3>1. IsFiniteSet(wrote[p] \cup {b})
      BY <1>1, FS_AddElement, Zenon DEF WroteInv
    <3>q. QED BY <1>2, <1>3, <3>1, Zenon
  <2>3. WroteInv(p)'
    <3>1. wrote[p] \in SUBSET Blocks
      BY Zenon DEF IInv, TypeOK
    <3>2. \A c \in wrote'[p] : \E i \in 1 .. Len(lh') : lh'[i] = c
      BY <1>1, <1>3, <1>5, <3>1, Zenon DEF WroteInv
    <3>q. QED BY <1>3, <2>2, <3>2, Zenon DEF WroteInv
  <2>4. ASSUME NEW q \in InOp, q # p PROVE WroteInv(q)'
    <3>1. wrote[q] \in SUBSET Blocks
      BY Zenon DEF IInv, TypeOK, InOp
    <3>q. QED BY <1>3, <1>5, <2>2, <2>4, <3>1, Zenon DEF IInv, RoomInv, WroteInv, InOp
  <2>5. \A c : c \in Logged' <=> c = b \/ c \in Logged
    <3>1. \A c : c \in Logged' => c = b \/ c \in Logged
      BY <1>1, <1>3, <1>4, LoggedNext DEF Logged, InOp
    <3>2. \A c : c \in Logged => c \in Logged'
      BY <1>1, <1>3, <1>4, LoggedNext DEF Logged, InOp
    <3>3. b \in Logged'
      BY <1>1, <1>3, <1>4, LoggedNext, Zenon
    <3>q. QED BY <3>1, <3>2, <3>3, Zenon
  <2>6. Logged' = Logged \cup {b}
    BY <2>5, Zenon
  <2>7. Cardinality(Logged') >= Cardinality(Logged) + IF Absorbed(b) THEN 0 ELSE 1
    <3>1. IsFiniteSet(Logged) /\ Cardinality(Logged) \in Nat
      BY LoggedSet, Zenon
    <3>2. ~Absorbed(b) => b \notin Logged
      BY LoggedSet, Zenon DEF Absorbed
    <3>q. QED BY <2>6, <3>1, <3>2, FS_AddElement
  <2>8. RoomReserved'
    <3> SUFFICES ASSUME ~oversize' PROVE RoomReserved'
      BY Zenon DEF RoomReserved
    <3>1. Len(lh) + outstanding * MAXOPBLOCKS <= LOGSIZE + Cardinality(Logged)
      BY <1>1, <1>4, <2>2, Zenon DEF IInv, RoomInv, RoomReserved
    <3>2. Cardinality(Logged) \in Nat /\ Cardinality(Logged') \in Nat
      BY <2>6, LoggedSet, FS_AddElement, FS_CardinalityType, Zenon
    <3>3. outstanding * MAXOPBLOCKS \in Nat
      BY LogSizes DEF IInv, TypeOK
    <3>4. Len(lh') + outstanding * MAXOPBLOCKS <= LOGSIZE + Cardinality(Logged')
      BY <1>5, <2>7, <3>1, <3>2, <3>3, LogSizes
    <3>q. QED BY <1>2, <3>4, Zenon DEF RoomReserved
  <2>9. SleeperHasWaker'
    BY <1>1, <1>2, <1>3, Zenon DEF IInv, RoomInv, SleeperHasWaker
  <2>10. outstanding' # 0
    BY <1>1, <1>2, RoomLeft
  <2>q. QED BY <1>1, <1>2, <1>4, <1>5, <2>3, <2>4, <2>8, <2>9, <2>10 DEF IInv, RoomInv,
               Distinct
<1>10. PhaseInv'
  BY <1>1, <1>2, <1>4, Zenon DEF IInv, PhaseInv
<1>q. QED BY <1>6, <1>7, <1>8, <1>9, <1>10, Zenon DEF IInv

LEMMA EndOpInv ==
  ASSUME IInv, NEW p \in Procs, end_op(p)
  PROVE  IInv'
<1>1. /\ p \in InOp /\ boot = "up" /\ pc[p] = "op" /\ ~committing /\ outstanding >= 1
      /\ boot' = "up" /\ WroteInv(p) /\ InOp \in SUBSET Procs
  BY RoomLeft, Zenon DEF end_op, InOp, IInv, RoomInv
<1>2. /\ outstanding' = outstanding - 1
      /\ UNCHANGED <<disk, dlog, dhead, cache, dirty, holder, lh, cur, wrote, stamp, ops, crashes, oversize>>
  BY Zenon DEF end_op, diskVars, bufVars
<1>3. /\ Committer = {} /\ dhead = <<>>
      /\ \A l \in {"write_log", "write_head", "install", "clear", "done"} : ~Somewhere(l)
  BY <1>1, NoCommit, Zenon DEF IInv, ControlInv, PhaseInv, Somewhere, Committer
<1>4. /\ Cardinality(InOp \ {p}) = outstanding - 1 /\ outstanding \in Nat
      /\ (outstanding = 1 <=> InOp \ {p} = {})
  <2>1. IsFiniteSet(InOp) /\ outstanding = Cardinality(InOp) /\ outstanding \in Nat
    BY <1>1, Finite, Zenon DEF IInv, ControlInv
  <2>2. Cardinality(InOp \ {p}) = outstanding - 1
    BY <1>1, <2>1, FS_RemoveElement, Zenon
  <2>3. InOp \ {p} \in SUBSET Procs
    BY <1>1, Zenon
  <2>q. QED BY <2>1, <2>2, <2>3, Finite
<1>5. CASE outstanding = 1
  <2> DEFINE l == IF lh = <<>> THEN "done" ELSE "write_log"
  <2>1. committing' = TRUE /\ tail' = 0 /\ pc' = [pc EXCEPT ![p] = l]
    BY <1>5, Zenon DEF end_op, Goto
  <2>2. pc'[p] = l /\ \A q \in Procs \ {p} : pc'[q] = pc[q]
    BY <2>1, Zenon DEF IInv, TypeOK
  <2>3. InOp = {p}
    BY <1>1, <1>4, <1>5, Zenon
  <2>4. InOp' = {} /\ Committer' = {p}
    BY <1>3, <2>2, <2>3, Zenon DEF InOp, Committer
  <2>5. \A m \in {"write_log", "write_head", "install", "clear", "done"} : Somewhere(m)' <=> m = l
    BY <1>3, <2>2, Zenon DEF Somewhere
  <2>6. TypeOK'
    <3>1. outstanding' = 0 /\ 0 \in 0 .. Cardinality(Procs) /\ tail' \in 0 .. nlog - 1
      BY <1>2, <1>4, <1>5, <2>1, Finite, LogSizes, LogRoom
    <3>2. committing' \in BOOLEAN
      BY <2>1, Zenon
    <3>q. QED BY <1>1, <1>2, <2>1, <3>1, <3>2, Zenon DEF IInv, TypeOK
  <2>7. ControlInv'
    BY <1>1, <1>2, <1>4, <1>5, <2>1, <2>4, FS_EmptySet, Zenon DEF ControlInv, Stopped
  <2>8. \A b \in Blocks : holder[b] = NULL
    BY <1>1, <2>3 DEF IInv, TypeOK, BufferInv, InOp
  <2>9. BufferInv'
    <3>1. (\A q \in Procs : pc[q] \in {"log_write", "append"} =>
             cur[q] \in Blocks /\ holder[cur[q]] = q)'
      BY <2>4, Zenon DEF InOp
    <3>2. ~Somewhere("install") /\ ~Somewhere("install")'
      BY <1>3, <2>5, Zenon
    <3>3. ASSUME NEW b \in Blocks
          PROVE  (dirty[b] <=> /\ boot = "up"
                               /\ \E i \in 1 .. Len(lh) : lh[i] = b /\ (Somewhere("install") => i > tail))'
      BY <1>1, <1>2, <3>2, Zenon DEF IInv, BufferInv
    <3>q. QED BY <1>2, <2>8, <3>1, <3>3, Zenon DEF IInv, BufferInv
  <2>10. RoomInv'
    BY <1>1, <1>2, <2>1, <2>4 DEF IInv, RoomInv, Distinct, RoomReserved, SleeperHasWaker
  <2>11. PhaseInv'
    <3>1. lh # <<>> => Len(lh) \in Nat /\ Len(lh) > 0
      BY DEF IInv, TypeOK
    <3>q. QED BY <1>1, <1>2, <1>3, <2>1, <2>5, <3>1 DEF PhaseInv
  <2>q. QED BY <2>6, <2>7, <2>9, <2>10, <2>11, Zenon DEF IInv
<1>6. CASE outstanding # 1
  <2>1. /\ pc' = [q \in Procs |-> IF q = p THEN "idle" ELSE IF pc[q] = "asleep" THEN "retry" ELSE pc[q]]
        /\ committing' = committing /\ tail' = tail
    BY <1>6, Zenon DEF end_op, WakeupAndGoto
  <2>2. InOp' = InOp \ {p} /\ Committer' = Committer /\ outstanding' >= 1
    BY <1>1, <1>2, <1>4, <1>6, <2>1 DEF InOp, Committer
  <2>3. \A m \in {"write_log", "write_head", "install", "clear", "done"} : ~Somewhere(m)'
    BY <1>3, <2>1, Zenon DEF Somewhere
  <2>4. TypeOK'
    <3>1. outstanding' \in 0 .. Cardinality(Procs)
      BY <1>1, <1>2, <1>4, Finite DEF IInv, TypeOK
    <3>2. pc' \in [Procs -> Labels]
      BY <2>1, Zenon DEF IInv, TypeOK, Labels
    <3>q. QED BY <1>1, <1>2, <2>1, <3>1, <3>2, Zenon DEF IInv, TypeOK, Labels
  <2>5. ControlInv'
    BY <1>1, <1>2, <1>4, <2>1, <2>2, Zenon DEF IInv, ControlInv, Stopped
  <2>6. BufferInv'
    BY <1>1, <1>2, <1>3, <2>1, <2>3, BufferFrame, Zenon DEF IInv, TypeOK
  <2>7. RoomInv'
    <3>1. \A q \in InOp' : WroteInv(q)'
      BY <1>2, <2>1, <2>2 DEF IInv, RoomInv, WroteInv, InOp
    <3>2. SleeperHasWaker'
      BY <2>1, Zenon DEF SleeperHasWaker
    <3>3. IsFiniteSet(Logged') /\ Cardinality(Logged') \in Nat
      <4>1. IsFiniteSet(Logged) /\ Logged' \in SUBSET Logged
        BY <1>2, <2>2, LoggedSet, LoggedNext, ZenonT(30) DEF Logged
      <4>q. QED BY <4>1, FS_Subset, FS_CardinalityType, Zenon
    <3>4. ASSUME ~oversize PROVE Cardinality(Logged) <= Cardinality(Logged') + MAXOPBLOCKS
      <4>1. Logged \in SUBSET (Logged' \cup wrote[p])
        BY <1>1, <1>2, <2>2, LoggedNext, Zenon DEF Logged
      <4>2. IsFiniteSet(wrote[p]) /\ Cardinality(wrote[p]) <= MAXOPBLOCKS /\ Cardinality(wrote[p]) \in Nat
        <5>1. IsFiniteSet(wrote[p]) /\ Cardinality(wrote[p]) + 2 <= MAXOPBLOCKS
          BY <1>1, <3>4, Zenon DEF WroteInv, WithinShare
        <5>2. Cardinality(wrote[p]) \in Nat
          BY <5>1, FS_CardinalityType, Zenon
        <5>q. QED BY <5>1, <5>2, LogSizes
      <4>3. IsFiniteSet(Logged' \cap wrote[p])
        BY <3>3, FS_Subset, Zenon
      <4>4. /\ IsFiniteSet(Logged' \cup wrote[p]) /\ Cardinality(Logged' \cap wrote[p]) \in Nat
            /\ Cardinality(Logged' \cup wrote[p])
                 = Cardinality(Logged') + Cardinality(wrote[p]) - Cardinality(Logged' \cap wrote[p])
        BY <3>3, <4>2, <4>3, FS_Union, FS_CardinalityType, Zenon
      <4>5. Cardinality(Logged) <= Cardinality(Logged' \cup wrote[p])
        BY <4>1, <4>4, FS_Subset, Zenon
      <4>6. Cardinality(Logged) \in Nat /\ Cardinality(Logged' \cup wrote[p]) \in Nat
        BY <4>4, LoggedSet, FS_CardinalityType, Zenon
      <4>q. QED BY <3>3, <4>2, <4>4, <4>5, <4>6, LogSizes
    <3>5. RoomReserved'
      <4> SUFFICES ASSUME ~oversize PROVE RoomReserved'
        BY <1>2, Zenon DEF RoomReserved
      <4>1. Len(lh) + outstanding * MAXOPBLOCKS <= LOGSIZE + Cardinality(Logged)
        BY <1>1, Zenon DEF IInv, RoomInv, RoomReserved
      <4>2. Cardinality(Logged) \in Nat /\ Len(lh) \in Nat
        BY LoggedSet DEF IInv, TypeOK
      <4>3. /\ (outstanding - 1) * MAXOPBLOCKS = outstanding * MAXOPBLOCKS - MAXOPBLOCKS
            /\ outstanding * MAXOPBLOCKS \in Nat
        BY <1>4, LogSizes
      <4>4. Len(lh) + (outstanding - 1) * MAXOPBLOCKS <= LOGSIZE + Cardinality(Logged')
        BY <3>3, <3>4, <4>1, <4>2, <4>3, LogSizes
      <4>q. QED BY <1>2, <4>4, Zenon DEF RoomReserved
    <3>q. QED BY <1>1, <1>2, <2>2, <3>1, <3>2, <3>5 DEF IInv, RoomInv, Distinct
  <2>8. PhaseInv'
    BY <1>1, <1>2, <1>3, <2>3, Zenon DEF PhaseInv
  <2>q. QED BY <2>4, <2>5, <2>6, <2>7, <2>8, Zenon DEF IInv
<1>q. QED BY <1>5, <1>6, Zenon

-----------------------------------------------------------------------------
(* Commit *)

CommitLabels == {"write_log", "write_head", "install", "clear", "done"}

LEMMA Committing ==
  ASSUME IInv, NEW p \in Procs, pc[p] \in CommitLabels
  PROVE  /\ boot = "up" /\ committing /\ InOp = {} /\ outstanding = 0 /\ Committer = {p}
         /\ \A l \in CommitLabels : Somewhere(l) <=> l = pc[p]
         /\ \A b \in Blocks : holder[b] = NULL
         /\ \A q \in Procs \ {p} : pc[q] \in {"idle", "asleep", "retry"}
<1>1. p \in Committer
  BY Zenon DEF Committer, CommitLabels
<1>2. boot = "up" /\ committing /\ InOp = {} /\ outstanding = 0 /\ Committer = {p}
  BY <1>1, FS_EmptySet, Zenon DEF IInv, ControlInv, CommitLabels
<1>3. \A l \in CommitLabels : Somewhere(l) <=> l = pc[p]
  BY <1>2, Zenon DEF Somewhere, Committer, CommitLabels
<1>4. \A b \in Blocks : holder[b] = NULL
  BY <1>2 DEF IInv, TypeOK, BufferInv, InOp
<1>5. \A q \in Procs \ {p} : pc[q] \in {"idle", "asleep", "retry"}
  BY <1>2, Zenon DEF IInv, TypeOK, InOp, Committer
<1>q. QED BY <1>2, <1>3, <1>4, <1>5, Zenon

\* The committing process goes on to label l.
LEMMA CommitGoto ==
  ASSUME IInv, NEW p \in Procs, pc[p] \in CommitLabels, NEW l \in CommitLabels,
         pc' = [pc EXCEPT ![p] = l], UNCHANGED <<boot, committing, outstanding>>
  PROVE  /\ InOp' = {} /\ Committer' = {p} /\ ControlInv' /\ SleeperHasWaker' /\ RoomReserved'
         /\ \A m \in CommitLabels : Somewhere(m)' <=> m = l
         /\ \A q \in Procs : pc'[q] \notin {"log_write", "append"}
         /\ pc' \in [Procs -> Labels]
<1>1. pc'[p] = l /\ \A q \in Procs \ {p} : pc'[q] = pc[q]
  BY Zenon DEF IInv, TypeOK
<1>2. InOp' = {} /\ Committer' = {p}
  BY <1>1, Committing, Zenon DEF InOp, Committer, CommitLabels
<1>3. ControlInv'
  BY <1>2, Committing, Zenon DEF IInv, ControlInv, Stopped
<1>4. SleeperHasWaker' /\ RoomReserved'
  BY Committing, Zenon DEF SleeperHasWaker, RoomReserved
<1>5. \A m \in CommitLabels : Somewhere(m)' <=> m = l
  BY <1>1, Committing, Zenon DEF Somewhere, CommitLabels
<1>6. \A q \in Procs : pc'[q] \notin {"log_write", "append"}
  BY <1>2, Zenon DEF InOp
<1>7. pc' \in [Procs -> Labels]
  BY Zenon DEF IInv, TypeOK, Labels, CommitLabels
<1>q. QED BY <1>2, <1>3, <1>4, <1>5, <1>6, <1>7, Zenon

\* No buffer is locked and none is being logged.
LEMMA BufferQuiet ==
  ASSUME \A b \in Blocks : holder'[b] = NULL,
         \A q \in Procs : pc'[q] \notin {"log_write", "append"},
         \A b \in Blocks : ~dirty'[b] => cache'[b] = disk'[b],
         \A b \in Blocks : dirty'[b] <=>
           /\ boot' = "up"
           /\ \E i \in 1 .. Len(lh') : lh'[i] = b /\ (Somewhere("install")' => i > tail')
  PROVE  BufferInv'
  BY Zenon DEF BufferInv

\* No operation is under way.
LEMMA RoomQuiet ==
  ASSUME InOp' = {}, SleeperHasWaker', RoomReserved',
         Distinct(lh)', Distinct(dhead)', Len(lh') < nlog, Len(dhead') < nlog,
         committing' \/ boot' # "up" \/ lh' = <<>>
  PROVE  RoomInv'
  BY Zenon DEF RoomInv

LEMMA WriteLogInv ==
  ASSUME IInv, NEW p \in Procs, WriteLog(p)
  PROVE  IInv'
<1> DEFINE l == IF tail + 1 = Len(lh) THEN "write_head" ELSE "write_log"
           i == tail + 1
<1>1. /\ pc[p] = "write_log" /\ pc[p] \in CommitLabels /\ l \in CommitLabels
      /\ dlog' = [dlog EXCEPT ![i] = cache[lh[i]]]
      /\ tail' = IF i = Len(lh) THEN 0 ELSE i
      /\ UNCHANGED <<disk, dhead, cache, dirty, holder, lh, outstanding, committing, cur, wrote,
                     stamp, ops, boot, crashes, oversize>>
  BY Zenon DEF WriteLog, bufVars, logVars, CommitLabels
<1>2. pc' = [pc EXCEPT ![p] = l]
  BY <1>1, Zenon DEF WriteLog, Goto, IInv, TypeOK
<1>3. /\ i \in 1 .. Len(lh) /\ i \in 1 .. nlog - 1 /\ Len(lh) \in Nat /\ tail \in Nat
      /\ lh[i] \in Blocks /\ \A j \in 1 .. tail : dlog[j] = cache[lh[j]]
  <2>1. tail < Len(lh) /\ tail \in Nat /\ Len(lh) \in Nat /\ Len(lh) < nlog /\ lh \in Seq(Blocks)
        /\ \A j \in 1 .. tail : dlog[j] = cache[lh[j]]
    BY <1>1 DEF IInv, TypeOK, RoomInv, PhaseInv, Somewhere
  <2>q. QED BY <2>1, LogSizes
<1> HIDE DEF l, i
<1>4. TypeOK'
  <2>1. dlog' \in [1 .. nlog - 1 -> Data] /\ tail' \in 0 .. nlog - 1
    BY <1>1, <1>3, LogSizes DEF IInv, TypeOK
  <2>2. pc' \in [Procs -> Labels]
    BY <1>1, <1>2, CommitGoto, Zenon
  <2>q. QED BY <1>1, <2>1, <2>2, Zenon DEF IInv, TypeOK, Labels
<1>5. BufferInv'
  <2>1. ~Somewhere("install") /\ ~Somewhere("install")'
    BY <1>1, <1>2, Committing, CommitGoto, Zenon DEF CommitLabels, l
  <2>2. \A b \in Blocks : dirty'[b] <=>
           /\ boot' = "up"
           /\ \E j \in 1 .. Len(lh') : lh'[j] = b /\ (Somewhere("install")' => j > tail')
    BY <1>1, <2>1, Zenon DEF IInv, BufferInv
  <2>3. \A q \in Procs : pc'[q] \notin {"log_write", "append"}
    BY <1>1, <1>2, CommitGoto, Zenon
  <2>4. \A b \in Blocks : holder'[b] = NULL
    BY <1>1, Committing, Zenon
  <2>5. \A b \in Blocks : ~dirty'[b] => cache'[b] = disk'[b]
    BY <1>1, <2>4, Zenon DEF IInv, BufferInv
  <2>q. QED BY <2>2, <2>3, <2>4, <2>5, BufferQuiet, Zenon
<1>6. RoomInv'
  <2>1. /\ Distinct(lh)' /\ Distinct(dhead)' /\ Len(lh') < nlog /\ Len(dhead') < nlog
        /\ committing'
    BY <1>1, Committing DEF IInv, RoomInv, Distinct
  <2>2. InOp' = {} /\ SleeperHasWaker' /\ RoomReserved'
    BY <1>1, <1>2, CommitGoto, Zenon
  <2>q. QED BY <2>1, <2>2, RoomQuiet, Zenon
<1>7. PhaseInv'
  <2>1. \A m \in CommitLabels : Somewhere(m)' <=> m = l
    BY <1>1, <1>2, CommitGoto, Zenon
  <2>2. boot' = "up" /\ dhead' = <<>>
    BY <1>1, Committing, Zenon DEF IInv, PhaseInv, CommitLabels
  <2>3. \A j \in 1 .. i : dlog'[j] = cache'[lh'[j]]
    <3>1. dlog \in [1 .. nlog - 1 -> Data]
      BY Zenon DEF IInv, TypeOK
    <3>2. \A j \in 1 .. i : j \in 1 .. nlog - 1 /\ (j = i \/ j \in 1 .. tail)
      BY <1>3, LogSizes DEF i
    <3>q. QED BY <1>1, <1>3, <3>1, <3>2, Zenon
  <2>4. CASE i = Len(lh)
    <3>1. l = "write_head" /\ tail' = 0 /\ lh' # <<>>
      BY <1>1, <1>3, <2>4 DEF l, i
    <3>q. QED BY <1>1, <2>1, <2>2, <2>3, <2>4, <3>1, Zenon DEF PhaseInv, CommitLabels
  <2>5. CASE i # Len(lh)
    <3>1. l = "write_log" /\ tail' = i /\ i < Len(lh)
      BY <1>1, <1>3, <2>5 DEF l, i
    <3>q. QED BY <1>1, <2>1, <2>2, <2>3, <3>1, Zenon DEF PhaseInv, CommitLabels
  <2>q. QED BY <2>4, <2>5, Zenon
<1>q. QED BY <1>1, <1>2, <1>4, <1>5, <1>6, <1>7, CommitGoto, Zenon DEF IInv

LEMMA WriteHeadInv ==
  ASSUME IInv, NEW p \in Procs, WriteHead(p)
  PROVE  IInv'
<1>1. /\ pc[p] = "write_head" /\ pc[p] \in CommitLabels /\ "install" \in CommitLabels
      /\ dhead' = lh /\ pc' = [pc EXCEPT ![p] = "install"]
      /\ UNCHANGED <<disk, dlog, cache, dirty, holder, lh, outstanding, committing, cur, wrote,
                     stamp, ops, boot, tail, crashes, oversize>>
  BY Zenon DEF WriteHead, Goto, bufVars, logVars, CommitLabels
<1>2. /\ tail = 0 /\ lh # <<>> /\ \A i \in 1 .. Len(lh) : dlog[i] = cache[lh[i]]
      /\ Len(lh) \in Nat /\ Len(lh) > 0
  BY <1>1 DEF IInv, TypeOK, PhaseInv, Somewhere
<1>3. /\ \A m \in CommitLabels : Somewhere(m)' <=> m = "install"
      /\ ~Somewhere("install")
  BY <1>1, CommitGoto, Committing, Zenon DEF CommitLabels
<1>4. TypeOK'
  BY <1>1, CommitGoto, Zenon DEF IInv, TypeOK, Labels
<1>5. BufferInv'
  <2>1. \A b \in Blocks : dirty'[b] <=>
           /\ boot' = "up"
           /\ \E j \in 1 .. Len(lh') : lh'[j] = b /\ (Somewhere("install")' => j > tail')
    <3>1. \A j \in 1 .. Len(lh) : j > tail
      BY <1>2
    <3>2. \A b \in Blocks : dirty[b] <=>
             /\ boot = "up"
             /\ \E j \in 1 .. Len(lh) : lh[j] = b /\ (Somewhere("install") => j > tail)
      BY Zenon DEF IInv, BufferInv
    <3>q. QED BY <1>1, <1>3, <3>1, <3>2, Zenon
  <2>2. \A q \in Procs : pc'[q] \notin {"log_write", "append"}
    BY <1>1, CommitGoto, Zenon
  <2>3. \A b \in Blocks : holder'[b] = NULL
    BY <1>1, Committing, Zenon
  <2>4. \A b \in Blocks : ~dirty'[b] => cache'[b] = disk'[b]
    BY <1>1, <2>3, Zenon DEF IInv, BufferInv
  <2>q. QED BY <2>1, <2>2, <2>3, <2>4, BufferQuiet, Zenon
<1>6. RoomInv'
  <2>1. /\ Distinct(lh)' /\ Distinct(dhead)' /\ Len(lh') < nlog /\ Len(dhead') < nlog
        /\ committing'
    BY <1>1, Committing DEF IInv, RoomInv, Distinct
  <2>2. InOp' = {} /\ SleeperHasWaker' /\ RoomReserved'
    BY <1>1, CommitGoto, Zenon
  <2>q. QED BY <2>1, <2>2, RoomQuiet, Zenon
<1>7. PhaseInv'
  BY <1>1, <1>2, <1>3, Committing DEF PhaseInv, CommitLabels
<1>q. QED BY <1>1, <1>4, <1>5, <1>6, <1>7, CommitGoto, Zenon DEF IInv

\* One block of install_trans, by a committing process or by recovery.
LEMMA InstallStep ==
  ASSUME IInv, tail < Len(lh), lh = dhead, Install(lh[tail + 1]),
         \A i \in 1 .. tail : disk[lh[i]] = dlog[i]
  PROVE  /\ tail + 1 \in 1 .. Len(lh) /\ lh[tail + 1] \in Blocks /\ Len(lh) \in Nat /\ tail \in Nat
         /\ disk' \in [Blocks -> Data] /\ cache' \in [Blocks -> Data] /\ dirty' \in [Blocks -> BOOLEAN]
         /\ disk'[lh[tail + 1]] = dlog[tail + 1] /\ cache'[lh[tail + 1]] = dlog[tail + 1]
         /\ ~dirty'[lh[tail + 1]]
         /\ \A b \in Blocks \ {lh[tail + 1]} :
              disk'[b] = disk[b] /\ cache'[b] = cache[b] /\ dirty'[b] = dirty[b]
         /\ \A i \in 1 .. tail + 1 : disk'[lh[i]] = dlog[i]
<1>1. /\ tail + 1 \in 1 .. Len(lh) /\ lh[tail + 1] \in Blocks /\ Len(lh) \in Nat /\ tail \in Nat
      /\ tail + 1 \in 1 .. nlog - 1
  <2>1. tail \in Nat /\ Len(lh) \in Nat /\ lh \in Seq(Blocks) /\ Len(lh) < nlog
    BY DEF IInv, TypeOK, RoomInv
  <2>q. QED BY <2>1, LogSizes
<1> DEFINE i == tail + 1
           c == lh[tail + 1]
           v == dlog[tail + 1]
<1>2. /\ disk' = [disk EXCEPT ![c] = v] /\ cache' = [cache EXCEPT ![c] = v]
      /\ dirty' = [dirty EXCEPT ![c] = FALSE]
  BY Zenon DEF Install
<1>3. /\ disk \in [Blocks -> Data] /\ cache \in [Blocks -> Data] /\ dirty \in [Blocks -> BOOLEAN]
      /\ v \in Data /\ c \in Blocks /\ \A j \in 1 .. Len(lh) : lh[j] \in Blocks
  BY <1>1 DEF IInv, TypeOK
<1>4. \A j \in 1 .. Len(lh) : lh[j] = c => j = i
  BY <1>1, Zenon DEF IInv, RoomInv, Distinct
<1> HIDE DEF i, c, v
<1>5. /\ disk' \in [Blocks -> Data] /\ cache' \in [Blocks -> Data] /\ dirty' \in [Blocks -> BOOLEAN]
      /\ disk'[c] = v /\ cache'[c] = v /\ ~dirty'[c]
      /\ \A b \in Blocks \ {c} :
              disk'[b] = disk[b] /\ cache'[b] = cache[b] /\ dirty'[b] = dirty[b]
  BY <1>2, <1>3, Zenon
<1>6. ASSUME NEW j \in 1 .. i PROVE disk'[lh[j]] = dlog[j]
  <2>1. CASE j = i
    BY <1>5, <2>1, Zenon DEF i, c, v
  <2>2. CASE j # i
    <3>1. j \in 1 .. tail /\ j \in 1 .. Len(lh)
      BY <1>1, <2>2 DEF i
    <3>2. lh[j] \in Blocks \ {c}
      BY <1>3, <1>4, <2>2, <3>1, Zenon
    <3>q. QED BY <1>5, <3>1, <3>2, Zenon
  <2>q. QED BY <2>1, <2>2, Zenon
<1>q. QED BY <1>1, <1>5, <1>6, Zenon DEF i, c, v

LEMMA InstallTransInv ==
  ASSUME IInv, NEW p \in Procs, InstallTrans(p)
  PROVE  IInv'
<1> DEFINE l == IF tail + 1 = Len(lh) THEN "clear" ELSE "install"
           c == lh[tail + 1]
<1>1. /\ pc[p] = "install" /\ pc[p] \in CommitLabels /\ l \in CommitLabels
      /\ Install(c) /\ boot' = boot
      /\ tail' = IF tail + 1 = Len(lh) THEN 0 ELSE tail + 1
      /\ lh' = IF tail + 1 = Len(lh) THEN <<>> ELSE lh
      /\ UNCHANGED <<dlog, dhead, holder, outstanding, committing, cur, wrote, stamp, ops, crashes, oversize>>
  BY Zenon DEF InstallTrans, Install, CommitLabels
<1>2. pc' = [pc EXCEPT ![p] = l]
  BY <1>1, Zenon DEF InstallTrans, Goto, IInv, TypeOK
<1>3. /\ tail < Len(lh) /\ dhead = lh
      /\ \A i \in 1 .. Len(lh) : dlog[i] = cache[lh[i]]
      /\ \A i \in 1 .. tail : disk[lh[i]] = dlog[i]
  BY <1>1, Zenon DEF IInv, PhaseInv, Somewhere
<1>4. /\ tail + 1 \in 1 .. Len(lh) /\ c \in Blocks /\ Len(lh) \in Nat /\ tail \in Nat
      /\ disk' \in [Blocks -> Data] /\ cache' \in [Blocks -> Data] /\ dirty' \in [Blocks -> BOOLEAN]
      /\ disk'[c] = dlog[tail + 1] /\ cache'[c] = dlog[tail + 1] /\ ~dirty'[c]
      /\ \A b \in Blocks \ {c} :
           disk'[b] = disk[b] /\ cache'[b] = cache[b] /\ dirty'[b] = dirty[b]
      /\ \A i \in 1 .. tail + 1 : disk'[lh[i]] = dlog[i]
  BY <1>1, <1>3, InstallStep, Zenon
<1>5. \A b \in Blocks : cache'[b] = cache[b]
  BY <1>3, <1>4, Zenon
<1> HIDE DEF l, c
<1>6. TypeOK'
  <2>1. tail' \in 0 .. nlog - 1 /\ lh' \in Seq(Blocks)
    BY <1>1, <1>3, <1>4, LogSizes DEF IInv, TypeOK, RoomInv
  <2>2. pc' \in [Procs -> Labels]
    BY <1>1, <1>2, CommitGoto, Zenon
  <2>q. QED BY <1>1, <1>4, <2>1, <2>2, Zenon DEF IInv, TypeOK, Labels
<1>7. BufferInv'
  <2>1. \A q \in Procs : pc'[q] \notin {"log_write", "append"}
    BY <1>1, <1>2, CommitGoto, Zenon
  <2>2. \A b \in Blocks : holder'[b] = NULL
    BY <1>1, Committing, Zenon
  <2>3. \A b \in Blocks : ~dirty'[b] => cache'[b] = disk'[b]
    <3>1. \A b \in Blocks : ~dirty[b] /\ holder[b] = NULL => cache[b] = disk[b]
      BY Zenon DEF IInv, BufferInv
    <3>2. ASSUME NEW b \in Blocks, ~dirty'[b] PROVE cache'[b] = disk'[b]
      <4>1. CASE b = c
        BY <1>4, <4>1, Zenon
      <4>2. CASE b # c
        BY <1>1, <1>4, <2>2, <3>1, <3>2, <4>2, Zenon
      <4>q. QED BY <4>1, <4>2, Zenon
    <3>q. QED BY <3>2, Zenon
  <2>4. \A b \in Blocks : dirty[b] <=> \E i \in 1 .. Len(lh) : lh[i] = b /\ i > tail
    BY <1>1, Committing, Zenon DEF IInv, BufferInv, CommitLabels
  <2>5. \A i \in 1 .. Len(lh) : lh[i] = c => i = tail + 1
    BY <1>4, Zenon DEF IInv, RoomInv, Distinct, c
  <2>6. \A b \in Blocks : dirty'[b] <=> \E i \in 1 .. Len(lh) : lh[i] = b /\ i > tail + 1
    <3>1. ASSUME NEW b \in Blocks, b # c
          PROVE  dirty'[b] <=> \E i \in 1 .. Len(lh) : lh[i] = b /\ i > tail + 1
      <4>1. dirty'[b] <=> dirty[b]
        BY <1>4, <3>1, Zenon
      <4>2. \A i \in 1 .. Len(lh) : lh[i] = b => (i > tail <=> i > tail + 1)
        BY <1>4, <3>1 DEF c
      <4>q. QED BY <2>4, <4>1, <4>2, Zenon
    <3>2. ~\E i \in 1 .. Len(lh) : lh[i] = c /\ i > tail + 1
      BY <1>4, <2>5
    <3>q. QED BY <1>4, <3>1, <3>2, Zenon
  <2>7. boot' = "up" /\ (Somewhere("install")' <=> tail + 1 # Len(lh))
    <3>1. "install" \in CommitLabels
      BY Zenon DEF CommitLabels
    <3>q. QED BY <1>1, <1>2, <3>1, Committing, CommitGoto, Zenon DEF l
  <2>8. \A b \in Blocks : dirty'[b] <=>
           /\ boot' = "up"
           /\ \E i \in 1 .. Len(lh') : lh'[i] = b /\ (Somewhere("install")' => i > tail')
    <3>1. CASE tail + 1 = Len(lh)
      BY <1>1, <1>4, <2>6, <3>1
    <3>2. CASE tail + 1 # Len(lh)
      BY <1>1, <2>6, <2>7, <3>2, Zenon
    <3>q. QED BY <3>1, <3>2, Zenon
  <2>q. QED BY <2>1, <2>2, <2>3, <2>8, BufferQuiet, Zenon
<1>8. RoomInv'
  <2>1. Distinct(lh)' /\ Distinct(dhead)' /\ Len(lh') < nlog /\ Len(dhead') < nlog
    BY <1>1, LogSizes DEF IInv, RoomInv, Distinct
  <2>2. InOp' = {} /\ SleeperHasWaker' /\ RoomReserved' /\ committing'
    BY <1>1, <1>2, CommitGoto, Committing, Zenon
  <2>q. QED BY <2>1, <2>2, RoomQuiet, Zenon
<1>9. PhaseInv'
  <2>1. \A m \in CommitLabels : Somewhere(m)' <=> m = l
    BY <1>1, <1>2, CommitGoto, Zenon
  <2>2. boot' = "up"
    BY <1>1, Committing, Zenon
  <2>3. CASE tail + 1 = Len(lh)
    <3>1. lh' = <<>> /\ l = "clear" /\ \A i \in 1 .. Len(dhead') : disk'[dhead'[i]] = dlog'[i]
      BY <1>1, <1>3, <1>4, <2>3, Zenon DEF l
    <3>q. QED BY <2>1, <2>2, <3>1, Zenon DEF PhaseInv, CommitLabels
  <2>4. CASE tail + 1 # Len(lh)
    <3>1. lh' = lh /\ l = "install" /\ tail' = tail + 1 /\ tail' < Len(lh) /\ dhead' = lh'
      <4>1. lh' = lh /\ l = "install" /\ tail' = tail + 1 /\ dhead' = lh'
        BY <1>1, <1>3, <2>4, Zenon DEF l
      <4>2. tail < Len(lh) /\ Len(lh) \in Nat /\ tail \in Nat
        BY <1>3, <1>4, Zenon
      <4>q. QED BY <2>4, <4>1, <4>2
    <3>2. \A i \in 1 .. Len(lh') : dlog'[i] = cache'[lh'[i]]
      <4>1. \A i \in 1 .. Len(lh) : lh[i] \in Blocks
        BY DEF IInv, TypeOK
      <4>q. QED BY <1>1, <1>3, <1>5, <3>1, <4>1, Zenon
    <3>3. \A i \in 1 .. tail' : disk'[lh'[i]] = dlog'[i]
      BY <1>1, <1>4, <3>1, Zenon
    <3>q. QED BY <2>1, <2>2, <3>1, <3>2, <3>3, Zenon DEF PhaseInv, CommitLabels
  <2>q. QED BY <2>3, <2>4, Zenon
<1>q. QED BY <1>1, <1>2, <1>6, <1>7, <1>8, <1>9, CommitGoto, Zenon DEF IInv

LEMMA ClearHeadInv ==
  ASSUME IInv, NEW p \in Procs, ClearHead(p)
  PROVE  IInv'
<1>1. /\ pc[p] = "clear" /\ pc[p] \in CommitLabels /\ "done" \in CommitLabels
      /\ dhead' = lh /\ pc' = [pc EXCEPT ![p] = "done"]
      /\ UNCHANGED <<disk, dlog, cache, dirty, holder, lh, outstanding, committing, cur, wrote,
                     stamp, ops, boot, tail, crashes, oversize>>
  BY Zenon DEF ClearHead, Goto, bufVars, logVars, CommitLabels
<1>2. lh = <<>>
  BY <1>1, Zenon DEF IInv, PhaseInv, Somewhere
<1>3. \A m \in CommitLabels : Somewhere(m)' <=> m = "done"
  BY <1>1, CommitGoto, Zenon
<1>4. TypeOK'
  BY <1>1, CommitGoto, Zenon DEF IInv, TypeOK, Labels
<1>5. BufferInv'
  <2>1. \A b \in Blocks : dirty'[b] <=>
           /\ boot' = "up"
           /\ \E j \in 1 .. Len(lh') : lh'[j] = b /\ (Somewhere("install")' => j > tail')
    BY <1>1, <1>2 DEF IInv, BufferInv
  <2>2. \A q \in Procs : pc'[q] \notin {"log_write", "append"}
    BY <1>1, CommitGoto, Zenon
  <2>3. \A b \in Blocks : holder'[b] = NULL
    BY <1>1, Committing, Zenon
  <2>4. \A b \in Blocks : ~dirty'[b] => cache'[b] = disk'[b]
    BY <1>1, <2>3, Zenon DEF IInv, BufferInv
  <2>q. QED BY <2>1, <2>2, <2>3, <2>4, BufferQuiet, Zenon
<1>6. RoomInv'
  <2>1. /\ Distinct(lh)' /\ Distinct(dhead)' /\ Len(lh') < nlog /\ Len(dhead') < nlog
    BY <1>1 DEF IInv, RoomInv, Distinct
  <2>2. InOp' = {} /\ SleeperHasWaker' /\ RoomReserved'
    BY <1>1, CommitGoto, Zenon
  <2>q. QED BY <1>1, <1>2, <2>1, <2>2, RoomQuiet, Zenon
<1>7. PhaseInv'
  BY <1>1, <1>2, <1>3, Committing, Zenon DEF PhaseInv, CommitLabels
<1>q. QED BY <1>1, <1>4, <1>5, <1>6, <1>7, CommitGoto, Zenon DEF IInv

LEMMA CommitDoneInv ==
  ASSUME IInv, NEW p \in Procs, CommitDone(p)
  PROVE  IInv'
<1>1. /\ pc[p] = "done" /\ pc[p] \in CommitLabels /\ committing' = FALSE
      /\ pc' = [q \in Procs |-> IF q = p THEN "idle" ELSE IF pc[q] = "asleep" THEN "retry" ELSE pc[q]]
      /\ UNCHANGED <<disk, dlog, dhead, cache, dirty, holder, lh, outstanding, cur, wrote,
                     stamp, ops, boot, tail, crashes>>
      /\ oversize' = FALSE
  BY Zenon DEF CommitDone, WakeupAndGoto, diskVars, bufVars, CommitLabels
<1>2. lh = <<>> /\ boot = "up" /\ outstanding = 0 /\ dhead = <<>>
  BY <1>1, Committing, Zenon DEF IInv, PhaseInv, Somewhere, CommitLabels
<1>3. /\ InOp' = {} /\ Committer' = {}
      /\ \A m \in CommitLabels : ~Somewhere(m)'
      /\ \A q \in Procs : pc'[q] \in {"idle", "retry"}
  BY <1>1, Committing, Zenon DEF InOp, Committer, Somewhere, CommitLabels
<1>4. TypeOK'
  <2>1. pc' \in [Procs -> Labels] /\ committing' \in BOOLEAN
    BY <1>1, <1>3, Zenon DEF Labels
  <2>q. QED BY <1>1, <2>1, Zenon DEF IInv, TypeOK, Labels
<1>5. ControlInv'
  BY <1>1, <1>2, <1>3, FS_EmptySet, Zenon DEF ControlInv, Stopped
<1>6. BufferInv'
  <2>1. \A b \in Blocks : dirty'[b] <=>
           /\ boot' = "up"
           /\ \E j \in 1 .. Len(lh') : lh'[j] = b /\ (Somewhere("install")' => j > tail')
    BY <1>1, <1>2 DEF IInv, BufferInv
  <2>2. \A b \in Blocks : holder'[b] = NULL
    BY <1>1, Committing, Zenon
  <2>3. \A b \in Blocks : ~dirty'[b] => cache'[b] = disk'[b]
    BY <1>1, <2>2, Zenon DEF IInv, BufferInv
  <2>q. QED BY <1>3, <2>1, <2>2, <2>3, BufferQuiet, Zenon
<1>7. RoomInv'
  <2>1. SleeperHasWaker'
    BY <1>3, Zenon DEF SleeperHasWaker
  <2>2. RoomReserved'
    <3>1. Logged' = {}
      BY <1>3, LoggedNext, Zenon
    <3>q. QED BY <1>1, <1>2, <3>1, FS_EmptySet, LogSizes DEF RoomReserved
  <2>q. QED BY <1>1, <1>2, <1>3, <2>1, <2>2, RoomQuiet DEF IInv, RoomInv, Distinct
<1>8. PhaseInv'
  BY <1>1, <1>2, <1>3, Zenon DEF PhaseInv, CommitLabels
<1>q. QED BY <1>4, <1>5, <1>6, <1>7, <1>8, Zenon DEF IInv

-----------------------------------------------------------------------------
(* The buffer cache, crashes and recovery *)

LEMMA StutterInv ==
  ASSUME IInv, UNCHANGED vars
  PROVE  IInv'
<1>1. TypeOK'
  BY Zenon DEF IInv, TypeOK, vars, diskVars, bufVars, logVars, procVars
<1>2. /\ InOp' = InOp /\ Committer' = Committer /\ Logged' = Logged
      /\ \A l : Somewhere(l)' <=> Somewhere(l)
  BY Zenon DEF InOp, Committer, Logged, Somewhere, vars, procVars
<1>3. ControlInv'
  BY <1>2, Zenon DEF IInv, ControlInv, vars, logVars, procVars, Stopped
<1>4. BufferInv'
  BY <1>2, Zenon DEF IInv, BufferInv, vars, diskVars, bufVars, logVars, procVars
<1>5. RoomInv'
  BY <1>2 DEF IInv, RoomInv, WroteInv, RoomReserved, SleeperHasWaker, Distinct, vars,
              diskVars, logVars, procVars
<1>6. PhaseInv'
  BY <1>2, Zenon DEF IInv, PhaseInv, vars, diskVars, bufVars, logVars, procVars
<1>q. QED BY <1>1, <1>3, <1>4, <1>5, <1>6, Zenon DEF IInv

\* A buffer that may be recycled is as on disk.
LEMMA RecycleSame ==
  ASSUME IInv, NEW b \in Blocks, Recycle(b)
  PROVE  UNCHANGED vars
<1>1. cache[b] = disk[b] /\ cache \in [Blocks -> Data]
  BY Zenon DEF IInv, TypeOK, BufferInv, Recycle
<1>2. cache' = cache
  BY <1>1, Zenon DEF Recycle
<1>q. QED BY <1>2, Zenon DEF Recycle, vars, diskVars, bufVars, logVars, procVars

\* Nothing is under way before recovery ends.
LEMMA Booting ==
  ASSUME IInv, boot # "up"
  PROVE  /\ outstanding = 0 /\ ~committing
         /\ \A p \in Procs : pc[p] = "idle"
         /\ \A b \in Blocks : holder[b] = NULL /\ ~dirty[b] /\ cache[b] = disk[b]
<1>1. /\ \A p \in Procs : pc[p] = "idle"
      /\ outstanding = Cardinality(InOp)
      /\ committing <=> Committer # {}
  BY Zenon DEF IInv, ControlInv
<1>2. InOp = {} /\ Committer = {}
  BY <1>1, Zenon DEF InOp, Committer
<1>3. ASSUME NEW b \in Blocks PROVE holder[b] = NULL /\ ~dirty[b]
  <2>1. holder[b] \in Procs \cup {NULL}
    BY Zenon DEF IInv, TypeOK
  <2>q. QED BY <1>1, <2>1, Zenon DEF IInv, BufferInv
<1>4. ASSUME NEW b \in Blocks PROVE cache[b] = disk[b]
  BY <1>3, Zenon DEF IInv, BufferInv
<1>q. QED BY <1>1, <1>2, <1>3, <1>4, FS_EmptySet, Zenon

LEMMA BootQuiet ==
  ASSUME \A p \in Procs : pc'[p] = "idle", outstanding' = 0, committing' = FALSE, boot' \notin {"panic", "overrun"}
  PROVE  /\ InOp' = {} /\ ControlInv' /\ SleeperHasWaker'
         /\ \A l \in CommitLabels : ~Somewhere(l)'
         /\ boot' # "up" \/ lh' = <<>> => RoomReserved'
<1>1. InOp' = {} /\ Committer' = {}
  BY Zenon DEF InOp, Committer
<1>2. Cardinality({}) = 0
  BY FS_EmptySet, Zenon
<1>3. ControlInv'
  BY <1>1, <1>2, Zenon DEF ControlInv, Stopped
<1>4. SleeperHasWaker' /\ \A l \in CommitLabels : ~Somewhere(l)'
  BY Zenon DEF SleeperHasWaker, Somewhere, CommitLabels
<1>5. Logged' = {}
  BY <1>1, LoggedNext, Zenon
<1>6. boot' # "up" \/ lh' = <<>> => RoomReserved'
  BY <1>2, <1>5, LogSizes DEF RoomReserved
<1>q. QED BY <1>1, <1>3, <1>4, <1>6, Zenon

LEMMA CrashInv ==
  ASSUME TypeOK, Distinct(dhead), Len(dhead) < nlog, Crash
  PROVE  IInv'
<1>1. /\ boot' = "read_head" /\ lh' = <<>> /\ outstanding' = 0 /\ committing' = FALSE /\ tail' = 0
      /\ \A p \in Procs : pc'[p] = "idle"
      /\ \A b \in Blocks : holder'[b] = NULL /\ ~dirty'[b] /\ cache'[b] = disk'[b]
      /\ dhead' = dhead
  BY Zenon DEF Crash, diskVars
<1>2. TypeOK'
  <2>1. outstanding' \in 0 .. Cardinality(Procs) /\ tail' \in 0 .. nlog - 1
    BY <1>1, LogSizes, Finite
  <2>2. crashes' \in 0 .. MaxCrashes
    BY LogBounds DEF TypeOK, Crash
  <2>3. /\ pc' \in [Procs -> Labels] /\ cur' \in [Procs -> Blocks \cup {NULL}]
        /\ wrote' \in [Procs -> SUBSET Blocks] /\ dirty' \in [Blocks -> BOOLEAN]
        /\ holder' \in [Blocks -> Procs \cup {NULL}] /\ lh' \in Seq(Blocks)
    BY DEF Crash, Labels
  <2>q. QED BY <1>1, <2>1, <2>2, <2>3, Zenon DEF TypeOK, Crash, diskVars, Labels
<1>3. /\ InOp' = {} /\ ControlInv' /\ SleeperHasWaker' /\ RoomReserved'
      /\ \A l \in CommitLabels : ~Somewhere(l)'
  BY <1>1, BootQuiet, Zenon
<1>4. BufferInv'
  BY <1>1, BufferQuiet, Zenon
<1>5. RoomInv'
  <2>1. Distinct(lh)' /\ Distinct(dhead)' /\ Len(lh') < nlog /\ Len(dhead') < nlog
    BY <1>1, LogSizes DEF Distinct
  <2>q. QED BY <1>1, <1>3, <2>1, RoomQuiet, Zenon
<1>6. PhaseInv'
  BY <1>1, <1>3, Zenon DEF PhaseInv, CommitLabels
<1>q. QED BY <1>2, <1>3, <1>4, <1>5, <1>6, Zenon DEF IInv

LEMMA ReadHeadInv ==
  ASSUME IInv, ReadHead
  PROVE  IInv'
<1>1. /\ boot = "read_head" /\ lh' = dhead /\ tail' = 0
      /\ boot' = IF dhead = <<>> THEN "clear" ELSE "install"
      /\ UNCHANGED <<disk, dlog, dhead, cache, dirty, holder, outstanding, committing, pc, cur,
                     wrote, stamp, ops, crashes, oversize>>
  BY Zenon DEF ReadHead, diskVars, bufVars, procVars
<1>2. /\ outstanding' = 0 /\ committing' = FALSE /\ boot' \notin {"up", "panic", "overrun"}
      /\ \A p \in Procs : pc'[p] = "idle"
      /\ \A b \in Blocks : holder'[b] = NULL /\ ~dirty'[b] /\ cache'[b] = disk'[b]
  <2>1. committing' = FALSE
    BY <1>1, Booting, Zenon DEF IInv, TypeOK
  <2>q. QED BY <1>1, <2>1, Booting, Zenon
<1>3. TypeOK'
  BY <1>1, LogSizes DEF IInv, TypeOK
<1>4. /\ InOp' = {} /\ ControlInv' /\ SleeperHasWaker' /\ RoomReserved'
      /\ \A l \in CommitLabels : ~Somewhere(l)'
  BY <1>2, BootQuiet, Zenon
<1>5. BufferInv'
  BY <1>2, BufferQuiet, Zenon
<1>6. RoomInv'
  <2>1. Distinct(lh)' /\ Distinct(dhead)' /\ Len(lh') < nlog /\ Len(dhead') < nlog
    BY <1>1, Zenon DEF IInv, RoomInv, Distinct
  <2>q. QED BY <1>2, <1>4, <2>1, RoomQuiet, Zenon
<1>7. PhaseInv'
  <2>1. dhead # <<>> => 0 < Len(dhead)
    BY DEF IInv, TypeOK
  <2>q. QED BY <1>1, <1>4, <2>1 DEF PhaseInv, CommitLabels
<1>q. QED BY <1>3, <1>4, <1>5, <1>6, <1>7, Zenon DEF IInv

LEMMA RecoverInstallInv ==
  ASSUME IInv, RecoverInstall
  PROVE  IInv'
<1>1. /\ boot = "install" /\ Install(lh[tail + 1]) /\ pc' = pc
      /\ tail' = IF tail + 1 = Len(lh) THEN 0 ELSE tail + 1
      /\ lh' = IF tail + 1 = Len(lh) THEN <<>> ELSE lh
      /\ boot' = IF tail + 1 = Len(lh) THEN "clear" ELSE "install"
      /\ UNCHANGED <<dlog, dhead, holder, outstanding, committing, cur, wrote, stamp, ops, crashes, oversize>>
  BY Zenon DEF RecoverInstall, Install
<1>2. tail < Len(lh) /\ lh = dhead /\ \A i \in 1 .. tail : disk[lh[i]] = dlog[i]
  BY <1>1, Zenon DEF IInv, PhaseInv
<1> DEFINE c == lh[tail + 1]
<1>3. /\ tail + 1 \in 1 .. Len(lh) /\ c \in Blocks /\ Len(lh) \in Nat /\ tail \in Nat
      /\ disk' \in [Blocks -> Data] /\ cache' \in [Blocks -> Data] /\ dirty' \in [Blocks -> BOOLEAN]
      /\ disk'[c] = dlog[tail + 1] /\ cache'[c] = dlog[tail + 1] /\ ~dirty'[c]
      /\ \A b \in Blocks \ {c} :
           disk'[b] = disk[b] /\ cache'[b] = cache[b] /\ dirty'[b] = dirty[b]
      /\ \A i \in 1 .. tail + 1 : disk'[lh[i]] = dlog[i]
  BY <1>1, <1>2, InstallStep, Zenon
<1> HIDE DEF c
<1>4. /\ outstanding' = 0 /\ committing' = FALSE /\ boot' \notin {"up", "panic", "overrun"}
      /\ \A p \in Procs : pc'[p] = "idle"
      /\ \A b \in Blocks : holder'[b] = NULL /\ ~dirty'[b] /\ cache'[b] = disk'[b]
  <2>1. committing' = FALSE
    BY <1>1, Booting, Zenon DEF IInv, TypeOK
  <2>q. QED BY <1>1, <1>3, <2>1, Booting, Zenon
<1>5. TypeOK'
  <2>1. tail' \in 0 .. nlog - 1 /\ lh' \in Seq(Blocks)
    BY <1>1, <1>2, <1>3, LogSizes DEF IInv, TypeOK, RoomInv
  <2>q. QED BY <1>1, <1>3, <2>1, Zenon DEF IInv, TypeOK
<1>6. /\ InOp' = {} /\ ControlInv' /\ SleeperHasWaker' /\ RoomReserved'
      /\ \A l \in CommitLabels : ~Somewhere(l)'
  BY <1>4, BootQuiet, Zenon
<1>7. BufferInv'
  BY <1>4, BufferQuiet, Zenon
<1>8. RoomInv'
  <2>1. Distinct(lh)' /\ Distinct(dhead)' /\ Len(lh') < nlog /\ Len(dhead') < nlog
    BY <1>1, LogSizes DEF IInv, RoomInv, Distinct
  <2>q. QED BY <1>4, <1>6, <2>1, RoomQuiet, Zenon
<1>9. PhaseInv'
  <2>1. CASE tail + 1 = Len(lh)
    <3>1. lh' = <<>> /\ boot' = "clear" /\ \A i \in 1 .. Len(dhead') : disk'[dhead'[i]] = dlog'[i]
      BY <1>1, <1>2, <1>3, <2>1, Zenon
    <3>q. QED BY <1>6, <3>1, Zenon DEF PhaseInv, CommitLabels
  <2>2. CASE tail + 1 # Len(lh)
    <3>1. /\ lh' = lh /\ boot' = "install" /\ tail' = tail + 1 /\ tail' < Len(lh') /\ lh' = dhead'
          /\ \A i \in 1 .. tail' : disk'[lh'[i]] = dlog'[i]
      BY <1>1, <1>2, <1>3, <2>2
    <3>q. QED BY <1>6, <3>1, ZenonT(30) DEF PhaseInv, CommitLabels
  <2>q. QED BY <2>1, <2>2, Zenon
<1>q. QED BY <1>5, <1>6, <1>7, <1>8, <1>9, Zenon DEF IInv

LEMMA RecoverClearInv ==
  ASSUME IInv, RecoverClear
  PROVE  IInv'
<1>1. /\ boot = "clear" /\ boot' = "up" /\ dhead' = lh
      /\ UNCHANGED <<disk, dlog, cache, dirty, holder, lh, outstanding, committing, pc, cur,
                     wrote, stamp, ops, tail, crashes, oversize>>
  BY Zenon DEF RecoverClear, bufVars, logVars, procVars
<1>2. /\ outstanding' = 0 /\ committing' = FALSE /\ lh' = <<>> /\ dhead' = <<>>
      /\ \A p \in Procs : pc'[p] = "idle"
      /\ \A b \in Blocks : holder'[b] = NULL /\ ~dirty'[b] /\ cache'[b] = disk'[b]
  <2>1. committing' = FALSE
    BY <1>1, Booting, Zenon DEF IInv, TypeOK
  <2>2. lh = <<>>
    BY <1>1, Zenon DEF IInv, PhaseInv
  <2>q. QED BY <1>1, <2>1, <2>2, Booting, Zenon
<1>3. TypeOK'
  BY <1>1, Zenon DEF IInv, TypeOK
<1>4. /\ InOp' = {} /\ ControlInv' /\ SleeperHasWaker' /\ RoomReserved'
      /\ \A l \in CommitLabels : ~Somewhere(l)'
  BY <1>1, <1>2, BootQuiet, Zenon
<1>5. BufferInv'
  BY <1>2, BufferQuiet
<1>6. RoomInv'
  <2>1. Distinct(lh)' /\ Distinct(dhead)' /\ Len(lh') < nlog /\ Len(dhead') < nlog
    BY <1>2, LogSizes, LogRoom DEF Distinct
  <2>q. QED BY <1>2, <1>4, <2>1, RoomQuiet, Zenon
<1>7. PhaseInv'
  BY <1>1, <1>2, <1>4, Zenon DEF PhaseInv, CommitLabels
<1>q. QED BY <1>3, <1>4, <1>5, <1>6, <1>7, Zenon DEF IInv

-----------------------------------------------------------------------------
(* The theorems *)

\* A machine that has stopped can only be started again.
LEMMA HaltedNext ==
  ASSUME Stopped, [Next]_vars
  PROVE  Crash \/ UNCHANGED vars
<1>1. ~(\E p \in Procs : begin_op(p) \/ log_write(p) \/ end_op(p))
  BY Zenon DEF Stopped, begin_op, log_write, LogWriteTest, LogWriteAppend, end_op
<1>2. ~(\E p \in Procs : commit(p))
  BY Zenon DEF Stopped, commit, WriteLog, WriteHead, InstallTrans, ClearHead, CommitDone
<1>3. ~(\E p \in Procs, b \in Blocks : Modify(p, b)) /\ ~(\E b \in Blocks : Recycle(b))
  BY Zenon DEF Stopped, Modify, Recycle
<1>4. ~recover_from_log
  BY Zenon DEF Stopped, recover_from_log, ReadHead, RecoverInstall, RecoverClear
<1>q. QED BY <1>1, <1>2, <1>3, <1>4, Zenon DEF Next

LEMMA HaltedStutters ==
  ASSUME HaltInv, UNCHANGED vars
  PROVE  HaltInv'
<1>1. TypeOK'
  BY Zenon DEF HaltInv, TypeOK, vars, diskVars, bufVars, logVars, procVars
<1>q. QED BY <1>1, Zenon DEF HaltInv, Stopped, Distinct, vars, diskVars

LEMMA CommitInv ==
  ASSUME IInv, NEW p \in Procs, commit(p)
  PROVE  IInv'
BY WriteLogInv, WriteHeadInv, InstallTransInv, ClearHeadInv, CommitDoneInv, Zenon DEF commit

LEMMA RecoverInv ==
  ASSUME IInv, recover_from_log
  PROVE  IInv'
BY ReadHeadInv, RecoverInstallInv, RecoverClearInv, Zenon DEF recover_from_log

LEMMA NextInv == LogInv /\ [Next]_vars => LogInv'
<1>h. ASSUME HaltInv, [Next]_vars PROVE LogInv'
  <2>1. CASE Crash
    BY <1>h, <2>1, CrashInv, Zenon DEF HaltInv, LogInv
  <2>2. CASE UNCHANGED vars
    BY <1>h, <2>2, HaltedStutters, Zenon DEF LogInv
  <2>q. QED BY <1>h, <2>1, <2>2, HaltedNext, Zenon DEF HaltInv
<1> SUFFICES ASSUME IInv, [Next]_vars PROVE LogInv'
  BY <1>h, Zenon DEF LogInv
<1> USE DEF LogInv
<1>1. ASSUME NEW p \in Procs, begin_op(p) \/ log_write(p) \/ end_op(p) PROVE LogInv'
  BY <1>1, BeginOpInv, LogWriteTestInv, LogWriteAppendInv, EndOpInv, Zenon DEF log_write
<1>2. ASSUME NEW p \in Procs, commit(p) PROVE IInv'
  BY <1>2, CommitInv, Zenon
<1>3. ASSUME NEW p \in Procs, NEW b \in Blocks, Modify(p, b) PROVE IInv'
  BY <1>3, ModifyInv, Zenon
<1>4. ASSUME NEW b \in Blocks, Recycle(b) PROVE IInv'
  BY <1>4, RecycleSame, StutterInv, Zenon
<1>5. CASE recover_from_log
  BY <1>5, RecoverInv, Zenon
<1>6. CASE Crash
  BY <1>6, CrashInv, Zenon DEF IInv, RoomInv
<1>7. CASE UNCHANGED vars
  BY <1>7, StutterInv, Zenon
<1>q. QED BY <1>1, <1>2, <1>3, <1>4, <1>5, <1>6, <1>7, Zenon DEF Next

LEMMA InvSafe == LogInv => LogSafe
<1>h. ASSUME HaltInv PROVE LogSafe
  BY <1>h, Zenon DEF HaltInv, Stopped, LogSafe, CommitAlone, DurableWhenIdle, RoomReserved,
     SleeperHasWaker, NoPanic
<1> SUFFICES ASSUME IInv PROVE LogSafe
  BY <1>h, Zenon DEF LogInv
<1>1. CommitAlone
  <2>1. Cardinality(Committer) = IF committing THEN 1 ELSE 0
    <3>1. CASE committing
      <4>1. PICK p \in Committer : Committer = {p}
        BY <3>1, Zenon DEF IInv, ControlInv
      <4>q. QED BY <3>1, <4>1, FS_Singleton, Zenon
    <3>2. CASE ~committing
      BY <3>2, FS_EmptySet, Zenon DEF IInv, ControlInv
    <3>q. QED BY <3>1, <3>2, Zenon
  <2>2. committing => outstanding = 0
    BY FS_EmptySet, Zenon DEF IInv, ControlInv
  <2>q. QED BY <2>1, <2>2, Zenon DEF IInv, ControlInv, CommitAlone
<1>2. DurableWhenIdle
  <2>1. SUFFICES ASSUME boot = "up", outstanding = 0, ~committing PROVE Recovered = cache
    BY Zenon DEF DurableWhenIdle
  <2>2. lh = <<>> /\ dhead = <<>>
    <3>1. ~Somewhere("install") /\ ~Somewhere("clear")
      BY <2>1, NoCommit, Zenon DEF IInv, Labels
    <3>q. QED BY <2>1, <3>1, Zenon DEF IInv, RoomInv, PhaseInv
  <2>3. InOp = {}
    BY <2>1, Finite, Zenon DEF IInv, ControlInv, InOp
  <2>4. ASSUME NEW b \in Blocks PROVE cache[b] = disk[b]
    <3>1. holder[b] \in Procs \cup {NULL}
      BY Zenon DEF IInv, TypeOK
    <3>2. holder[b] = NULL
      BY <2>3, <3>1 DEF IInv, BufferInv, InOp
    <3>q. QED BY <2>2, <3>2 DEF IInv, BufferInv
  <2>5. cache \in [Blocks -> Data]
    BY Zenon DEF IInv, TypeOK
  <2>q. QED BY <2>2, <2>4, <2>5 DEF Recovered
<1>q. QED BY <1>1, <1>2, Zenon DEF LogSafe, IInv, ControlInv, RoomInv, NoPanic

\* Commits are alone, cover all that ended before them and leave nobody asleep
\* behind them; there is room for every operation, and log_write and end_op do not
\* panic, until one of the transaction has logged more than its share (log.c:124-230).
\* For any number of processes, blocks, operations and crashes, operations of any
\* size and any log in which the share of one operation fits.
THEOREM LogSafety == Spec => []LogSafe
<1>0. Init => LogInv
  BY InitInv, Zenon DEF LogInv
<1>1. Spec => []LogInv
  BY <1>0, NextInv, PTL DEF Spec
<1>q. QED BY <1>1, InvSafe, PTL

-----------------------------------------------------------------------------
(* The log implements a disk that changes atomically *)

\* What recovery makes of a block: the log's copy if the header has it.
LEMMA RecoveredBlock ==
  ASSUME Distinct(dhead), NEW b \in Blocks
  PROVE  /\ \A i \in 1 .. Len(dhead) : dhead[i] = b => Recovered[b] = dlog[i]
         /\ (\A i \in 1 .. Len(dhead) : dhead[i] # b) => Recovered[b] = disk[b]
<1>1. ASSUME NEW i \in 1 .. Len(dhead), dhead[i] = b PROVE Recovered[b] = dlog[i]
  <2> DEFINE j == CHOOSE k \in 1 .. Len(dhead) : dhead[k] = b
  <2>1. j \in 1 .. Len(dhead) /\ dhead[j] = b
    BY <1>1, Zenon
  <2>2. j = i
    BY <1>1, <2>1, Zenon DEF Distinct
  <2>q. QED BY <1>1, <2>2, Zenon DEF Recovered
<1>q. QED BY <1>1, Zenon DEF Recovered

LEMMA RecoveredBlockNext ==
  ASSUME Distinct(dhead)', NEW b \in Blocks
  PROVE  /\ \A i \in 1 .. Len(dhead') : dhead'[i] = b => Recovered'[b] = dlog'[i]
         /\ (\A i \in 1 .. Len(dhead') : dhead'[i] # b) => Recovered'[b] = disk'[b]
<1>1. ASSUME NEW i \in 1 .. Len(dhead'), dhead'[i] = b PROVE Recovered'[b] = dlog'[i]
  <2> DEFINE j == CHOOSE k \in 1 .. Len(dhead') : dhead'[k] = b
  <2>1. j \in 1 .. Len(dhead') /\ dhead'[j] = b
    BY <1>1, Zenon
  <2>2. j = i
    BY <1>1, <2>1, Zenon DEF Distinct
  <2>q. QED BY <1>1, <2>2, Zenon DEF Recovered
<1>q. QED BY <1>1, Zenon DEF Recovered

LEMMA RecoveredFunction ==
  ASSUME NEW f, f = [b \in Blocks |-> f[b]]
  PROVE  /\ (\A b \in Blocks : Recovered[b] = f[b]) => Recovered = f
         /\ (\A b \in Blocks : Recovered'[b] = f[b]) => Recovered' = f
BY Zenon DEF Recovered

\* Installing a block of the committed transaction changes nothing.
LEMMA InstallRecovered ==
  ASSUME IInv, IInv', tail < Len(lh), lh = dhead, Install(lh[tail + 1]),
         \A i \in 1 .. tail : disk[lh[i]] = dlog[i]
  PROVE  Recovered' = Recovered
<1>1. dhead' = dhead /\ dlog' = dlog /\ Distinct(dhead) /\ Distinct(dhead)'
  BY Zenon DEF Install, IInv, RoomInv, Distinct
<1>2. /\ tail + 1 \in 1 .. Len(dhead)
      /\ \A b \in Blocks \ {dhead[tail + 1]} : disk'[b] = disk[b]
  BY InstallStep, Zenon
<1>3. ASSUME NEW b \in Blocks PROVE Recovered'[b] = Recovered[b]
  <2>1. CASE \E i \in 1 .. Len(dhead) : dhead[i] = b
    BY <1>1, <2>1, RecoveredBlock, RecoveredBlockNext
  <2>2. CASE \A i \in 1 .. Len(dhead) : dhead[i] # b
    BY <1>1, <1>2, <2>2, RecoveredBlock, RecoveredBlockNext, Zenon
  <2>q. QED BY <2>1, <2>2, Zenon
<1>q. QED BY <1>3, Zenon DEF Recovered

\* Neither does erasing a transaction all of which is installed.
LEMMA ClearRecovered ==
  ASSUME IInv, dhead' = <<>>, UNCHANGED <<disk, dlog>>,
         \A i \in 1 .. Len(dhead) : disk[dhead[i]] = dlog[i]
  PROVE  Recovered' = Recovered /\ Recovered = [b \in Blocks |-> disk[b]]
<1>1. Distinct(dhead) /\ Distinct(dhead)'
  BY DEF IInv, RoomInv, Distinct
<1>2. ASSUME NEW b \in Blocks PROVE Recovered'[b] = disk[b] /\ Recovered[b] = disk[b]
  <2>1. CASE \E i \in 1 .. Len(dhead) : dhead[i] = b
    BY <1>1, <2>1, RecoveredBlock, RecoveredBlockNext
  <2>2. CASE \A i \in 1 .. Len(dhead) : dhead[i] # b
    BY <1>1, <2>2, RecoveredBlock, RecoveredBlockNext
  <2>q. QED BY <2>1, <2>2, Zenon
<1>q. QED BY <1>2 DEF Recovered

\* Writing the header makes all of the cache durable.
LEMMA CommitRecovered ==
  ASSUME IInv, IInv', NEW p \in Procs, WriteHead(p)
  PROVE  Recovered' = cache
<1>1. /\ pc[p] = "write_head" /\ pc[p] \in CommitLabels /\ dhead' = lh
      /\ UNCHANGED <<disk, dlog, cache>>
  BY Zenon DEF WriteHead, bufVars, CommitLabels
<1>2. /\ \A i \in 1 .. Len(lh) : dlog[i] = cache[lh[i]]
      /\ Distinct(dhead)' /\ cache \in [Blocks -> Data]
  BY <1>1, Zenon DEF IInv, PhaseInv, Somewhere, RoomInv, TypeOK
<1>3. ASSUME NEW b \in Blocks PROVE Recovered'[b] = cache[b]
  <2>1. CASE \E i \in 1 .. Len(lh) : lh[i] = b
    BY <1>1, <1>2, <2>1, RecoveredBlockNext, Zenon
  <2>2. CASE \A i \in 1 .. Len(lh) : lh[i] # b
    <3>1. holder[b] = NULL /\ ~dirty[b]
      BY <1>1, <2>2, Committing DEF IInv, BufferInv
    <3>2. cache[b] = disk[b]
      BY <3>1, Zenon DEF IInv, BufferInv
    <3>q. QED BY <1>1, <1>2, <2>2, <3>2, RecoveredBlockNext, ZenonT(30)
  <2>q. QED BY <2>1, <2>2, Zenon
<1>q. QED BY <1>2, <1>3, RecoveredFunction, Zenon

-----------------------------------------------------------------------------
\* The contents that operations see, as in the refinement mapping.
current == IF boot \in {"up", "panic", "overrun"} THEN cache ELSE Recovered

LEMMA OperationStep ==
  ASSUME IInv, LogInv', NEW p \in Procs, begin_op(p) \/ log_write(p) \/ end_op(p)
  PROVE  Atomic!Begin \/ Atomic!End \/ UNCHANGED Atomic!vars
<1>1. UNCHANGED <<disk, dlog, dhead, cache>> /\ boot \in {"up", "panic", "overrun"} /\ boot' \in {"up", "panic", "overrun"}
  <2>1. boot = "up"
    BY Zenon DEF begin_op, log_write, LogWriteTest, LogWriteAppend, end_op
  <2>2. UNCHANGED <<disk, dlog, dhead, cache>>
    BY Zenon DEF begin_op, log_write, LogWriteTest, LogWriteAppend, AddBlock, end_op,
       diskVars, bufVars
  <2>3. boot' \in {"up", "panic", "overrun"}
    BY <2>1, Zenon DEF begin_op, log_write, LogWriteTest, LogWriteAppend, AddBlock, end_op
  <2>q. QED BY <2>1, <2>2, <2>3, Zenon
<1>2. Recovered' = Recovered /\ current' = current
  BY <1>1, Zenon DEF Recovered, current
<1>3. CASE begin_op(p)
  BY <1>2, <1>3, Zenon DEF begin_op, Atomic!Begin, Atomic!vars, current
<1>4. CASE log_write(p)
  BY <1>2, <1>4, Zenon DEF log_write, LogWriteTest, LogWriteAppend, AddBlock, logVars,
     Atomic!vars,
     current
<1>5. CASE end_op(p)
  <2>1. outstanding >= 1
    BY <1>5, RoomLeft, Zenon DEF end_op, InOp
  <2>2. outstanding' = outstanding - 1 /\ outstanding > 0
    BY <1>5, <2>1 DEF end_op, IInv, TypeOK
  <2>q. QED BY <1>2, <2>2, Zenon DEF Atomic!End, current
<1>q. QED BY <1>3, <1>4, <1>5, Zenon

LEMMA WriteStep ==
  ASSUME IInv, NEW p \in Procs, NEW b \in Blocks, Modify(p, b)
  PROVE  Atomic!Write(b, stamp[p]) /\ stamp[p] \in Data
<1>1. outstanding >= 1 /\ outstanding \in Nat
  BY RoomLeft, Finite DEF Modify, InOp, IInv, TypeOK
<1>2. /\ boot = "up" /\ boot' = "up" /\ cache' = [cache EXCEPT ![b] = stamp[p]]
      /\ outstanding' = outstanding /\ Recovered' = Recovered
  BY Zenon DEF Modify, Recovered, diskVars, logVars
<1>3. current' = [current EXCEPT ![b] = stamp[p]]
  BY <1>2, Zenon DEF current
<1>4. outstanding > 0
  BY <1>1
<1>5. stamp[p] \in Data
  BY Zenon DEF IInv, TypeOK
<1>q. QED BY <1>2, <1>3, <1>4, <1>5, Zenon DEF Atomic!Write, current

LEMMA CommitStep ==
  ASSUME IInv, IInv', NEW p \in Procs, commit(p)
  PROVE  Atomic!Commit \/ UNCHANGED Atomic!vars
<1>1. /\ outstanding = 0 /\ outstanding' = outstanding /\ boot = "up" /\ boot' = "up"
  BY Committing, Zenon DEF commit, WriteLog, WriteHead, InstallTrans, Install,
     ClearHead,
     CommitDone,
     logVars, CommitLabels
<1>2. CASE WriteLog(p)
  <2>1. pc[p] = "write_log" /\ pc[p] \in CommitLabels
    BY <1>2, Zenon DEF WriteLog, CommitLabels
  <2>2. dhead = <<>> /\ dhead' = dhead /\ disk' = disk /\ cache' = cache
    BY <1>2, <2>1, Committing, Zenon DEF WriteLog, bufVars, IInv, PhaseInv, CommitLabels
  <2>3. Recovered' = Recovered
    BY <2>2 DEF Recovered
  <2>q. QED BY <1>1, <2>2, <2>3, Zenon DEF Atomic!vars
<1>3. CASE WriteHead(p)
  <2>1. Recovered' = cache /\ cache' = cache
    BY <1>3, CommitRecovered, Zenon DEF WriteHead, bufVars
  <2>q. QED BY <1>1, <2>1, Zenon DEF Atomic!Commit
<1>4. CASE InstallTrans(p)
  <2>1. /\ Install(lh[tail + 1]) /\ tail < Len(lh) /\ lh = dhead
        /\ \A i \in 1 .. tail : disk[lh[i]] = dlog[i]
        /\ \A i \in 1 .. Len(lh) : dlog[i] = cache[lh[i]]
    BY <1>4, Zenon DEF InstallTrans, IInv, PhaseInv, Somewhere
  <2>2. Recovered' = Recovered
    BY <2>1, InstallRecovered, Zenon
  <2>3. cache' = cache
    <3>1. tail + 1 \in 1 .. Len(lh) /\ cache \in [Blocks -> Data]
      BY <2>1, InstallStep, Zenon DEF IInv, TypeOK
    <3>2. cache' = [cache EXCEPT ![lh[tail + 1]] = dlog[tail + 1]] /\ dlog[tail + 1] = cache[lh[tail + 1]]
      BY <2>1, <3>1, Zenon DEF Install
    <3>q. QED BY <3>1, <3>2, Zenon
  <2>q. QED BY <1>1, <2>2, <2>3, Zenon DEF Atomic!vars
<1>5. CASE ClearHead(p)
  <2>1. /\ dhead' = <<>> /\ UNCHANGED <<disk, dlog, cache>>
        /\ \A i \in 1 .. Len(dhead) : disk[dhead[i]] = dlog[i]
    BY <1>5, Zenon DEF ClearHead, bufVars, IInv, PhaseInv, Somewhere
  <2>q. QED BY <1>1, <2>1, ClearRecovered, Zenon DEF Atomic!vars
<1>6. CASE CommitDone(p)
  BY <1>1, <1>6, Zenon DEF CommitDone, diskVars, bufVars, Recovered, Atomic!vars
<1>q. QED BY <1>2, <1>3, <1>4, <1>5, <1>6, Zenon DEF commit

LEMMA RecoverStep ==
  ASSUME IInv, IInv', recover_from_log
  PROVE  UNCHANGED Atomic!vars
<1>1. /\ outstanding' = outstanding /\ boot \notin {"up", "panic", "overrun"}
  BY Zenon DEF recover_from_log, ReadHead, RecoverInstall, Install, RecoverClear,
     logVars
<1>2. CASE ReadHead
  BY <1>1, <1>2, Zenon DEF ReadHead, diskVars, Recovered, Atomic!vars
<1>3. CASE RecoverInstall
  <2>1. /\ Install(lh[tail + 1]) /\ tail < Len(lh) /\ lh = dhead
        /\ \A i \in 1 .. tail : disk[lh[i]] = dlog[i]
    BY <1>3, Zenon DEF RecoverInstall, IInv, PhaseInv
  <2>2. Recovered' = Recovered /\ boot' \notin {"up", "panic", "overrun"}
    BY <1>3, <2>1, InstallRecovered, Zenon DEF RecoverInstall
  <2>q. QED BY <1>1, <2>2, Zenon DEF Atomic!vars
<1>4. CASE RecoverClear
  <2>1. /\ dhead' = <<>> /\ UNCHANGED <<disk, dlog, cache>> /\ boot' = "up" /\ boot # "up"
        /\ \A i \in 1 .. Len(dhead) : disk[dhead[i]] = dlog[i]
    BY <1>4, Zenon DEF RecoverClear, bufVars, IInv, PhaseInv
  <2>2. Recovered' = Recovered /\ Recovered = [b \in Blocks |-> disk[b]]
    BY <2>1, ClearRecovered, Zenon
  <2>3. cache = [b \in Blocks |-> disk[b]]
    BY <2>1, Booting, Zenon DEF IInv, TypeOK
  <2>q. QED BY <1>1, <2>1, <2>2, <2>3, Zenon DEF Atomic!vars
<1>q. QED BY <1>2, <1>3, <1>4, Zenon DEF recover_from_log

LEMMA CrashStep ==
  ASSUME Crash
  PROVE  Atomic!Crash
<1>1. Recovered' = Recovered /\ boot' = "read_head" /\ outstanding' = 0
  BY Zenon DEF Crash, diskVars, Recovered
<1>q. QED BY <1>1, Zenon DEF Atomic!Crash

LEMMA StutterStep ==
  ASSUME UNCHANGED vars
  PROVE  UNCHANGED Atomic!vars
BY Zenon DEF vars, diskVars, bufVars, logVars, Recovered, Atomic!vars

\* Whenever the machine stops, in an operation, in commit or in recovery, what
\* comes back is the disk at some moment with no operation under way: the log is
\* a disk whose contents become durable as a whole (log.c:9-25), for every size.
THEOREM LogImplementsAtomicDisk == Spec => ImplementsAtomicDisk
<1>1. Init => Atomic!Init
  <2> SUFFICES ASSUME Init PROVE Atomic!Init
    OBVIOUS
  <2>1. Recovered = [b \in Blocks |-> 0] /\ 0 \in Data
    BY LogBounds DEF Init, Recovered, Data
  <2>2. boot = "read_head" /\ outstanding = 0
    BY Zenon DEF Init
  <2> HIDE DEF Init
  <2>q. QED BY <2>1, <2>2, Zenon DEF Atomic!Init
<1>2. LogInv /\ LogInv' /\ [Next]_vars => [Atomic!Next]_(Atomic!vars)
  <2>h. ASSUME HaltInv, [Next]_vars PROVE [Atomic!Next]_(Atomic!vars)
    BY <2>h, HaltedNext, CrashStep, StutterStep, Zenon DEF HaltInv, Atomic!Next
  <2> SUFFICES ASSUME IInv, LogInv', [Next]_vars PROVE [Atomic!Next]_(Atomic!vars)
    BY <2>h, Zenon DEF LogInv
  <2>1. ASSUME NEW p \in Procs, begin_op(p) \/ log_write(p) \/ end_op(p)
        PROVE  [Atomic!Next]_(Atomic!vars)
    BY <2>1, OperationStep, Zenon DEF Atomic!Next
  <2>2. ASSUME NEW p \in Procs, commit(p) PROVE [Atomic!Next]_(Atomic!vars)
    BY <2>2, CommitInv, CommitStep, Zenon DEF Atomic!Next
  <2>3. ASSUME NEW p \in Procs, NEW b \in Blocks, Modify(p, b)
        PROVE  [Atomic!Next]_(Atomic!vars)
    BY <2>3, WriteStep, Zenon DEF Atomic!Next
  <2>4. ASSUME NEW b \in Blocks, Recycle(b) PROVE [Atomic!Next]_(Atomic!vars)
    BY <2>4, RecycleSame, StutterStep, Zenon
  <2>5. CASE recover_from_log
    BY <2>5, RecoverInv, RecoverStep, Zenon
  <2>6. CASE Crash
    BY <2>6, CrashStep, Zenon DEF Atomic!Next
  <2>7. CASE UNCHANGED vars
    BY <2>7, StutterStep, Zenon
  <2>q. QED BY <2>1, <2>2, <2>3, <2>4, <2>5, <2>6, <2>7, Zenon DEF Next
<1>3. Init => LogInv
  BY InitInv, Zenon DEF LogInv
<1>q. QED BY <1>1, <1>2, <1>3, NextInv, PTL DEF Spec, ImplementsAtomicDisk, Atomic!Spec
=============================================================================
