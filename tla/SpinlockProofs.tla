--------------------------- MODULE SpinlockProofs ---------------------------
(***************************************************************************)
(* For any CPUs, locks and depth of frames: spin locks exclude, interrupts *)
(* are off while they are held and restored after, and no lock operation   *)
(* panics.                                                                 *)
(*                                                                         *)
(* The inductive invariant says what one CPU's frames can be (a handler    *)
(* runs alone above a frame without locks), ties each lock to the frame    *)
(* that has it, and ncli, intena and the flag to the frame's locks.        *)
(***************************************************************************)
EXTENDS Spinlock, FiniteSetTheorems, TLAPS

\* The frame CPU c runs, its place and its locks.
Pc(c) == pc[c][level[c]]
Has(c) == held[c][level[c]]

\* Frames that do not run have no locks; those interrupted are outside the
\* locks or about to turn interrupts off; those above have not begun.
FramesInv ==
  \A c \in CPUs :
    /\ level[c] \in {0, 1}
    /\ \A v \in Levels : v # level[c] => held[c][v] = {}
    /\ \A v \in Levels : v > level[c] => pc[c][v] = "run"
    /\ level[c] = 1 => pc[c][0] \in {"run", "cli"}

\* A lock a frame has is locked, by that frame alone, and recorded but at the
\* two ends.
Owned(c) ==
  /\ \A l \in Has(c) : locked[l]
  /\ \A l \in Locks :
       lkcpu[l] = c <=> l \in Has(c) /\ ~(Pc(c) \in {"record", "unlock"} /\ lk(c) = l)
  /\ Pc(c) \in {"record", "unlock"} => lk(c) \in Has(c)
  /\ Pc(c) \in {"cli", "spin"} => lk(c) \notin Has(c)

OwnerInv ==
  /\ \A c \in CPUs : Owned(c)
  /\ \A c, d \in CPUs : c # d => Has(c) \cap Has(d) = {}

\* ncli counts the locks and the acquire or release under way.
CountInv ==
  \A c \in CPUs :
    ncli[c] = Cardinality(Has(c)) + IF Pc(c) \in {"spin", "pop"} THEN 1 ELSE 0

\* The flag, and what it will be.
FlagInv ==
  \A c \in CPUs :
    /\ ncli[c] > 0 => ~IF_[c] /\ (intena[c] <=> level[c] = 0 /\ base[c])
    /\ ncli[c] = 0 => (IF_[c] <=> level[c] = 0 /\ base[c])
    /\ level[c] = 1 => base[c]
    /\ \A v \in {0, 1} :
         pc[c][v] = "cli" /\ held[c][v] = {} => (eflags[c][v] <=> v = 0 /\ base[c])

IInv == TypeOK /\ FramesInv /\ OwnerInv /\ CountInv /\ FlagInv /\ ~panicked

-----------------------------------------------------------------------------
(* Sets of locks *)

LEMMA LockSets ==
  ASSUME NEW S \in SUBSET Locks
  PROVE  /\ Cardinality(S) \in Nat /\ (Cardinality(S) = 0 <=> S = {})
         /\ \A l \in Locks \ S : Cardinality(S \cup {l}) = Cardinality(S) + 1
         /\ \A l \in S : Cardinality(S \ {l}) = Cardinality(S) - 1
<1>1. IsFiniteSet(Locks)
  BY FS_Interval, SpinlockSizes DEF Locks
<1>2. IsFiniteSet(S)
  BY <1>1, FS_Subset, Zenon
<1> QED
  BY <1>2, FS_CardinalityType, FS_EmptySet, FS_AddElement, FS_RemoveElement, Zenon

LEMMA NoLocks == Cardinality({}) = 0
  BY FS_EmptySet, Zenon

-----------------------------------------------------------------------------
(* The inductive invariant *)

LEMMA InitInv == Init => IInv
<1> SUFFICES ASSUME Init PROVE IInv
  OBVIOUS
<1> USE SpinlockSizes DEF Init, Each
<1>1. 1 \in Locks /\ 0 \in Levels /\ 1 \in Levels
  BY DEF Levels, Locks
<1>2. TypeOK
  BY <1>1, Zenon DEF TypeOK
<1>3. FramesInv
  BY <1>1, Zenon DEF FramesInv
<1>4. OwnerInv
  BY <1>1, Zenon DEF OwnerInv, Owned, Has, Pc, lk
<1>5. CountInv
  BY <1>1, NoLocks DEF CountInv, Has, Pc
<1>6. FlagInv
  BY <1>1 DEF FlagInv
<1> QED
  BY <1>2, <1>3, <1>4, <1>5, <1>6, Zenon DEF IInv

\* The running frame's components have their types.
LEMMA Running ==
  ASSUME IInv, NEW c \in CPUs
  PROVE  /\ level[c] \in Levels /\ level[c] \in {0, 1}
         /\ lk(c) \in Locks /\ Has(c) \in SUBSET Locks /\ Holds(c) = Has(c)
         /\ Pc(c) \in {"run", "cli", "spin", "record", "unlock", "pop"}
<1>1. level[c] \in Levels /\ level[c] \in {0, 1} /\ Has(c) \in SUBSET Locks
      /\ lk(c) \in Locks /\ Pc(c) \in {"run", "cli", "spin", "record", "unlock", "pop"}
  BY DEF IInv, TypeOK, FramesInv, Pc, Has, lk
<1>2. \A v \in Levels : held[c][v] # {} => v = level[c]
  BY Zenon DEF IInv, FramesInv
<1>3. Holds(c) = Has(c)
  BY <1>1, <1>2 DEF Holds, Has
<1> QED
  BY <1>1, <1>3, Zenon

LEMMA LevelsSmall == 0 \in Levels /\ 1 \in Levels /\ \A v \in Levels : v \in Nat
  BY SpinlockSizes DEF Levels

\* ncli, where no acquire or release is under way.
LEMMA Counted ==
  ASSUME IInv, NEW c \in CPUs, Pc(c) \in {"run", "cli", "record", "unlock"}
  PROVE  ncli[c] = Cardinality(Has(c)) /\ ncli \in [CPUs -> Nat]
<1>1. ncli[c] = Cardinality(Has(c)) + IF Pc(c) \in {"spin", "pop"} THEN 1 ELSE 0
  BY Zenon DEF IInv, CountInv
<1>2. Pc(c) \notin {"spin", "pop"}
  OBVIOUS
<1>3. Cardinality(Has(c)) \in Nat
  BY Running, LockSets, Zenon
<1>4. ncli[c] = Cardinality(Has(c)) + 0
  BY <1>1, <1>2, Zenon
<1> QED
  BY <1>3, <1>4 DEF IInv, TypeOK

LEMMA AcquireReadsInv ==
  ASSUME IInv, NEW c \in CPUs, NEW l \in Locks, AcquireReads(c, l)
  PROVE  IInv'
<1>1. /\ Cardinality(Has(c)) \in Nat /\ (Cardinality(Has(c)) = 0 <=> Has(c) = {})
      /\ \A k \in Locks \ Has(c) : Cardinality(Has(c) \cup {k}) = Cardinality(Has(c)) + 1
      /\ \A k \in Has(c) : Cardinality(Has(c) \ {k}) = Cardinality(Has(c)) - 1
  BY Running, LockSets, Zenon
<1>2. Pc(c) = "run" /\ l \notin Has(c)
  <2>1. Pc(c) = "run" /\ \A k \in Has(c) : k < l
    BY Running, Zenon DEF AcquireReads, At, Pc
  <2> QED
    BY <2>1 DEF Locks
<1>3. TypeOK'
  BY <1>2, Running, LevelsSmall, SpinlockSizes, Zenon DEF AcquireReads, Goto, lockVars,
     cpuVars, frameVars, IInv, TypeOK
<1>4. FramesInv'
  BY <1>2, Running, LevelsSmall DEF AcquireReads, Goto, lockVars, cpuVars, frameVars,
     IInv, TypeOK, FramesInv, Has, Pc
<1>5. /\ Pc(c)' = "cli" /\ Has(c)' = Has(c) /\ lk(c)' = l
      /\ \A d \in CPUs \ {c} : Pc(d)' = Pc(d) /\ Has(d)' = Has(d) /\ lk(d)' = lk(d)
  BY <1>2, Running, LevelsSmall DEF AcquireReads, Goto, lockVars, cpuVars, frameVars,
     IInv, TypeOK, FramesInv, Pc, Has, lk
<1>6. /\ locked' = locked /\ lkcpu' = lkcpu
      /\ ncli' = ncli
  BY Zenon DEF AcquireReads, Goto, lockVars, cpuVars, frameVars
<1>7. OwnerInv'
  <2>1. ASSUME NEW d \in CPUs PROVE Owned(d)'
    <3>1. CASE d = c
      <4>1. \A m \in Has(c)' : locked'[m]
        BY <1>2, <1>5, <1>6, Running DEF IInv, TypeOK, OwnerInv, Owned
      <4>2. ASSUME NEW k \in Locks
            PROVE  lkcpu'[k] = c <=> k \in Has(c)' /\ ~(Pc(c)' \in {"record", "unlock"} /\ lk(c)' = k)
        <5>1. lkcpu[k] = c <=> k \in Has(c) /\ ~(Pc(c) \in {"record", "unlock"} /\ lk(c) = k)
          BY Zenon DEF IInv, OwnerInv, Owned
        <5>2. lkcpu \in [Locks -> CPUs \cup {NONE}]
          BY Zenon DEF IInv, TypeOK
        <5> QED
          BY <1>2, <1>5, <1>6, <5>1, <5>2, SpinlockSizes, Zenon
      <4>3. /\ Pc(c)' \in {"record", "unlock"} => lk(c)' \in Has(c)'
            /\ Pc(c)' \in {"cli", "spin"} => lk(c)' \notin Has(c)'
        BY <1>2, <1>5, Zenon
      <4> QED
        BY <3>1, <4>1, <4>2, <4>3, Zenon DEF Owned
    <3>2. CASE d # c
      BY <1>2, <1>5, <1>6, <3>2, Running, SpinlockSizes DEF IInv, TypeOK, OwnerInv,
         Owned
    <3> QED
      BY <3>1, <3>2, Zenon
  <2>2. ASSUME NEW d \in CPUs, NEW e \in CPUs, d # e PROVE Has(d)' \cap Has(e)' = {}
    BY <1>2, <1>5, <2>2 DEF IInv, OwnerInv, Owned
  <2> QED
    BY <2>1, <2>2, Zenon DEF OwnerInv
<1>8. CountInv'
  <2> SUFFICES ASSUME NEW d \in CPUs
      PROVE  (ncli[d] = Cardinality(Has(d)) + IF Pc(d) \in {"spin", "pop"} THEN 1 ELSE 0)'
    BY Zenon DEF CountInv
  <2>1. CASE d = c
    <3>1. ncli[c] = Cardinality(Has(c))
      BY <1>2, Counted, Zenon
    <3>2. Cardinality(Has(c)') = Cardinality(Has(c))
      BY <1>2, <1>5, Zenon
    <3> QED
      BY <1>1, <1>5, <1>6, <2>1, <3>1, <3>2
  <2>2. CASE d # c
    <3>1. ncli'[d] = ncli[d]
      BY <1>6, <2>2, Zenon DEF IInv, TypeOK
    <3> QED
      BY <1>5, <2>2, <3>1, Zenon DEF IInv, CountInv
  <2> QED
    BY <2>1, <2>2, Zenon
<1>9. FlagInv'
  <2> SUFFICES ASSUME NEW d \in CPUs
      PROVE  /\ ncli'[d] > 0 => ~IF_'[d] /\ (intena'[d] <=> level'[d] = 0 /\ base'[d])
             /\ ncli'[d] = 0 => (IF_'[d] <=> level'[d] = 0 /\ base'[d])
             /\ level'[d] = 1 => base'[d]
             /\ \A v \in {0, 1} : pc'[d][v] = "cli" /\ held'[d][v] = {}
                                    => (eflags'[d][v] <=> v = 0 /\ base'[d])
    BY Zenon DEF FlagInv
  <2>1. CASE d # c
    BY <2>1 DEF AcquireReads, Goto, lockVars, cpuVars, frameVars, IInv, TypeOK, FlagInv
  <2>2. CASE d = c
    <3>1. UNCHANGED <<IF_, base, ncli, intena, level, held>>
      BY Zenon DEF AcquireReads, cpuVars
    <3>2. Has(c) = {} => (IF_[c] <=> level[c] = 0 /\ base[c])
      <4>1. Has(c) = {} => ncli[c] = 0
        BY <1>1, <1>2, Counted, Zenon
      <4> QED
        BY <4>1, Zenon DEF IInv, FlagInv
    <3>3. \A v \in {0, 1} : pc'[c][v] = "cli" /\ held'[c][v] = {}
                            => (eflags'[c][v] <=> v = 0 /\ base'[c])
      <4> TAKE v \in {0, 1}
      <4>1. CASE v = level[c]
        BY <3>1, <3>2, <4>1, Running, LevelsSmall, Zenon DEF AcquireReads, IInv,
           TypeOK, Has
      <4>2. CASE v # level[c]
        BY <3>1, <4>2, LevelsSmall DEF AcquireReads, Goto, IInv, TypeOK, FlagInv
      <4> QED
        BY <4>1, <4>2, Zenon
    <3> QED
      BY <2>2, <3>1, <3>3, Zenon DEF IInv, FlagInv
  <2> QED
    BY <2>1, <2>2, Zenon
<1>10. ~panicked'
  BY Zenon DEF AcquireReads, IInv
<1> QED
  BY <1>3, <1>4, <1>7, <1>8, <1>9, <1>10, Zenon DEF IInv

LEMMA AcquireCliInv ==
  ASSUME IInv, NEW c \in CPUs, AcquireCli(c)
  PROVE  IInv'
<1>1. /\ Cardinality(Has(c)) \in Nat /\ (Cardinality(Has(c)) = 0 <=> Has(c) = {})
      /\ \A k \in Locks \ Has(c) : Cardinality(Has(c) \cup {k}) = Cardinality(Has(c)) + 1
      /\ \A k \in Has(c) : Cardinality(Has(c) \ {k}) = Cardinality(Has(c)) - 1
  BY Running, LockSets, Zenon
<1>2. Pc(c) = "cli" /\ ~holding(c, lk(c))
  <2>1. Pc(c) = "cli"
    BY Zenon DEF AcquireCli, At, Pc
  <2>2. lk(c) \notin Has(c) /\ (lkcpu[lk(c)] = c => lk(c) \in Has(c))
    BY <2>1, Running, Zenon DEF IInv, OwnerInv, Owned
  <2> QED
    BY <2>1, <2>2, Zenon DEF holding
<1>3. TypeOK'
  BY <1>2, Running, LevelsSmall, SpinlockSizes DEF AcquireCli, Goto, Cli, SavedIntena,
     Pushed, holding, lockVars, cpuVars, frameVars, IInv, TypeOK
<1>4. FramesInv'
  BY <1>2, Running, LevelsSmall DEF AcquireCli, Goto, Cli, SavedIntena, Pushed,
     holding, lockVars, cpuVars, frameVars, IInv, TypeOK, FramesInv, Has, Pc
<1>5. /\ Pc(c)' = "spin" /\ Has(c)' = Has(c) /\ lk(c)' = lk(c)
      /\ \A d \in CPUs \ {c} : Pc(d)' = Pc(d) /\ Has(d)' = Has(d) /\ lk(d)' = lk(d)
  BY <1>2, Running, LevelsSmall DEF AcquireCli, Goto, Cli, SavedIntena, Pushed,
     holding, lockVars, cpuVars, frameVars, IInv, TypeOK, FramesInv, Pc, Has, lk
<1>6. /\ locked' = locked /\ lkcpu' = lkcpu
      /\ ncli' = [ncli EXCEPT ![c] = @ + 1]
  BY Zenon DEF AcquireCli, Goto, Cli, SavedIntena, Pushed, holding, lockVars, cpuVars,
     frameVars
<1>7. OwnerInv'
  <2>1. ASSUME NEW d \in CPUs PROVE Owned(d)'
    <3>1. CASE d = c
      BY <1>2, <1>5, <1>6, <3>1, Running, SpinlockSizes DEF IInv, TypeOK, OwnerInv,
         Owned, holding
    <3>2. CASE d # c
      BY <1>2, <1>5, <1>6, <3>2, Running, SpinlockSizes DEF IInv, TypeOK, OwnerInv,
         Owned
    <3> QED
      BY <3>1, <3>2, Zenon
  <2>2. ASSUME NEW d \in CPUs, NEW e \in CPUs, d # e PROVE Has(d)' \cap Has(e)' = {}
    BY <1>2, <1>5, <2>2 DEF IInv, OwnerInv, Owned
  <2> QED
    BY <2>1, <2>2, Zenon DEF OwnerInv
<1>8. CountInv'
  <2> SUFFICES ASSUME NEW d \in CPUs
      PROVE  (ncli[d] = Cardinality(Has(d)) + IF Pc(d) \in {"spin", "pop"} THEN 1 ELSE 0)'
    BY Zenon DEF CountInv
  <2>1. CASE d = c
    <3>1. ncli[c] = Cardinality(Has(c)) /\ ncli \in [CPUs -> Nat]
      BY <1>2, Counted, Zenon
    <3>2. Cardinality(Has(c)') = Cardinality(Has(c))
      BY <1>1, <1>2, <1>5, Running, Zenon
    <3> QED
      BY <1>1, <1>5, <1>6, <2>1, <3>1, <3>2, Zenon
  <2>2. CASE d # c
    <3>1. ncli'[d] = ncli[d]
      BY <1>6, <2>2, Zenon DEF IInv, TypeOK
    <3> QED
      BY <1>5, <2>2, <3>1, Zenon DEF IInv, CountInv
  <2> QED
    BY <2>1, <2>2, Zenon
<1>9. FlagInv'
  <2> SUFFICES ASSUME NEW d \in CPUs
      PROVE  /\ ncli'[d] > 0 => ~IF_'[d] /\ (intena'[d] <=> level'[d] = 0 /\ base'[d])
             /\ ncli'[d] = 0 => (IF_'[d] <=> level'[d] = 0 /\ base'[d])
             /\ level'[d] = 1 => base'[d]
             /\ \A v \in {0, 1} : pc'[d][v] = "cli" /\ held'[d][v] = {}
                                    => (eflags'[d][v] <=> v = 0 /\ base'[d])
    BY Zenon DEF FlagInv
  <2>1. CASE d # c
    BY <2>1 DEF AcquireCli, Goto, Cli, SavedIntena, Pushed, holding, lockVars, cpuVars,
       frameVars, IInv, TypeOK, FlagInv
  <2>2. CASE d = c
    <3>1. UNCHANGED <<base, level, held, eflags>> /\ ncli'[c] = ncli[c] + 1 /\ ncli[c] \in Nat
      BY <1>6, Zenon DEF AcquireCli, IInv, TypeOK
    <3>2. ~IF_'[c]
      BY Zenon DEF AcquireCli, Cli, IInv, TypeOK
    <3>3. ncli[c] = 0 => (eflags[c][level[c]] <=> level[c] = 0 /\ base[c])
      BY <1>1, <1>2, Running DEF IInv, CountInv, FlagInv, Pc, Has
    <3>4. intena'[c] <=> level[c] = 0 /\ base[c]
      <4>1. intena'[c] = SavedIntena(c)
        BY Zenon DEF AcquireCli, IInv, TypeOK
      <4> QED
        BY <3>1, <3>3, <4>1 DEF SavedIntena, IInv, FlagInv
    <3>5. \A v \in {0, 1} : pc'[c][v] = "cli" => pc[c][v] = "cli"
      BY LevelsSmall DEF AcquireCli, Goto, IInv, TypeOK
    <3> QED
      BY <2>2, <3>1, <3>2, <3>4, <3>5 DEF IInv, FlagInv
  <2> QED
    BY <2>1, <2>2, Zenon
<1>10. ~panicked'
  BY <1>2, Zenon DEF AcquireCli
<1> QED
  BY <1>3, <1>4, <1>7, <1>8, <1>9, <1>10, Zenon DEF IInv

LEMMA AcquireXchgInv ==
  ASSUME IInv, NEW c \in CPUs, AcquireXchg(c)
  PROVE  IInv'
<1>1. /\ Cardinality(Has(c)) \in Nat /\ (Cardinality(Has(c)) = 0 <=> Has(c) = {})
      /\ \A k \in Locks \ Has(c) : Cardinality(Has(c) \cup {k}) = Cardinality(Has(c)) + 1
      /\ \A k \in Has(c) : Cardinality(Has(c) \ {k}) = Cardinality(Has(c)) - 1
  BY Running, LockSets, Zenon
<1>2. Pc(c) = "spin" /\ lk(c) \notin Has(c) /\ ~locked[lk(c)]
  <2>1. Pc(c) = "spin"
    BY Zenon DEF AcquireXchg, At, Pc
  <2> QED
    BY <2>1, Zenon DEF AcquireXchg, Free, IInv, OwnerInv, Owned
<1>3. TypeOK'
  BY <1>2, Running, LevelsSmall, SpinlockSizes DEF AcquireXchg, Goto, Free, lockVars,
     cpuVars, frameVars, IInv, TypeOK
<1>4. FramesInv'
  BY <1>2, Running, LevelsSmall DEF AcquireXchg, Goto, Free, lockVars, cpuVars,
     frameVars, IInv, TypeOK, FramesInv, Has, Pc
<1>5. /\ Pc(c)' = "record" /\ Has(c)' = Has(c) \cup {lk(c)} /\ lk(c)' = lk(c)
      /\ \A d \in CPUs \ {c} : Pc(d)' = Pc(d) /\ Has(d)' = Has(d) /\ lk(d)' = lk(d)
  BY <1>2, Running, LevelsSmall DEF AcquireXchg, Goto, Free, lockVars, cpuVars,
     frameVars, IInv, TypeOK, FramesInv, Pc, Has, lk
<1>6. /\ locked' = [locked EXCEPT ![lk(c)] = TRUE] /\ lkcpu' = lkcpu
      /\ ncli' = ncli
  BY Zenon DEF AcquireXchg, Goto, Free, lockVars, cpuVars, frameVars
<1>7. OwnerInv'
  <2>1. ASSUME NEW d \in CPUs PROVE Owned(d)'
    <3>1. CASE d = c
      BY <1>2, <1>5, <1>6, <3>1, Running, SpinlockSizes DEF IInv, TypeOK, OwnerInv,
         Owned
    <3>2. CASE d # c
      BY <1>2, <1>5, <1>6, <3>2, Running, SpinlockSizes DEF IInv, TypeOK, OwnerInv,
         Owned
    <3> QED
      BY <3>1, <3>2, Zenon
  <2>2. ASSUME NEW d \in CPUs, NEW e \in CPUs, d # e PROVE Has(d)' \cap Has(e)' = {}
    BY <1>2, <1>5, <2>2 DEF IInv, OwnerInv, Owned
  <2> QED
    BY <2>1, <2>2, Zenon DEF OwnerInv
<1>8. CountInv'
  <2> SUFFICES ASSUME NEW d \in CPUs
      PROVE  (ncli[d] = Cardinality(Has(d)) + IF Pc(d) \in {"spin", "pop"} THEN 1 ELSE 0)'
    BY Zenon DEF CountInv
  <2>1. CASE d = c
    <3>1. ncli[c] = Cardinality(Has(c)) + 1 /\ ncli \in [CPUs -> Nat]
      BY <1>1, <1>2, Zenon DEF IInv, TypeOK, CountInv
    <3>2. Cardinality(Has(c)') = Cardinality(Has(c)) + 1
      BY <1>1, <1>2, <1>5, Running, Zenon
    <3> QED
      BY <1>1, <1>5, <1>6, <2>1, <3>1, <3>2
  <2>2. CASE d # c
    <3>1. ncli'[d] = ncli[d]
      BY <1>6, <2>2, Zenon DEF IInv, TypeOK
    <3> QED
      BY <1>5, <2>2, <3>1, Zenon DEF IInv, CountInv
  <2> QED
    BY <2>1, <2>2, Zenon
<1>9. FlagInv'
  <2> SUFFICES ASSUME NEW d \in CPUs
      PROVE  /\ ncli'[d] > 0 => ~IF_'[d] /\ (intena'[d] <=> level'[d] = 0 /\ base'[d])
             /\ ncli'[d] = 0 => (IF_'[d] <=> level'[d] = 0 /\ base'[d])
             /\ level'[d] = 1 => base'[d]
             /\ \A v \in {0, 1} : pc'[d][v] = "cli" /\ held'[d][v] = {}
                                    => (eflags'[d][v] <=> v = 0 /\ base'[d])
    BY Zenon DEF FlagInv
  <2>1. CASE d # c
    BY <2>1 DEF AcquireXchg, Goto, Free, lockVars, cpuVars, frameVars, IInv, TypeOK,
       FlagInv
  <2>2. CASE d = c
    BY <1>1, <1>2, <2>2, Running, LevelsSmall DEF AcquireXchg, Goto, Free, lockVars,
       cpuVars, frameVars, IInv, TypeOK, CountInv, FlagInv, Pc, Has
  <2> QED
    BY <2>1, <2>2, Zenon
<1>10. ~panicked'
  BY Zenon DEF AcquireXchg, IInv
<1> QED
  BY <1>3, <1>4, <1>7, <1>8, <1>9, <1>10, Zenon DEF IInv

LEMMA AcquireRecordInv ==
  ASSUME IInv, NEW c \in CPUs, AcquireRecord(c)
  PROVE  IInv'
<1>1. /\ Cardinality(Has(c)) \in Nat /\ (Cardinality(Has(c)) = 0 <=> Has(c) = {})
      /\ \A k \in Locks \ Has(c) : Cardinality(Has(c) \cup {k}) = Cardinality(Has(c)) + 1
      /\ \A k \in Has(c) : Cardinality(Has(c) \ {k}) = Cardinality(Has(c)) - 1
  BY Running, LockSets, Zenon
<1>2. Pc(c) = "record" /\ lk(c) \in Has(c)
  <2>1. Pc(c) = "record"
    BY Zenon DEF AcquireRecord, At, Pc
  <2> QED
    BY <2>1, Zenon DEF IInv, OwnerInv, Owned
<1>3. TypeOK'
  BY <1>2, Running, LevelsSmall, SpinlockSizes, Zenon DEF AcquireRecord, Goto,
     Recorded, lockVars, cpuVars, frameVars, IInv, TypeOK
<1>4. FramesInv'
  BY <1>2, Running, LevelsSmall DEF AcquireRecord, Goto, Recorded, lockVars, cpuVars,
     frameVars, IInv, TypeOK, FramesInv, Has, Pc
<1>5. /\ Pc(c)' = "run" /\ Has(c)' = Has(c) /\ lk(c)' = lk(c)
      /\ \A d \in CPUs \ {c} : Pc(d)' = Pc(d) /\ Has(d)' = Has(d) /\ lk(d)' = lk(d)
  BY <1>2, Running, LevelsSmall DEF AcquireRecord, Goto, Recorded, lockVars, cpuVars,
     frameVars, IInv, TypeOK, FramesInv, Pc, Has, lk
<1>6. /\ locked' = locked /\ lkcpu' = [lkcpu EXCEPT ![lk(c)] = c]
      /\ ncli' = ncli
  BY Zenon DEF AcquireRecord, Goto, Recorded, lockVars, cpuVars, frameVars
<1>7. OwnerInv'
  <2>1. ASSUME NEW d \in CPUs PROVE Owned(d)'
    <3>1. CASE d = c
      BY <1>2, <1>5, <1>6, <3>1, Running, SpinlockSizes DEF IInv, TypeOK, OwnerInv,
         Owned
    <3>2. CASE d # c
      BY <1>2, <1>5, <1>6, <3>2, Running, SpinlockSizes DEF IInv, TypeOK, OwnerInv,
         Owned
    <3> QED
      BY <3>1, <3>2, Zenon
  <2>2. ASSUME NEW d \in CPUs, NEW e \in CPUs, d # e PROVE Has(d)' \cap Has(e)' = {}
    BY <1>2, <1>5, <2>2 DEF IInv, OwnerInv, Owned
  <2> QED
    BY <2>1, <2>2, Zenon DEF OwnerInv
<1>8. CountInv'
  <2> SUFFICES ASSUME NEW d \in CPUs
      PROVE  (ncli[d] = Cardinality(Has(d)) + IF Pc(d) \in {"spin", "pop"} THEN 1 ELSE 0)'
    BY Zenon DEF CountInv
  <2>1. CASE d = c
    <3>1. ncli[c] = Cardinality(Has(c))
      BY <1>2, Counted, Zenon
    <3>2. Cardinality(Has(c)') = Cardinality(Has(c))
      BY <1>2, <1>5, Zenon
    <3> QED
      BY <1>1, <1>5, <1>6, <2>1, <3>1, <3>2
  <2>2. CASE d # c
    <3>1. ncli'[d] = ncli[d]
      BY <1>6, <2>2, Zenon DEF IInv, TypeOK
    <3> QED
      BY <1>5, <2>2, <3>1, Zenon DEF IInv, CountInv
  <2> QED
    BY <2>1, <2>2, Zenon
<1>9. FlagInv'
  <2> SUFFICES ASSUME NEW d \in CPUs
      PROVE  /\ ncli'[d] > 0 => ~IF_'[d] /\ (intena'[d] <=> level'[d] = 0 /\ base'[d])
             /\ ncli'[d] = 0 => (IF_'[d] <=> level'[d] = 0 /\ base'[d])
             /\ level'[d] = 1 => base'[d]
             /\ \A v \in {0, 1} : pc'[d][v] = "cli" /\ held'[d][v] = {}
                                    => (eflags'[d][v] <=> v = 0 /\ base'[d])
    BY Zenon DEF FlagInv
  <2>1. CASE d # c
    BY <2>1 DEF AcquireRecord, Goto, Recorded, lockVars, cpuVars, frameVars, IInv,
       TypeOK, FlagInv
  <2>2. CASE d = c
    BY <1>1, <1>2, <2>2, Running, LevelsSmall DEF AcquireRecord, Goto, Recorded,
       lockVars, cpuVars, frameVars, IInv, TypeOK, CountInv, FlagInv, Pc, Has
  <2> QED
    BY <2>1, <2>2, Zenon
<1>10. ~panicked'
  BY Zenon DEF AcquireRecord, IInv
<1> QED
  BY <1>3, <1>4, <1>7, <1>8, <1>9, <1>10, Zenon DEF IInv

LEMMA ReleaseRecordInv ==
  ASSUME IInv, NEW c \in CPUs, NEW l \in Locks, ReleaseRecord(c, l)
  PROVE  IInv'
<1>1. /\ Cardinality(Has(c)) \in Nat /\ (Cardinality(Has(c)) = 0 <=> Has(c) = {})
      /\ \A k \in Locks \ Has(c) : Cardinality(Has(c) \cup {k}) = Cardinality(Has(c)) + 1
      /\ \A k \in Has(c) : Cardinality(Has(c) \ {k}) = Cardinality(Has(c)) - 1
  BY Running, LockSets, Zenon
<1>2. Pc(c) = "run" /\ l \in Has(c) /\ holding(c, l)
  <2>1. Pc(c) = "run" /\ l \in Has(c)
    BY Zenon DEF ReleaseRecord, At, Pc, Has
  <2> QED
    BY <2>1, Zenon DEF holding, IInv, OwnerInv, Owned
<1>3. TypeOK'
  BY <1>2, Running, LevelsSmall, SpinlockSizes, Zenon DEF ReleaseRecord, Goto, holding,
     lockVars, cpuVars, frameVars, IInv, TypeOK
<1>4. FramesInv'
  BY <1>2, Running, LevelsSmall DEF ReleaseRecord, Goto, holding, lockVars, cpuVars,
     frameVars, IInv, TypeOK, FramesInv, Has, Pc
<1>5. /\ Pc(c)' = "unlock" /\ Has(c)' = Has(c) /\ lk(c)' = l
      /\ \A d \in CPUs \ {c} : Pc(d)' = Pc(d) /\ Has(d)' = Has(d) /\ lk(d)' = lk(d)
  BY <1>2, Running, LevelsSmall DEF ReleaseRecord, Goto, holding, lockVars, cpuVars,
     frameVars, IInv, TypeOK, FramesInv, Pc, Has, lk
<1>6. /\ locked' = locked /\ lkcpu' = [lkcpu EXCEPT ![l] = NONE]
      /\ ncli' = ncli
  BY Zenon DEF ReleaseRecord, Goto, holding, lockVars, cpuVars, frameVars
<1>7. OwnerInv'
  <2>1. ASSUME NEW d \in CPUs PROVE Owned(d)'
    <3>1. CASE d = c
      <4>1. \A m \in Has(c)' : locked'[m]
        BY <1>2, <1>5, <1>6, Running DEF IInv, TypeOK, OwnerInv, Owned
      <4>2. ASSUME NEW k \in Locks
            PROVE  lkcpu'[k] = c <=> k \in Has(c)' /\ ~(Pc(c)' \in {"record", "unlock"} /\ lk(c)' = k)
        <5>1. lkcpu[k] = c <=> k \in Has(c) /\ ~(Pc(c) \in {"record", "unlock"} /\ lk(c) = k)
          BY Zenon DEF IInv, OwnerInv, Owned
        <5>2. lkcpu \in [Locks -> CPUs \cup {NONE}]
          BY Zenon DEF IInv, TypeOK
        <5> QED
          BY <1>2, <1>5, <1>6, <5>1, <5>2, SpinlockSizes, Zenon
      <4>3. /\ Pc(c)' \in {"record", "unlock"} => lk(c)' \in Has(c)'
            /\ Pc(c)' \in {"cli", "spin"} => lk(c)' \notin Has(c)'
        BY <1>2, <1>5, Zenon
      <4> QED
        BY <3>1, <4>1, <4>2, <4>3, Zenon DEF Owned
    <3>2. CASE d # c
      BY <1>2, <1>5, <1>6, <3>2, Running, SpinlockSizes DEF IInv, TypeOK, OwnerInv,
         Owned
    <3> QED
      BY <3>1, <3>2, Zenon
  <2>2. ASSUME NEW d \in CPUs, NEW e \in CPUs, d # e PROVE Has(d)' \cap Has(e)' = {}
    BY <1>2, <1>5, <2>2 DEF IInv, OwnerInv, Owned
  <2> QED
    BY <2>1, <2>2, Zenon DEF OwnerInv
<1>8. CountInv'
  <2> SUFFICES ASSUME NEW d \in CPUs
      PROVE  (ncli[d] = Cardinality(Has(d)) + IF Pc(d) \in {"spin", "pop"} THEN 1 ELSE 0)'
    BY Zenon DEF CountInv
  <2>1. CASE d = c
    <3>1. ncli[c] = Cardinality(Has(c))
      BY <1>2, Counted, Zenon
    <3>2. Cardinality(Has(c)') = Cardinality(Has(c))
      BY <1>2, <1>5, Zenon
    <3> QED
      BY <1>1, <1>5, <1>6, <2>1, <3>1, <3>2
  <2>2. CASE d # c
    <3>1. ncli'[d] = ncli[d]
      BY <1>6, <2>2, Zenon DEF IInv, TypeOK
    <3> QED
      BY <1>5, <2>2, <3>1, Zenon DEF IInv, CountInv
  <2> QED
    BY <2>1, <2>2, Zenon
<1>9. FlagInv'
  <2> SUFFICES ASSUME NEW d \in CPUs
      PROVE  /\ ncli'[d] > 0 => ~IF_'[d] /\ (intena'[d] <=> level'[d] = 0 /\ base'[d])
             /\ ncli'[d] = 0 => (IF_'[d] <=> level'[d] = 0 /\ base'[d])
             /\ level'[d] = 1 => base'[d]
             /\ \A v \in {0, 1} : pc'[d][v] = "cli" /\ held'[d][v] = {}
                                    => (eflags'[d][v] <=> v = 0 /\ base'[d])
    BY Zenon DEF FlagInv
  <2>1. CASE d # c
    BY <2>1 DEF ReleaseRecord, Goto, holding, lockVars, cpuVars, frameVars, IInv,
       TypeOK, FlagInv
  <2>2. CASE d = c
    BY <1>1, <1>2, <2>2, Running, LevelsSmall DEF ReleaseRecord, Goto, holding,
       lockVars, cpuVars, frameVars, IInv, TypeOK, CountInv, FlagInv, Pc, Has
  <2> QED
    BY <2>1, <2>2, Zenon
<1>10. ~panicked'
  BY <1>2, Zenon DEF ReleaseRecord
<1> QED
  BY <1>3, <1>4, <1>7, <1>8, <1>9, <1>10, Zenon DEF IInv

-----------------------------------------------------------------------------
(* The end of release, and interrupts *)

LEMMA ReleaseUnlockInv ==
  ASSUME IInv, NEW c \in CPUs, ReleaseUnlock(c)
  PROVE  IInv'
<1>1. /\ Cardinality(Has(c)) \in Nat /\ (Cardinality(Has(c)) = 0 <=> Has(c) = {})
      /\ \A k \in Locks \ Has(c) : Cardinality(Has(c) \cup {k}) = Cardinality(Has(c)) + 1
      /\ \A k \in Has(c) : Cardinality(Has(c) \ {k}) = Cardinality(Has(c)) - 1
  BY Running, LockSets, Zenon
<1>2. Pc(c) = "unlock" /\ lk(c) \in Has(c)
  <2>1. Pc(c) = "unlock"
    BY Zenon DEF ReleaseUnlock, At, Pc
  <2> QED
    BY <2>1, Zenon DEF IInv, OwnerInv, Owned
<1>3. TypeOK'
  BY <1>2, Running, LevelsSmall, SpinlockSizes DEF ReleaseUnlock, Goto, lockVars,
     cpuVars, frameVars, IInv, TypeOK
<1>4. FramesInv'
  BY <1>2, Running, LevelsSmall DEF ReleaseUnlock, Goto, lockVars, cpuVars, frameVars,
     IInv, TypeOK, FramesInv, Has, Pc
<1>5. /\ Pc(c)' = "pop" /\ Has(c)' = Has(c) \ {lk(c)} /\ lk(c)' = lk(c)
      /\ \A d \in CPUs \ {c} : Pc(d)' = Pc(d) /\ Has(d)' = Has(d) /\ lk(d)' = lk(d)
  BY <1>2, Running, LevelsSmall DEF ReleaseUnlock, Goto, lockVars, cpuVars, frameVars,
     IInv, TypeOK, FramesInv, Pc, Has, lk
<1>6. /\ locked' = [locked EXCEPT ![lk(c)] = FALSE] /\ lkcpu' = lkcpu
      /\ ncli' = ncli
  BY Zenon DEF ReleaseUnlock, Goto, lockVars, cpuVars, frameVars
<1>7. OwnerInv'
  <2>1. ASSUME NEW d \in CPUs PROVE Owned(d)'
    <3>1. CASE d = c
      BY <1>2, <1>5, <1>6, <3>1, Running, SpinlockSizes, Zenon DEF IInv, TypeOK,
         OwnerInv, Owned
    <3>2. CASE d # c
      BY <1>2, <1>5, <1>6, <3>2, Running, SpinlockSizes DEF IInv, TypeOK, OwnerInv,
         Owned
    <3> QED
      BY <3>1, <3>2, Zenon
  <2>2. ASSUME NEW d \in CPUs, NEW e \in CPUs, d # e PROVE Has(d)' \cap Has(e)' = {}
    BY <1>2, <1>5, <2>2 DEF IInv, OwnerInv, Owned
  <2> QED
    BY <2>1, <2>2, Zenon DEF OwnerInv
<1>8. CountInv'
  <2> SUFFICES ASSUME NEW d \in CPUs
      PROVE  (ncli[d] = Cardinality(Has(d)) + IF Pc(d) \in {"spin", "pop"} THEN 1 ELSE 0)'
    BY Zenon DEF CountInv
  <2>1. CASE d = c
    <3>1. ncli[c] = Cardinality(Has(c)) /\ ncli \in [CPUs -> Nat]
      BY <1>2, Counted, Zenon
    <3>2. Cardinality(Has(c)') = Cardinality(Has(c)) - 1
      BY <1>1, <1>2, <1>5, Running, Zenon
    <3> QED
      BY <1>1, <1>5, <1>6, <2>1, <3>1, <3>2
  <2>2. CASE d # c
    <3>1. ncli'[d] = ncli[d]
      BY <1>6, <2>2, Zenon DEF IInv, TypeOK
    <3> QED
      BY <1>5, <2>2, <3>1, Zenon DEF IInv, CountInv
  <2> QED
    BY <2>1, <2>2, Zenon
<1>9. FlagInv'
  <2> SUFFICES ASSUME NEW d \in CPUs
      PROVE  /\ ncli'[d] > 0 => ~IF_'[d] /\ (intena'[d] <=> level'[d] = 0 /\ base'[d])
             /\ ncli'[d] = 0 => (IF_'[d] <=> level'[d] = 0 /\ base'[d])
             /\ level'[d] = 1 => base'[d]
             /\ \A v \in {0, 1} : pc'[d][v] = "cli" /\ held'[d][v] = {}
                                    => (eflags'[d][v] <=> v = 0 /\ base'[d])
    BY Zenon DEF FlagInv
  <2>1. CASE d # c
    BY <2>1 DEF ReleaseUnlock, Goto, lockVars, cpuVars, frameVars, IInv, TypeOK, FlagInv
  <2>2. CASE d = c
    BY <1>1, <1>2, <2>2, Running, LevelsSmall DEF ReleaseUnlock, Goto, lockVars,
       cpuVars, frameVars, IInv, TypeOK, CountInv, FlagInv, Pc, Has
  <2> QED
    BY <2>1, <2>2, Zenon
<1>10. ~panicked'
  BY Zenon DEF ReleaseUnlock, IInv
<1> QED
  BY <1>3, <1>4, <1>7, <1>8, <1>9, <1>10, Zenon DEF IInv

LEMMA PopcliInv ==
  ASSUME IInv, NEW c \in CPUs, popcli(c)
  PROVE  IInv'
<1>1. /\ Cardinality(Has(c)) \in Nat /\ (Cardinality(Has(c)) = 0 <=> Has(c) = {})
      /\ \A k \in Locks \ Has(c) : Cardinality(Has(c) \cup {k}) = Cardinality(Has(c)) + 1
      /\ \A k \in Has(c) : Cardinality(Has(c) \ {k}) = Cardinality(Has(c)) - 1
  BY Running, LockSets, Zenon
<1>2. Pc(c) = "pop" /\ ncli[c] > 0 /\ ~IF_[c]
  <2>1. Pc(c) = "pop"
    BY Zenon DEF popcli, At, Pc
  <2>2. ncli[c] = Cardinality(Has(c)) + 1
    BY <2>1, Zenon DEF IInv, CountInv
  <2>3. ncli[c] > 0
    BY <1>1, <2>2
  <2>4. ~IF_[c]
    BY <2>3, Zenon DEF IInv, FlagInv
  <2> QED
    BY <2>1, <2>3, <2>4, Zenon
<1>3. TypeOK'
  BY <1>2, Running, LevelsSmall, SpinlockSizes DEF popcli, Goto, Sti, lockVars,
     cpuVars, frameVars, IInv, TypeOK
<1>4. FramesInv'
  BY <1>2, Running, LevelsSmall DEF popcli, Goto, Sti, lockVars, cpuVars, frameVars,
     IInv, TypeOK, FramesInv, Has, Pc
<1>5. /\ Pc(c)' = "run" /\ Has(c)' = Has(c) /\ lk(c)' = lk(c)
      /\ \A d \in CPUs \ {c} : Pc(d)' = Pc(d) /\ Has(d)' = Has(d) /\ lk(d)' = lk(d)
  BY <1>2, Running, LevelsSmall DEF popcli, Goto, Sti, lockVars, cpuVars, frameVars,
     IInv, TypeOK, FramesInv, Pc, Has, lk
<1>6. /\ locked' = locked /\ lkcpu' = lkcpu
      /\ ncli' = [ncli EXCEPT ![c] = @ - 1]
  BY Zenon DEF popcli, Goto, Sti, lockVars, cpuVars, frameVars
<1>7. OwnerInv'
  <2>1. ASSUME NEW d \in CPUs PROVE Owned(d)'
    <3>1. CASE d = c
      <4>1. \A m \in Has(c)' : locked'[m]
        BY <1>2, <1>5, <1>6, Running DEF IInv, TypeOK, OwnerInv, Owned
      <4>2. ASSUME NEW k \in Locks
            PROVE  lkcpu'[k] = c <=> k \in Has(c)' /\ ~(Pc(c)' \in {"record", "unlock"} /\ lk(c)' = k)
        <5>1. lkcpu[k] = c <=> k \in Has(c) /\ ~(Pc(c) \in {"record", "unlock"} /\ lk(c) = k)
          BY Zenon DEF IInv, OwnerInv, Owned
        <5>2. lkcpu \in [Locks -> CPUs \cup {NONE}]
          BY Zenon DEF IInv, TypeOK
        <5> QED
          BY <1>2, <1>5, <1>6, <5>1, <5>2, SpinlockSizes, Zenon
      <4>3. /\ Pc(c)' \in {"record", "unlock"} => lk(c)' \in Has(c)'
            /\ Pc(c)' \in {"cli", "spin"} => lk(c)' \notin Has(c)'
        BY <1>2, <1>5, Zenon
      <4> QED
        BY <3>1, <4>1, <4>2, <4>3, Zenon DEF Owned
    <3>2. CASE d # c
      BY <1>2, <1>5, <1>6, <3>2, Running, SpinlockSizes DEF IInv, TypeOK, OwnerInv,
         Owned
    <3> QED
      BY <3>1, <3>2, Zenon
  <2>2. ASSUME NEW d \in CPUs, NEW e \in CPUs, d # e PROVE Has(d)' \cap Has(e)' = {}
    BY <1>2, <1>5, <2>2 DEF IInv, OwnerInv, Owned
  <2> QED
    BY <2>1, <2>2, Zenon DEF OwnerInv
<1>8. CountInv'
  <2> SUFFICES ASSUME NEW d \in CPUs
      PROVE  (ncli[d] = Cardinality(Has(d)) + IF Pc(d) \in {"spin", "pop"} THEN 1 ELSE 0)'
    BY Zenon DEF CountInv
  <2>1. CASE d = c
    <3>1. ncli[c] = Cardinality(Has(c)) + 1
      BY <1>2, Zenon DEF IInv, CountInv
    <3> QED
      BY <1>1, <1>5, <1>6, <2>1, <3>1 DEF IInv, TypeOK
  <2>2. CASE d # c
    <3>1. ncli'[d] = ncli[d]
      BY <1>6, <2>2, Zenon DEF IInv, TypeOK
    <3> QED
      BY <1>5, <2>2, <3>1, Zenon DEF IInv, CountInv
  <2> QED
    BY <2>1, <2>2, Zenon
<1>9. FlagInv'
  <2> SUFFICES ASSUME NEW d \in CPUs
      PROVE  /\ ncli'[d] > 0 => ~IF_'[d] /\ (intena'[d] <=> level'[d] = 0 /\ base'[d])
             /\ ncli'[d] = 0 => (IF_'[d] <=> level'[d] = 0 /\ base'[d])
             /\ level'[d] = 1 => base'[d]
             /\ \A v \in {0, 1} : pc'[d][v] = "cli" /\ held'[d][v] = {}
                                    => (eflags'[d][v] <=> v = 0 /\ base'[d])
    BY Zenon DEF FlagInv
  <2>1. CASE d # c
    BY <2>1 DEF popcli, Goto, Sti, lockVars, cpuVars, frameVars, IInv, TypeOK, FlagInv
  <2>2. CASE d = c
    BY <1>1, <1>2, <2>2, Running, LevelsSmall DEF popcli, Goto, Sti, lockVars, cpuVars,
       frameVars, IInv, TypeOK, CountInv, FlagInv, Pc, Has
  <2> QED
    BY <2>1, <2>2, Zenon
<1>10. ~panicked'
  BY <1>2 DEF popcli, IInv, TypeOK
<1> QED
  BY <1>3, <1>4, <1>7, <1>8, <1>9, <1>10, Zenon DEF IInv

LEMMA InterruptInv ==
  ASSUME IInv, NEW c \in CPUs, Interrupt(c)
  PROVE  IInv'
<1>1. /\ Cardinality(Has(c)) \in Nat /\ (Cardinality(Has(c)) = 0 <=> Has(c) = {})
      /\ \A k \in Locks \ Has(c) : Cardinality(Has(c) \cup {k}) = Cardinality(Has(c)) + 1
      /\ \A k \in Has(c) : Cardinality(Has(c) \ {k}) = Cardinality(Has(c)) - 1
  BY Running, LockSets, Zenon
<1>2. Pc(c) \in {"run", "cli"} /\ Has(c) = {} /\ level[c] = 0 /\ ncli[c] = 0 /\ base[c]
  <2>1. ncli[c] = 0
    BY DEF Interrupt, IInv, TypeOK, FlagInv
  <2>2. level[c] = 0 /\ base[c]
    BY <2>1, Zenon DEF Interrupt, IInv, FlagInv
  <2>3. ncli[c] = Cardinality(Has(c)) + IF Pc(c) \in {"spin", "pop"} THEN 1 ELSE 0
    BY Zenon DEF IInv, CountInv
  <2>4. Pc(c) \notin {"spin", "pop"} /\ Has(c) = {}
    BY <1>1, <2>1, <2>3
  <2>5. Pc(c) \notin {"record", "unlock"}
    BY <2>4, Zenon DEF IInv, OwnerInv, Owned
  <2> QED
    BY <2>1, <2>2, <2>4, <2>5, Running, Zenon
<1>3. TypeOK'
  BY <1>2, Running, LevelsSmall, SpinlockSizes DEF Interrupt, Gate, lockVars, cpuVars,
     frameVars, IInv, TypeOK
<1>4. FramesInv'
  BY <1>2, Running, LevelsSmall DEF Interrupt, Gate, lockVars, cpuVars, frameVars,
     IInv, TypeOK, FramesInv, Has, Pc
<1>5. /\ Pc(c)' = "run" /\ Has(c)' = {}
      /\ \A d \in CPUs \ {c} : Pc(d)' = Pc(d) /\ Has(d)' = Has(d) /\ lk(d)' = lk(d)
  <2>1. level' = [level EXCEPT ![c] = 1] /\ pc' = pc /\ held' = held /\ want' = want
    BY <1>2 DEF Interrupt, frameVars
  <2>2. pc[c][1] = "run" /\ held[c][1] = {}
    BY <1>2, LevelsSmall DEF IInv, FramesInv
  <2> QED
    BY <2>1, <2>2, Zenon DEF IInv, TypeOK, Pc, Has, lk
<1>6. /\ locked' = locked /\ lkcpu' = lkcpu
      /\ ncli' = ncli
  BY Zenon DEF Interrupt, Gate, lockVars, cpuVars, frameVars
<1>7. OwnerInv'
  <2>1. ASSUME NEW d \in CPUs PROVE Owned(d)'
    <3>1. CASE d = c
      BY <1>2, <1>5, <1>6, <3>1, Running, SpinlockSizes, Zenon DEF IInv, TypeOK,
         OwnerInv, Owned
    <3>2. CASE d # c
      BY <1>2, <1>5, <1>6, <3>2, Running, SpinlockSizes DEF IInv, TypeOK, OwnerInv,
         Owned
    <3> QED
      BY <3>1, <3>2, Zenon
  <2>2. ASSUME NEW d \in CPUs, NEW e \in CPUs, d # e PROVE Has(d)' \cap Has(e)' = {}
    BY <1>2, <1>5, <2>2 DEF IInv, OwnerInv, Owned
  <2> QED
    BY <2>1, <2>2, Zenon DEF OwnerInv
<1>8. CountInv'
  <2> SUFFICES ASSUME NEW d \in CPUs
      PROVE  (ncli[d] = Cardinality(Has(d)) + IF Pc(d) \in {"spin", "pop"} THEN 1 ELSE 0)'
    BY Zenon DEF CountInv
  <2>1. CASE d = c
    <3>1. ncli[c] = Cardinality(Has(c))
      BY <1>2, Counted, Zenon
    <3>2. Cardinality(Has(c)') = Cardinality(Has(c))
      BY <1>2, <1>5, Zenon
    <3> QED
      BY <1>1, <1>5, <1>6, <2>1, <3>1, <3>2
  <2>2. CASE d # c
    <3>1. ncli'[d] = ncli[d]
      BY <1>6, <2>2, Zenon DEF IInv, TypeOK
    <3> QED
      BY <1>5, <2>2, <3>1, Zenon DEF IInv, CountInv
  <2> QED
    BY <2>1, <2>2, Zenon
<1>9. FlagInv'
  <2> SUFFICES ASSUME NEW d \in CPUs
      PROVE  /\ ncli'[d] > 0 => ~IF_'[d] /\ (intena'[d] <=> level'[d] = 0 /\ base'[d])
             /\ ncli'[d] = 0 => (IF_'[d] <=> level'[d] = 0 /\ base'[d])
             /\ level'[d] = 1 => base'[d]
             /\ \A v \in {0, 1} : pc'[d][v] = "cli" /\ held'[d][v] = {}
                                    => (eflags'[d][v] <=> v = 0 /\ base'[d])
    BY Zenon DEF FlagInv
  <2>1. CASE d # c
    BY <2>1 DEF Interrupt, Gate, lockVars, cpuVars, frameVars, IInv, TypeOK, FlagInv
  <2>2. CASE d = c
    BY <1>1, <1>2, <2>2, Running, LevelsSmall DEF Interrupt, Gate, lockVars, cpuVars,
       frameVars, IInv, TypeOK, CountInv, FlagInv, Pc, Has
  <2> QED
    BY <2>1, <2>2, Zenon
<1>10. ~panicked'
  BY Zenon DEF Interrupt, IInv
<1> QED
  BY <1>3, <1>4, <1>7, <1>8, <1>9, <1>10, Zenon DEF IInv

LEMMA IretInv ==
  ASSUME IInv, NEW c \in CPUs, Iret(c)
  PROVE  IInv'
<1>1. /\ Cardinality(Has(c)) \in Nat /\ (Cardinality(Has(c)) = 0 <=> Has(c) = {})
      /\ \A k \in Locks \ Has(c) : Cardinality(Has(c) \cup {k}) = Cardinality(Has(c)) + 1
      /\ \A k \in Has(c) : Cardinality(Has(c) \ {k}) = Cardinality(Has(c)) - 1
  BY Running, LockSets, Zenon
<1>2. Pc(c) = "run" /\ Has(c) = {} /\ level[c] = 1 /\ ncli[c] = 0 /\ pc[c][0] \in {"run", "cli"}
  <2>1. Pc(c) = "run" /\ Has(c) = {} /\ level[c] = 1
    BY Running DEF Iret, At, Pc, Has
  <2>2. ncli[c] = 0
    BY <2>1, NoLocks DEF IInv, CountInv
  <2>3. pc[c][0] \in {"run", "cli"}
    BY <2>1, Zenon DEF IInv, FramesInv
  <2> QED
    BY <2>1, <2>2, <2>3, Zenon
<1>3. TypeOK'
  BY <1>2, Running, LevelsSmall, SpinlockSizes DEF Iret, lockVars, cpuVars, frameVars,
     IInv, TypeOK
<1>4. FramesInv'
  BY <1>2, Running, LevelsSmall DEF Iret, lockVars, cpuVars, frameVars, IInv, TypeOK,
     FramesInv, Has, Pc
<1>5. /\ Pc(c)' = pc[c][0] /\ Has(c)' = {}
      /\ \A d \in CPUs \ {c} : Pc(d)' = Pc(d) /\ Has(d)' = Has(d) /\ lk(d)' = lk(d)
  <2>1. level' = [level EXCEPT ![c] = 0] /\ pc' = pc /\ held' = held /\ want' = want
    BY <1>2 DEF Iret, frameVars
  <2>2. held[c][0] = {}
    BY <1>2, LevelsSmall DEF IInv, FramesInv
  <2> QED
    BY <2>1, <2>2, Zenon DEF IInv, TypeOK, Pc, Has, lk
<1>6. /\ locked' = locked /\ lkcpu' = lkcpu
      /\ ncli' = ncli
  BY Zenon DEF Iret, lockVars, cpuVars, frameVars
<1>7. OwnerInv'
  <2>1. ASSUME NEW d \in CPUs PROVE Owned(d)'
    <3>1. CASE d = c
      BY <1>2, <1>5, <1>6, <3>1, Running, SpinlockSizes, Zenon DEF IInv, TypeOK,
         OwnerInv, Owned
    <3>2. CASE d # c
      BY <1>2, <1>5, <1>6, <3>2, Running, SpinlockSizes DEF IInv, TypeOK, OwnerInv,
         Owned
    <3> QED
      BY <3>1, <3>2, Zenon
  <2>2. ASSUME NEW d \in CPUs, NEW e \in CPUs, d # e PROVE Has(d)' \cap Has(e)' = {}
    BY <1>2, <1>5, <2>2 DEF IInv, OwnerInv, Owned
  <2> QED
    BY <2>1, <2>2, Zenon DEF OwnerInv
<1>8. CountInv'
  <2> SUFFICES ASSUME NEW d \in CPUs
      PROVE  (ncli[d] = Cardinality(Has(d)) + IF Pc(d) \in {"spin", "pop"} THEN 1 ELSE 0)'
    BY Zenon DEF CountInv
  <2>1. CASE d = c
    <3>1. ncli[c] = Cardinality(Has(c))
      BY <1>2, Counted, Zenon
    <3>2. Cardinality(Has(c)') = Cardinality(Has(c))
      BY <1>2, <1>5, Zenon
    <3>3. Pc(c)' \notin {"spin", "pop"}
      BY <1>2, <1>5, Zenon
    <3> QED
      BY <1>1, <1>6, <2>1, <3>1, <3>2, <3>3
  <2>2. CASE d # c
    <3>1. ncli'[d] = ncli[d]
      BY <1>6, <2>2, Zenon DEF IInv, TypeOK
    <3> QED
      BY <1>5, <2>2, <3>1, Zenon DEF IInv, CountInv
  <2> QED
    BY <2>1, <2>2, Zenon
<1>9. FlagInv'
  <2> SUFFICES ASSUME NEW d \in CPUs
      PROVE  /\ ncli'[d] > 0 => ~IF_'[d] /\ (intena'[d] <=> level'[d] = 0 /\ base'[d])
             /\ ncli'[d] = 0 => (IF_'[d] <=> level'[d] = 0 /\ base'[d])
             /\ level'[d] = 1 => base'[d]
             /\ \A v \in {0, 1} : pc'[d][v] = "cli" /\ held'[d][v] = {}
                                    => (eflags'[d][v] <=> v = 0 /\ base'[d])
    BY Zenon DEF FlagInv
  <2>1. CASE d # c
    BY <2>1 DEF Iret, lockVars, cpuVars, frameVars, IInv, TypeOK, FlagInv
  <2>2. CASE d = c
    BY <1>1, <1>2, <2>2, Running, LevelsSmall DEF Iret, lockVars, cpuVars, frameVars,
       IInv, TypeOK, CountInv, FlagInv, Pc, Has
  <2> QED
    BY <2>1, <2>2, Zenon
<1>10. ~panicked'
  BY Zenon DEF Iret, IInv
<1> QED
  BY <1>3, <1>4, <1>7, <1>8, <1>9, <1>10, Zenon DEF IInv

LEMMA SetIFInv ==
  ASSUME IInv, NEW c \in CPUs, NEW on \in BOOLEAN, SetIF(c, on)
  PROVE  IInv'
<1>1. /\ Cardinality(Has(c)) \in Nat /\ (Cardinality(Has(c)) = 0 <=> Has(c) = {})
      /\ \A k \in Locks \ Has(c) : Cardinality(Has(c) \cup {k}) = Cardinality(Has(c)) + 1
      /\ \A k \in Has(c) : Cardinality(Has(c) \ {k}) = Cardinality(Has(c)) - 1
  BY Running, LockSets, Zenon
<1>2. Pc(c) = "run" /\ Has(c) = {} /\ level[c] = 0 /\ ncli[c] = 0
  <2>1. Pc(c) = "run" /\ Has(c) = {} /\ level[c] = 0
    BY Zenon DEF SetIF, At, Pc, Has
  <2>2. ncli[c] = 0
    BY <2>1, NoLocks DEF IInv, CountInv
  <2> QED
    BY <2>1, <2>2, Zenon
<1>3. TypeOK'
  BY <1>2, Running, LevelsSmall, SpinlockSizes, Zenon DEF SetIF, lockVars, cpuVars,
     frameVars, IInv, TypeOK
<1>4. FramesInv'
  BY <1>2, Running, LevelsSmall DEF SetIF, lockVars, cpuVars, frameVars, IInv, TypeOK,
     FramesInv, Has, Pc
<1>5. /\ Pc(c)' = "run" /\ Has(c)' = {} /\ lk(c)' = lk(c)
      /\ \A d \in CPUs \ {c} : Pc(d)' = Pc(d) /\ Has(d)' = Has(d) /\ lk(d)' = lk(d)
  <2>1. UNCHANGED <<level, pc, held, want>>
    BY Zenon DEF SetIF, frameVars
  <2> QED
    BY <1>2, <2>1, Zenon DEF Pc, Has, lk
<1>6. /\ locked' = locked /\ lkcpu' = lkcpu
      /\ ncli' = ncli
  BY Zenon DEF SetIF, lockVars
<1>7. OwnerInv'
  <2>1. ASSUME NEW d \in CPUs PROVE Owned(d)'
    <3>1. CASE d = c
      BY <1>2, <1>5, <1>6, <3>1, Running, SpinlockSizes, Zenon DEF IInv, TypeOK,
         OwnerInv, Owned
    <3>2. CASE d # c
      BY <1>2, <1>5, <1>6, <3>2, Running, SpinlockSizes DEF IInv, TypeOK, OwnerInv,
         Owned
    <3> QED
      BY <3>1, <3>2, Zenon
  <2>2. ASSUME NEW d \in CPUs, NEW e \in CPUs, d # e PROVE Has(d)' \cap Has(e)' = {}
    BY <1>2, <1>5, <2>2, Zenon DEF IInv, OwnerInv, Owned
  <2> QED
    BY <2>1, <2>2, Zenon DEF OwnerInv
<1>8. CountInv'
  <2> SUFFICES ASSUME NEW d \in CPUs
      PROVE  (ncli[d] = Cardinality(Has(d)) + IF Pc(d) \in {"spin", "pop"} THEN 1 ELSE 0)'
    BY Zenon DEF CountInv
  <2>1. CASE d = c
    <3>1. ncli[c] = Cardinality(Has(c))
      BY <1>2, Counted, Zenon
    <3>2. Cardinality(Has(c)') = Cardinality(Has(c))
      BY <1>2, <1>5, Zenon
    <3> QED
      BY <1>1, <1>5, <1>6, <2>1, <3>1, <3>2
  <2>2. CASE d # c
    <3>1. ncli'[d] = ncli[d]
      BY <1>6, <2>2, Zenon DEF IInv, TypeOK
    <3> QED
      BY <1>5, <2>2, <3>1, Zenon DEF IInv, CountInv
  <2> QED
    BY <2>1, <2>2, Zenon
<1>9. FlagInv'
  <2> SUFFICES ASSUME NEW d \in CPUs
      PROVE  /\ ncli'[d] > 0 => ~IF_'[d] /\ (intena'[d] <=> level'[d] = 0 /\ base'[d])
             /\ ncli'[d] = 0 => (IF_'[d] <=> level'[d] = 0 /\ base'[d])
             /\ level'[d] = 1 => base'[d]
             /\ \A v \in {0, 1} : pc'[d][v] = "cli" /\ held'[d][v] = {}
                                    => (eflags'[d][v] <=> v = 0 /\ base'[d])
    BY Zenon DEF FlagInv
  <2>1. CASE d # c
    BY <2>1 DEF SetIF, lockVars, cpuVars, frameVars, IInv, TypeOK, FlagInv
  <2>2. CASE d = c
    BY <1>1, <1>2, <2>2, Running, LevelsSmall DEF SetIF, lockVars, cpuVars, frameVars,
       IInv, TypeOK, CountInv, FlagInv, Pc, Has
  <2> QED
    BY <2>1, <2>2, Zenon
<1>10. ~panicked'
  BY Zenon DEF SetIF, IInv
<1> QED
  BY <1>3, <1>4, <1>7, <1>8, <1>9, <1>10, Zenon DEF IInv

-----------------------------------------------------------------------------
(* The theorems *)

LEMMA StepInv == IInv /\ [Next]_vars => IInv'
<1> SUFFICES ASSUME IInv, [Next]_vars PROVE IInv'
  OBVIOUS
<1>1. CASE UNCHANGED vars
  BY <1>1 DEF vars, lockVars, cpuVars, frameVars, IInv, TypeOK, FramesInv, OwnerInv,
     Owned,
     CountInv, FlagInv, Pc, Has, lk
<1>2. CASE Next
  BY <1>2, AcquireReadsInv, AcquireCliInv, AcquireXchgInv, AcquireRecordInv,
     ReleaseRecordInv,
     ReleaseUnlockInv, PopcliInv, InterruptInv, IretInv, SetIFInv, Zenon DEF Next
<1> QED
  BY <1>1, <1>2, Zenon

THEOREM InvHolds == Spec => []IInv
  BY InitInv, StepInv, PTL DEF Spec

\* However many CPUs there are, and wherever interrupts come, two frames never
\* have the same lock between acquire's xchg and release's store.
THEOREM LocksExclude == Spec => []MutualExclusion
<1>1. IInv => MutualExclusion
  <2> SUFFICES ASSUME IInv, NEW c \in CPUs, NEW d \in CPUs, NEW v \in Levels, NEW w \in Levels,
                      held[c][v] \cap held[d][w] # {}
               PROVE  c = d /\ v = w
    BY Zenon DEF MutualExclusion
  <2>1. v = level[c] /\ w = level[d]
    BY Zenon DEF IInv, FramesInv
  <2> QED
    BY <2>1, Zenon DEF IInv, OwnerInv, Has
<1> QED
  BY <1>1, InvHolds, PTL

\* acquire turns interrupts off before it spins, and they stay off until the
\* last lock is released.
THEOREM InterruptsOff == Spec => []OffWhileHolding
<1>1. IInv => OffWhileHolding
  <2> SUFFICES ASSUME IInv, NEW c \in CPUs, Holds(c) # {} \/ pc[c][level[c]] \in {"spin", "pop"}
               PROVE  ~IF_[c]
    BY Zenon DEF OffWhileHolding
  <2>1. Cardinality(Has(c)) \in Nat /\ (Has(c) # {} => Cardinality(Has(c)) > 0)
    BY Running, LockSets
  <2>2. ncli[c] = Cardinality(Has(c)) + IF Pc(c) \in {"spin", "pop"} THEN 1 ELSE 0
    BY Zenon DEF IInv, CountInv
  <2>3. ncli[c] > 0
    BY <2>1, <2>2, Running DEF Pc
  <2> QED
    BY <2>3, Zenon DEF IInv, FlagInv
<1> QED
  BY <1>1, InvHolds, PTL

\* popcli restores the flag pushcli found, through any nesting of locks and
\* any interrupts.
THEOREM InterruptsRestored == Spec => []FlagRestored
<1>1. IInv => FlagRestored
  <2> SUFFICES ASSUME IInv, NEW c \in CPUs, level[c] = 0, pc[c][0] = "run", held[c][0] = {}
               PROVE  IF_[c] = base[c] /\ ncli[c] = 0
    BY Zenon DEF FlagRestored
  <2>1. ncli[c] = 0
    <3>1. Pc(c) = "run" /\ Has(c) = {}
      BY Zenon DEF Pc, Has
    <3> QED
      BY <3>1, Counted, NoLocks, Zenon
  <2>2. IF_[c] <=> base[c]
    BY <2>1, Zenon DEF IInv, FlagInv
  <2>3. IF_[c] \in BOOLEAN /\ base[c] \in BOOLEAN
    BY Zenon DEF IInv, TypeOK
  <2> QED
    BY <2>1, <2>2, <2>3, Zenon
<1> QED
  BY <1>1, InvHolds, PTL

\* The panics of acquire, release and popcli are not reached by code that
\* nests its locks in one order.
THEOREM LockPanicsUnreached == Spec => [](NoLockPanic /\ HandlersDoNotNest)
<1>1. IInv => NoLockPanic /\ HandlersDoNotNest
  BY DEF IInv, FramesInv, NoLockPanic, HandlersDoNotNest
<1> QED
  BY <1>1, InvHolds, PTL

\* Spin locks are safe for any number of CPUs, locks and interrupts.
THEOREM LocksAreSafe == Spec => []LocksSafe
<1>1. IInv => TypeOK
  BY Zenon DEF IInv
<1>2. /\ TypeOK /\ MutualExclusion /\ OffWhileHolding /\ FlagRestored
      /\ NoLockPanic /\ HandlersDoNotNest
      => LocksSafe
  BY Zenon DEF LocksSafe
<1> QED
  BY <1>1, <1>2, InvHolds, LocksExclude, InterruptsOff, InterruptsRestored,
     LockPanicsUnreached, PTL
=============================================================================
