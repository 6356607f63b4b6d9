----------------------- MODULE ReadWriteMutex_proofs -----------------------
(***************************************************************************)
(* Proofs about read_write_mutex, for any set of threads, any depth of     *)
(* readonly locks and any number of locks.  Mutual exclusion is counting:  *)
(* the writer has the whole pool, so with LocksConserved nothing is left   *)
(* for a reader or for a second writer.                                    *)
(***************************************************************************)
EXTENDS ReadWriteMutex, FiniteSetTheorems, TLAPS

(* The thread with the write lock is the one the flag speaks of.           *)
WriterKnown ==
  \A t \in Threads : at[t] = "writing" =>
    /\ write_lock_active
    /\ \A u \in Threads : at[u] = "writing" => u = t

(* One thread gathers at a time, and only it has locks in hand.            *)
GathererKnown ==
  /\ \A t \in Threads : at[t] = "gathers" =>
       /\ write_lock_in_progress
       /\ \A u \in Threads : at[u] = "gathers" => u = t
  /\ ~write_lock_in_progress => locks_obtained = 0

RWInv ==
  /\ RWTypeOK
  /\ IsFiniteSet(reading)
  /\ LocksConserved
  /\ WriterKnown
  /\ GathererKnown
  /\ RWSleepForCause

-----------------------------------------------------------------------------
LEMMA LockCounts ==
  MaxLocks \in Nat /\ MaxLocks > 0 /\ 0 \in 0 .. MaxLocks /\ MaxLocks \in 0 .. MaxLocks
BY RWAssumption

(* An active writer leaves nothing: no lock in the pool, none in hand,     *)
(* none with a reader.                                                     *)
LEMMA WriterHasAll ==
  ASSUME RWInv
  PROVE  /\ Cardinality(reading) \in Nat
         /\ available_locks + Cardinality(reading) + locks_obtained <= MaxLocks
         /\ write_lock_active => /\ available_locks = 0
                                 /\ locks_obtained = 0
                                 /\ reading = {}
<1>1. Cardinality(reading) \in Nat
  BY FS_CardinalityType DEF RWInv
<1>2. available_locks \in Nat /\ locks_obtained \in Nat
  BY RWAssumption DEF RWInv, RWTypeOK
<1>3. available_locks + Cardinality(reading) + locks_obtained <= MaxLocks
  BY <1>1, <1>2, RWAssumption DEF RWInv, LocksConserved
<1>4. ASSUME write_lock_active
      PROVE  available_locks = 0 /\ locks_obtained = 0 /\ Cardinality(reading) = 0
  BY <1>1, <1>2, <1>4 DEF RWInv, LocksConserved
<1>5. Cardinality(reading) = 0 => reading = {}
  BY FS_EmptySet DEF RWInv
<1> QED
  BY <1>1, <1>3, <1>4, <1>5

(* The whole pool free means that nobody reads and nobody writes.          *)
LEMMA PoolFull ==
  ASSUME RWInv, available_locks + locks_obtained = MaxLocks
  PROVE  reading = {} /\ ~write_lock_active
<1>1. available_locks \in Nat /\ locks_obtained \in Nat /\ Cardinality(reading) \in Nat
  BY WriterHasAll, RWAssumption DEF RWInv, RWTypeOK
<1>2. ~write_lock_active
  BY <1>1, WriterHasAll, RWAssumption
<1>3. Cardinality(reading) = 0
  BY <1>1, <1>2, RWAssumption DEF RWInv, LocksConserved
<1> QED
  BY <1>2, <1>3, FS_EmptySet DEF RWInv

(* A new read_write_mutex satisfies the invariant.                         *)
THEOREM RWInitInv == RWInit => RWInv
<1> SUFFICES ASSUME RWInit PROVE RWInv
  OBVIOUS
<1>1. IsFiniteSet({}) /\ Cardinality({}) = 0
  BY FS_EmptySet
<1>2. RWTypeOK
  BY LockCounts DEF RWInit, RWTypeOK, Places
<1>3. LocksConserved
  BY <1>1, RWAssumption DEF RWInit, LocksConserved
<1>4. WriterKnown /\ GathererKnown /\ RWSleepForCause
  BY DEF RWInit, WriterKnown, GathererKnown, RWSleepForCause
<1> QED
  BY <1>1, <1>2, <1>3, <1>4 DEF RWInv, RWInit

-----------------------------------------------------------------------------
(* The first segment of lock(), or the one after it was its turn to wait.  *)
LEMMA TurnComesInv ==
  ASSUME RWInv, NEW t \in Threads,
         at[t] \in {"out", "wantsWrite"}, TurnComes(t)
  PROVE  RWInv'
<1>1. CASE write_lock_in_progress
  <2>0. /\ at' = [at EXCEPT ![t] = "wantsWrite"]
        /\ asleep' = asleep \cup {t}
        /\ UNCHANGED <<available_locks, write_lock_in_progress, write_lock_active,
                       locks_obtained, reading>>
    BY <1>1 DEF TurnComes, WaitAs, Move
  <2>1. RWTypeOK'
    BY <2>0 DEF RWInv, RWTypeOK, Places
  <2>2. LocksConserved' /\ IsFiniteSet(reading)'
    BY <2>0 DEF RWInv, LocksConserved
  <2>3. WriterKnown'
    BY <2>0 DEF RWInv, WriterKnown, RWTypeOK
  <2>4. GathererKnown'
    BY <2>0 DEF RWInv, GathererKnown, RWTypeOK
  <2>5. RWSleepForCause'
    BY <2>0, <1>1 DEF RWInv, RWSleepForCause, RWTypeOK
  <2> QED
    BY <2>1, <2>2, <2>3, <2>4, <2>5 DEF RWInv
<1>2. CASE ~write_lock_in_progress /\ available_locks = MaxLocks
  <2>0. /\ at' = [at EXCEPT ![t] = "writing"]
        /\ available_locks' = 0 /\ write_lock_active' = TRUE
        /\ UNCHANGED <<write_lock_in_progress, locks_obtained, asleep, reading>>
    BY <1>2, RWAssumption DEF TurnComes, Move
  <2>1. locks_obtained = 0
    BY <1>2 DEF RWInv, GathererKnown
  <2>2. reading = {} /\ ~write_lock_active
    BY <1>2, <2>1, PoolFull, RWAssumption
  <2>3. RWTypeOK'
    BY <2>0, RWAssumption DEF RWInv, RWTypeOK, Places
  <2>4. LocksConserved' /\ IsFiniteSet(reading)'
    BY <2>0, <2>1, <2>2, FS_EmptySet DEF RWInv, LocksConserved
  <2>5. WriterKnown'
    BY <2>0, <2>2 DEF RWInv, WriterKnown, RWTypeOK
  <2>6. GathererKnown'
    BY <2>0 DEF RWInv, GathererKnown, RWTypeOK
  <2>7. RWSleepForCause'
    BY <2>0, <1>2, <2>2, RWAssumption DEF RWInv, RWSleepForCause, RWTypeOK
  <2> QED
    BY <2>3, <2>4, <2>5, <2>6, <2>7 DEF RWInv
<1>3. CASE ~write_lock_in_progress /\ available_locks # MaxLocks
  <2>0. /\ at' = [at EXCEPT ![t] = "gathers"]
        /\ asleep' = asleep \cup {t}
        /\ available_locks' = 0 /\ locks_obtained' = available_locks
        /\ write_lock_in_progress' = TRUE
        /\ UNCHANGED <<write_lock_active, reading>>
    BY <1>3 DEF TurnComes, WaitAs, Move
  <2>1. locks_obtained = 0
    BY <1>3 DEF RWInv, GathererKnown
  <2>2. RWTypeOK'
    BY <2>0, RWAssumption DEF RWInv, RWTypeOK, Places
  <2>3. LocksConserved' /\ IsFiniteSet(reading)'
    <3>1. available_locks \in Nat /\ Cardinality(reading) \in Nat
      BY WriterHasAll, RWAssumption DEF RWInv, RWTypeOK
    <3> QED
      BY <2>0, <2>1, <3>1 DEF RWInv, LocksConserved
  <2>4. WriterKnown'
    BY <2>0 DEF RWInv, WriterKnown, RWTypeOK
  <2>5. GathererKnown'
    BY <2>0, <1>3 DEF RWInv, GathererKnown, RWTypeOK
  <2>6. RWSleepForCause'
    BY <2>0 DEF RWInv, RWSleepForCause, RWTypeOK
  <2> QED
    BY <2>2, <2>3, <2>4, <2>5, <2>6 DEF RWInv
<1> QED
  BY <1>1, <1>2, <1>3

(* A writer that gathers, woken.                                           *)
LEMMA GathersInv ==
  ASSUME RWInv, NEW t \in Threads, Gathers(t)
  PROVE  RWInv'
<1>0. /\ at[t] = "gathers" /\ t \notin asleep
      /\ available_locks' = 0 /\ reading' = reading
      /\ write_lock_in_progress
      /\ available_locks \in Nat /\ locks_obtained \in Nat
      /\ Cardinality(reading) \in Nat
  BY WriterHasAll, RWAssumption DEF Gathers, Runs, RWInv, RWTypeOK, GathererKnown
<1>1. CASE locks_obtained + available_locks = MaxLocks
  <2>0. /\ at' = [at EXCEPT ![t] = "writing"]
        /\ locks_obtained' = 0 /\ write_lock_in_progress' = FALSE
        /\ write_lock_active' = TRUE /\ asleep' = asleep
    BY <1>1 DEF Gathers, Move
  <2>1. reading = {} /\ ~write_lock_active
    BY <1>0, <1>1, PoolFull, RWAssumption
  <2>2. RWTypeOK'
    BY <1>0, <2>0, LockCounts DEF RWInv, RWTypeOK, Places
  <2>3. LocksConserved' /\ IsFiniteSet(reading)'
    BY <1>0, <2>0, <2>1, FS_EmptySet DEF RWInv, LocksConserved
  <2>4. WriterKnown'
    BY <2>0, <2>1 DEF RWInv, WriterKnown, RWTypeOK
  <2>5. GathererKnown'
    BY <1>0, <2>0 DEF RWInv, GathererKnown, RWTypeOK
  <2>6. RWSleepForCause'
    BY <1>0, <2>0 DEF RWInv, RWSleepForCause, RWTypeOK
  <2> QED
    BY <2>2, <2>3, <2>4, <2>5, <2>6 DEF RWInv
<1>2. CASE locks_obtained + available_locks # MaxLocks
  <2>0. /\ at' = [at EXCEPT ![t] = "gathers"]
        /\ locks_obtained' = locks_obtained + available_locks
        /\ asleep' = asleep \cup {t}
        /\ UNCHANGED <<write_lock_in_progress, write_lock_active>>
    BY <1>2 DEF Gathers, Move, WaitAs
  <2>1. RWTypeOK'
    BY <1>0, <2>0, WriterHasAll, RWAssumption DEF RWInv, RWTypeOK, Places
  <2>2. LocksConserved' /\ IsFiniteSet(reading)'
    BY <1>0, <2>0 DEF RWInv, LocksConserved
  <2>3. WriterKnown'
    BY <1>0, <2>0 DEF RWInv, WriterKnown, RWTypeOK
  <2>4. GathererKnown'
    BY <1>0, <2>0 DEF RWInv, GathererKnown, RWTypeOK
  <2>5. RWSleepForCause'
    BY <1>0, <2>0 DEF RWInv, RWSleepForCause, RWTypeOK
  <2> QED
    BY <2>1, <2>2, <2>3, <2>4, <2>5 DEF RWInv
<1> QED
  BY <1>1, <1>2

(* The writer gives the whole pool back.                                   *)
LEMMA UnlockInv ==
  ASSUME RWInv, NEW t \in Threads, Unlock(t)
  PROVE  RWInv'
<1>1. write_lock_active /\ at[t] = "writing"
  BY DEF Unlock, RWInv, WriterKnown
<1>2. /\ at' = [at EXCEPT ![t] = "out"]
      /\ available_locks' = MaxLocks /\ write_lock_active' = FALSE /\ asleep' = {}
      /\ UNCHANGED <<write_lock_in_progress, locks_obtained, reading>>
  BY <1>1 DEF Unlock, Move
<1>3. reading = {} /\ locks_obtained = 0
  BY <1>1, WriterHasAll
<1>4. RWTypeOK'
  BY <1>2, LockCounts DEF RWInv, RWTypeOK, Places
<1>5. LocksConserved' /\ IsFiniteSet(reading)'
  BY <1>2, <1>3, FS_EmptySet, RWAssumption DEF RWInv, LocksConserved
<1>6. WriterKnown'
  BY <1>1, <1>2 DEF RWInv, WriterKnown, RWTypeOK
<1>7. GathererKnown'
  BY <1>2 DEF RWInv, GathererKnown, RWTypeOK
<1>8. RWSleepForCause'
  BY <1>2 DEF RWSleepForCause
<1> QED
  BY <1>4, <1>5, <1>6, <1>7, <1>8 DEF RWInv

(* A readonly lock is taken, or its thread goes to sleep.                  *)
LEMMA TakeReadonlyInv ==
  ASSUME RWInv, NEW t \in Threads,
         at[t] \in {"out", "wantsRead"}, TakeReadonly(t),
         UNCHANGED <<write_lock_in_progress, write_lock_active, locks_obtained>>
  PROVE  RWInv'
<1>1. CASE available_locks = 0
  <2>0. /\ at' = [at EXCEPT ![t] = "wantsRead"]
        /\ asleep' = asleep \cup {t}
        /\ UNCHANGED <<available_locks, reading>>
    BY <1>1 DEF TakeReadonly, WaitAs, Move
  <2>1. RWTypeOK'
    BY <2>0 DEF RWInv, RWTypeOK, Places
  <2>2. LocksConserved' /\ IsFiniteSet(reading)'
    BY <2>0 DEF RWInv, LocksConserved
  <2>3. WriterKnown' /\ GathererKnown'
    BY <2>0 DEF RWInv, WriterKnown, GathererKnown, RWTypeOK
  <2>4. RWSleepForCause'
    BY <2>0, <1>1 DEF RWInv, RWSleepForCause, RWTypeOK
  <2> QED
    BY <2>1, <2>2, <2>3, <2>4 DEF RWInv
<1>2. CASE available_locks # 0
  <2>0. /\ available_locks' = available_locks - 1
        /\ at' = [at EXCEPT ![t] = "out"]
        /\ asleep' = asleep
    BY <1>2 DEF TakeReadonly, Move
  <2>1. PICK d \in Depths : <<t, d>> \notin reading /\ reading' = reading \cup {<<t, d>>}
    BY <1>2 DEF TakeReadonly
  <2>2. /\ IsFiniteSet(reading)'
        /\ Cardinality(reading') = Cardinality(reading) + 1
    BY <2>1, FS_AddElement DEF RWInv
  <2>3. /\ available_locks \in Nat /\ locks_obtained \in Nat
        /\ Cardinality(reading) \in Nat
    BY WriterHasAll, RWAssumption DEF RWInv, RWTypeOK
  <2>4. RWTypeOK'
    BY <2>0, <2>1, <1>2, RWAssumption DEF RWInv, RWTypeOK, Places
  <2>5. LocksConserved'
    <3>1. ~write_lock_active
      BY <1>2, WriterHasAll
    <3> QED
      BY <3>1, <2>0, <2>2, <2>3, RWAssumption DEF RWInv, LocksConserved
  <2>6. WriterKnown' /\ GathererKnown'
    BY <2>0 DEF RWInv, WriterKnown, GathererKnown, RWTypeOK
  <2>7. RWSleepForCause'
    BY <2>0, <1>2 DEF RWInv, RWSleepForCause, RWTypeOK
  <2> QED
    BY <2>2, <2>4, <2>5, <2>6, <2>7 DEF RWInv
<1> QED
  BY <1>1, <1>2

(* A readonly lock goes back to the pool.                                  *)
LEMMA UnlockReadonlyInv ==
  ASSUME RWInv, NEW t \in Threads, UnlockReadonly(t)
  PROVE  RWInv'
<1>1. PICK r \in Reads(t) : reading' = reading \ {r}
  BY DEF UnlockReadonly
<1>2. r \in reading
  BY DEF Reads
<1>3. /\ IsFiniteSet(reading)'
      /\ Cardinality(reading') = Cardinality(reading) - 1
  BY <1>1, <1>2, FS_RemoveElement DEF RWInv
<1>4. /\ available_locks \in Nat /\ locks_obtained \in Nat
      /\ Cardinality(reading) \in Nat /\ Cardinality(reading) # 0
  BY <1>2, WriterHasAll, FS_EmptySet, RWAssumption DEF RWInv, RWTypeOK
<1>5. available_locks # MaxLocks /\ ~write_lock_active
  BY <1>2, <1>4, WriterHasAll, RWAssumption
<1>6. /\ available_locks' = available_locks + 1
      /\ asleep' = IF available_locks = 0 \/ write_lock_in_progress THEN {} ELSE asleep
      /\ UNCHANGED <<write_lock_in_progress, write_lock_active, locks_obtained, at>>
  BY <1>5 DEF UnlockReadonly
<1>7. RWTypeOK'
  BY <1>1, <1>4, <1>5, <1>6, RWAssumption DEF RWInv, RWTypeOK
<1>8. LocksConserved'
  BY <1>3, <1>4, <1>5, <1>6, RWAssumption DEF RWInv, LocksConserved
<1>9. WriterKnown' /\ GathererKnown'
  BY <1>6 DEF RWInv, WriterKnown, GathererKnown
<1>10. RWSleepForCause'
  BY <1>5, <1>6 DEF RWInv, RWSleepForCause, GathererKnown, RWTypeOK
<1> QED
  BY <1>3, <1>7, <1>8, <1>9, <1>10 DEF RWInv

(* Every step keeps the invariant.                                         *)
THEOREM RWStepInv == RWInv /\ [RWNext]_rwVars => RWInv'
<1> SUFFICES ASSUME RWInv, [RWNext]_rwVars PROVE RWInv'
  OBVIOUS
<1>1. ASSUME NEW t \in Threads, Lock(t) PROVE RWInv'
  BY <1>1, TurnComesInv DEF Lock
<1>2. ASSUME NEW t \in Threads, LockResumes(t) PROVE RWInv'
  BY <1>2, TurnComesInv DEF LockResumes, Runs
<1>3. ASSUME NEW t \in Threads, Gathers(t) PROVE RWInv'
  BY <1>3, GathersInv
<1>4. ASSUME NEW t \in Threads, Unlock(t) PROVE RWInv'
  BY <1>4, UnlockInv
<1>5. ASSUME NEW t \in Threads, LockReadonly(t) PROVE RWInv'
  BY <1>5, TakeReadonlyInv DEF LockReadonly
<1>6. ASSUME NEW t \in Threads, LockReadonlyResumes(t) PROVE RWInv'
  BY <1>6, TakeReadonlyInv DEF LockReadonlyResumes, Runs
<1>7. ASSUME NEW t \in Threads, UnlockReadonly(t) PROVE RWInv'
  BY <1>7, UnlockReadonlyInv
<1>8. ASSUME NEW t \in Threads, WakesUnasked(t) PROVE RWInv'
  BY <1>8 DEF WakesUnasked, RWInv, RWTypeOK, LocksConserved, WriterKnown,
              GathererKnown, RWSleepForCause
<1>9. CASE UNCHANGED rwVars
  BY <1>9 DEF rwVars, RWInv, RWTypeOK, LocksConserved, WriterKnown,
              GathererKnown, RWSleepForCause
<1> QED
  BY <1>1, <1>2, <1>3, <1>4, <1>5, <1>6, <1>7, <1>8, <1>9
  DEF RWNext, Resumes, Releases

(* Types, conservation and the missing broadcast, in every behaviour.      *)
THEOREM RWSafety == RWSpec => []RWSafe
<1>1. RWInv => RWSafe
  BY DEF RWInv, RWSafe
<1> QED
  BY <1>1, RWInitInv, RWStepInv, PTL DEF RWSpec

(* The promise of read_write_mutex, for any number of threads and locks:   *)
(* a write lock excludes every other lock.                                 *)
THEOREM RWMutualExclusion == RWSpec => []WriterAlone
<1>1. RWInv => WriterAlone
  <2> SUFFICES ASSUME RWInv, NEW t \in Threads, at[t] = "writing"
               PROVE  reading = {} /\ \A u \in Threads : at[u] = "writing" => u = t
    BY DEF WriterAlone
  <2>1. write_lock_active /\ \A u \in Threads : at[u] = "writing" => u = t
    BY DEF RWInv, WriterKnown
  <2> QED
    BY <2>1, WriterHasAll
<1> QED
  BY <1>1, RWInitInv, RWStepInv, PTL DEF RWSpec
=============================================================================
