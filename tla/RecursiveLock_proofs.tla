------------------------ MODULE RecursiveLock_proofs ------------------------
(***************************************************************************)
(* Proofs about rmutex with rsignaler, for any set of threads: the lock    *)
(* has one owner, count is its depth, and the one wake-up that unlock()    *)
(* sends is never the wrong number.                                        *)
(***************************************************************************)
EXTENDS RecursiveLock, TLAPS

(* What a thread owns where it stands: a thread in lock(), or in wait()    *)
(* after it released the rmutex, owns nothing.                             *)
Holding ==
  \A t \in Threads :
    /\ at[t] \in {"locks", "released", "waits", "relocks"} => owned[t] = 0
    /\ at[t] \in {"locks", "relocks"} => times[t] \in Times
    /\ at[t] \in {"inWait", "released", "waits"} => times[t] \in Times
    /\ at[t] = "inWait" => times[t] = owned[t]
    /\ t \in asleep => at[t] \in {"locks", "relocks"}

RLInv == RLTypeOK /\ OneOwner /\ SignalNotLost /\ Holding

-----------------------------------------------------------------------------
(* A new rmutex and rsignaler satisfy the invariant.                       *)
THEOREM RLInitInv == RLInit => RLInv
<1> SUFFICES ASSUME RLInit PROVE RLInv
  OBVIOUS
<1>1. 0 \in 0 .. MaxTimes
  BY RLAssumption
<1>2. RLTypeOK
  BY <1>1 DEF RLInit, RLTypeOK, Stations
<1>3. OneOwner
  BY RLAssumption DEF RLInit, OneOwner
<1>4. SignalNotLost /\ Holding
  BY DEF RLInit, SignalNotLost, Holding
<1> QED
  BY <1>2, <1>3, <1>4 DEF RLInv

-----------------------------------------------------------------------------
(* A free lock, or its owner's, is taken: depth and owner agree again.     *)
LEMMA ClaimTakes ==
  ASSUME RLInv, NEW t \in Threads, NEW from \in {"locks", "relocks"}, NEW n \in Times,
         \/ at[t] = "out" /\ owned[t] + n <= MaxTimes
         \/ at[t] = from /\ t \notin asleep,
         thread_id = t \/ count = 0,
         Claim(t, from, n)
  PROVE  RLInv'
<1>0. /\ count' = IF thread_id = t THEN count + n ELSE n
      /\ thread_id' = t
      /\ owned' = [owned EXCEPT ![t] = @ + n]
      /\ at' = [at EXCEPT ![t] = "out"]
      /\ times' = [times EXCEPT ![t] = 0]
      /\ UNCHANGED <<asleep, m, waiting, news>>
  BY DEF Claim, Go
<1>1. /\ owned \in [Threads -> 0 .. MaxTimes] /\ owned[t] \in 0 .. MaxTimes
      /\ count \in 0 .. MaxTimes /\ n \in 1 .. MaxTimes /\ MaxTimes \in Nat
  BY RLAssumption DEF RLInv, RLTypeOK, Times
<1>2. \A u \in Threads : u # t => owned[u] = 0
  BY <1>1 DEF RLInv, OneOwner, RLTypeOK
<1>3. owned[t] = IF thread_id = t THEN count ELSE 0
  BY <1>1 DEF RLInv, OneOwner
<1>4. owned[t] + n \in 1 .. MaxTimes
  BY <1>1 DEF RLInv, Holding
<1>5. count' = owned[t] + n /\ owned'[t] = owned[t] + n
  BY <1>0, <1>1, <1>3
<1>6. RLTypeOK'
  <2>1. count' \in 0 .. MaxTimes /\ owned' \in [Threads -> 0 .. MaxTimes]
    BY <1>0, <1>1, <1>4, <1>5
  <2>2. times' \in [Threads -> 0 .. MaxTimes]
    BY <1>0, <1>1 DEF RLInv, RLTypeOK
  <2>3. at' \in [Threads -> Stations]
    BY <1>0 DEF RLInv, RLTypeOK, Stations
  <2> QED
    BY <1>0, <2>1, <2>2, <2>3 DEF RLInv, RLTypeOK
<1>7. OneOwner'
  BY <1>0, <1>1, <1>2, <1>5, RLAssumption DEF OneOwner
<1>8. SignalNotLost'
  BY <1>1, <1>4, <1>5 DEF SignalNotLost
<1>9. t \notin asleep
  BY DEF RLInv, Holding
<1>10. Holding'
  BY <1>0, <1>9 DEF RLInv, Holding, RLTypeOK
<1> QED
  BY <1>6, <1>7, <1>8, <1>10 DEF RLInv

(* The lock is another thread's: the caller goes to sleep.                 *)
LEMMA ClaimSleeps ==
  ASSUME RLInv, NEW t \in Threads, NEW from \in {"locks", "relocks"}, NEW n \in Times,
         at[t] = "out" \/ at[t] = from,
         thread_id # t, count # 0,
         Claim(t, from, n)
  PROVE  RLInv'
<1>0. /\ asleep' = asleep \cup {t}
      /\ at' = [at EXCEPT ![t] = from]
      /\ times' = [times EXCEPT ![t] = n]
      /\ UNCHANGED <<thread_id, count, owned, m, waiting, news>>
  BY DEF Claim, Go
<1>1. owned[t] = 0
  BY DEF RLInv, OneOwner, RLTypeOK
<1>2. RLTypeOK'
  <2>1. times' \in [Threads -> 0 .. MaxTimes]
    BY <1>0, RLAssumption DEF RLInv, RLTypeOK, Times
  <2>2. at' \in [Threads -> Stations]
    BY <1>0 DEF RLInv, RLTypeOK, Stations
  <2> QED
    BY <1>0, <2>1, <2>2 DEF RLInv, RLTypeOK
<1>3. OneOwner'
  BY <1>0 DEF RLInv, OneOwner
<1>4. SignalNotLost'
  BY <1>0 DEF SignalNotLost
<1>5. Holding'
  BY <1>0, <1>1 DEF RLInv, Holding, RLTypeOK
<1> QED
  BY <1>2, <1>3, <1>4, <1>5 DEF RLInv

(* unlock(n), from a thread that stands outside or in wait(), which goes   *)
(* on to the place called next.                                            *)
LEMMA ReleaseInv ==
  ASSUME RLInv, NEW t \in Threads, NEW n \in Times,
         Release(t, n),
         UNCHANGED <<m, waiting, news>>,
         \/ at[t] = "out" /\ UNCHANGED <<at, times>>
         \/ /\ at[t] = "inWait" /\ n = owned[t] /\ n = times[t]
            /\ Go(t, "released", n)
  PROVE  RLInv'
<1>1. /\ owned \in [Threads -> 0 .. MaxTimes] /\ owned[t] \in 0 .. MaxTimes
      /\ count \in 0 .. MaxTimes /\ n \in 1 .. MaxTimes /\ MaxTimes \in Nat
  BY RLAssumption DEF RLInv, RLTypeOK, Times
<1>2. /\ owned' = [owned EXCEPT ![t] = IF @ <= n THEN 0 ELSE @ - n]
      /\ thread_id' = thread_id
  BY DEF Release
<1>3. owned'[t] = IF owned[t] <= n THEN 0 ELSE owned[t] - n
  BY <1>1, <1>2
<1>4. count' = IF thread_id = t THEN (IF count <= n THEN 0 ELSE count - n) ELSE count
  BY DEF Release
<1>5. asleep' \subseteq asleep
  BY DEF Release, Signalled
<1>6. \A u \in Threads : at[u] = "out" \/ at[u] = "inWait" => u \notin asleep
  BY DEF RLInv, Holding
<1>7. /\ at' \in [Threads -> Stations]
      /\ times' \in [Threads -> 0 .. MaxTimes]
      /\ \A u \in Threads : u # t => at'[u] = at[u] /\ times'[u] = times[u]
      /\ \/ at'[t] = "out"
         \/ at'[t] = "released" /\ times'[t] = n /\ owned'[t] = 0
  BY <1>1, <1>3 DEF RLInv, RLTypeOK, Stations, Go
<1>8. RLTypeOK'
  <2>1. count' \in 0 .. MaxTimes
    BY <1>1, <1>4
  <2>2. owned' \in [Threads -> 0 .. MaxTimes]
    BY <1>1, <1>2
  <2> QED
    BY <1>2, <1>5, <1>7, <2>1, <2>2 DEF RLInv, RLTypeOK
<1>9. OneOwner'
  <2>1. \A u \in Threads : u # t => owned'[u] = owned[u]
    BY <1>1, <1>2
  <2>2. ASSUME NEW u \in Threads, owned'[u] > 0 PROVE thread_id' = u
    BY <1>1, <1>2, <1>3, <2>1, <2>2 DEF RLInv, OneOwner
  <2>3. ASSUME NEW u \in Threads, thread_id' = u PROVE count' = owned'[u]
    BY <1>1, <1>2, <1>3, <1>4, <2>1, <2>3 DEF RLInv, OneOwner
  <2>4. thread_id' = NoThread => count' = 0
    BY <1>2, <1>4, RLAssumption DEF RLInv, OneOwner
  <2> QED
    BY <2>2, <2>3, <2>4 DEF OneOwner
<1>10. SignalNotLost'
  <2> SUFFICES ASSUME count' = 0, asleep' # {}
               PROVE  \E u \in Threads : at'[u] \in {"locks", "relocks"} /\ u \notin asleep'
    BY DEF SignalNotLost
  <2>1. CASE thread_id = t /\ count <= n
    <3>1. asleep # {}
      BY <1>5
    <3>2. PICK u \in asleep : asleep' = asleep \ {u}
      BY <2>1, <3>1 DEF Release, Signalled
    <3>3. u \in Threads /\ at[u] \in {"locks", "relocks"} /\ u # t
      BY <1>6, <3>2 DEF RLInv, RLTypeOK, Holding
    <3> QED
      BY <1>7, <3>2, <3>3
  <2>2. CASE ~(thread_id = t /\ count <= n)
    <3>1. count = 0 /\ asleep' = asleep
      BY <1>1, <1>4, <2>2 DEF Release
    <3>2. PICK u \in Threads : at[u] \in {"locks", "relocks"} /\ u \notin asleep
      BY <3>1 DEF RLInv, SignalNotLost
    <3>3. u # t
      BY <3>2
    <3> QED
      BY <1>7, <3>1, <3>2, <3>3
  <2> QED
    BY <2>1, <2>2
<1>11. Holding'
  <2>1. ASSUME NEW u \in Threads, u # t
        PROVE  /\ owned'[u] = owned[u] /\ at'[u] = at[u] /\ times'[u] = times[u]
               /\ u \in asleep' => u \in asleep
    BY <1>1, <1>2, <1>5, <1>7, <2>1
  <2>2. t \notin asleep'
    BY <1>5, <1>6
  <2> QED
    BY <1>7, <2>1, <2>2 DEF RLInv, Holding
<1> QED
  BY <1>8, <1>9, <1>10, <1>11 DEF RLInv

(* The steps that touch neither the rmutex nor who sleeps for it, and take *)
(* a thread from one place that is not in lock() to another.               *)
LEMMA OutsideInv ==
  ASSUME RLInv, NEW t \in Threads, NEW where \in Stations, NEW n \in 0 .. MaxTimes,
         UNCHANGED rmutexVars, Go(t, where, n),
         m' \in Threads \cup {NoThread}, waiting' \subseteq Threads, news' \in BOOLEAN,
         at[t] \notin {"locks", "relocks"},
         where # "locks",
         where \in {"released", "waits", "relocks"} => owned[t] = 0,
         where \in {"inWait", "released", "waits", "relocks"} => n \in Times,
         where = "inWait" => n = owned[t]
  PROVE  RLInv'
<1>0. /\ UNCHANGED <<thread_id, count, asleep, owned>>
      /\ at' = [at EXCEPT ![t] = where] /\ times' = [times EXCEPT ![t] = n]
  BY DEF rmutexVars, Go
<1>1. RLTypeOK'
  BY <1>0 DEF RLInv, RLTypeOK
<1>2. OneOwner'
  BY <1>0 DEF RLInv, OneOwner
<1>3. SignalNotLost'
  BY <1>0 DEF RLInv, SignalNotLost, RLTypeOK
<1>4. Holding'
  BY <1>0 DEF RLInv, Holding, RLTypeOK
<1> QED
  BY <1>1, <1>2, <1>3, <1>4 DEF RLInv

(* Every step keeps the invariant.                                         *)
THEOREM RLStepInv == RLInv /\ [RLNext]_rlVars => RLInv'
<1> SUFFICES ASSUME RLInv, [RLNext]_rlVars PROVE RLInv'
  OBVIOUS
<1>0. /\ 0 \in 0 .. MaxTimes /\ Times \subseteq 0 .. MaxTimes
      /\ m \in Threads \cup {NoThread} /\ waiting \subseteq Threads /\ news \in BOOLEAN
      /\ \A t \in Threads : times[t] \in 0 .. MaxTimes
  BY RLAssumption DEF RLInv, RLTypeOK, Times
<1>1. ASSUME NEW t \in Threads, Lock(t) PROVE RLInv'
  <2>1. PICK n \in Times : owned[t] + n <= MaxTimes /\ Claim(t, "locks", n)
    BY <1>1 DEF Lock
  <2> QED
    BY <1>1, <2>1, ClaimTakes, ClaimSleeps DEF Lock
<1>2. ASSUME NEW t \in Threads, LockResumes(t) PROVE RLInv'
  <2>1. times[t] \in Times /\ at[t] \in {"locks", "relocks"}
    BY <1>2 DEF LockResumes, RLInv, Holding
  <2> QED
    BY <1>2, <2>1, ClaimTakes, ClaimSleeps DEF LockResumes
<1>3. ASSUME NEW t \in Threads, Unlock(t) PROVE RLInv'
  BY <1>3, ReleaseInv DEF Unlock
<1>4. ASSUME NEW t \in Threads, WaitBegins(t) PROVE RLInv'
  <2>1. count = owned[t] /\ count \in Times
    BY <1>4, RLAssumption DEF WaitBegins, RLInv, RLTypeOK, OneOwner, Times
  <2>2. m' = t /\ Go(t, "inWait", count) /\ UNCHANGED <<waiting, news>>
        /\ UNCHANGED rmutexVars /\ at[t] = "out"
    BY <1>4 DEF WaitBegins
  <2> QED
    BY <1>0, <2>1, <2>2, OutsideInv DEF Stations
<1>5. ASSUME NEW t \in Threads, WaitReleases(t) PROVE RLInv'
  <2>1. times[t] = owned[t] /\ times[t] \in Times
    BY <1>5 DEF WaitReleases, RLInv, Holding
  <2> QED
    BY <1>5, <2>1, ReleaseInv DEF WaitReleases
<1>6. ASSUME NEW t \in Threads, WaitSleeps(t) PROVE RLInv'
  <2>1. /\ at[t] = "released" /\ m' = NoThread /\ waiting' = waiting \cup {t}
        /\ Go(t, "waits", times[t]) /\ UNCHANGED rmutexVars /\ UNCHANGED news
    BY <1>6 DEF WaitSleeps
  <2>2. owned[t] = 0 /\ times[t] \in Times
    BY <2>1 DEF RLInv, Holding
  <2> QED
    BY <1>0, <2>1, <2>2, OutsideInv DEF Stations
<1>7. ASSUME NEW t \in Threads, WaitWakes(t) PROVE RLInv'
  <2>1. /\ at[t] = "waits" /\ Go(t, "relocks", times[t])
        /\ UNCHANGED rmutexVars /\ UNCHANGED <<m, waiting, news>>
    BY <1>7 DEF WaitWakes
  <2>2. owned[t] = 0 /\ times[t] \in Times
    BY <2>1 DEF RLInv, Holding
  <2> QED
    BY <1>0, <2>1, <2>2, OutsideInv DEF Stations
<1>8. ASSUME NEW t \in Threads, BringNews(t) PROVE RLInv'
  <2>1. /\ at[t] = "out" /\ news' = TRUE /\ Go(t, "announces", 0)
        /\ UNCHANGED rmutexVars /\ UNCHANGED <<m, waiting>>
    BY <1>8 DEF BringNews
  <2> QED
    BY <1>0, <2>1, OutsideInv DEF Stations
<1>9. ASSUME NEW t \in Threads, Broadcast(t) PROVE RLInv'
  <2>1. /\ at[t] = "announces" /\ waiting' = {} /\ Go(t, "out", 0)
        /\ UNCHANGED rmutexVars /\ UNCHANGED <<m, news>>
    BY <1>9 DEF Broadcast
  <2> QED
    BY <1>0, <2>1, OutsideInv DEF Stations
<1>10. ASSUME NEW t \in Threads, Signal(t) \/ TakeNews(t) PROVE RLInv'
  <2>1. /\ UNCHANGED <<thread_id, count, asleep, owned, m, at, times>>
        /\ waiting' \subseteq Threads /\ news' \in BOOLEAN
    BY <1>0, <1>10 DEF Signal, TakeNews, Signalled, rmutexVars
  <2> QED
    BY <2>1 DEF RLInv, RLTypeOK, OneOwner, SignalNotLost, Holding
<1>11. ASSUME NEW t \in Threads, WakesUnasked(t) PROVE RLInv'
  <2>1. /\ UNCHANGED <<thread_id, count, owned, m, at, times, news>>
        /\ asleep' \subseteq asleep /\ waiting' \subseteq waiting
    BY <1>11 DEF WakesUnasked
  <2> QED
    BY <2>1 DEF RLInv, RLTypeOK, OneOwner, SignalNotLost, Holding
<1>12. CASE UNCHANGED rlVars
  BY <1>12 DEF rlVars, rmutexVars, RLInv, RLTypeOK, OneOwner, SignalNotLost, Holding
<1> QED
  BY <1>1, <1>2, <1>3, <1>4, <1>5, <1>6, <1>7, <1>8, <1>9, <1>10, <1>11, <1>12
  DEF RLNext, InWait

(* For any number of threads: one owner whose depth count is, and a signal *)
(* from unlock() that is never lost.                                       *)
THEOREM RecursiveLockSafe == RLSpec => []RLSafe
<1>1. RLInv => RLSafe
  BY DEF RLInv, RLSafe
<1> QED
  BY <1>1, RLInitInv, RLStepInv, PTL DEF RLSpec
=============================================================================
