---------------------------- MODULE RecursiveLock ----------------------------
(***************************************************************************)
(* dlib::rmutex and the dlib::rsignaler that waits on it,                  *)
(* src/lib/dlib/threads/rmutex_extension.h and rsignaler_extension.h.      *)
(*                                                                         *)
(* rmutex: its inner mutex is held except inside s.wait(), so lock() and   *)
(* unlock() are sequences of atomic segments. rsignaler: its own mutex m   *)
(* is held over several segments of wait(), and is a variable here.        *)
(* The threads use the pair as a condition variable is meant to be used:   *)
(* news is data under the rmutex, a thread that finds none waits, and a    *)
(* thread that brings some broadcasts before it unlocks.                   *)
(***************************************************************************)
EXTENDS Integers, FiniteSets

CONSTANTS
  Threads,
  NoThread,   \* the id 0 that no thread has
  MaxTimes    \* bound on the locks a thread holds, and on lock(times)

Times == 1 .. MaxTimes
ASSUME RLAssumption == MaxTimes \in Nat \ {0} /\ NoThread \notin Threads

VARIABLES
  thread_id, count,  \* of the rmutex
  asleep,            \* threads blocked in the rmutex's s.wait()
  m,                 \* who holds the rsignaler's mutex, or NoThread
  waiting,           \* threads blocked in the rsignaler's s.wait()
  at, times,         \* where each thread is, and its local lock_count/times
  owned,             \* history: the locks each thread was given and kept
  news

rmutexVars == <<thread_id, count, asleep, owned>>
rlVars == <<rmutexVars, m, waiting, at, times, news>>

Go(t, where, n) ==
  /\ at' = [at EXCEPT ![t] = where]
  /\ times' = [times EXCEPT ![t] = n]
\* One sleeper, if there is one, is woken.
Signalled(sleepers) ==
  IF sleepers = {} THEN {{}} ELSE {sleepers \ {u} : u \in sleepers}

RLInit ==
  /\ thread_id = NoThread /\ count = 0 /\ asleep = {}
  /\ m = NoThread /\ waiting = {}
  /\ at = [t \in Threads |-> "out"]
  /\ times = [t \in Threads |-> 0]
  /\ owned = [t \in Threads |-> 0]
  /\ news = FALSE

(***************************************************************************)
(* rmutex. Claim is lock() from its start or from a wake-up. (The loop     *)
(* looks at count alone; a thread in it is never the one of thread_id,     *)
(* unless it is the last owner and count is 0.)                            *)
(***************************************************************************)
Claim(t, from, n) ==
  /\ IF thread_id = t \/ count = 0
     THEN /\ count' = IF thread_id = t THEN count + n ELSE n
          /\ thread_id' = t
          /\ owned' = [owned EXCEPT ![t] = @ + n]
          /\ Go(t, "out", 0)
          /\ UNCHANGED asleep
     ELSE /\ asleep' = asleep \cup {t}
          /\ Go(t, from, n)
          /\ UNCHANGED <<thread_id, count, owned>>
  /\ UNCHANGED <<m, waiting, news>>

Lock(t) ==
  /\ at[t] = "out"
  /\ \E n \in Times : owned[t] + n <= MaxTimes /\ Claim(t, "locks", n)
LockResumes(t) ==
  /\ at[t] \in {"locks", "relocks"} /\ t \notin asleep
  /\ Claim(t, at[t], times[t])

\* Mutant: unlock() wakes nobody.
ReleaseQuietly(t, n) ==
  /\ count' = IF thread_id # t THEN count ELSE IF count <= n THEN 0 ELSE count - n
  /\ owned' = [owned EXCEPT ![t] = IF @ <= n THEN 0 ELSE @ - n]
  /\ UNCHANGED <<thread_id, asleep>>
Release(t, n) ==
  /\ IF thread_id = t
     THEN IF count <= n
          THEN count' = 0 /\ asleep' \in Signalled(asleep)
          ELSE count' = count - n /\ UNCHANGED asleep
     ELSE UNCHANGED <<count, asleep>>
  /\ owned' = [owned EXCEPT ![t] = IF @ <= n THEN 0 ELSE @ - n]
  /\ UNCHANGED thread_id

\* A thread that has no lock may call unlock() as well.
Unlock(t) ==
  /\ at[t] = "out"
  /\ \E n \in Times : Release(t, n)
  /\ UNCHANGED <<m, waiting, at, times, news>>

(***************************************************************************)
(* rsignaler::wait() and wait_or_timeout(): take m and read lock_count();  *)
(* unlock the rmutex completely; block, which releases m; take m again and *)
(* release it; lock the rmutex as often as before.                         *)
(***************************************************************************)
WaitBegins(t) ==
  /\ at[t] = "out" /\ owned[t] > 0 /\ ~news
  /\ m = NoThread /\ m' = t
  /\ Go(t, "inWait", count)
  /\ UNCHANGED <<rmutexVars, waiting, news>>
\* Mutant: wait() lets m go before it sleeps.
WaitReleasesBoth(t) ==
  /\ at[t] = "inWait"
  /\ Release(t, times[t])
  /\ Go(t, "released", times[t])
  /\ m' = NoThread
  /\ UNCHANGED <<waiting, news>>

WaitReleases(t) ==
  /\ at[t] = "inWait"
  /\ Release(t, times[t])
  /\ Go(t, "released", times[t])
  /\ UNCHANGED <<m, waiting, news>>
WaitSleeps(t) ==
  /\ at[t] = "released"
  /\ m' = NoThread
  /\ waiting' = waiting \cup {t}
  /\ Go(t, "waits", times[t])
  /\ UNCHANGED <<rmutexVars, news>>
WaitWakes(t) ==
  /\ at[t] = "waits" /\ t \notin waiting
  /\ m = NoThread
  /\ Go(t, "relocks", times[t])
  /\ UNCHANGED <<rmutexVars, m, waiting, news>>

\* signal(), which any thread may call.
Signal(t) ==
  /\ at[t] = "out"
  /\ m = NoThread
  /\ waiting' \in Signalled(waiting)
  /\ UNCHANGED <<rmutexVars, m, at, times, news>>

(***************************************************************************)
(* The data under the rmutex: a thread that has the lock brings news and   *)
(* then calls broadcast(), or takes the news away.                         *)
(***************************************************************************)
BringNews(t) ==
  /\ at[t] = "out" /\ owned[t] > 0 /\ ~news
  /\ news' = TRUE
  /\ Go(t, "announces", 0)
  /\ UNCHANGED <<rmutexVars, m, waiting>>
Broadcast(t) ==
  /\ at[t] = "announces"
  /\ m = NoThread
  /\ waiting' = {}
  /\ Go(t, "out", 0)
  /\ UNCHANGED <<rmutexVars, m, news>>
TakeNews(t) ==
  /\ at[t] = "out" /\ owned[t] > 0 /\ news
  /\ news' = FALSE
  /\ UNCHANGED <<rmutexVars, m, waiting, at, times>>

\* A time-out of wait_or_timeout(), or a wake-up that POSIX allows.
WakesUnasked(t) ==
  /\ t \in asleep \cup waiting
  /\ asleep' = asleep \ {t}
  /\ waiting' = waiting \ {t}
  /\ UNCHANGED <<thread_id, count, m, at, times, owned, news>>

-----------------------------------------------------------------------------
InWait(t) == WaitReleases(t) \/ WaitSleeps(t) \/ WaitWakes(t)
RLNext == \E t \in Threads :
  \/ Lock(t) \/ LockResumes(t) \/ Unlock(t)
  \/ WaitBegins(t) \/ InWait(t)
  \/ Signal(t) \/ BringNews(t) \/ Broadcast(t) \/ TakeNews(t)
  \/ WakesUnasked(t)

RLSpec == RLInit /\ [][RLNext]_rlVars

\* A thread inside a call goes on with it whenever nothing blocks it.
RLFairSpec ==
  RLSpec /\ \A t \in Threads :
    WF_rlVars(LockResumes(t)) /\ WF_rlVars(InWait(t)) /\ WF_rlVars(Broadcast(t))

-----------------------------------------------------------------------------
Stations ==
  {"out", "locks", "inWait", "released", "waits", "relocks", "announces"}

RLTypeOK ==
  /\ thread_id \in Threads \cup {NoThread}
  /\ count \in 0 .. MaxTimes
  /\ asleep \subseteq Threads /\ waiting \subseteq Threads
  /\ m \in Threads \cup {NoThread}
  /\ at \in [Threads -> Stations]
  /\ times \in [Threads -> 0 .. MaxTimes]
  /\ owned \in [Threads -> 0 .. MaxTimes]
  /\ news \in BOOLEAN

(***************************************************************************)
(* The lock has one owner and count is its depth, although thread_id keeps *)
(* the last owner's id after the lock is free.                             *)
(***************************************************************************)
OneOwner ==
  /\ \A t \in Threads : owned[t] > 0 => thread_id = t
  /\ \A t \in Threads : thread_id = t => count = owned[t]
  /\ thread_id = NoThread => count = 0

(***************************************************************************)
(* unlock() wakes one thread only. That is enough: while the lock is free  *)
(* and threads sleep for it, one that has been woken is on its way.        *)
(***************************************************************************)
SignalNotLost ==
  count = 0 /\ asleep # {} =>
    \E t \in Threads : at[t] \in {"locks", "relocks"} /\ t \notin asleep

(***************************************************************************)
(* rmutex keeps its word to every thread: an owner with its depth, and a   *)
(* free lock that somebody is about to take.                               *)
(***************************************************************************)
RLSafe == RLTypeOK /\ OneOwner /\ SignalNotLost

(***************************************************************************)
(* wait() unlocks and sleeps as one: news brought after the waiter let the *)
(* lock go still wakes it.                                                 *)
(***************************************************************************)
WaiterHears == \A t \in Threads : (news /\ t \in waiting) ~> t \notin waiting
=============================================================================
