--------------------------- MODULE ReadWriteMutex ---------------------------
(***************************************************************************)
(* dlib::read_write_mutex, src/lib/dlib/threads/                           *)
(* read_write_mutex_extension.h: readonly locks are taken from a pool of   *)
(* max_locks, and a write lock is the whole pool, gathered piece by piece. *)
(*                                                                         *)
(* The mutex m is held except inside s.wait(), so a call is a sequence of  *)
(* atomic segments, from the start or a wake-up to the next wait or to the *)
(* return. asleep is the set of threads blocked in s.wait().               *)
(***************************************************************************)
EXTENDS Integers, FiniteSets

CONSTANTS
  Threads,    \* the threads that use the mutex
  Depths,     \* names for the readonly locks one thread may hold at a time
  MaxLocks    \* max_locks, the argument of the constructor

ASSUME RWAssumption == MaxLocks \in Nat \ {0}

VARIABLES
  available_locks,
  write_lock_in_progress,
  write_lock_active,
  locks_obtained,   \* the local of the thread that gathers locks, else 0
  at,               \* where each thread is
  asleep,           \* the threads blocked in s.wait()
  reading           \* the readonly locks held: <<thread, depth>>

rwVars == <<available_locks, write_lock_in_progress, write_lock_active,
            locks_obtained, at, asleep, reading>>

Reads(t) == {r \in reading : r[1] = t}
Move(t, where) == at' = [at EXCEPT ![t] = where]
WaitAs(t, where) == Move(t, where) /\ asleep' = asleep \cup {t}
\* Awake in a call: the thread has left s.wait() or never was in it.
Runs(t, where) == at[t] = where /\ t \notin asleep

RWInit ==
  /\ available_locks = MaxLocks
  /\ write_lock_in_progress = FALSE
  /\ write_lock_active = FALSE
  /\ locks_obtained = 0
  /\ at = [t \in Threads |-> "out"]
  /\ asleep = {}
  /\ reading = {}

(***************************************************************************)
(* lock(): wait for the writer that gathers, then gather. The requires     *)
(* clause forbids the call to a thread that holds a lock of either kind.   *)
(***************************************************************************)
TurnComes(t) ==
  IF write_lock_in_progress
  THEN /\ WaitAs(t, "wantsWrite")
       /\ UNCHANGED <<available_locks, write_lock_in_progress, write_lock_active,
                      locks_obtained, reading>>
  ELSE /\ available_locks' = 0
       /\ IF available_locks = MaxLocks
          THEN /\ Move(t, "writing")
               /\ write_lock_active' = TRUE
               /\ UNCHANGED <<write_lock_in_progress, locks_obtained, asleep>>
          ELSE /\ WaitAs(t, "gathers")
               /\ locks_obtained' = available_locks
               /\ write_lock_in_progress' = TRUE
               /\ UNCHANGED write_lock_active
       /\ UNCHANGED reading

Lock(t) == at[t] = "out" /\ Reads(t) = {} /\ TurnComes(t)
LockResumes(t) == Runs(t, "wantsWrite") /\ TurnComes(t)

\* Mutant: one wake-up is taken for the whole pool, if in place of while.
GathersOnce(t) ==
  /\ Runs(t, "gathers")
  /\ available_locks' = 0
  /\ Move(t, "writing")
  /\ locks_obtained' = 0
  /\ write_lock_in_progress' = FALSE
  /\ write_lock_active' = TRUE
  /\ UNCHANGED <<asleep, reading>>

Gathers(t) ==
  /\ Runs(t, "gathers")
  /\ available_locks' = 0
  /\ IF locks_obtained + available_locks = MaxLocks
     THEN /\ Move(t, "writing")
          /\ locks_obtained' = 0
          /\ write_lock_in_progress' = FALSE
          /\ write_lock_active' = TRUE
          /\ UNCHANGED asleep
     ELSE /\ WaitAs(t, "gathers")
          /\ locks_obtained' = locks_obtained + available_locks
          /\ UNCHANGED <<write_lock_in_progress, write_lock_active>>
  /\ UNCHANGED reading

\* unlock(), by the thread that has the write lock.
\* Mutant: unlock() wakes nobody.
UnlockQuietly(t) ==
  /\ at[t] = "writing"
  /\ Move(t, "out")
  /\ IF write_lock_active
     THEN /\ available_locks' = MaxLocks
          /\ write_lock_active' = FALSE
     ELSE UNCHANGED <<available_locks, write_lock_active>>
  /\ UNCHANGED <<write_lock_in_progress, locks_obtained, asleep, reading>>

Unlock(t) ==
  /\ at[t] = "writing"
  /\ Move(t, "out")
  /\ IF write_lock_active
     THEN /\ available_locks' = MaxLocks
          /\ write_lock_active' = FALSE
          /\ asleep' = {}
     ELSE UNCHANGED <<available_locks, write_lock_active, asleep>>
  /\ UNCHANGED <<write_lock_in_progress, locks_obtained, reading>>

(***************************************************************************)
(* lock_readonly(), which a thread that already has a readonly lock may    *)
(* call again, and unlock_readonly(), by a thread that has one.            *)
(***************************************************************************)
TakeReadonly(t) ==
  IF available_locks = 0
  THEN /\ WaitAs(t, "wantsRead")
       /\ UNCHANGED <<available_locks, reading>>
  ELSE /\ available_locks' = available_locks - 1
       /\ \E d \in Depths :
            <<t, d>> \notin reading /\ reading' = reading \cup {<<t, d>>}
       /\ Move(t, "out")
       /\ UNCHANGED asleep

LockReadonly(t) ==
  /\ at[t] = "out"
  /\ \E d \in Depths : <<t, d>> \notin reading
  /\ TakeReadonly(t)
  /\ UNCHANGED <<write_lock_in_progress, write_lock_active, locks_obtained>>
LockReadonlyResumes(t) ==
  /\ Runs(t, "wantsRead")
  /\ TakeReadonly(t)
  /\ UNCHANGED <<write_lock_in_progress, write_lock_active, locks_obtained>>

\* Mutant: only a writer that gathers is thought to be listening.
UnlockReadonlyForWriters(t) ==
  /\ at[t] = "out"
  /\ \E r \in Reads(t) : reading' = reading \ {r}
  /\ IF available_locks # MaxLocks /\ ~write_lock_active
     THEN /\ available_locks' = available_locks + 1
          /\ asleep' = IF write_lock_in_progress THEN {} ELSE asleep
     ELSE UNCHANGED <<available_locks, asleep>>
  /\ UNCHANGED <<write_lock_in_progress, write_lock_active, locks_obtained, at>>

UnlockReadonly(t) ==
  /\ at[t] = "out"
  /\ \E r \in Reads(t) : reading' = reading \ {r}
  /\ IF available_locks # MaxLocks /\ ~write_lock_active
     THEN /\ available_locks' = available_locks + 1
          /\ asleep' = IF available_locks = 0 \/ write_lock_in_progress
                       THEN {} ELSE asleep
     ELSE UNCHANGED <<available_locks, asleep>>
  /\ UNCHANGED <<write_lock_in_progress, write_lock_active, locks_obtained, at>>

\* POSIX lets any wait end without a signal.
WakesUnasked(t) ==
  /\ t \in asleep
  /\ asleep' = asleep \ {t}
  /\ UNCHANGED <<available_locks, write_lock_in_progress, write_lock_active,
                 locks_obtained, at, reading>>

-----------------------------------------------------------------------------
Resumes(t) == LockResumes(t) \/ Gathers(t) \/ LockReadonlyResumes(t)
Releases(t) == Unlock(t) \/ UnlockReadonly(t)
RWNext == \E t \in Threads :
  \/ Lock(t) \/ LockReadonly(t)
  \/ Resumes(t) \/ Releases(t)
  \/ WakesUnasked(t)

RWSpec == RWInit /\ [][RWNext]_rwVars

\* A thread that is awake gets the mutex m in the end, and a thread that
\* holds a lock gives it back in the end.
RWFair == \A t \in Threads : WF_rwVars(Resumes(t)) /\ WF_rwVars(Releases(t))
RWFairSpec == RWSpec /\ RWFair

-----------------------------------------------------------------------------
Places == {"out", "wantsWrite", "gathers", "writing", "wantsRead"}

RWTypeOK ==
  /\ available_locks \in 0 .. MaxLocks
  /\ write_lock_in_progress \in BOOLEAN
  /\ write_lock_active \in BOOLEAN
  /\ locks_obtained \in 0 .. MaxLocks
  /\ at \in [Threads -> Places]
  /\ asleep \subseteq Threads
  /\ reading \subseteq Threads \X Depths

(***************************************************************************)
(* The promise of the mutex: one writer, and no reader beside it.          *)
(***************************************************************************)
WriterAlone ==
  \A t \in Threads : at[t] = "writing" =>
    /\ reading = {}
    /\ \A u \in Threads : at[u] = "writing" => u = t

(***************************************************************************)
(* No lock is created or lost while it is handed from readers to the pool  *)
(* and from there to the writer that gathers; an active writer has all.     *)
(***************************************************************************)
LocksConserved ==
  available_locks + Cardinality(reading) + locks_obtained
    = IF write_lock_active THEN 0 ELSE MaxLocks

(***************************************************************************)
(* The broadcast that unlock_readonly() leaves out is never missed: a      *)
(* thread that sleeps has nothing it could take.                           *)
(***************************************************************************)
RWSleepForCause ==
  \A t \in asleep :
    \/ at[t] = "wantsWrite" /\ (write_lock_in_progress \/ write_lock_active)
    \/ at[t] = "gathers" /\ available_locks = 0
    \/ at[t] = "wantsRead" /\ available_locks = 0

(***************************************************************************)
(* What the counters and flags say is true of the threads, at every step   *)
(* of a handing over of locks that takes a writer several waits.           *)
(***************************************************************************)
RWSafe == RWTypeOK /\ LocksConserved /\ RWSleepForCause

(***************************************************************************)
(* The mutex is not left free while threads wait for it. (A writer may     *)
(* still wait for ever if readers keep coming.)                            *)
(***************************************************************************)
SomeoneGetsIn ==
  (\E t \in Threads : at[t] \in {"wantsWrite", "wantsRead"})
    ~> (\E t \in Threads : at[t] = "writing" \/ Reads(t) # {})

=============================================================================
