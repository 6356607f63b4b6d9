---------------------------- MODULE ThreadedObject ----------------------------
(***************************************************************************)
(* dlib::threaded_object, src/lib/dlib/threads/                            *)
(* threaded_object_extension.cpp: objects that each run their function     *)
(* thread() in one thread of their own, which other threads start, pause,  *)
(* restart, stop and wait for.                                             *)
(*                                                                         *)
(* Every call holds the object's mutex m_ except inside s.wait(); thread() *)
(* itself runs without it. A runner is a thread that executes              *)
(* thread_helper() of its object.                                          *)
(***************************************************************************)
EXTENDS Naturals, FiniteSets

CONSTANTS
  Objects,
  Runners,     \* the threads that create_new_thread can give
  Controllers, \* the threads that call the objects
  Nothing,     \* the object of a thread that has none
  MaxAsks      \* bound on the calls that ask for a run, per object

ASSUME TOAssumption == Nothing \notin Objects /\ MaxAsks \in Nat

VARIABLES
  is_running_, is_alive_, should_stop_, should_respawn_,   \* per object
  runner,    \* per runner: its object, and where it is in thread_helper()
  waiter,    \* per controller: the object it waits for, and if it is asleep
  owed,      \* history: a run was asked for and has not begun
  asked, runs  \* history: the runs asked for, the runs begun, per object

flags == <<is_running_, is_alive_, should_stop_, should_respawn_>>
toHistory == <<owed, asked, runs>>
toVars == <<flags, runner, waiter, toHistory>>

Idle == [obj |-> Nothing, at |-> "none"]
At(k, where) == [runner EXCEPT ![k].at = where]
RunnersOf(o) == {k \in Runners : runner[k].obj = o}
NotWaiting == [obj |-> Nothing, asleep |-> FALSE]

\* s.broadcast(): everyone asleep on the object's signaler wakes.
WokenRunners(o, r) ==
  [k \in Runners |-> IF r[k].obj = o /\ r[k].at = "asleep"
                     THEN [r[k] EXCEPT !.at = "asks"] ELSE r[k]]
WokenWaiters(o) ==
  [c \in Controllers |-> IF waiter[c].obj = o THEN [waiter[c] EXCEPT !.asleep = FALSE]
                         ELSE waiter[c]]

\* The constructor leaves should_respawn_ as the memory was.
TOInit ==
  /\ is_running_ = [o \in Objects |-> FALSE]
  /\ is_alive_ = [o \in Objects |-> FALSE]
  /\ should_stop_ = [o \in Objects |-> FALSE]
  /\ should_respawn_ \in [Objects -> BOOLEAN]
  /\ runner = [k \in Runners |-> Idle]
  /\ waiter = [c \in Controllers |-> NotWaiting]
  /\ owed = [o \in Objects |-> FALSE]
  /\ asked = [o \in Objects |-> 0] /\ runs = [o \in Objects |-> 0]

(***************************************************************************)
(* The calls. What start() and restart() do is one operator each, for the  *)
(* objects that derive from threaded_object.                               *)
(***************************************************************************)
Creates(o) ==
  \E k \in Runners : /\ runner[k] = Idle
                     /\ runner' = WokenRunners(o, [runner EXCEPT ![k] = [obj |-> o, at |-> "begins"]])
SetsGoing(o) ==
  /\ is_alive_' = [is_alive_ EXCEPT ![o] = TRUE]
  /\ is_running_' = [is_running_ EXCEPT ![o] = TRUE]
  /\ should_stop_' = [should_stop_ EXCEPT ![o] = FALSE]
  /\ waiter' = WokenWaiters(o)

Starts(o) ==
  /\ IF is_alive_[o]
     THEN runner' = WokenRunners(o, runner) /\ UNCHANGED toHistory
     ELSE /\ Creates(o)
          /\ owed' = [owed EXCEPT ![o] = TRUE]
          /\ asked' = [asked EXCEPT ![o] = @ + 1]
          /\ UNCHANGED runs
  /\ SetsGoing(o)
  /\ UNCHANGED should_respawn_
\* Mutant: a restart of a living thread asks for no respawn.
RestartsAsStart(o) ==
  /\ IF is_alive_[o]
     THEN runner' = WokenRunners(o, runner)
     ELSE Creates(o)
  /\ owed' = [owed EXCEPT ![o] = TRUE]
  /\ asked' = [asked EXCEPT ![o] = @ + 1]
  /\ SetsGoing(o)
  /\ UNCHANGED <<should_respawn_, runs>>
Restarts(o) ==
  /\ IF is_alive_[o]
     THEN runner' = WokenRunners(o, runner)
     ELSE Creates(o)
  /\ should_respawn_' = [should_respawn_ EXCEPT ![o] = is_alive_[o]]
  /\ owed' = [owed EXCEPT ![o] = TRUE]
  /\ asked' = [asked EXCEPT ![o] = @ + 1]
  /\ SetsGoing(o)
  /\ UNCHANGED runs
\* create_new_thread() fails: the call throws.
StartThrows(o) ==
  /\ ~is_alive_[o]
  /\ is_running_' = [is_running_ EXCEPT ![o] = FALSE]
  /\ UNCHANGED <<is_alive_, should_stop_, should_respawn_, runner, waiter, toHistory>>

Free(c) == waiter[c] = NotWaiting

Start(o) == asked[o] < MaxAsks /\ (Starts(o) \/ StartThrows(o))
Restart(o) == asked[o] < MaxAsks /\ (Restarts(o) \/ StartThrows(o))
SetRespawn(o) ==
  /\ asked[o] < MaxAsks
  /\ asked' = [asked EXCEPT ![o] = @ + 1]
  /\ should_respawn_' = [should_respawn_ EXCEPT ![o] = TRUE]
  /\ UNCHANGED <<is_running_, is_alive_, should_stop_, runner, waiter, owed, runs>>
Pause(o) ==
  /\ is_running_' = [is_running_ EXCEPT ![o] = FALSE]
  /\ UNCHANGED <<is_alive_, should_stop_, should_respawn_, runner, waiter, toHistory>>
\* Mutant: stop() wakes nobody.
StopQuietly(o) ==
  /\ should_stop_' = [should_stop_ EXCEPT ![o] = TRUE]
  /\ is_running_' = [is_running_ EXCEPT ![o] = FALSE]
  /\ should_respawn_' = [should_respawn_ EXCEPT ![o] = FALSE]
  /\ owed' = [owed EXCEPT ![o] = FALSE]
  /\ UNCHANGED <<is_alive_, runner, waiter, asked, runs>>
Stop(o) ==
  /\ should_stop_' = [should_stop_ EXCEPT ![o] = TRUE]
  /\ is_running_' = [is_running_ EXCEPT ![o] = FALSE]
  /\ should_respawn_' = [should_respawn_ EXCEPT ![o] = FALSE]
  /\ runner' = WokenRunners(o, runner)
  /\ waiter' = WokenWaiters(o)
  /\ owed' = [owed EXCEPT ![o] = FALSE]
  /\ UNCHANGED <<is_alive_, asked, runs>>

\* wait(), from its start or from a wake-up.
WaitsFor(c, o) ==
  /\ waiter' = [waiter EXCEPT ![c] = IF is_alive_[o] THEN [obj |-> o, asleep |-> TRUE]
                                     ELSE NotWaiting]
  /\ UNCHANGED <<flags, runner, toHistory>>
Wait(c, o) == Free(c) /\ WaitsFor(c, o)
WaitResumes(c) ==
  /\ ~Free(c) /\ ~waiter[c].asleep
  /\ WaitsFor(c, waiter[c].obj)

(***************************************************************************)
(* thread_helper(): clear should_respawn_, run thread(), and then run it   *)
(* again or end. thread() calls should_stop(), which blocks while paused;  *)
(* when that says so, thread() returns. It may return earlier.             *)
(***************************************************************************)
HelperBegins(k) ==
  /\ runner[k].at = "begins"
  /\ LET o == runner[k].obj IN
     /\ should_respawn_' = [should_respawn_ EXCEPT ![o] = FALSE]
     /\ owed' = [owed EXCEPT ![o] = FALSE]
     /\ runs' = [runs EXCEPT ![o] = @ + 1]
  /\ runner' = At(k, "thread")
  /\ UNCHANGED <<is_running_, is_alive_, should_stop_, waiter, asked>>

AsksToStop(k) ==
  /\ runner[k].at \in {"thread", "asks"}
  /\ LET o == runner[k].obj IN
     runner' = At(k, CASE should_stop_[o] -> "returned"
                       [] is_running_[o] /\ ~should_stop_[o] -> "thread"
                       [] OTHER -> "asleep")
  /\ UNCHANGED <<flags, waiter, toHistory>>
ThreadReturns(k) ==
  /\ runner[k].at = "thread"
  /\ runner' = At(k, "returned")
  /\ UNCHANGED <<flags, waiter, toHistory>>

HelperEnds(k) ==
  /\ runner[k].at = "returned"
  /\ LET o == runner[k].obj IN
     IF should_respawn_[o]
     THEN runner' = At(k, "begins") /\ UNCHANGED <<flags, waiter>>
     ELSE /\ is_alive_' = [is_alive_ EXCEPT ![o] = FALSE]
          /\ is_running_' = [is_running_ EXCEPT ![o] = FALSE]
          /\ should_stop_' = [should_stop_ EXCEPT ![o] = FALSE]
          /\ runner' = [runner EXCEPT ![k] = Idle]
          /\ waiter' = WokenWaiters(o)
          /\ UNCHANGED should_respawn_
  /\ UNCHANGED toHistory

\* POSIX lets any wait end without a signal.
WaiterWakes(c) ==
  /\ waiter[c].asleep
  /\ waiter' = [waiter EXCEPT ![c].asleep = FALSE]
  /\ UNCHANGED <<flags, runner, toHistory>>
RunnerWakes(k) ==
  /\ runner[k].at = "asleep"
  /\ runner' = At(k, "asks")
  /\ UNCHANGED <<flags, waiter, toHistory>>

-----------------------------------------------------------------------------
HelperSteps(k) == HelperBegins(k) \/ HelperEnds(k)
BodySteps(k) == AsksToStop(k) \/ ThreadReturns(k)
TONext ==
  \/ \E o \in Objects : Start(o) \/ Restart(o) \/ SetRespawn(o) \/ Pause(o) \/ Stop(o)
  \/ \E c \in Controllers : (\E o \in Objects : Wait(c, o)) \/ WaitResumes(c) \/ WaiterWakes(c)
  \/ \E k \in Runners : HelperSteps(k) \/ BodySteps(k) \/ RunnerWakes(k)

TOSpec == TOInit /\ [][TONext]_toVars

\* Threads that nothing blocks go on, and thread() asks should_stop() again
\* and again until it returns.
TOFairSpec ==
  /\ TOSpec
  /\ \A k \in Runners : WF_toVars(HelperSteps(k))
                        /\ WF_toVars(AsksToStop(k))
  /\ \A c \in Controllers : WF_toVars(WaitResumes(c))

-----------------------------------------------------------------------------
TOTypeOK ==
  /\ is_running_ \in [Objects -> BOOLEAN] /\ is_alive_ \in [Objects -> BOOLEAN]
  /\ should_stop_ \in [Objects -> BOOLEAN] /\ should_respawn_ \in [Objects -> BOOLEAN]
  /\ runner \in [Runners -> [obj : Objects \cup {Nothing},
                   at : {"none", "begins", "thread", "asks", "asleep", "returned"}]]
  /\ \A k \in Runners : runner[k].obj = Nothing <=> runner[k].at = "none"
  /\ waiter \in [Controllers -> [obj : Objects \cup {Nothing}, asleep : BOOLEAN]]
  /\ owed \in [Objects -> BOOLEAN]
  /\ asked \in [Objects -> 0 .. MaxAsks] /\ runs \in [Objects -> 0 .. MaxAsks]

(***************************************************************************)
(* thread() is executed by one thread at a time, and is_alive() says when. *)
(***************************************************************************)
OneRunner == \A o \in Objects :
  Cardinality(RunnersOf(o)) = IF is_alive_[o] THEN 1 ELSE 0

(***************************************************************************)
(* A run that start() or restart() asked for is not lost: a call that      *)
(* comes as the thread ends, or before it has begun, is followed by a run  *)
(* of thread() all the same.                                               *)
(***************************************************************************)
NoRunLost == \A o \in Objects : owed[o] => is_alive_[o]

(***************************************************************************)
(* A single call causes at most one run.                                   *)
(***************************************************************************)
NoRunTooMany == \A o \in Objects : runs[o] <= asked[o]

(***************************************************************************)
(* Who sleeps has cause: a paused thread, a waiter for one that lives.     *)
(***************************************************************************)
TOSleepForCause ==
  /\ \A k \in Runners : runner[k].at = "asleep" =>
       ~is_running_[runner[k].obj] /\ ~should_stop_[runner[k].obj]
  /\ \A c \in Controllers : waiter[c].asleep => is_alive_[waiter[c].obj]

(***************************************************************************)
(* The object runs as it was asked to, whatever meets the end or the start *)
(* of its thread: once at a time, once per call, and not sleeping on.      *)
(***************************************************************************)
ObjectSafe == TOTypeOK /\ OneRunner /\ NoRunLost /\ NoRunTooMany /\ TOSleepForCause

(***************************************************************************)
(* stop() ends the thread, also one that is paused or about to respawn,    *)
(* and whoever waits for it is released, unless it is set going again.     *)
(***************************************************************************)
StopEnds == \A o \in Objects : (is_alive_[o] /\ should_stop_[o]) ~> ~should_stop_[o]
StoppedWaitReturns == \A c \in Controllers, o \in Objects :
  (waiter[c].obj = o /\ should_stop_[o])
    ~> (waiter[c].obj # o \/ is_running_[o])
StopReleases == StopEnds /\ StoppedWaitReturns

=============================================================================
