------------------------------ MODULE ThreadPool ------------------------------
(***************************************************************************)
(* dlib::thread_pool, src/lib/dlib/threads/thread_pool_extension.cpp: as   *)
(* many workers as task slots, and threads that add tasks and wait for     *)
(* them, the running tasks among them.                                     *)
(*                                                                         *)
(* The mutex m is held except inside the two signalers' wait() and while a *)
(* task runs, so each step is an atomic segment between two of those. What *)
(* a task does is any sequence of calls to its pool; it ends normally or   *)
(* throws.                                                                 *)
(***************************************************************************)
EXTENDS Integers, Sequences, FiniteSets

CONSTANTS
  Callers,     \* threads outside the pool that use it
  Workers,     \* its threads, one for each slot
  NoOne,       \* thread_id of a slot that was never used
  Structured,  \* tasks wait for the tasks they add before they end
  MaxAdds,     \* bound on the calls of add_task
  MaxThrows    \* bound on the tasks that throw

ASSUME PoolAssumption ==
  /\ IsFiniteSet(Workers) /\ Callers \cap Workers = {}
  /\ MaxAdds \in Nat /\ MaxThrows \in Nat

VARIABLES
  tasks,           \* per slot: task_id, is_being_processed, thread_id, eptr
  next_task_id,    \* per slot
  worker_thread_ids,
  we_are_destructing,
  readySleep,      \* threads blocked in task_ready_signaler.wait()
  doneSleep,       \* threads blocked in task_done_signaler.wait()
  doing,           \* per thread: the call it is in
  stack,           \* per thread: the tasks it runs, an added one on top
  finished,        \* history: ids of the tasks a worker has run to the end
  submitted,       \* history: per thread, the ids it got from add_task
  adds, thrown, caught   \* history: counts

table == <<tasks, next_task_id, worker_thread_ids, we_are_destructing>>
sleepers == <<readySleep, doneSleep>>
history == <<finished, submitted, adds, thrown, caught>>
tpVars == <<table, sleepers, doing, stack, history>>

Threads == Callers \cup Workers
N == Cardinality(Workers)
Slots == 0 .. N - 1
\* Slot of a frame that is no task of the pool's table.
Inline == -1
Frame(i) == [slot |-> i, kids |-> {}]
Runs == [op |-> "runs", id |-> 0]
Op(op, id) == [op |-> op, id |-> id]
Top(t) == stack[t][Len(stack[t])]
SetKids(t, kids) == [stack EXCEPT ![t][Len(stack[t])].kids = kids]
Pop(t) == [stack EXCEPT ![t] = SubSeq(@, 1, Len(@) - 1)]

IsEmpty(i) == tasks[i].task_id = 0
IsReady(i) == ~tasks[i].is_being_processed /\ ~IsEmpty(i)
First(i, P(_)) == P(i) /\ \A j \in Slots : P(j) => i <= j
Throws(i) == tasks[i].eptr
IsWorker(t) == t \in worker_thread_ids \/ N = 0
Closing ==
  \E t \in Callers : doing[t].op \in {"shuts", "joins", "closed", "aborted"}
\* User code that may call the pool: a task, or a caller before the destructor.
CanCall(t) == doing[t] = Runs /\ stack[t] # <<>> /\ (t \in Workers \/ ~Closing)

\* signal(): one sleeper, if there is one, is woken.
Signalled(asleep) == IF asleep = {} THEN {{}} ELSE {asleep \ {t} : t \in asleep}

TPInit ==
  /\ tasks = [i \in Slots |-> [task_id |-> 0, is_being_processed |-> FALSE,
                               thread_id |-> NoOne, eptr |-> FALSE]]
  /\ next_task_id = [i \in Slots |-> 2]
  /\ worker_thread_ids = {} /\ we_are_destructing = FALSE
  /\ readySleep = {} /\ doneSleep = {}
  /\ doing = [t \in Threads |-> IF t \in Callers THEN Runs ELSE Op("starts", 0)]
  /\ stack = [t \in Threads |-> IF t \in Callers THEN <<Frame(Inline)>> ELSE <<>>]
  /\ finished = {} /\ submitted = [t \in Threads |-> {}]
  /\ adds = 0 /\ thrown = 0 /\ caught = 0

\* make_next_task_id()
Advanced(i) == [next_task_id EXCEPT ![i] = @ + 1]

\* propagate_exception() over all slots: the first exception is thrown into
\* the caller, whose code catches it and goes on.
Propagates(t) ==
  /\ \E i \in Slots : First(i, Throws) /\ tasks' = [tasks EXCEPT ![i].eptr = FALSE]
  /\ caught' = caught + 1
  /\ doing' = [doing EXCEPT ![t] = Runs]

(***************************************************************************)
(* add_task(): the four overloads and add_task_internal() differ only in   *)
(* what they store of the function to call.                                *)
(***************************************************************************)
\* Mutant: exceptions are left for the waiting functions to find.
NothingLookedFor == TRUE
NothingThrown == \A i \in Slots : ~Throws(i)
NoRoom == \A i \in Slots : ~IsEmpty(i)

AddThrows(t) ==
  /\ Propagates(t)
  /\ UNCHANGED <<next_task_id, worker_thread_ids, we_are_destructing, sleepers,
                 stack, finished, submitted, thrown>>

\* A worker runs the task itself when no slot is empty.
AddRunsInline(t) ==
  /\ NothingThrown
  /\ NoRoom /\ IsWorker(t)
  /\ stack' = [stack EXCEPT ![t] = Append(@, Frame(Inline))]
  /\ doing' = [doing EXCEPT ![t] = Runs]
  /\ UNCHANGED <<table, sleepers, finished, submitted, thrown, caught>>

AddWaits(t) ==
  /\ NothingThrown
  /\ NoRoom
  /\ doing' = [doing EXCEPT ![t] = Op("adds", 0)]
  /\ doneSleep' = doneSleep \cup {t}
  /\ UNCHANGED <<table, readySleep, stack, finished, submitted, thrown, caught>>

AddPlaces(t) ==
  /\ NothingThrown
  /\ \E i \in Slots :
       /\ First(i, IsEmpty)
       /\ LET id == next_task_id[i] * N + i IN
          /\ tasks' = [tasks EXCEPT ![i].task_id = id, ![i].thread_id = t]
          /\ next_task_id' = Advanced(i)
          /\ submitted' = [submitted EXCEPT ![t] = @ \cup {id}]
          /\ stack' = SetKids(t, Top(t).kids \cup {id})
  /\ readySleep' \in Signalled(readySleep)
  /\ doing' = [doing EXCEPT ![t] = Runs]
  /\ UNCHANGED <<worker_thread_ids, we_are_destructing, doneSleep, finished, thrown, caught>>

AddTask(t) ==
  /\ CanCall(t)
  /\ adds < MaxAdds /\ adds' = adds + 1
  /\ \/ AddThrows(t) \/ AddRunsInline(t) \/ AddPlaces(t)
     \/ ~IsWorker(t) /\ AddWaits(t)
AddResumes(t) ==
  /\ doing[t].op = "adds" /\ t \notin doneSleep
  /\ AddThrows(t) \/ AddPlaces(t) \/ AddWaits(t)
  /\ UNCHANGED adds

(***************************************************************************)
(* wait_for_task(id), for a task that the caller itself added, and         *)
(* wait_for_all_tasks(). Both throw what tasks of any thread have thrown.  *)
(***************************************************************************)
WaitOver(t, kids) ==
  /\ \/ Propagates(t)
     \/ /\ NothingThrown
        /\ doing' = [doing EXCEPT ![t] = Runs]
        /\ UNCHANGED <<tasks, caught>>
  /\ stack' = SetKids(t, kids)
  /\ UNCHANGED <<next_task_id, worker_thread_ids, we_are_destructing, sleepers,
                 finished, submitted, adds, thrown>>
WaitOn(t, op, id) ==
  /\ doing' = [doing EXCEPT ![t] = Op(op, id)]
  /\ doneSleep' = doneSleep \cup {t}
  /\ UNCHANGED <<table, readySleep, stack, history>>

ForTask(t, id) ==
  IF tasks[id % N].task_id = id
  THEN WaitOn(t, "waitsFor", id)
  ELSE WaitOver(t, Top(t).kids \ {id})
WaitForTask(t) == CanCall(t) /\ N # 0 /\ \E id \in Top(t).kids : ForTask(t, id)
\* Mutant: one wake-up is taken for the end of the task.
WaitForOnce(t) ==
  /\ doing[t].op = "waitsFor" /\ t \notin doneSleep
  /\ WaitOver(t, Top(t).kids \ {doing[t].id})
WaitForResumes(t) ==
  /\ doing[t].op = "waitsFor" /\ t \notin doneSleep
  /\ ForTask(t, doing[t].id)

ForAll(t) ==
  IF \E i \in Slots : ~IsEmpty(i) /\ tasks[i].thread_id = t
  THEN WaitOn(t, "waitsAll", 0)
  ELSE WaitOver(t, {})
WaitForAllTasks(t) == CanCall(t) /\ ForAll(t)
WaitAllResumes(t) ==
  /\ doing[t].op = "waitsAll" /\ t \notin doneSleep
  /\ ForAll(t)

(***************************************************************************)
(* thread(): the loop of a worker.                                         *)
(***************************************************************************)
WorkerStarts(w) ==
  /\ doing[w].op = "starts"
  /\ worker_thread_ids' = worker_thread_ids \cup {w}
  /\ doing' = [doing EXCEPT ![w] = Op("looks", 0)]
  /\ UNCHANGED <<tasks, next_task_id, we_are_destructing, sleepers, stack, history>>

Looks(w) == doing[w].op = "looks" /\ w \notin readySleep
WorkerSleeps(w) ==
  /\ Looks(w) /\ ~we_are_destructing /\ \A i \in Slots : ~IsReady(i)
  /\ readySleep' = readySleep \cup {w}
  /\ UNCHANGED <<table, doneSleep, doing, stack, history>>
WorkerQuits(w) ==
  /\ Looks(w) /\ we_are_destructing
  /\ doing' = [doing EXCEPT ![w] = Op("gone", 0)]
  /\ UNCHANGED <<table, sleepers, stack, history>>
WorkerTakes(w) ==
  /\ Looks(w) /\ ~we_are_destructing
  /\ \E i \in Slots :
       /\ First(i, IsReady)
       /\ tasks' = [tasks EXCEPT ![i].is_being_processed = TRUE]
       /\ stack' = [stack EXCEPT ![w] = <<Frame(i)>>]
  /\ doing' = [doing EXCEPT ![w] = Runs]
  /\ UNCHANGED <<next_task_id, worker_thread_ids, we_are_destructing, sleepers, history>>

\* Mutant: the end of a task is signalled to one thread.
VacateSignals(w, ok) ==
  /\ doing[w] = Runs /\ stack[w] # <<>> /\ Top(w).slot # Inline
  /\ LET i == Top(w).slot IN
     /\ tasks' = [tasks EXCEPT ![i].task_id = 0, ![i].is_being_processed = FALSE,
                               ![i].eptr = ~ok]
     /\ finished' = finished \cup {tasks[i].task_id}
  /\ stack' = Pop(w)
  /\ doing' = [doing EXCEPT ![w] = Op("looks", 0)]
  /\ doneSleep' \in Signalled(doneSleep)
  /\ thrown' = IF ok THEN thrown ELSE thrown + 1
  /\ UNCHANGED <<next_task_id, worker_thread_ids, we_are_destructing, readySleep,
                 submitted, adds, caught>>

\* A task that its worker took from a slot ends; ok: without an exception.
Vacate(w, ok) ==
  /\ doing[w] = Runs /\ stack[w] # <<>> /\ Top(w).slot # Inline
  /\ LET i == Top(w).slot IN
     /\ tasks' = [tasks EXCEPT ![i].task_id = 0, ![i].is_being_processed = FALSE,
                               ![i].eptr = ~ok]
     /\ finished' = finished \cup {tasks[i].task_id}
  /\ stack' = Pop(w)
  /\ doing' = [doing EXCEPT ![w] = Op("looks", 0)]
  /\ doneSleep' = {}
  /\ thrown' = IF ok THEN thrown ELSE thrown + 1
  /\ UNCHANGED <<next_task_id, worker_thread_ids, we_are_destructing, readySleep,
                 submitted, adds, caught>>
\* A task that a worker runs inside its own add_task() returns; what it
\* throws goes straight to the caller of add_task().
ReturnInline(w) ==
  /\ doing[w] = Runs /\ Len(stack[w]) > 1 /\ Top(w).slot = Inline
  /\ stack' = Pop(w)
  /\ UNCHANGED <<table, sleepers, doing, history>>

Ends(w) == stack[w] # <<>> /\ (Structured => Top(w).kids = {})
TaskEnds(w) == Ends(w) /\ (Vacate(w, TRUE) \/ ReturnInline(w))
TaskThrows(w) == Ends(w) /\ thrown < MaxThrows /\ Vacate(w, FALSE)

(***************************************************************************)
(* The destructor, when no caller uses the pool: shutdown_pool() waits for *)
(* every task, then ends and joins the workers. An exception that nobody   *)
(* has caught is then thrown out of the destructor and ends the program.   *)
(***************************************************************************)
Shutting(t) ==
  IF \E i \in Slots : ~IsEmpty(i)
  THEN WaitOn(t, "shuts", 0)
  ELSE /\ we_are_destructing' = TRUE
       /\ readySleep' = {}
       /\ doing' = [doing EXCEPT ![t] = Op("joins", 0)]
       /\ UNCHANGED <<tasks, next_task_id, worker_thread_ids, doneSleep, stack, history>>
Shutdown(t) ==
  /\ \A c \in Callers : doing[c] = Runs
  /\ Shutting(t)
ShutdownResumes(t) ==
  /\ doing[t].op = "shuts" /\ t \notin doneSleep
  /\ Shutting(t)
Joins(t) ==
  /\ doing[t].op = "joins" /\ \A w \in Workers : doing[w].op = "gone"
  /\ doing' = [doing EXCEPT ![t] =
                 Op(IF \E i \in Slots : Throws(i) THEN "aborted" ELSE "closed", 0)]
  /\ UNCHANGED <<table, sleepers, stack, history>>

\* POSIX lets any wait end without a signal.
WakesUnasked(t) ==
  /\ t \in readySleep \cup doneSleep
  /\ readySleep' = readySleep \ {t} /\ doneSleep' = doneSleep \ {t}
  /\ UNCHANGED <<table, doing, stack, history>>

-----------------------------------------------------------------------------
Calls(t) == AddTask(t) \/ WaitForTask(t) \/ WaitForAllTasks(t)
Resumes(t) == AddResumes(t) \/ WaitForResumes(t) \/ WaitAllResumes(t)
WorkerSteps(w) == WorkerStarts(w) \/ WorkerSleeps(w) \/ WorkerTakes(w) \/ WorkerQuits(w)
Closes(t) == ShutdownResumes(t) \/ Joins(t)

TPNext ==
  \/ \E t \in Threads : Calls(t) \/ Resumes(t) \/ WakesUnasked(t)
  \/ \E w \in Workers : WorkerSteps(w) \/ TaskEnds(w) \/ TaskThrows(w)
  \/ \E t \in Callers : Shutdown(t) \/ Closes(t)

TPSpec == TPInit /\ [][TPNext]_tpVars

\* A thread inside a call goes on when nothing blocks it, workers run, and a
\* task waits for the tasks it added and then ends.
TPFair ==
  /\ \A t \in Threads : WF_tpVars(Resumes(t))
  /\ \A w \in Workers : /\ WF_tpVars(WorkerSteps(w))
                        /\ WF_tpVars(WaitForAllTasks(w) \/ TaskEnds(w))
  /\ \A t \in Callers : WF_tpVars(Closes(t))
TPFairSpec == TPSpec /\ TPFair

-----------------------------------------------------------------------------
\* task_id is 0 in an empty slot. (The code's uint64 does not run out.)
TPTypeOK ==
  /\ tasks \in [Slots -> [task_id : Nat, is_being_processed : BOOLEAN,
                          thread_id : Threads \cup {NoOne}, eptr : BOOLEAN]]
  /\ next_task_id \in [Slots -> Nat \ {0, 1}]
  /\ worker_thread_ids \subseteq Workers /\ we_are_destructing \in BOOLEAN
  /\ readySleep \subseteq Workers /\ doneSleep \subseteq Threads
  /\ \A t \in Threads :
       /\ doing[t].op \in {"runs", "starts", "looks", "gone", "adds", "waitsFor",
                           "waitsAll", "shuts", "joins", "closed", "aborted"}
       /\ \A k \in 1 .. Len(stack[t]) :
            stack[t][k].slot \in Slots \cup {Inline} /\ stack[t][k].kids \subseteq Nat \ {0}
  /\ adds \in 0 .. MaxAdds /\ thrown \in 0 .. MaxThrows /\ caught \in 0 .. MaxThrows

(***************************************************************************)
(* A slot that a worker serves is marked, and no two workers serve one.    *)
(***************************************************************************)
TakenOnce ==
  \A i \in Slots :
    Cardinality({w \in Workers : stack[w] # <<>> /\ stack[w][1].slot = i})
      = IF tasks[i].is_being_processed THEN 1 ELSE 0

(***************************************************************************)
(* No lost wake-up on the way in: there is an awake and free worker for    *)
(* each task that is ready, although add_task() signals only once.         *)
(***************************************************************************)
ReadyAnswered ==
  Cardinality({i \in Slots : IsReady(i)})
    <= Cardinality({w \in Workers : doing[w].op \in {"starts", "looks"} /\ w \notin readySleep})

(***************************************************************************)
(* An id names one task for ever: no task in a slot has the id of a task   *)
(* that has ended.                                                         *)
(***************************************************************************)
IdsNotReused == \A i \in Slots : tasks[i].task_id \notin finished

(***************************************************************************)
(* An exception waits in its slot until somebody has caught it: the slot   *)
(* is not given to a task that would overwrite it.                         *)
(***************************************************************************)
ExceptionsKept == thrown = caught + Cardinality({i \in Slots : tasks[i].eptr})

(***************************************************************************)
(* The destructor ends no worker while there is work.                      *)
(***************************************************************************)
ClosedEmpty == we_are_destructing =>
  \A t \in Threads : submitted[t] \subseteq finished

(***************************************************************************)
(* Whatever tasks and callers do at the same time, each task runs once,    *)
(* under an id of its own, none is left behind, and what it throws is kept.*)
(***************************************************************************)
PoolSafe ==
  TPTypeOK /\ TakenOnce /\ ReadyAnswered /\ IdsNotReused /\ ExceptionsKept /\ ClosedEmpty

(***************************************************************************)
(* A wait that returns, by an exception too, means what it says: the task, *)
(* or every task that the thread added, has ended.                         *)
(***************************************************************************)
WaitsMean ==
  [][\A t \in Threads :
       /\ doing[t].op = "waitsFor" /\ doing'[t] = Runs => doing[t].id \in finished
       /\ doing[t].op = "waitsAll" /\ doing'[t] = Runs => submitted[t] \subseteq finished
    ]_tpVars

(***************************************************************************)
(* Every call comes back, although tasks add tasks and wait for them: a    *)
(* worker that finds no empty slot does the work itself. The destructor    *)
(* ends, too, by ending the program if an exception is left.               *)
(***************************************************************************)
CallsReturn ==
  /\ \A t \in Threads :
       doing[t].op \in {"adds", "waitsFor", "waitsAll"} ~> doing[t] = Runs
  /\ \A t \in Callers : doing[t].op = "shuts" ~> doing[t].op \in {"closed", "aborted"}
=============================================================================
