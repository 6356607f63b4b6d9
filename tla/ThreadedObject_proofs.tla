----------------------- MODULE ThreadedObject_proofs -----------------------
(***************************************************************************)
(* Proofs about threaded_object, for any objects, threads and callers: the *)
(* object is run by one thread at a time, by one for each call that asks   *)
(* for a run and no more, and whoever sleeps has cause.                    *)
(***************************************************************************)
EXTENDS ThreadedObject, FiniteSetTheorems, TLAPS

Places == {"none", "begins", "thread", "asks", "asleep", "returned"}
Helpers == [obj : Objects \cup {Nothing}, at : Places]

(* The helper of a thread is on its way to a run of thread().              *)
Ahead(k) == should_respawn_[runner[k].obj] \/ runner[k].at = "begins"

(* is_alive_ says that a thread is in thread_helper(), and it is only one. *)
AliveRuns == \A o \in Objects : is_alive_[o] <=> \E k \in Runners : runner[k].obj = o
RunnerAlone == \A j, k \in Runners :
  runner[j].obj \in Objects /\ runner[j].obj = runner[k].obj => j = k

(* A run asked for has its helper on the way, and each way was paid for.   *)
OwedAhead == \A k \in Runners :
  runner[k].obj \in Objects /\ owed[runner[k].obj] => Ahead(k)
AheadAsked == \A k \in Runners :
  runner[k].obj \in Objects /\ Ahead(k) => runs[runner[k].obj] < asked[runner[k].obj]

(* A sleeping waiter waits for an object.                                  *)
WaitersTied == \A c \in Controllers : waiter[c].asleep => waiter[c].obj \in Objects

TOInv ==
  /\ TOTypeOK /\ AliveRuns /\ RunnerAlone
  /\ NoRunLost /\ OwedAhead
  /\ NoRunTooMany /\ AheadAsked
  /\ TOSleepForCause /\ WaitersTied

-----------------------------------------------------------------------------
(* One thread in thread_helper(), or none, is what OneRunner counts.       *)
LEMMA CountsOne == TOInv => OneRunner
<1> SUFFICES ASSUME TOInv, NEW o \in Objects
             PROVE  Cardinality(RunnersOf(o)) = IF is_alive_[o] THEN 1 ELSE 0
  BY DEF OneRunner
<1>1. CASE is_alive_[o]
  <2>1. PICK k \in Runners : runner[k].obj = o
    BY <1>1 DEF TOInv, AliveRuns
  <2>2. RunnersOf(o) = {k}
    BY <2>1 DEF TOInv, RunnerAlone, RunnersOf
  <2> QED
    BY <1>1, <2>2, FS_Singleton
<1>2. CASE ~is_alive_[o]
  <2>1. RunnersOf(o) = {}
    BY <1>2 DEF TOInv, AliveRuns, RunnersOf
  <2> QED
    BY <1>2, <2>1, FS_EmptySet
<1> QED
  BY <1>1, <1>2

(* What a broadcast does to the runners and to the waiters.                *)
LEMMA BroadcastRunners ==
  ASSUME NEW o, NEW r \in [Runners -> Helpers]
  PROVE  /\ WokenRunners(o, r) \in [Runners -> Helpers]
         /\ \A k \in Runners :
              /\ WokenRunners(o, r)[k].obj = r[k].obj
              /\ WokenRunners(o, r)[k].at = IF r[k].obj = o /\ r[k].at = "asleep"
                                            THEN "asks" ELSE r[k].at
BY DEF WokenRunners, Helpers, Places

LEMMA BroadcastWaiters ==
  ASSUME NEW o, waiter \in [Controllers -> [obj : Objects \cup {Nothing}, asleep : BOOLEAN]]
  PROVE  /\ WokenWaiters(o) \in [Controllers -> [obj : Objects \cup {Nothing}, asleep : BOOLEAN]]
         /\ \A c \in Controllers :
              /\ WokenWaiters(o)[c].obj = waiter[c].obj
              /\ WokenWaiters(o)[c].asleep => waiter[c].obj # o /\ waiter[c].asleep
BY DEF WokenWaiters

LEMMA TOInitInv == TOInit => TOInv
<1> SUFFICES ASSUME TOInit PROVE TOInv
  OBVIOUS
<1>1. TOTypeOK
  BY TOAssumption DEF TOInit, TOTypeOK, Idle, NotWaiting
<1>2. AliveRuns /\ RunnerAlone
  BY TOAssumption DEF TOInit, AliveRuns, RunnerAlone, Idle
<1>3. NoRunLost /\ OwedAhead /\ NoRunTooMany /\ AheadAsked
  BY TOAssumption DEF TOInit, NoRunLost, OwedAhead, NoRunTooMany, AheadAsked, Idle
<1>4. TOSleepForCause /\ WaitersTied
  BY DEF TOInit, TOSleepForCause, WaitersTied, Idle, NotWaiting
<1> QED
  BY <1>1, <1>2, <1>3, <1>4 DEF TOInv

-----------------------------------------------------------------------------
(* start() and restart() of an object that lives.                          *)
LEMMA GoOnInv ==
  ASSUME TOInv, NEW o \in Objects, is_alive_[o], asked[o] < MaxAsks,
         Starts(o) \/ Restarts(o)
  PROVE  TOInv'
<1>1. /\ runner' = WokenRunners(o, runner) /\ waiter' = WokenWaiters(o)
      /\ is_alive_' = [is_alive_ EXCEPT ![o] = TRUE]
      /\ is_running_' = [is_running_ EXCEPT ![o] = TRUE]
      /\ should_stop_' = [should_stop_ EXCEPT ![o] = FALSE]
      /\ UNCHANGED runs
  BY DEF Starts, Restarts, SetsGoing, toHistory
<1>2. \/ UNCHANGED <<should_respawn_, owed, asked>>
      \/ /\ should_respawn_' = [should_respawn_ EXCEPT ![o] = TRUE]
         /\ owed' = [owed EXCEPT ![o] = TRUE]
         /\ asked' = [asked EXCEPT ![o] = @ + 1]
  BY DEF Starts, Restarts, toHistory
<1>3. /\ runner \in [Runners -> Helpers]
      /\ waiter \in [Controllers -> [obj : Objects \cup {Nothing}, asleep : BOOLEAN]]
      /\ is_alive_ \in [Objects -> BOOLEAN] /\ is_running_ \in [Objects -> BOOLEAN]
      /\ should_stop_ \in [Objects -> BOOLEAN] /\ should_respawn_ \in [Objects -> BOOLEAN]
      /\ owed \in [Objects -> BOOLEAN]
      /\ asked \in [Objects -> 0 .. MaxAsks] /\ runs \in [Objects -> 0 .. MaxAsks]
  BY DEF TOInv, TOTypeOK, Helpers, Places
<1>4. /\ runner' \in [Runners -> Helpers]
      /\ \A k \in Runners :
           /\ runner'[k].obj = runner[k].obj
           /\ runner'[k].at = IF runner[k].obj = o /\ runner[k].at = "asleep"
                              THEN "asks" ELSE runner[k].at
  BY <1>1, <1>3, BroadcastRunners
<1>5. /\ waiter' \in [Controllers -> [obj : Objects \cup {Nothing}, asleep : BOOLEAN]]
      /\ \A c \in Controllers :
           /\ waiter'[c].obj = waiter[c].obj
           /\ waiter'[c].asleep => waiter[c].obj # o /\ waiter[c].asleep
  BY <1>1, <1>3, BroadcastWaiters
<1>6. is_alive_' = is_alive_
  BY <1>1, <1>3
<1>7. /\ asked' \in [Objects -> 0 .. MaxAsks]
      /\ \A p \in Objects : asked'[p] >= asked[p]
      /\ asked'[o] = asked[o] => UNCHANGED <<should_respawn_, owed, asked>>
  BY <1>2, <1>3, TOAssumption
<1>8. TOTypeOK'
  <2>1. \A k \in Runners : runner'[k].obj = Nothing <=> runner'[k].at = "none"
    BY <1>4 DEF TOInv, TOTypeOK
  <2>2. should_respawn_' \in [Objects -> BOOLEAN] /\ owed' \in [Objects -> BOOLEAN]
    BY <1>2, <1>3
  <2> QED
    BY <1>1, <1>3, <1>4, <1>5, <1>7, <2>1, <2>2 DEF TOTypeOK, Helpers, Places
<1>9. AliveRuns'
  BY <1>4, <1>6 DEF TOInv, AliveRuns
<1>10. RunnerAlone'
  BY <1>4 DEF TOInv, RunnerAlone
<1>11. NoRunLost'
  BY <1>2, <1>3, <1>6 DEF TOInv, NoRunLost
<1>12. OwedAhead'
  BY <1>2, <1>3, <1>4 DEF TOInv, OwedAhead, Ahead
<1>13. NoRunTooMany'
  BY <1>1, <1>2, <1>3, <1>7, TOAssumption DEF TOInv, NoRunTooMany
<1>14. AheadAsked'
  <2> SUFFICES ASSUME NEW k \in Runners, runner'[k].obj \in Objects, Ahead(k)'
               PROVE  runs'[runner'[k].obj] < asked'[runner'[k].obj]
    BY DEF AheadAsked
  <2>1. CASE runner[k].obj = o /\ asked'[o] # asked[o]
    BY <1>1, <1>2, <1>3, <1>4, <2>1 DEF TOInv, NoRunTooMany
  <2>2. CASE runner[k].obj # o \/ asked'[o] = asked[o]
    <3>1. Ahead(k)
      BY <1>2, <1>3, <1>4, <1>7, <2>2 DEF Ahead
    <3> QED
      BY <1>1, <1>2, <1>3, <1>4, <1>7, <2>2, <3>1 DEF TOInv, AheadAsked
  <2> QED
    BY <2>1, <2>2
<1>15. TOSleepForCause'
  BY <1>1, <1>3, <1>4, <1>5, <1>6, TOAssumption DEF TOInv, TOSleepForCause, TOTypeOK, WaitersTied
<1>16. WaitersTied'
  BY <1>5 DEF TOInv, WaitersTied
<1> QED
  BY <1>8, <1>9, <1>10, <1>11, <1>12, <1>13, <1>14, <1>15, <1>16 DEF TOInv

(* The types, as facts one at a time.                                      *)
LEMMA Types ==
  ASSUME TOInv
  PROVE  /\ runner \in [Runners -> Helpers]
         /\ \A k \in Runners : runner[k].obj = Nothing <=> runner[k].at = "none"
         /\ waiter \in [Controllers -> [obj : Objects \cup {Nothing}, asleep : BOOLEAN]]
         /\ is_alive_ \in [Objects -> BOOLEAN] /\ is_running_ \in [Objects -> BOOLEAN]
         /\ should_stop_ \in [Objects -> BOOLEAN] /\ should_respawn_ \in [Objects -> BOOLEAN]
         /\ owed \in [Objects -> BOOLEAN]
         /\ asked \in [Objects -> 0 .. MaxAsks] /\ runs \in [Objects -> 0 .. MaxAsks]
BY DEF TOInv, TOTypeOK, Helpers, Places

(* start() and restart() of an object whose thread has ended: a new thread *)
(* begins, and thread_helper() clears what should_respawn_ is by then.     *)
LEMMA CreateInv ==
  ASSUME TOInv, NEW o \in Objects, ~is_alive_[o], asked[o] < MaxAsks,
         Starts(o) \/ Restarts(o)
  PROVE  TOInv'
<1>1. PICK k \in Runners :
        /\ runner[k] = Idle
        /\ runner' = WokenRunners(o, [runner EXCEPT ![k] = [obj |-> o, at |-> "begins"]])
  BY DEF Starts, Restarts, Creates
<1>2. /\ waiter' = WokenWaiters(o)
      /\ is_alive_' = [is_alive_ EXCEPT ![o] = TRUE]
      /\ is_running_' = [is_running_ EXCEPT ![o] = TRUE]
      /\ should_stop_' = [should_stop_ EXCEPT ![o] = FALSE]
      /\ owed' = [owed EXCEPT ![o] = TRUE]
      /\ asked' = [asked EXCEPT ![o] = @ + 1]
      /\ UNCHANGED runs
      /\ \/ UNCHANGED should_respawn_
         \/ should_respawn_' = [should_respawn_ EXCEPT ![o] = FALSE]
  BY DEF Starts, Restarts, SetsGoing
<1>3. /\ [runner EXCEPT ![k] = [obj |-> o, at |-> "begins"]] \in [Runners -> Helpers]
      /\ \A j \in Runners : runner[j].obj # o
  BY Types DEF TOInv, AliveRuns, Helpers, Places
<1>4. /\ runner' \in [Runners -> Helpers]
      /\ runner'[k].obj = o /\ runner'[k].at = "begins"
      /\ \A j \in Runners : j # k => runner'[j].obj = runner[j].obj /\ runner'[j].at = runner[j].at
  <2> DEFINE r == [runner EXCEPT ![k] = [obj |-> o, at |-> "begins"]]
  <2>1. r[k] = [obj |-> o, at |-> "begins"] /\ \A j \in Runners : j # k => r[j] = runner[j]
    BY Types
  <2>2. r \in [Runners -> Helpers] /\ runner' = WokenRunners(o, r)
    BY <1>1, <1>3
  <2> HIDE DEF r
  <2>3. /\ runner' \in [Runners -> Helpers]
        /\ \A j \in Runners : /\ runner'[j].obj = r[j].obj
                              /\ runner'[j].at = IF r[j].obj = o /\ r[j].at = "asleep"
                                                 THEN "asks" ELSE r[j].at
    BY <2>2, BroadcastRunners
  <2> QED
    BY <1>3, <2>1, <2>3
<1>5. /\ waiter' \in [Controllers -> [obj : Objects \cup {Nothing}, asleep : BOOLEAN]]
      /\ \A c \in Controllers :
           /\ waiter'[c].obj = waiter[c].obj
           /\ waiter'[c].asleep => waiter[c].obj # o /\ waiter[c].asleep
  BY <1>2, Types, BroadcastWaiters
<1>6. asked' \in [Objects -> 0 .. MaxAsks] /\ asked'[o] = asked[o] + 1
  BY <1>2, Types, TOAssumption
<1>7. TOTypeOK'
  <2>1. \A j \in Runners : runner'[j].obj = Nothing <=> runner'[j].at = "none"
    BY <1>4, Types, TOAssumption
  <2>2. should_respawn_' \in [Objects -> BOOLEAN] /\ owed' \in [Objects -> BOOLEAN]
    BY <1>2, Types
  <2> QED
    BY <1>2, <1>4, <1>5, <1>6, <2>1, <2>2, Types DEF TOTypeOK, Helpers, Places
<1>8. AliveRuns'
  <2> SUFFICES ASSUME NEW p \in Objects
               PROVE  is_alive_'[p] <=> \E j \in Runners : runner'[j].obj = p
    BY DEF AliveRuns
  <2>1. CASE p = o
    BY <1>2, <1>4, <2>1, Types
  <2>2. CASE p # o
    <3>1. runner[k].obj # p
      BY <1>1, TOAssumption DEF Idle
    <3> QED
      BY <1>2, <1>4, <2>2, <3>1, Types DEF TOInv, AliveRuns
  <2> QED
    BY <2>1, <2>2
<1>9. RunnerAlone'
  BY <1>3, <1>4 DEF TOInv, RunnerAlone
<1>10. NoRunLost'
  BY <1>2, Types DEF TOInv, NoRunLost
<1>11. OwedAhead'
  BY <1>2, <1>3, <1>4, Types DEF TOInv, OwedAhead, Ahead
<1>12. NoRunTooMany'
  BY <1>2, <1>6, Types, TOAssumption DEF TOInv, NoRunTooMany
<1>13. AheadAsked'
  BY <1>2, <1>3, <1>4, <1>6, Types, TOAssumption DEF TOInv, AheadAsked, Ahead, NoRunTooMany
<1>14. TOSleepForCause'
  <2>1. ASSUME NEW j \in Runners, runner'[j].at = "asleep"
        PROVE  ~is_running_'[runner'[j].obj] /\ ~should_stop_'[runner'[j].obj]
    <3>1. j # k /\ runner[j].at = "asleep" /\ runner'[j].obj = runner[j].obj
      BY <1>4, <2>1
    <3>2. runner[j].obj \in Objects /\ runner[j].obj # o
      BY <1>3, <3>1, Types DEF Helpers
    <3> QED
      BY <1>2, <3>1, <3>2, Types DEF TOInv, TOSleepForCause
  <2>2. ASSUME NEW c \in Controllers, waiter'[c].asleep
        PROVE  is_alive_'[waiter'[c].obj]
    BY <1>2, <1>5, <2>2, Types DEF TOInv, TOSleepForCause, WaitersTied
  <2> QED
    BY <2>1, <2>2 DEF TOSleepForCause
<1>15. WaitersTied'
  BY <1>5 DEF TOInv, WaitersTied
<1> QED
  BY <1>7, <1>8, <1>9, <1>10, <1>11, <1>12, <1>13, <1>14, <1>15 DEF TOInv

(* The calls that change flags and wake nobody.                            *)
LEMMA FlagsInv ==
  ASSUME TOInv, NEW o \in Objects, StartThrows(o) \/ Pause(o) \/ SetRespawn(o)
  PROVE  TOInv'
<1>1. /\ UNCHANGED <<is_alive_, should_stop_, runner, waiter, owed, runs>>
      /\ \/ /\ is_running_' = [is_running_ EXCEPT ![o] = FALSE]
            /\ UNCHANGED <<should_respawn_, asked>>
         \/ /\ should_respawn_' = [should_respawn_ EXCEPT ![o] = TRUE]
            /\ asked[o] < MaxAsks
            /\ asked' = [asked EXCEPT ![o] = @ + 1]
            /\ UNCHANGED is_running_
  BY DEF StartThrows, Pause, SetRespawn, toHistory
<1>2. /\ asked' \in [Objects -> 0 .. MaxAsks] /\ is_running_' \in [Objects -> BOOLEAN]
      /\ should_respawn_' \in [Objects -> BOOLEAN]
      /\ \A p \in Objects : /\ asked'[p] >= asked[p]
                            /\ is_running_'[p] => is_running_[p]
                            /\ should_respawn_[p] => should_respawn_'[p]
                            /\ should_respawn_'[p] => should_respawn_[p] \/ asked'[p] > asked[p]
  <2>1. CASE /\ is_running_' = [is_running_ EXCEPT ![o] = FALSE]
             /\ UNCHANGED <<should_respawn_, asked>>
    <3>1. \A p \in Objects : asked'[p] >= asked[p]
      BY <2>1, Types
    <3> QED
      BY <2>1, <3>1, Types
  <2>2. CASE /\ should_respawn_' = [should_respawn_ EXCEPT ![o] = TRUE]
             /\ asked[o] < MaxAsks
             /\ asked' = [asked EXCEPT ![o] = @ + 1]
             /\ UNCHANGED is_running_
    <3>1. /\ asked' \in [Objects -> 0 .. MaxAsks]
          /\ \A p \in Objects : asked'[p] >= asked[p]
          /\ asked'[o] > asked[o]
      BY <2>2, Types, TOAssumption
    <3>2. \A p \in Objects : /\ should_respawn_[p] => should_respawn_'[p]
                             /\ should_respawn_'[p] => should_respawn_[p] \/ p = o
      BY <2>2, Types
    <3> QED
      BY <2>2, <3>1, <3>2, Types
  <2> QED
    BY <1>1, <2>1, <2>2
<1>3. TOTypeOK'
  BY <1>1, <1>2 DEF TOInv, TOTypeOK
<1>4. AliveRuns' /\ RunnerAlone' /\ NoRunLost' /\ WaitersTied'
  BY <1>1 DEF TOInv, AliveRuns, RunnerAlone, NoRunLost, WaitersTied
<1>5. OwedAhead'
  BY <1>1, <1>2 DEF TOInv, OwedAhead, Ahead
<1>6. NoRunTooMany'
  BY <1>1, <1>2, Types, TOAssumption DEF TOInv, NoRunTooMany
<1>7. AheadAsked'
  BY <1>1, <1>2, Types, TOAssumption DEF TOInv, AheadAsked, Ahead, NoRunTooMany
<1>8. TOSleepForCause'
  <2>1. \A k \in Runners : runner[k].at = "asleep" => runner[k].obj \in Objects
    BY Types DEF Helpers
  <2> QED
    BY <1>1, <1>2, <2>1 DEF TOInv, TOSleepForCause
<1> QED
  BY <1>3, <1>4, <1>5, <1>6, <1>7, <1>8 DEF TOInv

(* stop() forgets what was asked for and wakes everyone.                   *)
LEMMA StopInv == ASSUME TOInv, NEW o \in Objects, Stop(o) PROVE TOInv'
<1>1. /\ runner' = WokenRunners(o, runner) /\ waiter' = WokenWaiters(o)
      /\ should_stop_' = [should_stop_ EXCEPT ![o] = TRUE]
      /\ is_running_' = [is_running_ EXCEPT ![o] = FALSE]
      /\ should_respawn_' = [should_respawn_ EXCEPT ![o] = FALSE]
      /\ owed' = [owed EXCEPT ![o] = FALSE]
      /\ UNCHANGED <<is_alive_, asked, runs>>
  BY DEF Stop
<1>2. /\ runner' \in [Runners -> Helpers]
      /\ \A k \in Runners :
           /\ runner'[k].obj = runner[k].obj
           /\ runner'[k].at = IF runner[k].obj = o /\ runner[k].at = "asleep"
                              THEN "asks" ELSE runner[k].at
  BY <1>1, Types, BroadcastRunners
<1>3. /\ waiter' \in [Controllers -> [obj : Objects \cup {Nothing}, asleep : BOOLEAN]]
      /\ \A c \in Controllers :
           /\ waiter'[c].obj = waiter[c].obj
           /\ waiter'[c].asleep => waiter[c].obj # o /\ waiter[c].asleep
  BY <1>1, Types, BroadcastWaiters
<1>4. TOTypeOK'
  <2>1. \A k \in Runners : runner'[k].obj = Nothing <=> runner'[k].at = "none"
    BY <1>2, Types
  <2>2. should_respawn_' \in [Objects -> BOOLEAN] /\ owed' \in [Objects -> BOOLEAN]
    BY <1>1, Types
  <2> QED
    BY <1>1, <1>2, <1>3, <2>1, <2>2, Types DEF TOTypeOK, Helpers, Places
<1>5. AliveRuns' /\ RunnerAlone'
  BY <1>1, <1>2 DEF TOInv, AliveRuns, RunnerAlone
<1>6. NoRunLost' /\ NoRunTooMany'
  BY <1>1, Types DEF TOInv, NoRunLost, NoRunTooMany
<1>7. OwedAhead'
  BY <1>1, <1>2, Types DEF TOInv, OwedAhead, Ahead
<1>8. AheadAsked'
  BY <1>1, <1>2, Types DEF TOInv, AheadAsked, Ahead
<1>9. TOSleepForCause' /\ WaitersTied'
  BY <1>1, <1>2, <1>3, Types, TOAssumption DEF TOInv, TOSleepForCause, WaitersTied
<1> QED
  BY <1>4, <1>5, <1>6, <1>7, <1>8, <1>9 DEF TOInv

-----------------------------------------------------------------------------
(* A waiter looks at is_alive_, or wakes to look.                          *)
LEMMA WaitersInv ==
  ASSUME TOInv, NEW c \in Controllers,
         \/ \E o \in Objects : Wait(c, o)
         \/ WaitResumes(c)
         \/ WaiterWakes(c)
  PROVE  TOInv'
<1>1. /\ UNCHANGED <<is_running_, is_alive_, should_stop_, should_respawn_,
                     runner, owed, asked, runs>>
      /\ waiter' \in [Controllers -> [obj : Objects \cup {Nothing}, asleep : BOOLEAN]]
      /\ \A d \in Controllers : waiter'[d].asleep =>
           \/ waiter'[d] = waiter[d]
           \/ waiter'[d].obj \in Objects /\ is_alive_[waiter'[d].obj]
  <2>1. ASSUME NEW o \in Objects, WaitsFor(c, o) PROVE <1>1!:
    <3>1. /\ UNCHANGED <<is_running_, is_alive_, should_stop_, should_respawn_,
                         runner, owed, asked, runs>>
          /\ waiter' = [waiter EXCEPT ![c] = IF is_alive_[o] THEN [obj |-> o, asleep |-> TRUE]
                                             ELSE NotWaiting]
      BY <2>1 DEF WaitsFor, flags, toHistory
    <3> QED
      BY <3>1, Types DEF NotWaiting
  <2>2. CASE \E o \in Objects : Wait(c, o)
    BY <2>1, <2>2 DEF Wait
  <2>3. CASE WaitResumes(c)
    <3>1. waiter[c].obj \in Objects
      BY <2>3, Types DEF WaitResumes, Free, NotWaiting
    <3> QED
      BY <2>1, <2>3, <3>1 DEF WaitResumes
  <2>4. CASE WaiterWakes(c)
    <3>1. /\ UNCHANGED <<is_running_, is_alive_, should_stop_, should_respawn_,
                         runner, owed, asked, runs>>
          /\ waiter' = [waiter EXCEPT ![c].asleep = FALSE]
      BY <2>4 DEF WaiterWakes, flags, toHistory
    <3> QED
      BY <3>1, Types
  <2> QED
    BY <2>2, <2>3, <2>4
<1>2. TOTypeOK'
  BY <1>1 DEF TOInv, TOTypeOK
<1>3. /\ AliveRuns' /\ RunnerAlone' /\ NoRunLost' /\ NoRunTooMany'
      /\ OwedAhead' /\ AheadAsked'
  BY <1>1 DEF TOInv, AliveRuns, RunnerAlone, NoRunLost, NoRunTooMany, OwedAhead, AheadAsked, Ahead
<1>4. TOSleepForCause' /\ WaitersTied'
  BY <1>1 DEF TOInv, TOSleepForCause, WaitersTied
<1> QED
  BY <1>2, <1>3, <1>4 DEF TOInv

(* A runner goes from one place in thread() to the next.                   *)
LEMMA MovesInv ==
  ASSUME TOInv, NEW k \in Runners, AsksToStop(k) \/ ThreadReturns(k) \/ RunnerWakes(k)
  PROVE  TOInv'
<1>1. /\ UNCHANGED <<is_running_, is_alive_, should_stop_, should_respawn_,
                     waiter, owed, asked, runs>>
      /\ runner[k].at \in {"thread", "asks", "asleep"}
      /\ \E where \in {"thread", "asks", "asleep", "returned"} :
           /\ runner' = [runner EXCEPT ![k].at = where]
           /\ where = "asleep" =>
                ~is_running_[runner[k].obj] /\ ~should_stop_[runner[k].obj]
  <2>1. CASE AsksToStop(k)
    BY <2>1, Types DEF AsksToStop, At, flags, toHistory, Helpers
  <2>2. CASE ThreadReturns(k) \/ RunnerWakes(k)
    BY <2>2 DEF ThreadReturns, RunnerWakes, At, flags, toHistory
  <2> QED
    BY <2>1, <2>2
<1>2. PICK where \in {"thread", "asks", "asleep", "returned"} :
           /\ runner' = [runner EXCEPT ![k].at = where]
           /\ where = "asleep" =>
                ~is_running_[runner[k].obj] /\ ~should_stop_[runner[k].obj]
  BY <1>1
<1>3. /\ runner' \in [Runners -> Helpers]
      /\ runner'[k].at = where
      /\ \A j \in Runners : runner'[j].obj = runner[j].obj
      /\ \A j \in Runners : j # k => runner'[j].at = runner[j].at
  BY <1>2, Types DEF Helpers, Places
<1>4. TOTypeOK'
  <2>1. \A j \in Runners : runner'[j].obj = Nothing <=> runner'[j].at = "none"
    BY <1>1, <1>3, Types
  <2> QED
    BY <1>1, <1>3, <2>1, Types DEF TOTypeOK, Helpers, Places
<1>5. AliveRuns' /\ RunnerAlone'
  BY <1>1, <1>3 DEF TOInv, AliveRuns, RunnerAlone
<1>6. NoRunLost' /\ NoRunTooMany' /\ WaitersTied'
  BY <1>1 DEF TOInv, NoRunLost, NoRunTooMany, WaitersTied
<1>7. OwedAhead' /\ AheadAsked'
  BY <1>1, <1>3 DEF TOInv, OwedAhead, AheadAsked, Ahead
<1>8. TOSleepForCause'
  BY <1>1, <1>2, <1>3 DEF TOInv, TOSleepForCause
<1> QED
  BY <1>4, <1>5, <1>6, <1>7, <1>8 DEF TOInv

(* thread_helper() clears should_respawn_ and runs thread().               *)
LEMMA BeginsInv == ASSUME TOInv, NEW k \in Runners, HelperBegins(k) PROVE TOInv'
<1> DEFINE o == runner[k].obj
<1>1. /\ runner[k].at = "begins"
      /\ should_respawn_' = [should_respawn_ EXCEPT ![o] = FALSE]
      /\ owed' = [owed EXCEPT ![o] = FALSE]
      /\ runs' = [runs EXCEPT ![o] = @ + 1]
      /\ runner' = [runner EXCEPT ![k].at = "thread"]
      /\ UNCHANGED <<is_running_, is_alive_, should_stop_, waiter, asked>>
  BY DEF HelperBegins, At
<1>2. o \in Objects
  BY <1>1, Types DEF Helpers
<1>3. /\ runner' \in [Runners -> Helpers]
      /\ runner'[k].at = "thread"
      /\ \A j \in Runners : runner'[j].obj = runner[j].obj
      /\ \A j \in Runners : j # k => runner'[j].at = runner[j].at
  BY <1>1, Types DEF Helpers, Places
<1>4. \A j \in Runners : runner[j].obj = o => j = k
  BY <1>2 DEF TOInv, RunnerAlone
<1>5. runs[o] < asked[o]
  BY <1>1, <1>2 DEF TOInv, AheadAsked, Ahead
<1> HIDE DEF o
<1>6. /\ runs' \in [Objects -> 0 .. MaxAsks]
      /\ runs'[o] = runs[o] + 1
      /\ \A p \in Objects : p # o => runs'[p] = runs[p]
  BY <1>1, <1>2, <1>5, Types, TOAssumption
<1>7. TOTypeOK'
  <2>1. \A j \in Runners : runner'[j].obj = Nothing <=> runner'[j].at = "none"
    BY <1>1, <1>3, Types
  <2>2. should_respawn_' \in [Objects -> BOOLEAN] /\ owed' \in [Objects -> BOOLEAN]
    BY <1>1, Types
  <2> QED
    BY <1>1, <1>3, <1>6, <2>1, <2>2, Types DEF TOTypeOK, Helpers, Places
<1>8. AliveRuns' /\ RunnerAlone'
  BY <1>1, <1>3 DEF TOInv, AliveRuns, RunnerAlone
<1>9. NoRunLost'
  BY <1>1, Types DEF TOInv, NoRunLost
<1>10. OwedAhead'
  <2> SUFFICES ASSUME NEW j \in Runners, runner'[j].obj \in Objects, owed'[runner'[j].obj]
               PROVE  Ahead(j)'
    BY DEF OwedAhead
  <2>1. runner[j].obj # o /\ owed[runner[j].obj] /\ j # k
    BY <1>1, <1>2, <1>3, Types DEF o
  <2>2. Ahead(j)
    BY <1>3, <2>1 DEF TOInv, OwedAhead
  <2> QED
    BY <1>1, <1>3, <2>1, <2>2, Types DEF Ahead
<1>11. NoRunTooMany'
  BY <1>1, <1>5, <1>6, Types, TOAssumption DEF TOInv, NoRunTooMany
<1>12. AheadAsked'
  <2> SUFFICES ASSUME NEW j \in Runners, runner'[j].obj \in Objects, Ahead(j)'
               PROVE  runs'[runner'[j].obj] < asked'[runner'[j].obj]
    BY DEF AheadAsked
  <2>1. j # k
    BY <1>1, <1>2, <1>3, Types DEF Ahead, o
  <2>2. runner[j].obj # o /\ Ahead(j)
    BY <1>1, <1>2, <1>3, <1>4, <2>1, Types DEF Ahead
  <2> QED
    BY <1>1, <1>3, <1>6, <2>2 DEF TOInv, AheadAsked
<1>13. TOSleepForCause' /\ WaitersTied'
  BY <1>1, <1>3 DEF TOInv, TOSleepForCause, WaitersTied
<1> QED
  BY <1>7, <1>8, <1>9, <1>10, <1>11, <1>12, <1>13 DEF TOInv

(* thread_helper() goes round again, or ends and says so.                  *)
LEMMA RoundInv ==
  ASSUME TOInv, NEW k \in Runners, HelperEnds(k), should_respawn_[runner[k].obj]
  PROVE  TOInv'
<1>1. /\ runner[k].at = "returned"
      /\ runner' = [runner EXCEPT ![k].at = "begins"]
      /\ UNCHANGED <<is_running_, is_alive_, should_stop_, should_respawn_,
                     waiter, owed, asked, runs>>
  BY DEF HelperEnds, At, flags, toHistory
<1>2. /\ runner' \in [Runners -> Helpers]
      /\ runner'[k].at = "begins"
      /\ \A j \in Runners : runner'[j].obj = runner[j].obj
      /\ \A j \in Runners : j # k => runner'[j].at = runner[j].at
  BY <1>1, Types DEF Helpers, Places
<1>3. TOTypeOK'
  <2>1. \A j \in Runners : runner'[j].obj = Nothing <=> runner'[j].at = "none"
    BY <1>1, <1>2, Types
  <2> QED
    BY <1>1, <1>2, <2>1, Types DEF TOTypeOK, Helpers, Places
<1>4. AliveRuns' /\ RunnerAlone'
  BY <1>1, <1>2 DEF TOInv, AliveRuns, RunnerAlone
<1>5. NoRunLost' /\ NoRunTooMany' /\ WaitersTied'
  BY <1>1 DEF TOInv, NoRunLost, NoRunTooMany, WaitersTied
<1>6. OwedAhead' /\ AheadAsked'
  BY <1>1, <1>2 DEF TOInv, OwedAhead, AheadAsked, Ahead
<1>7. TOSleepForCause'
  BY <1>1, <1>2 DEF TOInv, TOSleepForCause
<1> QED
  BY <1>3, <1>4, <1>5, <1>6, <1>7 DEF TOInv

LEMMA EndsInv ==
  ASSUME TOInv, NEW k \in Runners, HelperEnds(k), ~should_respawn_[runner[k].obj]
  PROVE  TOInv'
<1> DEFINE o == runner[k].obj
<1>1. /\ runner[k].at = "returned"
      /\ is_alive_' = [is_alive_ EXCEPT ![o] = FALSE]
      /\ is_running_' = [is_running_ EXCEPT ![o] = FALSE]
      /\ should_stop_' = [should_stop_ EXCEPT ![o] = FALSE]
      /\ runner' = [runner EXCEPT ![k] = Idle]
      /\ waiter' = WokenWaiters(o)
      /\ UNCHANGED <<should_respawn_, owed, asked, runs>>
  BY DEF HelperEnds, toHistory
<1>2. o \in Objects
  BY <1>1, Types DEF Helpers
<1>3. /\ runner' \in [Runners -> Helpers]
      /\ runner'[k].obj = Nothing /\ runner'[k].at = "none"
      /\ \A j \in Runners : j # k => runner'[j].obj = runner[j].obj /\ runner'[j].at = runner[j].at
  BY <1>1, Types DEF Helpers, Places, Idle
<1>4. \A j \in Runners : runner[j].obj = o => j = k
  BY <1>2 DEF TOInv, RunnerAlone
<1>5. ~owed[o]
  BY <1>1, <1>2 DEF TOInv, OwedAhead, Ahead
<1>6. runner[k].obj = o
  OBVIOUS
<1> HIDE DEF o
<1>7. /\ waiter' \in [Controllers -> [obj : Objects \cup {Nothing}, asleep : BOOLEAN]]
      /\ \A c \in Controllers :
           /\ waiter'[c].obj = waiter[c].obj
           /\ waiter'[c].asleep => waiter[c].obj # o /\ waiter[c].asleep
  BY <1>1, Types, BroadcastWaiters
<1>8. TOTypeOK'
  <2>1. \A j \in Runners : runner'[j].obj = Nothing <=> runner'[j].at = "none"
    BY <1>3, Types
  <2> QED
    BY <1>1, <1>3, <1>7, <2>1, Types DEF TOTypeOK, Helpers, Places
<1>9. AliveRuns'
  <2> SUFFICES ASSUME NEW p \in Objects
               PROVE  is_alive_'[p] <=> \E j \in Runners : runner'[j].obj = p
    BY DEF AliveRuns
  <2>1. CASE p = o
    BY <1>1, <1>2, <1>3, <1>4, <2>1, Types, TOAssumption
  <2>2. CASE p # o
    BY <1>1, <1>3, <1>6, <2>2, Types, TOAssumption DEF TOInv, AliveRuns
  <2> QED
    BY <2>1, <2>2
<1>10. RunnerAlone'
  BY <1>3, TOAssumption DEF TOInv, RunnerAlone
<1>11. NoRunLost'
  BY <1>1, <1>5, Types DEF TOInv, NoRunLost
<1>12. OwedAhead' /\ AheadAsked'
  BY <1>1, <1>3, TOAssumption DEF TOInv, OwedAhead, AheadAsked, Ahead
<1>13. NoRunTooMany'
  BY <1>1 DEF TOInv, NoRunTooMany
<1>14. TOSleepForCause'
  <2>1. ASSUME NEW j \in Runners, runner'[j].at = "asleep"
        PROVE  ~is_running_'[runner'[j].obj] /\ ~should_stop_'[runner'[j].obj]
    <3>1. j # k /\ runner[j].at = "asleep" /\ runner'[j].obj = runner[j].obj
      BY <1>3, <2>1
    <3>2. runner[j].obj \in Objects /\ runner[j].obj # o
      BY <1>4, <3>1, Types DEF Helpers
    <3> QED
      BY <1>1, <3>1, <3>2, Types DEF TOInv, TOSleepForCause
  <2>2. ASSUME NEW c \in Controllers, waiter'[c].asleep
        PROVE  is_alive_'[waiter'[c].obj]
    BY <1>1, <1>7, <2>2, Types DEF TOInv, TOSleepForCause, WaitersTied
  <2> QED
    BY <2>1, <2>2 DEF TOSleepForCause
<1>15. WaitersTied'
  BY <1>7 DEF TOInv, WaitersTied
<1> QED
  BY <1>8, <1>9, <1>10, <1>11, <1>12, <1>13, <1>14, <1>15 DEF TOInv

-----------------------------------------------------------------------------
LEMMA TONextInv == TOInv /\ [TONext]_toVars => TOInv'
<1> SUFFICES ASSUME TOInv, [TONext]_toVars PROVE TOInv'
  OBVIOUS
<1>1. CASE UNCHANGED toVars
  <2>1. UNCHANGED <<is_running_, is_alive_, should_stop_, should_respawn_,
                    runner, waiter, owed, asked, runs>>
    BY <1>1 DEF toVars, flags, toHistory
  <2> QED
    BY <2>1 DEF TOInv, TOTypeOK, AliveRuns, RunnerAlone, NoRunLost, OwedAhead,
                NoRunTooMany, AheadAsked, Ahead, TOSleepForCause, WaitersTied
<1>2. ASSUME NEW o \in Objects, Start(o) \/ Restart(o) PROVE TOInv'
  BY <1>2, GoOnInv, CreateInv, FlagsInv DEF Start, Restart
<1>3. ASSUME NEW o \in Objects, SetRespawn(o) \/ Pause(o) PROVE TOInv'
  BY <1>3, FlagsInv
<1>4. ASSUME NEW o \in Objects, Stop(o) PROVE TOInv'
  BY <1>4, StopInv
<1>5. ASSUME NEW c \in Controllers,
             (\E o \in Objects : Wait(c, o)) \/ WaitResumes(c) \/ WaiterWakes(c)
      PROVE  TOInv'
  BY <1>5, WaitersInv
<1>6. ASSUME NEW k \in Runners, HelperSteps(k) PROVE TOInv'
  BY <1>6, BeginsInv, RoundInv, EndsInv DEF HelperSteps
<1>7. ASSUME NEW k \in Runners, BodySteps(k) \/ RunnerWakes(k) PROVE TOInv'
  BY <1>7, MovesInv DEF BodySteps
<1> QED
  BY <1>1, <1>2, <1>3, <1>4, <1>5, <1>6, <1>7 DEF TONext

(* The inductive invariant of threaded_object, whatever its caller and its *)
(* thread do.                                                              *)
THEOREM ThreadedObjectInvariance == TOSpec => []TOInv
BY TOInitInv, TONextInv, PTL DEF TOSpec

(* threaded_object: one thread at a time executes thread(), a run asked    *)
(* for is neither lost nor made twice, and who sleeps has cause.           *)
THEOREM ThreadedObjectSafe == TOSpec => []ObjectSafe
<1>1. TOInv => ObjectSafe
  BY CountsOne DEF TOInv, ObjectSafe
<1> QED
  BY <1>1, ThreadedObjectInvariance, PTL
=============================================================================
