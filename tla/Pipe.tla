-------------------------------- MODULE Pipe --------------------------------
(***************************************************************************)
(* dlib::pipe<T>, src/lib/dlib/pipe/pipe_kernel_1.h: a bounded queue that  *)
(* threads share under one mutex m and three signalers.                    *)
(*                                                                         *)
(* The mutex is held from the start of a call to its end, except inside    *)
(* wait(), so a call is a sequence of atomic segments: from the start to   *)
(* the first wait or to the return, and from each wake-up to the next wait *)
(* or to the return. Each segment is one action. A signaler is the set of  *)
(* the threads asleep on it; a thread that leaves the set is awake and     *)
(* runs its loop's test again once it has the mutex.                       *)
(***************************************************************************)
EXTENDS Naturals, Sequences, FiniteSets

CONSTANTS
  Threads,   \* the threads that call the pipe
  MaxSize,   \* pipe_max_size
  MaxItems,  \* bound on the items ever enqueued
  NoItem     \* what a slot or a dequeuer's variable holds before an item

Items == 1 .. MaxItems

ASSUME PipeAssumption ==
  /\ IsFiniteSet(Threads)
  /\ MaxSize \in Nat /\ MaxItems \in Nat
  /\ NoItem \notin Items

VARIABLES
  pipe_size, first, last, data,
  enabled, enqueue_enabled, dequeue_enabled,
  dequeue_waiters, enqueue_waiters, unblock_sig_waiters,
  call,      \* per thread: the call it is in, and that call's locals
  sleeping,  \* per signaler: the threads blocked in its wait()
  alive,     \* the destructor has not deleted data yet
  taken,     \* history: what dequeue() returned, in order
  outcome    \* history: what each item's enqueue() was told

store == <<pipe_size, first, last, data>>
flags == <<enabled, enqueue_enabled, dequeue_enabled>>
waiters == <<dequeue_waiters, enqueue_waiters, unblock_sig_waiters>>
history == <<taken, outcome>>
vars == <<store, flags, waiters, call, sleeping, alive, history>>

Capacity == IF MaxSize > 0 THEN MaxSize ELSE 1
Slots == 0 .. Capacity - 1
Signalers == {"dequeue_sig", "enqueue_sig", "unblock_sig"}

(***************************************************************************)
(* A call: its function, how long it may wait ("forever", "some" time, or  *)
(* "none" for a timeout of 0), whether that time ran out, the caller's     *)
(* item, and the number that wait_for_num_blocked_dequeues() waits for.    *)
(***************************************************************************)
Idle == [op |-> "idle", wait |-> "none", expired |-> FALSE, item |-> NoItem,
         mine |-> NoItem, num |-> 0]
Call(op, wait, i, n) ==
  [op |-> op, wait |-> wait, expired |-> FALSE, item |-> i, mine |-> i, num |-> n]
Patience == {"forever", "some", "none"}

In(ops) == {t \in Threads : call[t].op \in ops}
Asleep(t) == \E s \in Signalers : t \in sleeping[s]
Awake(t, op) == call[t].op = op /\ ~Asleep(t)

\* The destructor has begun: by then no thread may begin another call.
Dying == In({"destroy"}) # {} \/ ~alive
CanCall(t) == call[t].op = "idle" /\ ~Dying

(***************************************************************************)
(* Signalers. Each operator gives the wait sets that may follow.           *)
(***************************************************************************)
Signalled(s, asleep) ==
  IF asleep[s] = {} THEN {asleep}
  ELSE {[asleep EXCEPT ![s] = @ \ {t}] : t \in asleep[s]}
Broadcast(s, asleep) == [asleep EXCEPT ![s] = {}]
BroadcastIf(c, s, asleep) == IF c THEN Broadcast(s, asleep) ELSE asleep

Sleep(t, s, c, asleep) ==
  /\ sleeping' = [asleep EXCEPT ![s] = @ \cup {t}]
  /\ call' = [call EXCEPT ![t] = c]
Return(t) == call' = [call EXCEPT ![t] = Idle]

-----------------------------------------------------------------------------
PipeInit ==
  /\ pipe_size = 0 /\ first = 1 /\ last = 1
  /\ data = [k \in Slots |-> NoItem]
  /\ enabled = TRUE /\ enqueue_enabled = TRUE /\ dequeue_enabled = TRUE
  /\ dequeue_waiters = 0 /\ enqueue_waiters = 0 /\ unblock_sig_waiters = 0
  /\ call = [t \in Threads |-> Idle]
  /\ sleeping = [s \in Signalers |-> {}]
  /\ alive = TRUE
  /\ taken = <<>>
  /\ outcome = [i \in Items |-> "unused"]

(***************************************************************************)
(* enqueue() and enqueue_or_timeout(). ew is enqueue_waiters, t counted.   *)
(***************************************************************************)
\* Mutant: an offer that is still waiting counts as room.
NoRoomUnlessOffered(c) ==
  /\ pipe_size = MaxSize
  /\ enabled /\ enqueue_enabled
  /\ ~(MaxSize = 0 /\ (c.wait = "forever" \/ dequeue_waiters > 0))

NoRoom(c) ==
  /\ pipe_size = MaxSize
  /\ enabled /\ enqueue_enabled
  /\ ~(MaxSize = 0 /\ first = 1 /\ (c.wait = "forever" \/ dequeue_waiters > 0))

EnqueueWaits(t, c, ew) ==
  /\ NoRoom(c) /\ c.wait # "none" /\ ~c.expired
  /\ Sleep(t, "enqueue_sig", c, sleeping)
  /\ enqueue_waiters' = ew
  /\ outcome' = [outcome EXCEPT ![c.mine] = "pending"]
  /\ UNCHANGED <<store, flags, dequeue_waiters, unblock_sig_waiters, alive, taken>>

\* What a failed enqueue() tells its caller, who finds it by looking at item.
Refused(c, content) ==
  [outcome EXCEPT ![c.mine] = IF content = c.mine THEN "returned" ELSE "spoilt"]

EnqueueFails(t, c, ew) ==
  /\ \/ c.expired
     \/ NoRoom(c) /\ c.wait = "none"
     \/ ~enabled \/ ~enqueue_enabled
  /\ enqueue_waiters' = ew - 1
  /\ sleeping' = Broadcast("unblock_sig", sleeping)
  /\ Return(t)
  /\ outcome' = Refused(c, c.item)
  /\ UNCHANGED <<store, flags, dequeue_waiters, unblock_sig_waiters, alive, taken>>

\* Mutant: a single blocked dequeue is not signalled.
EnqueuePutsQuietly(t, c, ew) ==
  /\ ~NoRoom(c) /\ ~c.expired /\ enabled /\ enqueue_enabled
  /\ first' = IF pipe_size = 0 THEN 0 ELSE first
  /\ last' = IF pipe_size = 0 THEN 0 ELSE (last + 1) % MaxSize
  /\ data' = [data EXCEPT ![last'] = c.item]
  /\ \E asleep \in IF dequeue_waiters > 1 THEN Signalled("dequeue_sig", sleeping)
                   ELSE {sleeping} :
       IF MaxSize > 0
       THEN /\ pipe_size' = pipe_size + 1
            /\ enqueue_waiters' = ew - 1
            /\ sleeping' = asleep
            /\ Return(t)
            /\ outcome' = [outcome EXCEPT ![c.mine] = "accepted"]
       ELSE /\ Sleep(t, "enqueue_sig",
                     [c EXCEPT !.op = "offer", !.item = data[last']], asleep)
            /\ enqueue_waiters' = ew
            /\ outcome' = [outcome EXCEPT ![c.mine] = "pending"]
            /\ UNCHANGED pipe_size
  /\ UNCHANGED <<flags, dequeue_waiters, unblock_sig_waiters, alive, taken>>

EnqueuePuts(t, c, ew) ==
  /\ ~NoRoom(c) /\ ~c.expired /\ enabled /\ enqueue_enabled
  /\ first' = IF pipe_size = 0 THEN 0 ELSE first
  /\ last' = IF pipe_size = 0 THEN 0 ELSE (last + 1) % MaxSize
  /\ data' = [data EXCEPT ![last'] = c.item]
  /\ \E asleep \in IF dequeue_waiters > 0 THEN Signalled("dequeue_sig", sleeping)
                   ELSE {sleeping} :
       IF MaxSize > 0
       THEN /\ pipe_size' = pipe_size + 1
            /\ enqueue_waiters' = ew - 1
            /\ sleeping' = asleep
            /\ Return(t)
            /\ outcome' = [outcome EXCEPT ![c.mine] = "accepted"]
       ELSE /\ Sleep(t, "enqueue_sig",
                     [c EXCEPT !.op = "offer", !.item = data[last']], asleep)
            /\ enqueue_waiters' = ew
            /\ outcome' = [outcome EXCEPT ![c.mine] = "pending"]
            /\ UNCHANGED pipe_size
  /\ UNCHANGED <<flags, dequeue_waiters, unblock_sig_waiters, alive, taken>>

EnqueueSegment(t, c, ew) ==
  EnqueueWaits(t, c, ew) \/ EnqueueFails(t, c, ew) \/ EnqueuePuts(t, c, ew)

Unused == {i \in Items : outcome[i] = "unused"}
NextItem == CHOOSE i \in Unused : TRUE

Enqueue(t, wait) ==
  /\ CanCall(t) /\ Unused # {}
  /\ EnqueueSegment(t, Call("enqueue", wait, NextItem, 0), enqueue_waiters + 1)
EnqueueResumes(t) ==
  /\ Awake(t, "enqueue")
  /\ EnqueueSegment(t, call[t], enqueue_waiters)

(***************************************************************************)
(* The second wait of enqueue(), with max_size() 0: the item lies in       *)
(* data[0] until a dequeue takes it, or an enqueue may no longer wait.     *)
(***************************************************************************)
Withdrawing == last = 0 /\ ~(enabled /\ enqueue_enabled)

OfferWaits(t) ==
  /\ Awake(t, "offer")
  /\ last = 0 /\ ~Withdrawing
  /\ Sleep(t, "enqueue_sig", call[t], sleeping)
  /\ UNCHANGED <<store, flags, waiters, alive, history>>

OfferWithdrawn(t) ==
  /\ Awake(t, "offer")
  /\ Withdrawing
  /\ last' = 1 /\ first' = 1
  /\ data' = [data EXCEPT ![0] = call[t].item]
  /\ outcome' = Refused(call[t], data[0])
  /\ enqueue_waiters' = enqueue_waiters - 1
  /\ sleeping' = BroadcastIf(unblock_sig_waiters > 0, "unblock_sig", sleeping)
  /\ Return(t)
  /\ UNCHANGED <<pipe_size, flags, dequeue_waiters, unblock_sig_waiters, alive, taken>>

OfferTaken(t) ==
  /\ Awake(t, "offer")
  /\ last # 0
  /\ last' = 1 /\ first' = 1
  /\ enqueue_waiters' = enqueue_waiters - 1
  /\ sleeping' = BroadcastIf(~enabled /\ unblock_sig_waiters > 0, "unblock_sig",
                   BroadcastIf(enqueue_waiters > 1, "enqueue_sig", sleeping))
  /\ Return(t)
  /\ outcome' = [outcome EXCEPT ![call[t].mine] = "accepted"]
  /\ UNCHANGED <<pipe_size, data, flags, dequeue_waiters, unblock_sig_waiters, alive, taken>>

(***************************************************************************)
(* dequeue() and dequeue_or_timeout(). dw is dequeue_waiters, t counted;   *)
(* asleep is what its first notifications leave asleep.                    *)
(***************************************************************************)
OnOffer == MaxSize = 0 /\ first = 0 /\ last = 0
NothingThere == pipe_size = 0 /\ enabled /\ dequeue_enabled /\ ~OnOffer

DequeueWaits(t, c, dw, asleep) ==
  /\ NothingThere /\ c.wait # "none" /\ ~c.expired
  /\ Sleep(t, "dequeue_sig", c, asleep)
  /\ dequeue_waiters' = dw
  /\ UNCHANGED <<store, flags, enqueue_waiters, unblock_sig_waiters, alive, history>>

\* Mutant: a dequeue that fails does not tell the destructor.
DequeueFailsQuietly(t, c, dw, asleep) ==
  /\ \/ c.expired
     \/ NothingThere /\ c.wait = "none"
     \/ ~enabled \/ ~dequeue_enabled
  /\ dequeue_waiters' = dw - 1
  /\ sleeping' = asleep
  /\ Return(t)
  /\ UNCHANGED <<store, flags, enqueue_waiters, unblock_sig_waiters, alive, history>>

DequeueFails(t, c, dw, asleep) ==
  /\ \/ c.expired
     \/ NothingThere /\ c.wait = "none"
     \/ ~enabled \/ ~dequeue_enabled
  /\ dequeue_waiters' = dw - 1
  /\ sleeping' = Broadcast("unblock_sig", asleep)
  /\ Return(t)
  /\ UNCHANGED <<store, flags, enqueue_waiters, unblock_sig_waiters, alive, history>>

\* Mutant: takes what was put in last.
DequeueTakesLast(t, c, dw, asleep) ==
  /\ ~NothingThere /\ ~c.expired /\ enabled /\ dequeue_enabled
  /\ taken' = Append(taken, data[last])
  /\ data' = [data EXCEPT ![last] = c.item]
  /\ first' = (first + 1) % MaxSize
  /\ pipe_size' = pipe_size - 1
  /\ sleeping' = BroadcastIf(enqueue_waiters > 0, "enqueue_sig", asleep)
  /\ dequeue_waiters' = dw - 1
  /\ Return(t)
  /\ UNCHANGED <<last, flags, enqueue_waiters, unblock_sig_waiters, alive, outcome>>

DequeueTakes(t, c, dw, asleep) ==
  /\ ~NothingThere /\ ~c.expired /\ enabled /\ dequeue_enabled
  /\ taken' = Append(taken, data[first])
  /\ data' = [data EXCEPT ![first] = c.item]
  /\ IF MaxSize > 0
     THEN /\ first' = (first + 1) % MaxSize
          /\ pipe_size' = pipe_size - 1
          /\ UNCHANGED last
     ELSE last' = 1 /\ UNCHANGED <<first, pipe_size>>
  /\ sleeping' = BroadcastIf(enqueue_waiters > 0, "enqueue_sig", asleep)
  /\ dequeue_waiters' = dw - 1
  /\ Return(t)
  /\ UNCHANGED <<flags, enqueue_waiters, unblock_sig_waiters, alive, outcome>>

DequeueSegment(t, c, dw, asleep) ==
  \/ DequeueWaits(t, c, dw, asleep)
  \/ DequeueFails(t, c, dw, asleep)
  \/ DequeueTakes(t, c, dw, asleep)

\* Mutant: forgets the timed enqueues that wait for a dequeue to come.
DequeueNoticeUnblock ==
  IF pipe_size = 0
  THEN BroadcastIf(unblock_sig_waiters > 0, "unblock_sig", sleeping)
  ELSE sleeping

\* On an empty pipe a dequeue first tells those who wait for one.
DequeueNotice ==
  IF pipe_size = 0
  THEN BroadcastIf(enqueue_waiters > 0, "enqueue_sig",
         BroadcastIf(unblock_sig_waiters > 0, "unblock_sig", sleeping))
  ELSE sleeping

Dequeue(t, wait) ==
  /\ CanCall(t)
  /\ DequeueSegment(t, Call("dequeue", wait, NoItem, 0), dequeue_waiters + 1,
                    DequeueNotice)
DequeueResumes(t) ==
  /\ Awake(t, "dequeue")
  /\ DequeueSegment(t, call[t], dequeue_waiters, sleeping)

(***************************************************************************)
(* The other calls that wait.                                              *)
(***************************************************************************)
WaitUntilEmptySegment(t, c, ew) ==
  IF pipe_size > 0 /\ enabled /\ dequeue_enabled
  THEN /\ Sleep(t, "enqueue_sig", c, sleeping)
       /\ enqueue_waiters' = ew
       /\ UNCHANGED <<store, flags, dequeue_waiters, unblock_sig_waiters, alive, history>>
  ELSE /\ sleeping' = BroadcastIf(~enabled, "unblock_sig", sleeping)
       /\ enqueue_waiters' = ew - 1
       /\ Return(t)
       /\ UNCHANGED <<store, flags, dequeue_waiters, unblock_sig_waiters, alive, history>>

WaitUntilEmpty(t) ==
  /\ CanCall(t)
  /\ WaitUntilEmptySegment(t, Call("waitEmpty", "forever", NoItem, 0), enqueue_waiters + 1)
WaitUntilEmptyResumes(t) ==
  /\ Awake(t, "waitEmpty")
  /\ WaitUntilEmptySegment(t, call[t], enqueue_waiters)

WaitForBlockedSegment(t, c, uw) ==
  IF (dequeue_waiters < c.num \/ pipe_size # 0) /\ enabled /\ dequeue_enabled
  THEN /\ Sleep(t, "unblock_sig", c, sleeping)
       /\ unblock_sig_waiters' = uw
       /\ UNCHANGED <<store, flags, dequeue_waiters, enqueue_waiters, alive, history>>
  ELSE /\ sleeping' = BroadcastIf(~enabled, "unblock_sig", sleeping)
       /\ unblock_sig_waiters' = uw - 1
       /\ Return(t)
       /\ UNCHANGED <<store, flags, dequeue_waiters, enqueue_waiters, alive, history>>

WaitForNumBlockedDequeues(t, num) ==
  /\ CanCall(t)
  /\ WaitForBlockedSegment(t, Call("waitBlocked", "forever", NoItem, num),
                           unblock_sig_waiters + 1)
WaitForBlockedResumes(t) ==
  /\ Awake(t, "waitBlocked")
  /\ WaitForBlockedSegment(t, call[t], unblock_sig_waiters)

(***************************************************************************)
(* The calls that do not wait. Some thread that is in no call makes them.  *)
(***************************************************************************)
\* Mutant: the enqueues that wait for room are not woken.
EmptyQuietly(t) ==
  /\ CanCall(t)
  /\ pipe_size' = 0
  /\ UNCHANGED <<first, last, data, flags, waiters, call, sleeping, alive, history>>

Empty(t) ==
  /\ CanCall(t)
  /\ pipe_size' = 0
  /\ sleeping' = BroadcastIf(enqueue_waiters > 0, "enqueue_sig", sleeping)
  /\ UNCHANGED <<first, last, data, flags, waiters, call, alive, history>>

Enable(t) ==
  /\ CanCall(t)
  /\ enabled' = TRUE
  /\ UNCHANGED <<store, enqueue_enabled, dequeue_enabled, waiters, call, sleeping, alive, history>>

Disable(t) ==
  /\ CanCall(t)
  /\ enabled' = FALSE
  /\ sleeping' = [s \in Signalers |-> {}]
  /\ UNCHANGED <<store, enqueue_enabled, dequeue_enabled, waiters, call, alive, history>>

EnableEnqueue(t) ==
  /\ CanCall(t)
  /\ enqueue_enabled' = TRUE
  /\ UNCHANGED <<store, enabled, dequeue_enabled, waiters, call, sleeping, alive, history>>

DisableEnqueue(t) ==
  /\ CanCall(t)
  /\ enqueue_enabled' = FALSE
  /\ sleeping' = Broadcast("enqueue_sig", sleeping)
  /\ UNCHANGED <<store, enabled, dequeue_enabled, waiters, call, alive, history>>

EnableDequeue(t) ==
  /\ CanCall(t)
  /\ dequeue_enabled' = TRUE
  /\ UNCHANGED <<store, enabled, enqueue_enabled, waiters, call, sleeping, alive, history>>

DisableDequeue(t) ==
  /\ CanCall(t)
  /\ dequeue_enabled' = FALSE
  /\ sleeping' = Broadcast("dequeue_sig", sleeping)
  /\ UNCHANGED <<store, enabled, enqueue_enabled, waiters, call, alive, history>>

(***************************************************************************)
(* ~pipe(): disable, then wait until every other thread has left. In the   *)
(* first segment the wait sets have just been emptied by the broadcasts.   *)
(***************************************************************************)
\* Mutant: does not wait for those in wait_for_num_blocked_dequeues().
DestroySegmentEarly(t, uw, asleep) ==
  IF dequeue_waiters > 0 \/ enqueue_waiters > 0
  THEN /\ Sleep(t, "unblock_sig", Call("destroy", "forever", NoItem, 0), asleep)
       /\ unblock_sig_waiters' = uw
       /\ UNCHANGED <<dequeue_waiters, enqueue_waiters, alive>>
  ELSE /\ alive' = FALSE
       /\ unblock_sig_waiters' = uw - 1
       /\ sleeping' = asleep
       /\ Return(t)
       /\ UNCHANGED <<dequeue_waiters, enqueue_waiters>>

DestroySegment(t, uw, asleep) ==
  IF dequeue_waiters > 0 \/ enqueue_waiters > 0 \/ uw > 1
  THEN /\ Sleep(t, "unblock_sig", Call("destroy", "forever", NoItem, 0), asleep)
       /\ unblock_sig_waiters' = uw
       /\ UNCHANGED <<dequeue_waiters, enqueue_waiters, alive>>
  ELSE /\ alive' = FALSE
       /\ unblock_sig_waiters' = uw - 1
       /\ sleeping' = asleep
       /\ Return(t)
       /\ UNCHANGED <<dequeue_waiters, enqueue_waiters>>

Destroy(t) ==
  /\ CanCall(t)
  /\ enabled' = FALSE
  /\ DestroySegment(t, unblock_sig_waiters + 1, [s \in Signalers |-> {}])
  /\ UNCHANGED <<store, enqueue_enabled, dequeue_enabled, history>>
DestroyResumes(t) ==
  /\ Awake(t, "destroy")
  /\ DestroySegment(t, unblock_sig_waiters, sleeping)
  /\ UNCHANGED <<store, flags, history>>

(***************************************************************************)
(* The signalers' own doing: a wait with a timeout may run out, and POSIX  *)
(* lets any wait end without a signal. wait_or_timeout() is only used in   *)
(* the first loops of enqueue_or_timeout() and dequeue_or_timeout().       *)
(***************************************************************************)
TimeRunsOut(t) ==
  /\ call[t].op \in {"enqueue", "dequeue"} /\ call[t].wait = "some" /\ Asleep(t)
  /\ call' = [call EXCEPT ![t].expired = TRUE]
  /\ sleeping' = [s \in Signalers |-> sleeping[s] \ {t}]
  /\ UNCHANGED <<store, flags, waiters, alive, history>>

WakesUnasked(t) ==
  /\ Asleep(t)
  /\ sleeping' = [s \in Signalers |-> sleeping[s] \ {t}]
  /\ UNCHANGED <<store, flags, waiters, call, alive, history>>

-----------------------------------------------------------------------------
Resumes(t) ==
  \/ EnqueueResumes(t)
  \/ OfferWaits(t) \/ OfferWithdrawn(t) \/ OfferTaken(t)
  \/ DequeueResumes(t)
  \/ WaitUntilEmptyResumes(t)
  \/ WaitForBlockedResumes(t)
  \/ DestroyResumes(t)

Begins(t) ==
  \/ \E wait \in Patience : Enqueue(t, wait) \/ Dequeue(t, wait)
  \/ WaitUntilEmpty(t)
  \/ \E num \in 0 .. Cardinality(Threads) - 1 : WaitForNumBlockedDequeues(t, num)
  \/ Empty(t)
  \/ Enable(t) \/ Disable(t)
  \/ EnableEnqueue(t) \/ DisableEnqueue(t)
  \/ EnableDequeue(t) \/ DisableDequeue(t)
  \/ Destroy(t)

Next == \E t \in Threads :
  Begins(t) \/ Resumes(t) \/ TimeRunsOut(t) \/ WakesUnasked(t)

PipeSpec == PipeInit /\ [][Next]_vars

\* A thread that is awake gets the mutex in the end, and a timeout passes.
PipeFair == \A t \in Threads : WF_vars(Resumes(t)) /\ WF_vars(TimeRunsOut(t))
FairSpec == PipeSpec /\ PipeFair

-----------------------------------------------------------------------------
Calls == [op: {"idle", "enqueue", "offer", "dequeue", "waitEmpty", "waitBlocked", "destroy"},
          wait: Patience, expired: BOOLEAN, item: Items \cup {NoItem},
          mine: Items \cup {NoItem}, num: 0 .. Cardinality(Threads)]

\* The types; first and last index data while it holds something; a thread
\* sleeps on one signaler at a time.
PipeTypeOK ==
  /\ pipe_size \in 0 .. MaxSize
  /\ first \in 0 .. Capacity /\ last \in 0 .. Capacity
  /\ pipe_size > 0 => first \in Slots /\ last \in Slots
  /\ data \in [Slots -> Items \cup {NoItem}]
  /\ enabled \in BOOLEAN /\ enqueue_enabled \in BOOLEAN /\ dequeue_enabled \in BOOLEAN
  /\ dequeue_waiters \in Nat /\ enqueue_waiters \in Nat /\ unblock_sig_waiters \in Nat
  /\ call \in [Threads -> Calls]
  /\ sleeping \in [Signalers -> SUBSET Threads]
  /\ \A s, r \in Signalers : s # r => sleeping[s] \cap sleeping[r] = {}
  /\ alive \in BOOLEAN
  /\ taken \in Seq(Items)
  /\ outcome \in [Items -> {"unused", "pending", "accepted", "returned"}]

(***************************************************************************)
(* The counters of the CONVENTION are the numbers of threads inside the    *)
(* calls, although each call restores them on four different exits. The    *)
(* notifications that are skipped when a counter is 0, and the destructor, *)
(* rely on it.                                                             *)
(***************************************************************************)
WaitersCounted ==
  /\ dequeue_waiters = Cardinality(In({"dequeue"}))
  /\ enqueue_waiters = Cardinality(In({"enqueue", "offer", "waitEmpty"}))
  /\ unblock_sig_waiters = Cardinality(In({"waitBlocked", "destroy"}))

(***************************************************************************)
(* No wake-up is lost among the calls to enqueue(): one that sleeps still  *)
(* has to. (dequeue, empty, an ending hand-over and the disabling calls    *)
(* each broadcast under a condition of their own.) The same holds of       *)
(* wait_until_empty(), but for disable_dequeue().                          *)
(***************************************************************************)
EnqueuersSleepForCause ==
  \A t \in sleeping["enqueue_sig"] :
    \/ call[t].op = "enqueue" /\ NoRoom(call[t])
    \/ call[t].op = "offer" /\ last = 0 /\ enabled /\ enqueue_enabled
    \/ call[t].op = "waitEmpty" /\ pipe_size > 0 /\ enabled

(***************************************************************************)
(* No wake-up is lost among the calls to dequeue(), which are signalled    *)
(* one at a time: while one sleeps, there are at least as many awake that  *)
(* will take an item as there are items to take.                           *)
(***************************************************************************)
Available == IF MaxSize > 0 THEN pipe_size ELSE IF OnOffer THEN 1 ELSE 0
DequeuersSleepForCause ==
  enabled /\ dequeue_enabled /\ sleeping["dequeue_sig"] # {} =>
    Available <= Cardinality({t \in In({"dequeue"}) : ~Asleep(t) /\ ~call[t].expired})

(***************************************************************************)
(* No wake-up is lost on either side of the pipe, although most of the     *)
(* notifications are left out when a counter says that nobody waits.       *)
(***************************************************************************)
NoWakeUpLost == EnqueuersSleepForCause /\ DequeuersSleepForCause

(***************************************************************************)
(* ~pipe() deletes data only when every other call has ended: none wakes   *)
(* up inside a pipe that is gone, and until then the counters that it      *)
(* waits for, and the indices into data, are right.                        *)
(***************************************************************************)
NoneInsideAfterDestroy == ~alive => \A t \in Threads : call[t].op = "idle"
PipeInv == PipeTypeOK /\ WaitersCounted /\ NoneInsideAfterDestroy

(***************************************************************************)
(* The pipe keeps its contract: items leave in the order they entered,     *)
(* each to one dequeue(), an enqueue() that succeeds has passed its item   *)
(* on, and one that fails has it back unchanged.                           *)
(***************************************************************************)
Queue ==
  IF MaxSize > 0
  THEN [k \in 1 .. pipe_size |-> data[(first + k - 1) % MaxSize]]
  ELSE IF OnOffer THEN <<data[0]>> ELSE <<>>

Contract == INSTANCE PipeContract WITH queue <- Queue
KeepsContract == Contract!ContractSpec

(***************************************************************************)
(* disable() lets every call return, unless the pipe is enabled again.     *)
(***************************************************************************)
DisableReleases == ~enabled ~> (enabled \/ \A t \in Threads : call[t].op = "idle")

(***************************************************************************)
(* The destructor ends, whoever is blocked in the pipe when it begins.     *)
(***************************************************************************)
DestroyEnds == (In({"destroy"}) # {}) ~> ~alive

(***************************************************************************)
(* No call outlives the pipe: disable() and ~pipe() end every wait.        *)
(***************************************************************************)
CallsEnd == DisableReleases /\ DestroyEnds

(***************************************************************************)
(* pipe_kernel_abstract.h:234: enqueue_or_timeout() blocks until ...       *)
(* timeout milliseconds passes. (Once it has offered its item to a         *)
(* dequeue that then times out itself, it waits without a timeout.)        *)
(***************************************************************************)
TimedOfferReturns ==
  \A t \in Threads :
    (call[t].op = "offer" /\ call[t].wait = "some") ~> (call[t].op = "idle")

(***************************************************************************)
(* An enqueue and a dequeue that are in the pipe at the same time do not   *)
(* wait for each other for ever: one of them returns.                      *)
(***************************************************************************)
EnqueueMeetsDequeue ==
  \A t \in Threads : \A u \in Threads \ {t} :
    (call[t].op \in {"enqueue", "offer"} /\ call[u].op = "dequeue")
      ~> (call[t].op = "idle" \/ call[u].op = "idle")
=============================================================================
