----------------------------- MODULE Pipe_proofs -----------------------------
(***************************************************************************)
(* Proofs about dlib::pipe, for any threads, capacity and number of items. *)
(*                                                                         *)
(* CallInv: the counters are the numbers of threads inside, and a thread   *)
(* sleeps where its call waits.  StoreInv says what lies in the ring or on *)
(* offer, and who owns it; with it every step of the pipe is a step of     *)
(* PipeContract, or none.  WakeInv adds that no wake-up is lost.           *)
(***************************************************************************)
EXTENDS Pipe, FiniteSetTheorems, SequenceTheorems, TLAPS

DequeueOps == {"dequeue"}
EnqueueOps == {"enqueue", "offer", "waitEmpty"}
UnblockOps == {"waitBlocked", "destroy"}

(* A thread sleeps on the signaler that its call waits on, and no dequeue  *)
(* sleeps once its time has run out.                                       *)
Matches(s, c) ==
  \/ s = "dequeue_sig" /\ c.op \in DequeueOps /\ ~c.expired
  \/ s = "enqueue_sig" /\ c.op \in EnqueueOps
  \/ s = "unblock_sig" /\ c.op \in UnblockOps
SleepersMatch == \A s \in Signalers : \A t \in sleeping[s] : Matches(s, call[t])

CallTypes ==
  /\ dequeue_waiters \in Nat /\ enqueue_waiters \in Nat /\ unblock_sig_waiters \in Nat
  /\ call \in [Threads -> Calls]
  /\ sleeping \in [Signalers -> SUBSET Threads]
  /\ alive \in BOOLEAN

CallInv == CallTypes /\ WaitersCounted /\ SleepersMatch /\ NoneInsideAfterDestroy

(***************************************************************************)
(* What is in the pipe, and whose it is.                                   *)
(***************************************************************************)
StoreTypes ==
  /\ pipe_size \in 0 .. MaxSize
  /\ first \in 0 .. Capacity /\ last \in 0 .. Capacity
  /\ pipe_size > 0 => first \in Slots /\ last \in Slots
  /\ data \in [Slots -> Items \cup {NoItem}]
  /\ enabled \in BOOLEAN /\ enqueue_enabled \in BOOLEAN /\ dequeue_enabled \in BOOLEAN
  /\ taken \in Seq(Items)
  /\ outcome \in [Items -> {"unused", "pending", "accepted", "returned"}]

(* An item is in the hands of one enqueue() that has not returned.         *)
Passes(t) == call[t].op \in {"enqueue", "offer"}
ItemsOwned ==
  /\ \A t \in Threads : Passes(t) =>
       call[t].mine \in Items /\ outcome[call[t].mine] = "pending"
  /\ \A t, u \in Threads : Passes(t) /\ Passes(u) /\ t # u => call[t].mine # call[u].mine
  /\ \A t \in Threads : call[t].op = "enqueue" => call[t].item = call[t].mine

(* first is 0 while an enqueue() offers its item, and last until a         *)
(* dequeue() has taken it.                                                 *)
Offers(t) == call[t].op = "offer"
HandOver ==
  /\ MaxSize > 0 => \A t \in Threads : ~Offers(t)
  /\ MaxSize = 0 =>
       /\ first = 1 => last = 1 /\ \A t \in Threads : ~Offers(t)
       /\ first = 0 => \E t \in Threads : Offers(t)
       /\ \A t, u \in Threads : Offers(t) /\ Offers(u) => t = u
       /\ last = 0 => \A t \in Threads : Offers(t) => data[0] = call[t].mine
       /\ last = 1 => \A t \in Threads : Offers(t) =>
                        \E k \in DOMAIN taken : taken[k] = call[t].mine

(* The ring holds pipe_size accepted items, from first to last.            *)
Cell(k) == data[(first + k) % MaxSize]
RingInOrder ==
  MaxSize > 0 /\ pipe_size > 0 =>
    /\ last = (first + (pipe_size - 1)) % MaxSize
    /\ \A k \in 0 .. pipe_size - 1 : Cell(k) \in Items /\ outcome[Cell(k)] = "accepted"

(* What was taken counts as accepted, or is about to.                      *)
TakenKnown ==
  \A k \in DOMAIN taken :
    \/ outcome[taken[k]] = "accepted"
    \/ last = 1 /\ \E t \in Threads : Offers(t) /\ call[t].mine = taken[k]

StoreInv == StoreTypes /\ ItemsOwned /\ HandOver /\ RingInOrder /\ TakenKnown

(* Disabling wakes the dequeues, and no other goes to sleep until then.    *)
DisabledWoken == sleeping["dequeue_sig"] # {} => enabled /\ dequeue_enabled

WakeInv == EnqueuersSleepForCause /\ DequeuersSleepForCause /\ DisabledWoken

PipeIInv == CallInv /\ StoreInv /\ WakeInv

-----------------------------------------------------------------------------
LEMMA NumbersAreNumbers ==
  /\ MaxSize \in Nat /\ MaxItems \in Nat /\ Items \subseteq Nat
  /\ Capacity \in Nat /\ Capacity > 0 /\ 0 \in Slots
  /\ MaxSize > 0 => Capacity = MaxSize
  /\ MaxSize = 0 => Capacity = 1 /\ Slots = {0}
  /\ Cardinality(Threads) \in Nat
BY PipeAssumption, FS_CardinalityType DEF Capacity, Slots, Items

(* A thread's way into and out of a class of calls is what counting needs. *)
One(c, ops) == IF c.op \in ops THEN 1 ELSE 0

LEMMA CountAfter ==
  ASSUME NEW t \in Threads, NEW c, NEW ops,
         call \in [Threads -> Calls],
         call' = [call EXCEPT ![t] = c]
  PROVE  /\ Cardinality(In(ops)) \in Nat
         /\ Cardinality(In(ops))' + One(call[t], ops) = Cardinality(In(ops)) + One(c, ops)
         /\ call[t].op \in ops => Cardinality(In(ops)) > 0
<1>1. IsFiniteSet(In(ops))
  BY PipeAssumption, FS_Subset DEF In
<1>2. Cardinality(In(ops)) \in Nat
  BY <1>1, FS_CardinalityType
<1>3. In(ops)' = IF c.op \in ops THEN In(ops) \cup {t} ELSE In(ops) \ {t}
  BY DEF In
<1>4. t \in In(ops) <=> call[t].op \in ops
  BY DEF In
<1>5. call[t].op \in ops => Cardinality(In(ops)) > 0
  BY <1>1, <1>2, <1>4, FS_EmptySet
<1>6. Cardinality(In(ops))' + One(call[t], ops) = Cardinality(In(ops)) + One(c, ops)
  <2>1. Cardinality(In(ops) \cup {t}) = IF t \in In(ops) THEN Cardinality(In(ops))
                                        ELSE Cardinality(In(ops)) + 1
    BY <1>1, FS_AddElement
  <2>2. Cardinality(In(ops) \ {t}) = IF t \in In(ops) THEN Cardinality(In(ops)) - 1
                                     ELSE Cardinality(In(ops))
    BY <1>1, FS_RemoveElement
  <2> QED
    BY <2>1, <2>2, <1>2, <1>3, <1>4 DEF One
<1> QED
  BY <1>2, <1>5, <1>6

(***************************************************************************)
(* What any step does to calls and sleepers: one thread goes from its call *)
(* to c, counted as it goes, and may fall asleep there; the others stay in *)
(* their calls, or wake up in them.                                        *)
(***************************************************************************)
Counts(t, c) ==
  /\ dequeue_waiters' + One(call[t], DequeueOps) = dequeue_waiters + One(c, DequeueOps)
  /\ enqueue_waiters' + One(call[t], EnqueueOps) = enqueue_waiters + One(c, EnqueueOps)
  /\ unblock_sig_waiters' + One(call[t], UnblockOps)
       = unblock_sig_waiters + One(c, UnblockOps)
Settles(t, c) ==
  /\ sleeping' \in [Signalers -> SUBSET Threads]
  /\ \A s \in Signalers : \A u \in sleeping'[s] :
       IF u = t THEN Matches(s, c) ELSE u \in sleeping[s]
Moves(t, c) ==
  /\ c \in Calls
  /\ call' = [call EXCEPT ![t] = c]
  /\ dequeue_waiters' \in Int /\ enqueue_waiters' \in Int /\ unblock_sig_waiters' \in Int
  /\ Counts(t, c)
  /\ Settles(t, c)

LEMMA MovesKeepsCounts ==
  ASSUME CallInv, NEW t \in Threads, NEW c, Moves(t, c)
  PROVE  WaitersCounted' /\ SleepersMatch' /\ (CallTypes /\ alive' \in BOOLEAN => CallTypes')
<1>1. call \in [Threads -> Calls] /\ call' = [call EXCEPT ![t] = c] /\ c \in Calls
  BY DEF Moves, CallTypes, CallInv
<1>2. \A ops : /\ Cardinality(In(ops)) \in Nat /\ Cardinality(In(ops))' \in Int
               /\ Cardinality(In(ops))' + One(call[t], ops) = Cardinality(In(ops)) + One(c, ops)
  <2> SUFFICES ASSUME NEW ops
               PROVE  /\ Cardinality(In(ops)) \in Nat /\ Cardinality(In(ops)') \in Int
                      /\ Cardinality(In(ops)') + One(call[t], ops)
                           = Cardinality(In(ops)) + One(c, ops)
    OBVIOUS
  <2>1. IsFiniteSet(In(ops)')
    BY PipeAssumption, FS_Subset DEF In
  <2>2. Cardinality(In(ops)') \in Nat
    BY <2>1, FS_CardinalityType
  <2>3. /\ Cardinality(In(ops)) \in Nat
        /\ Cardinality(In(ops)') + One(call[t], ops) = Cardinality(In(ops)) + One(c, ops)
    BY <1>1, CountAfter
  <2> QED
    BY <2>2, <2>3
<1>3. WaitersCounted'
  <2>1. /\ dequeue_waiters = Cardinality(In(DequeueOps))
        /\ enqueue_waiters = Cardinality(In(EnqueueOps))
        /\ unblock_sig_waiters = Cardinality(In(UnblockOps))
    BY DEF CallInv, WaitersCounted, DequeueOps, EnqueueOps, UnblockOps
  <2>2. \A ops : One(call[t], ops) \in Int /\ One(c, ops) \in Int
    BY DEF One
  <2>3. /\ dequeue_waiters' = Cardinality(In(DequeueOps))'
        /\ enqueue_waiters' = Cardinality(In(EnqueueOps))'
        /\ unblock_sig_waiters' = Cardinality(In(UnblockOps))'
    BY <1>2, <2>1, <2>2 DEF Moves, Counts
  <2> QED
    BY <2>3 DEF WaitersCounted, DequeueOps, EnqueueOps, UnblockOps
<1>4. SleepersMatch'
  BY <1>1 DEF Moves, Settles, SleepersMatch, CallTypes, CallInv
<1>5. ASSUME CallTypes, alive' \in BOOLEAN PROVE CallTypes'
  <2>1. /\ dequeue_waiters' \in Nat /\ enqueue_waiters' \in Nat
        /\ unblock_sig_waiters' \in Nat
    <3>1. call' \in [Threads -> Calls]
      BY <1>1
    <3>2. \A ops : IsFiniteSet(In(ops)')
      BY PipeAssumption, FS_Subset DEF In
    <3>3. \A ops : Cardinality(In(ops)') \in Nat
      BY <3>2, FS_CardinalityType
    <3> QED
      BY <1>3, <3>3 DEF WaitersCounted
  <2> QED
    BY <1>1, <1>5, <2>1 DEF CallTypes, Moves, Settles
<1> QED
  BY <1>3, <1>4, <1>5

(***************************************************************************)
(* A segment starts in a thread that begins a call or one that is awake in *)
(* its call; n counts it in.                                               *)
(***************************************************************************)
Enters(t, c, op, ops, waiting, n) ==
  /\ t \in Threads /\ c \in Calls /\ c.op = op /\ ~Asleep(t)
  /\ \/ call[t].op = "idle" /\ ~Dying
     \/ call[t] = c
  /\ n \in Nat /\ n + One(call[t], ops) = waiting + 1
  /\ alive
EntersEnqueue(t, c, ew) ==
  /\ Enters(t, c, "enqueue", EnqueueOps, enqueue_waiters, ew)
  /\ call[t].op = "idle" => /\ c.mine \in Items /\ c.item = c.mine
                            /\ outcome[c.mine] = "unused" /\ ~c.expired
EntersDequeue(t, c, dw, asleep) ==
  /\ Enters(t, c, "dequeue", DequeueOps, dequeue_waiters, dw)
  /\ \/ call[t].op = "idle" /\ asleep = DequeueNotice /\ ~c.expired
     \/ call[t].op = "dequeue" /\ asleep = sleeping
EntersWaitEmpty(t, c, ew) == Enters(t, c, "waitEmpty", EnqueueOps, enqueue_waiters, ew)
EntersWaitBlocked(t, c, uw) ==
  Enters(t, c, "waitBlocked", UnblockOps, unblock_sig_waiters, uw)
EntersDestroy(t, uw, asleep) ==
  /\ t \in Threads /\ ~Asleep(t) /\ alive
  /\ \/ /\ call[t].op = "idle" /\ ~Dying
        /\ uw = unblock_sig_waiters + 1 /\ asleep = [s \in Signalers |-> {}]
        /\ enabled' = FALSE /\ UNCHANGED <<enqueue_enabled, dequeue_enabled>>
     \/ /\ call[t].op = "destroy"
        /\ uw = unblock_sig_waiters /\ asleep = sleeping /\ UNCHANGED flags

Sets(t) ==
  \/ Empty(t)
  \/ Enable(t) \/ Disable(t)
  \/ EnableEnqueue(t) \/ DisableEnqueue(t)
  \/ EnableDequeue(t) \/ DisableDequeue(t)

Offering(t) == OfferWaits(t) \/ OfferWithdrawn(t) \/ OfferTaken(t)

Step(t) ==
  \/ \E c \in Calls, ew \in Nat : EntersEnqueue(t, c, ew) /\ EnqueueSegment(t, c, ew)
  \/ Offering(t)
  \/ \E c \in Calls, dw \in Nat, asleep \in [Signalers -> SUBSET Threads] :
       EntersDequeue(t, c, dw, asleep) /\ DequeueSegment(t, c, dw, asleep)
  \/ \E c \in Calls, ew \in Nat : EntersWaitEmpty(t, c, ew) /\ WaitUntilEmptySegment(t, c, ew)
  \/ \E c \in Calls, uw \in Nat : EntersWaitBlocked(t, c, uw) /\ WaitForBlockedSegment(t, c, uw)
  \/ Sets(t)
  \/ \E uw \in Nat, asleep \in [Signalers -> SUBSET Threads] :
       /\ EntersDestroy(t, uw, asleep) /\ DestroySegment(t, uw, asleep)
       /\ UNCHANGED <<store, history>>
  \/ TimeRunsOut(t)
  \/ WakesUnasked(t)

(* A thread in no call sleeps nowhere, and one in a call holds off the     *)
(* destructor.                                                             *)
LEMMA IdleIsAwake ==
  ASSUME CallInv, NEW t \in Threads
  PROVE  /\ call[t].op = "idle" => ~Asleep(t)
         /\ call[t].op # "idle" => alive
         /\ call[t].op = "idle" /\ ~Dying => alive
         /\ call[t] \in Calls
BY DEF CallInv, CallTypes, SleepersMatch, Matches, Asleep, NoneInsideAfterDestroy, Dying,
       DequeueOps, EnqueueOps, UnblockOps

LEMMA CallsMade ==
  ASSUME NEW wait \in Patience
  PROVE  /\ \A i \in Items : Call("enqueue", wait, i, 0) \in Calls
         /\ Call("dequeue", wait, NoItem, 0) \in Calls
         /\ Call("waitEmpty", "forever", NoItem, 0) \in Calls
         /\ \A num \in 0 .. Cardinality(Threads) - 1 :
              Call("waitBlocked", "forever", NoItem, num) \in Calls
         /\ Call("destroy", "forever", NoItem, 0) \in Calls
         /\ Idle \in Calls
BY NumbersAreNumbers DEF Call, Calls, Idle, Patience

(* What the notifications leave asleep was asleep.                         *)
LEMMA Notifications ==
  ASSUME NEW asleep \in [Signalers -> SUBSET Threads], NEW s \in Signalers
  PROVE  /\ Broadcast(s, asleep) \in [Signalers -> SUBSET Threads]
         /\ \A r \in Signalers : Broadcast(s, asleep)[r] = IF r = s THEN {} ELSE asleep[r]
         /\ \A b \in Signalled(s, asleep) :
              b \in [Signalers -> SUBSET Threads] /\ \A r \in Signalers : b[r] \subseteq asleep[r]
<1>1. Broadcast(s, asleep) \in [Signalers -> SUBSET Threads]
  BY DEF Broadcast
<1>2. \A r \in Signalers : Broadcast(s, asleep)[r] = IF r = s THEN {} ELSE asleep[r]
  BY DEF Broadcast
<1>3. ASSUME NEW b \in Signalled(s, asleep)
      PROVE  b \in [Signalers -> SUBSET Threads] /\ \A r \in Signalers : b[r] \subseteq asleep[r]
  BY <1>3 DEF Signalled
<1> QED
  BY <1>1, <1>2, <1>3

Quieter(b, asleep) ==
  b \in [Signalers -> SUBSET Threads] /\ \A r \in Signalers : b[r] \subseteq asleep[r]

LEMMA BroadcastIsQuieter ==
  ASSUME NEW asleep \in [Signalers -> SUBSET Threads], NEW s \in Signalers, NEW b,
         b = asleep \/ b = Broadcast(s, asleep) \/ b \in Signalled(s, asleep)
  PROVE  Quieter(b, asleep)
BY Notifications DEF Quieter

LEMMA NoticeLeaves ==
  ASSUME CallTypes, StoreTypes
  PROVE  /\ DequeueNotice \in [Signalers -> SUBSET Threads]
         /\ \A r \in Signalers : DequeueNotice[r] \subseteq sleeping[r]
         /\ DequeueNotice["dequeue_sig"] = sleeping["dequeue_sig"]
<1>1. "enqueue_sig" \in Signalers /\ "unblock_sig" \in Signalers /\ "dequeue_sig" \in Signalers
  BY DEF Signalers
<1> DEFINE inner == BroadcastIf(unblock_sig_waiters > 0, "unblock_sig", sleeping)
<1>2. /\ inner \in [Signalers -> SUBSET Threads]
      /\ \A r \in Signalers : inner[r] = IF unblock_sig_waiters > 0 /\ r = "unblock_sig"
                                         THEN {} ELSE sleeping[r]
  BY <1>1, Notifications DEF CallTypes, BroadcastIf
<1> DEFINE outer == BroadcastIf(enqueue_waiters > 0, "enqueue_sig", inner)
<1>3. /\ outer \in [Signalers -> SUBSET Threads]
      /\ \A r \in Signalers : outer[r] = IF enqueue_waiters > 0 /\ r = "enqueue_sig"
                                         THEN {} ELSE inner[r]
  <2> HIDE DEF inner
  <2> QED
    BY <1>1, <1>2, Notifications DEF BroadcastIf
<1>4. DequeueNotice = IF pipe_size = 0 THEN outer ELSE sleeping
  BY DEF DequeueNotice
<1> HIDE DEF inner, outer
<1> QED
  BY <1>1, <1>2, <1>3, <1>4 DEF CallTypes

LEMMA StepCases ==
  ASSUME CallInv, StoreTypes, Next
  PROVE  \E t \in Threads : Step(t)
<1>1. PICK t \in Threads : Begins(t) \/ Resumes(t) \/ TimeRunsOut(t) \/ WakesUnasked(t)
  BY DEF Next
<1> SUFFICES Step(t)
  BY <1>1
<1>2. /\ call[t].op = "idle" => ~Asleep(t)
      /\ call[t].op # "idle" => alive
      /\ call[t].op = "idle" /\ ~Dying => alive
      /\ call[t] \in Calls
  BY IdleIsAwake
<1>3. /\ dequeue_waiters \in Nat /\ enqueue_waiters \in Nat /\ unblock_sig_waiters \in Nat
      /\ sleeping \in [Signalers -> SUBSET Threads]
  BY DEF CallInv, CallTypes
<1>4. CASE \E wait \in Patience : Enqueue(t, wait)
  <2>1. PICK wait \in Patience : Enqueue(t, wait)
    BY <1>4
  <2>2. NextItem \in Items /\ outcome[NextItem] = "unused"
    BY <2>1 DEF Enqueue, NextItem, Unused
  <2> DEFINE c == Call("enqueue", wait, NextItem, 0)
  <2>3. c \in Calls /\ c.op = "enqueue" /\ c.mine = NextItem /\ c.item = NextItem /\ ~c.expired
    BY <2>2, CallsMade DEF Call
  <2>4. EntersEnqueue(t, c, enqueue_waiters + 1)
    <3> HIDE DEF c
    <3> QED
      BY <1>2, <1>3, <2>1, <2>2, <2>3
      DEF EntersEnqueue, Enters, Enqueue, CanCall, One, EnqueueOps
  <2> QED
    BY <1>3, <2>1, <2>3, <2>4 DEF Enqueue, Step
<1>5. CASE EnqueueResumes(t)
  <2>1. EntersEnqueue(t, call[t], enqueue_waiters)
    BY <1>2, <1>3, <1>5
    DEF EntersEnqueue, Enters, EnqueueResumes, Awake, One, EnqueueOps
  <2> QED
    BY <1>2, <1>3, <1>5, <2>1 DEF EnqueueResumes, Step
<1>6. CASE \E wait \in Patience : Dequeue(t, wait)
  <2>1. PICK wait \in Patience : Dequeue(t, wait)
    BY <1>6
  <2> DEFINE c == Call("dequeue", wait, NoItem, 0)
  <2>2. c \in Calls /\ c.op = "dequeue" /\ ~c.expired
    BY CallsMade DEF Call
  <2>3. DequeueNotice \in [Signalers -> SUBSET Threads]
    BY NoticeLeaves DEF CallInv
  <2>4. EntersDequeue(t, c, dequeue_waiters + 1, DequeueNotice)
    <3> HIDE DEF c
    <3> QED
      BY <1>2, <1>3, <2>1, <2>2
      DEF EntersDequeue, Enters, Dequeue, CanCall, One, DequeueOps
  <2> QED
    BY <1>3, <2>1, <2>2, <2>3, <2>4 DEF Dequeue, Step
<1>7. CASE DequeueResumes(t)
  <2>1. EntersDequeue(t, call[t], dequeue_waiters, sleeping)
    BY <1>2, <1>3, <1>7
    DEF EntersDequeue, Enters, DequeueResumes, Awake, One, DequeueOps
  <2> QED
    BY <1>2, <1>3, <1>7, <2>1 DEF DequeueResumes, Step
<1>8. CASE WaitUntilEmpty(t)
  <2> DEFINE c == Call("waitEmpty", "forever", NoItem, 0)
  <2>1. c \in Calls /\ c.op = "waitEmpty"
    BY CallsMade DEF Call, Patience
  <2>2. EntersWaitEmpty(t, c, enqueue_waiters + 1)
    <3> HIDE DEF c
    <3> QED
      BY <1>2, <1>3, <1>8, <2>1
      DEF EntersWaitEmpty, Enters, WaitUntilEmpty, CanCall, One, EnqueueOps
  <2> QED
    BY <1>3, <1>8, <2>1, <2>2 DEF WaitUntilEmpty, Step
<1>9. CASE WaitUntilEmptyResumes(t)
  <2>1. EntersWaitEmpty(t, call[t], enqueue_waiters)
    BY <1>2, <1>3, <1>9
    DEF EntersWaitEmpty, Enters, WaitUntilEmptyResumes, Awake, One, EnqueueOps
  <2> QED
    BY <1>2, <1>3, <1>9, <2>1 DEF WaitUntilEmptyResumes, Step
<1>10. CASE \E num \in 0 .. Cardinality(Threads) - 1 : WaitForNumBlockedDequeues(t, num)
  <2>1. PICK num \in 0 .. Cardinality(Threads) - 1 : WaitForNumBlockedDequeues(t, num)
    BY <1>10
  <2> DEFINE c == Call("waitBlocked", "forever", NoItem, num)
  <2>2. c \in Calls /\ c.op = "waitBlocked"
    BY CallsMade DEF Call, Patience
  <2>3. EntersWaitBlocked(t, c, unblock_sig_waiters + 1)
    <3> HIDE DEF c
    <3> QED
      BY <1>2, <1>3, <2>1, <2>2
      DEF EntersWaitBlocked, Enters, WaitForNumBlockedDequeues, CanCall, One, UnblockOps
  <2> QED
    BY <1>3, <2>1, <2>2, <2>3 DEF WaitForNumBlockedDequeues, Step
<1>11. CASE WaitForBlockedResumes(t)
  <2>1. EntersWaitBlocked(t, call[t], unblock_sig_waiters)
    BY <1>2, <1>3, <1>11
    DEF EntersWaitBlocked, Enters, WaitForBlockedResumes, Awake, One, UnblockOps
  <2> QED
    BY <1>2, <1>3, <1>11, <2>1 DEF WaitForBlockedResumes, Step
<1>12. CASE Destroy(t)
  <2> DEFINE none == [s \in Signalers |-> {}]
  <2>1. none \in [Signalers -> SUBSET Threads]
    OBVIOUS
  <2>2. EntersDestroy(t, unblock_sig_waiters + 1, none)
    BY <1>2, <1>12 DEF EntersDestroy, Destroy, CanCall
  <2> HIDE DEF none
  <2>3. DestroySegment(t, unblock_sig_waiters + 1, none) /\ UNCHANGED <<store, history>>
    BY <1>12 DEF Destroy, none
  <2>4. unblock_sig_waiters + 1 \in Nat
    BY <1>3
  <2> QED
    BY <2>1, <2>2, <2>3, <2>4 DEF Step
<1>13. CASE DestroyResumes(t)
  <2>1. EntersDestroy(t, unblock_sig_waiters, sleeping)
    BY <1>2, <1>13 DEF EntersDestroy, DestroyResumes, Awake
  <2> QED
    BY <1>3, <1>13, <2>1 DEF DestroyResumes, Step
<1>14. CASE OfferWaits(t) \/ OfferWithdrawn(t) \/ OfferTaken(t)
  BY <1>14 DEF Step, Offering
<1>15. CASE Sets(t) \/ TimeRunsOut(t) \/ WakesUnasked(t)
  BY <1>15 DEF Step
<1> QED
  BY <1>1, <1>4, <1>5, <1>6, <1>7, <1>8, <1>9, <1>10, <1>11, <1>12, <1>13, <1>14, <1>15
  DEF Begins, Resumes, Sets

(***************************************************************************)
(* Every step moves one thread, and counts it right.                       *)
(***************************************************************************)
LEMMA NoneLeftWhenCountsAreZero ==
  ASSUME CallInv, NEW t \in Threads, NEW uw \in Nat, NEW asleep, EntersDestroy(t, uw, asleep),
         ~(dequeue_waiters > 0 \/ enqueue_waiters > 0 \/ uw > 1)
  PROVE  \A u \in Threads \ {t} : call[u].op = "idle"
<1>1. /\ dequeue_waiters = Cardinality(In({"dequeue"}))
      /\ enqueue_waiters = Cardinality(In({"enqueue", "offer", "waitEmpty"}))
      /\ unblock_sig_waiters = Cardinality(In({"waitBlocked", "destroy"}))
      /\ dequeue_waiters = 0 /\ enqueue_waiters = 0
      /\ unblock_sig_waiters \in Nat /\ call \in [Threads -> Calls]
  BY DEF CallInv, CallTypes, WaitersCounted
<1>2. \A ops : IsFiniteSet(In(ops))
  BY PipeAssumption, FS_Subset DEF In
<1>3. In({"dequeue"}) = {} /\ In({"enqueue", "offer", "waitEmpty"}) = {}
  BY <1>1, <1>2, FS_EmptySet
<1>4. In({"waitBlocked", "destroy"}) \subseteq {t}
  <2>1. CASE call[t].op = "idle"
    <3>1. unblock_sig_waiters = 0
      BY <1>1, <2>1 DEF EntersDestroy
    <3> QED
      BY <1>1, <1>2, <3>1, FS_EmptySet
  <2>2. CASE call[t].op = "destroy"
    <3>1. t \in In({"waitBlocked", "destroy"})
      BY <2>2 DEF In
    <3>2. Cardinality(In({"waitBlocked", "destroy"})) = 1
      <4>1. Cardinality(In({"waitBlocked", "destroy"})) <= 1
        BY <1>1, <2>2 DEF EntersDestroy
      <4>2. Cardinality(In({"waitBlocked", "destroy"})) # 0
        BY <1>2, <3>1, FS_EmptySet
      <4> QED
        BY <1>1, <4>1, <4>2
    <3>3. PICK x : In({"waitBlocked", "destroy"}) = {x}
      BY <1>2, <3>2, FS_Singleton
    <3> QED
      BY <3>1, <3>3
  <2> QED
    BY <2>1, <2>2 DEF EntersDestroy
<1>5. \A u \in Threads : call[u].op \in {"idle", "dequeue", "enqueue", "offer", "waitEmpty",
                                        "waitBlocked", "destroy"}
  BY <1>1 DEF Calls
<1> QED
  BY <1>3, <1>4, <1>5 DEF In

LEMMA StepMoves ==
  ASSUME CallInv, StoreTypes, NEW t \in Threads, Step(t)
  PROVE  (\E c : Moves(t, c)) /\ alive' \in BOOLEAN /\ NoneInsideAfterDestroy'
<1> USE DEF DequeueOps, EnqueueOps, UnblockOps
<1>1. /\ dequeue_waiters \in Nat /\ enqueue_waiters \in Nat /\ unblock_sig_waiters \in Nat
      /\ sleeping \in [Signalers -> SUBSET Threads]
      /\ call \in [Threads -> Calls] /\ call[t] \in Calls
  BY DEF CallInv, CallTypes
<1>2. Idle \in Calls /\ Idle.op = "idle"
  BY CallsMade DEF Patience, Idle
<1>3. "enqueue_sig" \in Signalers /\ "unblock_sig" \in Signalers /\ "dequeue_sig" \in Signalers
  BY DEF Signalers
<1>4. \A s \in Signalers : \A u \in sleeping[s] : Matches(s, call[u])
  BY DEF CallInv, SleepersMatch
<1>5. ~Asleep(t) => \A s \in Signalers : t \notin sleeping[s]
  BY DEF Asleep
<1>6. ASSUME alive, UNCHANGED alive PROVE NoneInsideAfterDestroy' /\ alive' \in BOOLEAN
  BY <1>6 DEF NoneInsideAfterDestroy, CallInv, CallTypes
<1>7. ASSUME NEW c \in Calls, NEW ew \in Nat, EntersEnqueue(t, c, ew), EnqueueSegment(t, c, ew)
      PROVE  (\E d : Moves(t, d)) /\ UNCHANGED alive
  <2>1. CASE EnqueueWaits(t, c, ew)
    <3>1. Moves(t, c)
      BY <1>1, <1>3, <1>5, <1>7, <2>1
      DEF EnqueueWaits, Sleep, Moves, Counts, Settles, Matches, One, EntersEnqueue, Enters
    <3> QED
      BY <2>1, <3>1 DEF EnqueueWaits
  <2>2. CASE EnqueueFails(t, c, ew)
    <3>1. Moves(t, Idle)
      BY <1>1, <1>2, <1>3, <1>5, <1>7, <2>2, Notifications
      DEF EnqueueFails, Return, Moves, Counts, Settles, Matches, One, EntersEnqueue, Enters
    <3> QED
      BY <2>2, <3>1 DEF EnqueueFails
  <2>3. CASE EnqueuePuts(t, c, ew)
    <3>1. PICK asleep \in IF dequeue_waiters > 0 THEN Signalled("dequeue_sig", sleeping)
                          ELSE {sleeping} :
            IF MaxSize > 0
            THEN enqueue_waiters' = ew - 1 /\ sleeping' = asleep /\ Return(t)
            ELSE /\ Sleep(t, "enqueue_sig",
                          [c EXCEPT !.op = "offer", !.item = data[last']], asleep)
                 /\ enqueue_waiters' = ew
      BY <2>3 DEF EnqueuePuts
    <3>2. /\ asleep \in [Signalers -> SUBSET Threads]
          /\ \A r \in Signalers : asleep[r] \subseteq sleeping[r]
      BY <1>1, <1>3, Notifications
    <3>3. UNCHANGED <<dequeue_waiters, unblock_sig_waiters, alive>>
      BY <2>3 DEF EnqueuePuts
    <3>4. CASE MaxSize > 0
      <4>1. Moves(t, Idle)
        BY <1>1, <1>2, <1>5, <1>7, <3>1, <3>2, <3>3, <3>4
        DEF Return, Moves, Counts, Settles, One, EntersEnqueue, Enters
      <4> QED
        BY <4>1, <3>3
    <3>5. CASE ~(MaxSize > 0)
      <4> DEFINE d == [c EXCEPT !.op = "offer", !.item = data[last']]
      <4>1. d \in Calls /\ d.op = "offer"
        <5>1. last' = 0
          <6>1. pipe_size = 0
            BY <3>5, NumbersAreNumbers DEF StoreTypes
          <6> QED
            BY <2>3, <6>1 DEF EnqueuePuts
        <5>2. data[0] \in Items \cup {NoItem} /\ c.item \in Items \cup {NoItem}
          BY NumbersAreNumbers DEF StoreTypes, Calls
        <5>3. data' = [data EXCEPT ![0] = c.item]
          BY <2>3, <5>1 DEF EnqueuePuts
        <5> QED
          BY <5>1, <5>2, <5>3 DEF Calls, StoreTypes
      <4>2. Sleep(t, "enqueue_sig", d, asleep) /\ enqueue_waiters' = ew
        BY <3>1, <3>5
      <4> HIDE DEF d
      <4>3. Moves(t, d)
        BY <1>1, <1>3, <1>5, <1>7, <3>2, <3>3, <4>1, <4>2
        DEF Sleep, Moves, Counts, Settles, Matches, One, EntersEnqueue, Enters
      <4> QED
        BY <4>3, <3>3
    <3> QED
      BY <3>4, <3>5
  <2> QED
    BY <1>7, <2>1, <2>2, <2>3 DEF EnqueueSegment
<1>8. ASSUME Offering(t) PROVE (\E d : Moves(t, d)) /\ UNCHANGED alive /\ alive
  <2>1. ~Asleep(t) /\ call[t].op = "offer" /\ alive
    BY <1>8, IdleIsAwake DEF Offering, OfferWaits, OfferWithdrawn, OfferTaken, Awake
  <2>2. CASE OfferWaits(t)
    <3>1. Moves(t, call[t])
      BY <1>1, <1>3, <1>5, <2>1, <2>2
      DEF OfferWaits, waiters, Sleep, Moves, Counts, Settles, Matches
    <3> QED
      BY <2>1, <2>2, <3>1 DEF OfferWaits
  <2>3. CASE OfferWithdrawn(t)
    <3>1. Quieter(sleeping', sleeping)
      BY <1>1, <1>3, <2>3, BroadcastIsQuieter DEF OfferWithdrawn, BroadcastIf
    <3>2. Moves(t, Idle)
      BY <1>1, <1>2, <1>5, <2>1, <2>3, <3>1
      DEF OfferWithdrawn, Quieter, Return, Moves, Counts, Settles, One
    <3> QED
      BY <2>1, <2>3, <3>2 DEF OfferWithdrawn
  <2>4. CASE OfferTaken(t)
    <3> DEFINE asleep == BroadcastIf(enqueue_waiters > 1, "enqueue_sig", sleeping)
    <3>1. Quieter(asleep, sleeping)
      BY <1>1, <1>3, BroadcastIsQuieter DEF BroadcastIf
    <3>2. sleeping' = BroadcastIf(~enabled /\ unblock_sig_waiters > 0, "unblock_sig", asleep)
      BY <2>4 DEF OfferTaken
    <3> HIDE DEF asleep
    <3>3. Quieter(sleeping', asleep)
      BY <1>3, <3>1, <3>2, BroadcastIsQuieter DEF BroadcastIf, Quieter
    <3>4. Moves(t, Idle)
      BY <1>1, <1>2, <1>5, <2>1, <2>4, <3>1, <3>3
      DEF OfferTaken, Quieter, Return, Moves, Counts, Settles, One
    <3> QED
      BY <2>1, <2>4, <3>4 DEF OfferTaken
  <2> QED
    BY <1>8, <2>2, <2>3, <2>4 DEF Offering
<1>9. ASSUME NEW c \in Calls, NEW dw \in Nat, NEW asleep \in [Signalers -> SUBSET Threads],
             EntersDequeue(t, c, dw, asleep), DequeueSegment(t, c, dw, asleep)
      PROVE  (\E d : Moves(t, d)) /\ UNCHANGED alive
  <2>1. \A r \in Signalers : asleep[r] \subseteq sleeping[r]
    BY <1>9, NoticeLeaves DEF EntersDequeue, CallInv
  <2>2. CASE DequeueWaits(t, c, dw, asleep)
    <3>1. Moves(t, c)
      BY <1>1, <1>3, <1>5, <1>9, <2>1, <2>2
      DEF DequeueWaits, Sleep, Moves, Counts, Settles, Matches, One, EntersDequeue, Enters
    <3> QED
      BY <2>2, <3>1 DEF DequeueWaits
  <2>3. CASE DequeueFails(t, c, dw, asleep)
    <3>1. Moves(t, Idle)
      BY <1>1, <1>2, <1>3, <1>5, <1>9, <2>1, <2>3, Notifications
      DEF DequeueFails, Return, Moves, Counts, Settles, One, EntersDequeue, Enters
    <3> QED
      BY <2>3, <3>1 DEF DequeueFails
  <2>4. CASE DequeueTakes(t, c, dw, asleep)
    <3>1. Quieter(sleeping', asleep)
      BY <1>3, <2>4, BroadcastIsQuieter DEF DequeueTakes, BroadcastIf
    <3>2. Moves(t, Idle)
      BY <1>1, <1>2, <1>5, <1>9, <2>1, <2>4, <3>1
      DEF DequeueTakes, Quieter, Return, Moves, Counts, Settles, One, EntersDequeue, Enters
    <3> QED
      BY <2>4, <3>2 DEF DequeueTakes
  <2> QED
    BY <1>9, <2>2, <2>3, <2>4 DEF DequeueSegment
<1>10. ASSUME NEW c \in Calls, NEW ew \in Nat, EntersWaitEmpty(t, c, ew),
              WaitUntilEmptySegment(t, c, ew)
       PROVE  (\E d : Moves(t, d)) /\ UNCHANGED alive
  <2>1. CASE pipe_size > 0 /\ enabled /\ dequeue_enabled
    <3>1. Moves(t, c) /\ UNCHANGED alive
      BY <1>1, <1>3, <1>5, <1>10, <2>1
      DEF WaitUntilEmptySegment, Sleep, Moves, Counts, Settles, Matches, One,
          EntersWaitEmpty, Enters
    <3> QED
      BY <3>1
  <2>2. CASE ~(pipe_size > 0 /\ enabled /\ dequeue_enabled)
    <3>1. Quieter(sleeping', sleeping)
      BY <1>1, <1>3, <1>10, <2>2, BroadcastIsQuieter DEF WaitUntilEmptySegment, BroadcastIf
    <3>2. Return(t) /\ enqueue_waiters' = ew - 1 /\ UNCHANGED <<dequeue_waiters, unblock_sig_waiters, alive>>
      BY <1>10, <2>2 DEF WaitUntilEmptySegment
    <3>3. Moves(t, Idle)
      BY <1>1, <1>2, <1>5, <1>10, <3>1, <3>2
      DEF Quieter, Return, Moves, Counts, Settles, One, EntersWaitEmpty, Enters
    <3> QED
      BY <3>2, <3>3
  <2> QED
    BY <2>1, <2>2
<1>11. ASSUME NEW c \in Calls, NEW uw \in Nat, EntersWaitBlocked(t, c, uw),
              WaitForBlockedSegment(t, c, uw)
       PROVE  (\E d : Moves(t, d)) /\ UNCHANGED alive
  <2>1. CASE (dequeue_waiters < c.num \/ pipe_size # 0) /\ enabled /\ dequeue_enabled
    <3>1. /\ Sleep(t, "unblock_sig", c, sleeping) /\ unblock_sig_waiters' = uw
          /\ UNCHANGED <<dequeue_waiters, enqueue_waiters, alive>>
      BY <1>11, <2>1 DEF WaitForBlockedSegment
    <3>2. Moves(t, c)
      BY <1>1, <1>3, <1>5, <1>11, <3>1
      DEF Sleep, Moves, Counts, Settles, Matches, One, EntersWaitBlocked, Enters
    <3> QED
      BY <3>1, <3>2
  <2>2. CASE ~((dequeue_waiters < c.num \/ pipe_size # 0) /\ enabled /\ dequeue_enabled)
    <3>1. Quieter(sleeping', sleeping)
      BY <1>1, <1>3, <1>11, <2>2, BroadcastIsQuieter DEF WaitForBlockedSegment, BroadcastIf
    <3>2. Return(t) /\ unblock_sig_waiters' = uw - 1 /\ UNCHANGED <<dequeue_waiters, enqueue_waiters, alive>>
      BY <1>11, <2>2 DEF WaitForBlockedSegment
    <3>3. Moves(t, Idle)
      BY <1>1, <1>2, <1>5, <1>11, <3>1, <3>2
      DEF Quieter, Return, Moves, Counts, Settles, One, EntersWaitBlocked, Enters
    <3> QED
      BY <3>2, <3>3
  <2> QED
    BY <2>1, <2>2
<1>12. ASSUME Sets(t) PROVE (\E d : Moves(t, d)) /\ UNCHANGED alive /\ alive
  <2>1. UNCHANGED <<waiters, call, alive>> /\ CanCall(t)
    BY <1>12 DEF Sets, Empty, Enable, Disable, EnableEnqueue, DisableEnqueue, EnableDequeue,
                 DisableDequeue
  <2>2. /\ sleeping' \in [Signalers -> SUBSET Threads]
        /\ \A r \in Signalers : sleeping'[r] \subseteq sleeping[r]
    <3>1. CASE Disable(t)
      BY <1>1, <3>1 DEF Disable
    <3>2. CASE Empty(t) \/ DisableEnqueue(t) \/ DisableDequeue(t)
      <4>1. \/ sleeping' = sleeping
            \/ sleeping' = Broadcast("enqueue_sig", sleeping)
            \/ sleeping' = Broadcast("dequeue_sig", sleeping)
        BY <3>2 DEF Empty, BroadcastIf, DisableEnqueue, DisableDequeue
      <4> QED
        BY <1>1, <1>3, <4>1, BroadcastIsQuieter DEF Quieter
    <3>3. CASE Enable(t) \/ EnableEnqueue(t) \/ EnableDequeue(t)
      BY <1>1, <3>3 DEF Enable, EnableEnqueue, EnableDequeue
    <3> QED
      BY <1>12, <3>1, <3>2, <3>3 DEF Sets
  <2>3. Moves(t, call[t])
    BY <1>1, <1>4, <2>1, <2>2 DEF Moves, Counts, Settles, waiters
  <2> QED
    BY <2>1, <2>3, IdleIsAwake DEF CanCall
<1>13. ASSUME NEW uw \in Nat, NEW asleep \in [Signalers -> SUBSET Threads],
              EntersDestroy(t, uw, asleep), DestroySegment(t, uw, asleep)
       PROVE  (\E d : Moves(t, d)) /\ NoneInsideAfterDestroy' /\ alive' \in BOOLEAN
  <2> DEFINE c == Call("destroy", "forever", NoItem, 0)
  <2>1. c \in Calls /\ c.op = "destroy"
    BY CallsMade DEF Call, Patience
  <2>2. /\ \A r \in Signalers : asleep[r] \subseteq sleeping[r]
        /\ uw + One(call[t], UnblockOps) = unblock_sig_waiters + 1
        /\ call[t].op \in {"idle", "destroy"} /\ ~Asleep(t) /\ alive
    BY <1>1, <1>13 DEF EntersDestroy, One
  <2>3. CASE dequeue_waiters > 0 \/ enqueue_waiters > 0 \/ uw > 1
    <3>1. /\ Sleep(t, "unblock_sig", c, asleep)
          /\ unblock_sig_waiters' = uw
          /\ UNCHANGED <<dequeue_waiters, enqueue_waiters, alive>>
      BY <1>13, <2>3 DEF DestroySegment
    <3> HIDE DEF c
    <3>2. Moves(t, c)
      BY <1>1, <1>3, <1>5, <1>13, <2>1, <2>2, <3>1
      DEF Sleep, Moves, Counts, Settles, Matches, One
    <3> QED
      BY <1>6, <2>2, <3>1, <3>2
  <2>4. CASE ~(dequeue_waiters > 0 \/ enqueue_waiters > 0 \/ uw > 1)
    <3>1. /\ alive' = FALSE /\ unblock_sig_waiters' = uw - 1 /\ sleeping' = asleep /\ Return(t)
          /\ UNCHANGED <<dequeue_waiters, enqueue_waiters>>
      BY <1>13, <2>4 DEF DestroySegment
    <3>2. Moves(t, Idle)
      BY <1>1, <1>2, <1>5, <1>13, <2>2, <3>1 DEF Return, Moves, Counts, Settles, One
    <3>3. \A u \in Threads \ {t} : call[u].op = "idle"
      BY <1>13, <2>4, NoneLeftWhenCountsAreZero
    <3>4. NoneInsideAfterDestroy'
      BY <1>1, <1>2, <3>1, <3>3 DEF Return, NoneInsideAfterDestroy
    <3> QED
      BY <3>1, <3>2, <3>4
  <2> QED
    BY <2>3, <2>4
<1>14. ASSUME TimeRunsOut(t) PROVE (\E d : Moves(t, d)) /\ UNCHANGED alive /\ alive
  <2> DEFINE d == [call[t] EXCEPT !.expired = TRUE]
  <2>1. d \in Calls /\ d.op = call[t].op
    BY <1>1 DEF Calls
  <2>2. call' = [call EXCEPT ![t] = d]
    BY <1>1, <1>14 DEF TimeRunsOut
  <2>3. /\ sleeping' \in [Signalers -> SUBSET Threads]
        /\ \A s \in Signalers : sleeping'[s] = sleeping[s] \ {t}
    BY <1>1, <1>14 DEF TimeRunsOut
  <2> HIDE DEF d
  <2>4. Moves(t, d)
    <3>1. UNCHANGED <<dequeue_waiters, enqueue_waiters, unblock_sig_waiters>>
      BY <1>14 DEF TimeRunsOut, waiters
    <3>2. Counts(t, d)
      BY <2>1, <3>1 DEF Counts, One
    <3>3. Settles(t, d)
      BY <1>1, <2>3 DEF Settles
    <3> QED
      BY <1>1, <2>1, <2>2, <3>1, <3>2, <3>3 DEF Moves
  <2> QED
    BY <1>14, <2>4, IdleIsAwake DEF TimeRunsOut
<1>15. ASSUME WakesUnasked(t) PROVE (\E d : Moves(t, d)) /\ UNCHANGED alive /\ alive
  <2>1. /\ sleeping' \in [Signalers -> SUBSET Threads]
        /\ \A s \in Signalers : sleeping'[s] = sleeping[s] \ {t}
    BY <1>1, <1>15 DEF WakesUnasked
  <2>2. Moves(t, call[t])
    BY <1>1, <1>15, <2>1 DEF WakesUnasked, waiters, Moves, Counts, Settles
  <2> QED
    BY <1>15, <2>2, IdleIsAwake DEF WakesUnasked
<1>16. \A c \in Calls, n \in Nat :
         (EntersEnqueue(t, c, n) \/ EntersWaitEmpty(t, c, n) \/ EntersWaitBlocked(t, c, n)) => alive
  BY DEF EntersEnqueue, EntersWaitEmpty, EntersWaitBlocked, Enters
<1>17. \A c \in Calls, n \in Nat : \A a : EntersDequeue(t, c, n, a) => alive
  BY DEF EntersDequeue, Enters
<1> QED
  BY <1>6, <1>7, <1>8, <1>9, <1>10, <1>11, <1>12, <1>13, <1>14, <1>15, <1>16, <1>17 DEF Step

LEMMA CallInvKept == CallInv /\ StoreTypes /\ [Next]_vars => CallInv'
<1> SUFFICES ASSUME CallInv, StoreTypes, [Next]_vars PROVE CallInv'
  OBVIOUS
<1>1. CASE Next
  <2>1. PICK t \in Threads : Step(t)
    BY <1>1, StepCases
  <2>2. PICK c : Moves(t, c)
    BY <2>1, StepMoves
  <2>3. alive' \in BOOLEAN /\ NoneInsideAfterDestroy'
    BY <2>1, StepMoves
  <2>4. CallTypes
    BY DEF CallInv
  <2> QED
    BY <2>2, <2>3, <2>4, MovesKeepsCounts DEF CallInv
<1>2. CASE UNCHANGED vars
  BY <1>2 DEF vars, store, flags, waiters, history, CallInv, CallTypes, WaitersCounted, In,
              SleepersMatch, Matches, NoneInsideAfterDestroy
<1> QED
  BY <1>1, <1>2

(***************************************************************************)
(* The store. A step that neither touches it nor moves an item is quiet.   *)
(***************************************************************************)
LEMMA AroundTheRing ==
  ASSUME MaxSize > 0, NEW a \in Slots, NEW k \in 0 .. MaxSize
  PROVE  /\ (a + k) % MaxSize = IF a + k < MaxSize THEN a + k ELSE a + k - MaxSize
         /\ (a + k) % MaxSize \in Slots
<1>1. MaxSize \in Nat /\ a \in 0 .. MaxSize - 1
  BY NumbersAreNumbers DEF Slots
<1>2. (a + k) % MaxSize = IF a + k < MaxSize THEN a + k ELSE a + k - MaxSize
  <2>1. CASE a + k < MaxSize
    BY <1>1, <2>1, Z3
  <2>2. CASE ~(a + k < MaxSize)
    <3>1. a + k - MaxSize \in 0 .. MaxSize - 1 /\ a + k = MaxSize * 1 + (a + k - MaxSize)
      BY <1>1, <2>2
    <3> QED
      BY <1>1, <2>2, <3>1, Z3
  <2> QED
    BY <2>1, <2>2
<1> QED
  BY <1>1, <1>2, NumbersAreNumbers DEF Slots

FlagTypes == enabled \in BOOLEAN /\ enqueue_enabled \in BOOLEAN /\ dequeue_enabled \in BOOLEAN

SameItem(t, c) ==
  \/ c.op = call[t].op /\ c.mine = call[t].mine /\ c.item = call[t].item
  \/ c.op \notin {"enqueue", "offer"} /\ ~Passes(t)
Quiet(t, c) ==
  /\ UNCHANGED <<first, last, data, history>>
  /\ pipe_size' \in {0, pipe_size}
  /\ call' = [call EXCEPT ![t] = c]
  /\ SameItem(t, c)

LEMMA QuietKeepsOffers ==
  ASSUME CallTypes, NEW t \in Threads, NEW c, call' = [call EXCEPT ![t] = c], SameItem(t, c)
  PROVE  \A u \in Threads :
           /\ Passes(u)' = Passes(u) /\ Offers(u)' = Offers(u)
           /\ (call'[u].op = "enqueue") = (call[u].op = "enqueue")
           /\ Passes(u) => call'[u].mine = call[u].mine /\ call'[u].item = call[u].item
BY DEF CallTypes, SameItem, Passes, Offers

LEMMA QuietKeepsStore ==
  ASSUME CallTypes, StoreInv, NEW t \in Threads, NEW c, Quiet(t, c), FlagTypes'
  PROVE  StoreInv'
<1>1. \A u \in Threads :
        /\ Passes(u)' = Passes(u) /\ Offers(u)' = Offers(u)
        /\ (call'[u].op = "enqueue") = (call[u].op = "enqueue")
        /\ Passes(u) => call'[u].mine = call[u].mine /\ call'[u].item = call[u].item
  BY QuietKeepsOffers DEF Quiet
<1>2. \A u \in Threads : Offers(u) => Passes(u)
  BY DEF Offers, Passes
<1>3. /\ first' = first /\ last' = last /\ data' = data /\ taken' = taken
      /\ outcome' = outcome /\ pipe_size' \in {0, pipe_size} /\ MaxSize \in Nat
  BY NumbersAreNumbers DEF Quiet, history
<1>4. StoreTypes'
  BY <1>3 DEF StoreInv, StoreTypes, FlagTypes
<1>5. ItemsOwned'
  <2>1. \A u \in Threads : call[u].op = "enqueue" => Passes(u)
    BY DEF Passes
  <2> QED
    BY <1>1, <1>3, <2>1 DEF StoreInv, ItemsOwned
<1>6. HandOver'
  BY <1>1, <1>2, <1>3 DEF StoreInv, HandOver
<1>7. RingInOrder'
  <2>1. CASE pipe_size' = pipe_size
    BY <1>3, <2>1 DEF StoreInv, RingInOrder, Cell
  <2>2. CASE pipe_size' = 0
    BY <2>2 DEF RingInOrder
  <2> QED
    BY <1>3, <2>1, <2>2
<1>8. TakenKnown'
  BY <1>1, <1>2, <1>3 DEF StoreInv, TakenKnown
<1> QED
  BY <1>4, <1>5, <1>6, <1>7, <1>8 DEF StoreInv

(* The item that an enqueue() brings is its own.                           *)
LEMMA EnqueueOwns ==
  ASSUME CallTypes, StoreInv, NEW t \in Threads, NEW c \in Calls, NEW ew \in Nat,
         EntersEnqueue(t, c, ew)
  PROVE  /\ c.mine \in Items /\ c.item = c.mine /\ c.op = "enqueue"
         /\ outcome[c.mine] \in {"unused", "pending"}
         /\ call[t].op = "enqueue" => outcome[c.mine] = "pending" /\ call[t] = c
         /\ call[t].op \in {"idle", "enqueue"} /\ ~Offers(t)
         /\ \A u \in Threads \ {t} : Passes(u) => call[u].mine # c.mine
         /\ \A k \in DOMAIN taken : taken[k] # c.mine
<1>1. /\ \A u \in Threads : Passes(u) => call[u].mine \in Items /\ outcome[call[u].mine] = "pending"
      /\ \A u, v \in Threads : Passes(u) /\ Passes(v) /\ u # v => call[u].mine # call[v].mine
      /\ \A u \in Threads : call[u].op = "enqueue" => call[u].item = call[u].mine
  BY DEF StoreInv, ItemsOwned
<1>2. /\ c.mine \in Items /\ c.item = c.mine /\ c.op = "enqueue"
      /\ call[t].op \in {"idle", "enqueue"} /\ ~Offers(t)
      /\ call[t].op = "idle" => outcome[c.mine] = "unused"
      /\ call[t].op = "enqueue" => outcome[c.mine] = "pending" /\ call[t] = c
  BY <1>1 DEF EntersEnqueue, Enters, Passes, Offers
<1>3. ASSUME NEW u \in Threads \ {t}, Passes(u) PROVE call[u].mine # c.mine
  <2>1. CASE call[t].op = "enqueue"
    BY <1>1, <1>2, <1>3, <2>1 DEF Passes
  <2>2. CASE call[t].op = "idle"
    BY <1>1, <1>2, <1>3, <2>2
  <2> QED
    BY <1>2, <2>1, <2>2
<1>4. ASSUME NEW k \in DOMAIN taken PROVE taken[k] # c.mine
  <2>1. CASE outcome[taken[k]] = "accepted"
    BY <1>2, <2>1
  <2>2. CASE \E u \in Threads : Offers(u) /\ call[u].mine = taken[k]
    BY <1>2, <1>3, <2>2 DEF Offers, Passes
  <2> QED
    BY <2>1, <2>2 DEF StoreInv, TakenKnown
<1> QED
  BY <1>2, <1>3, <1>4

LEMMA EnqueueWaitsKeepsStore ==
  ASSUME CallTypes, StoreInv, NEW t \in Threads, NEW c \in Calls, NEW ew \in Nat,
         EntersEnqueue(t, c, ew), EnqueueWaits(t, c, ew)
  PROVE  StoreInv'
<1>1. /\ c.mine \in Items /\ c.item = c.mine /\ c.op = "enqueue"
      /\ outcome[c.mine] \in {"unused", "pending"}
      /\ call[t].op \in {"idle", "enqueue"} /\ ~Offers(t)
      /\ \A u \in Threads \ {t} : Passes(u) => call[u].mine # c.mine
      /\ \A k \in DOMAIN taken : taken[k] # c.mine
  BY EnqueueOwns
<1>2. /\ pipe_size' = pipe_size /\ first' = first /\ last' = last /\ data' = data
      /\ taken' = taken /\ UNCHANGED flags
      /\ outcome' = [outcome EXCEPT ![c.mine] = "pending"]
      /\ call' = [call EXCEPT ![t] = c]
  BY DEF EnqueueWaits, store, Sleep
<1>3. /\ call \in [Threads -> Calls]
      /\ outcome \in [Items -> {"unused", "pending", "accepted", "returned"}]
  BY DEF CallTypes, StoreInv, StoreTypes
<1>4. /\ \A u \in Threads : Offers(u)' = Offers(u)
      /\ \A u \in Threads \ {t} : Passes(u)' = Passes(u) /\ call'[u] = call[u]
      /\ call'[t] = c
      /\ \A u \in Threads : Offers(u) => u # t
  BY <1>1, <1>2, <1>3 DEF Offers, Passes
<1>5. StoreTypes'
  BY <1>1, <1>2, <1>3 DEF StoreInv, StoreTypes, flags
<1>6. ItemsOwned'
  BY <1>1, <1>2, <1>3, <1>4 DEF StoreInv, ItemsOwned
<1>7. HandOver'
  BY <1>2, <1>4 DEF StoreInv, HandOver
<1>8. RingInOrder'
  BY <1>1, <1>2, <1>3 DEF StoreInv, RingInOrder, Cell
<1>9. TakenKnown'
  BY <1>1, <1>2, <1>3, <1>4 DEF StoreInv, TakenKnown
<1> QED
  BY <1>5, <1>6, <1>7, <1>8, <1>9 DEF StoreInv

LEMMA EnqueueFailsKeepsStore ==
  ASSUME CallTypes, StoreInv, NEW t \in Threads, NEW c \in Calls, NEW ew \in Nat,
         EntersEnqueue(t, c, ew), EnqueueFails(t, c, ew)
  PROVE  /\ StoreInv'
         /\ outcome' = [outcome EXCEPT ![c.mine] = "returned"]
<1>1. /\ c.mine \in Items /\ c.item = c.mine /\ c.op = "enqueue"
      /\ outcome[c.mine] \in {"unused", "pending"}
      /\ call[t].op \in {"idle", "enqueue"} /\ ~Offers(t)
      /\ \A u \in Threads \ {t} : Passes(u) => call[u].mine # c.mine
      /\ \A k \in DOMAIN taken : taken[k] # c.mine
  BY EnqueueOwns
<1>2. /\ pipe_size' = pipe_size /\ first' = first /\ last' = last /\ data' = data
      /\ taken' = taken /\ UNCHANGED flags
      /\ outcome' = [outcome EXCEPT ![c.mine] = "returned"]
      /\ call' = [call EXCEPT ![t] = Idle]
  BY <1>1 DEF EnqueueFails, store, Return, Refused
<1>3. /\ call \in [Threads -> Calls]
      /\ outcome \in [Items -> {"unused", "pending", "accepted", "returned"}]
  BY DEF CallTypes, StoreInv, StoreTypes
<1>4. /\ \A u \in Threads : Offers(u)' = Offers(u)
      /\ \A u \in Threads \ {t} : Passes(u)' = Passes(u) /\ call'[u] = call[u]
      /\ call'[t].op = "idle" /\ ~Passes(t)'
      /\ \A u \in Threads : Offers(u) => u # t
  BY <1>1, <1>2, <1>3 DEF Offers, Passes, Idle
<1>5. StoreTypes'
  BY <1>1, <1>2, <1>3 DEF StoreInv, StoreTypes, flags
<1>6. ItemsOwned'
  BY <1>1, <1>2, <1>3, <1>4 DEF StoreInv, ItemsOwned
<1>7. HandOver'
  BY <1>2, <1>4 DEF StoreInv, HandOver
<1>8. RingInOrder'
  BY <1>1, <1>2, <1>3 DEF StoreInv, RingInOrder, Cell
<1>9. TakenKnown'
  BY <1>1, <1>2, <1>3, <1>4 DEF StoreInv, TakenKnown
<1> QED
  BY <1>2, <1>5, <1>6, <1>7, <1>8, <1>9 DEF StoreInv

(* Putting an item behind the last one leaves the others where they are.   *)
LEMMA PutInRing ==
  ASSUME CallTypes, StoreInv, MaxSize > 0,
         NEW t \in Threads, NEW c \in Calls, NEW ew \in Nat,
         EntersEnqueue(t, c, ew), EnqueuePuts(t, c, ew)
  PROVE  /\ pipe_size < MaxSize /\ pipe_size' = pipe_size + 1
         /\ first' \in Slots /\ last' \in Slots
         /\ last' = (first' + pipe_size) % MaxSize
         /\ data' = [data EXCEPT ![last'] = c.mine]
         /\ \A k \in 0 .. pipe_size - 1 : Cell(k)' = Cell(k)
         /\ \A k : k = pipe_size => Cell(k)' = c.mine
         /\ outcome' = [outcome EXCEPT ![c.mine] = "accepted"]
         /\ call' = [call EXCEPT ![t] = Idle]
         /\ taken' = taken /\ UNCHANGED flags
<1>1. /\ MaxSize \in Nat /\ Slots = 0 .. MaxSize - 1
      /\ pipe_size \in 0 .. MaxSize
      /\ pipe_size > 0 => first \in Slots /\ last \in Slots
      /\ data \in [Slots -> Items \cup {NoItem}]
  BY NumbersAreNumbers DEF Slots, StoreInv, StoreTypes
<1>2. c.item = c.mine
  BY EnqueueOwns
<1>3. /\ pipe_size < MaxSize
      /\ first' = IF pipe_size = 0 THEN 0 ELSE first
      /\ last' = IF pipe_size = 0 THEN 0 ELSE (last + 1) % MaxSize
      /\ data' = [data EXCEPT ![last'] = c.mine]
      /\ pipe_size' = pipe_size + 1
      /\ outcome' = [outcome EXCEPT ![c.mine] = "accepted"]
      /\ call' = [call EXCEPT ![t] = Idle]
      /\ taken' = taken /\ UNCHANGED flags
  <2>1. ~NoRoom(c) /\ enabled /\ enqueue_enabled
    BY DEF EnqueuePuts
  <2>2. pipe_size # MaxSize
    BY <1>1, <2>1 DEF NoRoom
  <2> QED
    BY <1>1, <1>2, <2>2 DEF EnqueuePuts, Return
<1>4. first' \in Slots /\ last' \in Slots /\ last' = (first' + pipe_size) % MaxSize
  <2>1. CASE pipe_size = 0
    <3>1. 0 \in Slots /\ 0 \in 0 .. MaxSize
      BY <1>1
    <3>2. (0 + 0) % MaxSize = 0
      BY <1>1, <3>1, AroundTheRing
    <3> QED
      BY <1>3, <2>1, <3>1, <3>2
  <2>2. CASE pipe_size > 0
    <3>1. last = (first + (pipe_size - 1)) % MaxSize
      BY <1>1, <2>2 DEF StoreInv, RingInOrder
    <3>2. /\ (last + 1) % MaxSize = IF last + 1 < MaxSize THEN last + 1 ELSE last + 1 - MaxSize
          /\ (last + 1) % MaxSize \in Slots
      BY <1>1, <2>2, AroundTheRing
    <3> DEFINE k == pipe_size - 1
    <3>k. k \in 0 .. MaxSize /\ pipe_size = k + 1 /\ k \in Nat /\ first \in Nat
      BY <1>1, <2>2
    <3> HIDE DEF k
    <3>3. (first + k) % MaxSize = IF first + k < MaxSize THEN first + k ELSE first + k - MaxSize
      BY <1>1, <2>2, <3>k, AroundTheRing
    <3>4. (first + pipe_size) % MaxSize =
            IF first + pipe_size < MaxSize THEN first + pipe_size
            ELSE first + pipe_size - MaxSize
      BY <1>1, <2>2, AroundTheRing
    <3>5. last = (first + k) % MaxSize
      BY <3>1 DEF k
    <3>6. (last + 1) % MaxSize = (first + pipe_size) % MaxSize
      BY <1>1, <3>k, <3>2, <3>3, <3>4, <3>5
    <3>7. first' = first /\ last' = (last + 1) % MaxSize /\ first \in Slots
      BY <1>1, <1>3, <2>2
    <3> QED
      BY <3>2, <3>6, <3>7
  <2> QED
    BY <1>1, <2>1, <2>2
<1>5. ASSUME NEW k \in 0 .. pipe_size - 1 PROVE Cell(k)' = Cell(k)
  <2>1. pipe_size > 0 /\ first' = first /\ first \in Slots
    BY <1>1, <1>3, <1>5
  <2>2. /\ (first + k) % MaxSize = IF first + k < MaxSize THEN first + k ELSE first + k - MaxSize
        /\ (first + k) % MaxSize \in Slots
    BY <1>1, <1>5, <2>1, AroundTheRing
  <2>3. (first + pipe_size) % MaxSize =
          IF first + pipe_size < MaxSize THEN first + pipe_size
          ELSE first + pipe_size - MaxSize
    BY <1>1, <2>1, AroundTheRing
  <2>4. (first + k) % MaxSize # last'
    BY <1>1, <1>3, <1>4, <1>5, <2>1, <2>2, <2>3
  <2> QED
    BY <1>1, <1>3, <2>1, <2>2, <2>4 DEF Cell
<1>6. ASSUME NEW k, k = pipe_size PROVE Cell(k)' = c.mine
  <2>1. data'[last'] = c.mine
    BY <1>1, <1>3, <1>4
  <2> QED
    BY <1>4, <1>6, <2>1 DEF Cell
<1> QED
  BY <1>3, <1>4, <1>5, <1>6

LEMMA PutKeepsStore ==
  ASSUME CallTypes, StoreInv, MaxSize > 0,
         NEW t \in Threads, NEW c \in Calls, NEW ew \in Nat,
         EntersEnqueue(t, c, ew), EnqueuePuts(t, c, ew)
  PROVE  StoreInv'
<1>1. /\ c.mine \in Items /\ c.item = c.mine /\ c.op = "enqueue"
      /\ outcome[c.mine] \in {"unused", "pending"}
      /\ call[t].op \in {"idle", "enqueue"} /\ ~Offers(t)
      /\ \A u \in Threads \ {t} : Passes(u) => call[u].mine # c.mine
      /\ \A k \in DOMAIN taken : taken[k] # c.mine
  BY EnqueueOwns
<1>2. /\ pipe_size < MaxSize /\ pipe_size' = pipe_size + 1
      /\ first' \in Slots /\ last' \in Slots
      /\ last' = (first' + pipe_size) % MaxSize
      /\ data' = [data EXCEPT ![last'] = c.mine]
      /\ \A k \in 0 .. pipe_size - 1 : Cell(k)' = Cell(k)
      /\ \A k : k = pipe_size => Cell(k)' = c.mine
      /\ outcome' = [outcome EXCEPT ![c.mine] = "accepted"]
      /\ call' = [call EXCEPT ![t] = Idle]
      /\ taken' = taken /\ UNCHANGED flags
  BY PutInRing
<1>3. /\ call \in [Threads -> Calls]
      /\ outcome \in [Items -> {"unused", "pending", "accepted", "returned"}]
      /\ MaxSize \in Nat /\ Capacity = MaxSize /\ pipe_size \in 0 .. MaxSize
      /\ data \in [Slots -> Items \cup {NoItem}]
  BY NumbersAreNumbers DEF CallTypes, StoreInv, StoreTypes
<1>4. /\ \A u \in Threads : ~Offers(u) /\ ~Offers(u)'
      /\ \A u \in Threads \ {t} : Passes(u)' = Passes(u) /\ call'[u] = call[u]
      /\ call'[t].op = "idle" /\ ~Passes(t)'
  BY <1>1, <1>2, <1>3 DEF Offers, Passes, Idle, StoreInv, HandOver
<1>5. StoreTypes'
  <2>1. /\ pipe_size' \in 0 .. MaxSize
        /\ first' \in 0 .. Capacity /\ last' \in 0 .. Capacity
    <3>1. pipe_size' \in 0 .. MaxSize
      BY <1>2, <1>3
    <3>2. \A k \in Slots : k \in 0 .. Capacity
      BY <1>3 DEF Slots
    <3> QED
      BY <1>2, <3>1, <3>2
  <2>2. data' \in [Slots -> Items \cup {NoItem}]
    BY <1>1, <1>2, <1>3
  <2>3. outcome' \in [Items -> {"unused", "pending", "accepted", "returned"}]
    BY <1>2, <1>3
  <2> QED
    BY <1>2, <2>1, <2>2, <2>3 DEF StoreInv, StoreTypes, flags
<1>6. ItemsOwned'
  BY <1>1, <1>2, <1>3, <1>4 DEF StoreInv, ItemsOwned
<1>7. HandOver'
  BY <1>4 DEF HandOver
<1>8. RingInOrder'
  <2>1. last' = (first' + (pipe_size' - 1)) % MaxSize
    <3>1. pipe_size' - 1 = pipe_size
      BY <1>2, <1>3
    <3> QED
      BY <1>2, <3>1
  <2>2. ASSUME NEW k \in 0 .. pipe_size' - 1
        PROVE  Cell(k)' \in Items /\ outcome'[Cell(k)'] = "accepted"
    <3>1. CASE k = pipe_size
      BY <1>1, <1>2, <1>3, <3>1
    <3>2. CASE k \in 0 .. pipe_size - 1
      <4>1. Cell(k) \in Items /\ outcome[Cell(k)] = "accepted"
        BY <1>3, <3>2 DEF StoreInv, RingInOrder
      <4> QED
        BY <1>1, <1>2, <1>3, <3>2, <4>1
    <3> QED
      BY <1>2, <1>3, <2>2, <3>1, <3>2
  <2> QED
    BY <2>1, <2>2 DEF RingInOrder
<1>9. TakenKnown'
  <2> SUFFICES ASSUME NEW k \in DOMAIN taken PROVE outcome'[taken[k]] = "accepted"
    BY <1>2 DEF TakenKnown
  <2>1. outcome[taken[k]] = "accepted" /\ taken[k] # c.mine
    BY <1>1, <1>4 DEF StoreInv, TakenKnown
  <2>2. taken[k] \in Items
    BY DEF StoreInv, StoreTypes
  <2> QED
    BY <1>1, <1>2, <1>3, <2>1, <2>2
<1> QED
  BY <1>5, <1>6, <1>7, <1>8, <1>9 DEF StoreInv

(* With max_size() 0 an item is offered when no other is.                  *)
LEMMA OfferStarts ==
  ASSUME CallTypes, StoreInv, ~(MaxSize > 0),
         NEW t \in Threads, NEW c \in Calls, NEW ew \in Nat,
         EntersEnqueue(t, c, ew), EnqueuePuts(t, c, ew)
  PROVE  /\ StoreInv'
         /\ MaxSize = 0 /\ first = 1 /\ last = 1 /\ first' = 0 /\ last' = 0
         /\ data'[0] = c.mine /\ outcome' = [outcome EXCEPT ![c.mine] = "pending"]
         /\ UNCHANGED <<pipe_size, taken>>
         /\ call'[t].op = "offer"
<1>1. /\ c.mine \in Items /\ c.item = c.mine /\ c.op = "enqueue"
      /\ outcome[c.mine] \in {"unused", "pending"}
      /\ call[t].op \in {"idle", "enqueue"} /\ ~Offers(t)
      /\ \A u \in Threads \ {t} : Passes(u) => call[u].mine # c.mine
      /\ \A k \in DOMAIN taken : taken[k] # c.mine
  BY EnqueueOwns
<1>2. /\ MaxSize = 0 /\ Capacity = 1 /\ Slots = {0}
      /\ pipe_size = 0 /\ data \in [{0} -> Items \cup {NoItem}]
      /\ call \in [Threads -> Calls]
      /\ outcome \in [Items -> {"unused", "pending", "accepted", "returned"}]
  BY NumbersAreNumbers DEF CallTypes, StoreInv, StoreTypes
<1>3. first = 1 /\ last = 1 /\ \A u \in Threads : ~Offers(u)
  BY <1>2 DEF EnqueuePuts, NoRoom, StoreInv, HandOver
<1> DEFINE d == [c EXCEPT !.op = "offer", !.item = data[last']]
<1>4. d.op = "offer" /\ d.mine = c.mine
  BY <1>2 DEF Calls
<1> HIDE DEF d
<1>5. /\ first' = 0 /\ last' = 0 /\ data' = [data EXCEPT ![0] = c.mine]
      /\ pipe_size' = pipe_size /\ taken' = taken /\ UNCHANGED flags
      /\ outcome' = [outcome EXCEPT ![c.mine] = "pending"]
      /\ call' = [call EXCEPT ![t] = d]
  BY <1>1, <1>2 DEF EnqueuePuts, Sleep, d
<1>6. /\ \A u \in Threads : Offers(u)' <=> u = t
      /\ \A u \in Threads \ {t} : Passes(u)' = Passes(u) /\ call'[u] = call[u]
      /\ call'[t].op = "offer" /\ call'[t].mine = c.mine
  BY <1>2, <1>3, <1>4, <1>5 DEF Offers, Passes
<1>7. StoreTypes'
  <2>1. data' \in [Slots -> Items \cup {NoItem}]
    BY <1>1, <1>2, <1>5
  <2>2. outcome' \in [Items -> {"unused", "pending", "accepted", "returned"}]
    BY <1>2, <1>5
  <2> QED
    BY <1>2, <1>5, <2>1, <2>2 DEF StoreInv, StoreTypes, flags
<1>8. ItemsOwned'
  BY <1>1, <1>2, <1>5, <1>6 DEF StoreInv, ItemsOwned
<1>9. HandOver'
  BY <1>2, <1>5, <1>6 DEF HandOver
<1>10. RingInOrder'
  BY <1>2 DEF RingInOrder
<1>11. TakenKnown'
  BY <1>1, <1>2, <1>3, <1>5 DEF StoreInv, TakenKnown
<1> QED
  BY <1>2, <1>3, <1>5, <1>6, <1>7, <1>8, <1>9, <1>10, <1>11 DEF StoreInv

(* An offer ends in one of two ways: nobody took it, or somebody did.      *)
LEMMA OfferBelongs ==
  ASSUME CallTypes, StoreInv, NEW t \in Threads, Offers(t)
  PROVE  /\ MaxSize = 0 /\ pipe_size = 0 /\ first = 0 /\ Slots = {0}
         /\ call[t].mine \in Items /\ outcome[call[t].mine] = "pending"
         /\ \A u \in Threads : Offers(u) => u = t
         /\ \A u \in Threads \ {t} : Passes(u) => call[u].mine # call[t].mine
         /\ last = 0 => /\ data[0] = call[t].mine
                        /\ \A k \in DOMAIN taken : taken[k] # call[t].mine
         /\ last # 0 => /\ last = 1
                        /\ \E k \in DOMAIN taken : taken[k] = call[t].mine
<1>1. MaxSize = 0 /\ Slots = {0} /\ first \in {0, 1} /\ last \in {0, 1} /\ pipe_size = 0
  BY NumbersAreNumbers DEF StoreInv, StoreTypes, HandOver
<1>2. /\ first = 0
      /\ \A u \in Threads : Offers(u) => u = t
      /\ last = 0 => data[0] = call[t].mine
      /\ last = 1 => \E k \in DOMAIN taken : taken[k] = call[t].mine
  BY <1>1 DEF StoreInv, HandOver
<1>3. Passes(t)
  BY DEF Offers, Passes
<1>4. /\ call[t].mine \in Items /\ outcome[call[t].mine] = "pending"
      /\ \A u \in Threads \ {t} : Passes(u) => call[u].mine # call[t].mine
  BY <1>3 DEF StoreInv, ItemsOwned
<1>5. last = 0 => \A k \in DOMAIN taken : taken[k] # call[t].mine
  BY <1>4 DEF StoreInv, TakenKnown
<1> QED
  BY <1>1, <1>2, <1>4, <1>5

LEMMA OfferWithdrawnKeepsStore ==
  ASSUME CallTypes, StoreInv, NEW t \in Threads, OfferWithdrawn(t)
  PROVE  StoreInv' /\ outcome' = [outcome EXCEPT ![call[t].mine] = "returned"]
<1>1. Offers(t) /\ last = 0
  BY DEF OfferWithdrawn, Awake, Offers, Withdrawing
<1>2. /\ MaxSize = 0 /\ pipe_size = 0 /\ Slots = {0}
      /\ call[t].mine \in Items /\ outcome[call[t].mine] = "pending"
      /\ \A u \in Threads : Offers(u) => u = t
      /\ \A u \in Threads \ {t} : Passes(u) => call[u].mine # call[t].mine
      /\ data[0] = call[t].mine /\ \A k \in DOMAIN taken : taken[k] # call[t].mine
  BY <1>1, OfferBelongs
<1>3. /\ call \in [Threads -> Calls] /\ Capacity = 1
      /\ outcome \in [Items -> {"unused", "pending", "accepted", "returned"}]
      /\ data \in [Slots -> Items \cup {NoItem}]
  BY <1>2, NumbersAreNumbers DEF CallTypes, StoreInv, StoreTypes
<1>4. /\ first' = 1 /\ last' = 1 /\ data' = [data EXCEPT ![0] = call[t].item]
      /\ pipe_size' = pipe_size /\ taken' = taken /\ UNCHANGED flags
      /\ outcome' = [outcome EXCEPT ![call[t].mine] = "returned"]
      /\ call' = [call EXCEPT ![t] = Idle]
  BY <1>2 DEF OfferWithdrawn, Return, Refused
<1>5. /\ \A u \in Threads : ~Offers(u)'
      /\ \A u \in Threads \ {t} : Passes(u)' = Passes(u) /\ call'[u] = call[u]
      /\ call'[t].op = "idle" /\ ~Passes(t)'
  BY <1>2, <1>3, <1>4 DEF Offers, Passes, Idle
<1>6. StoreTypes'
  <2>1. data' \in [Slots -> Items \cup {NoItem}]
    BY <1>3, <1>4 DEF Calls
  <2>2. outcome' \in [Items -> {"unused", "pending", "accepted", "returned"}]
    BY <1>3, <1>4
  <2> QED
    BY <1>2, <1>3, <1>4, <2>1, <2>2 DEF StoreInv, StoreTypes, flags
<1>7. ItemsOwned'
  BY <1>2, <1>3, <1>4, <1>5 DEF StoreInv, ItemsOwned
<1>8. HandOver'
  BY <1>2, <1>4, <1>5 DEF HandOver
<1>9. RingInOrder'
  BY <1>2 DEF RingInOrder
<1>10. TakenKnown'
  BY <1>1, <1>2, <1>3, <1>4 DEF StoreInv, TakenKnown
<1> QED
  BY <1>4, <1>6, <1>7, <1>8, <1>9, <1>10 DEF StoreInv

LEMMA OfferTakenKeepsStore ==
  ASSUME CallTypes, StoreInv, NEW t \in Threads, OfferTaken(t)
  PROVE  StoreInv'
<1>1. Offers(t) /\ last # 0
  BY DEF OfferTaken, Awake, Offers
<1>2. /\ MaxSize = 0 /\ pipe_size = 0 /\ Slots = {0} /\ last = 1
      /\ call[t].mine \in Items /\ outcome[call[t].mine] = "pending"
      /\ \A u \in Threads : Offers(u) => u = t
      /\ \A u \in Threads \ {t} : Passes(u) => call[u].mine # call[t].mine
  BY <1>1, OfferBelongs
<1>3. /\ call \in [Threads -> Calls] /\ Capacity = 1
      /\ outcome \in [Items -> {"unused", "pending", "accepted", "returned"}]
  BY <1>2, NumbersAreNumbers DEF CallTypes, StoreInv, StoreTypes
<1>4. /\ first' = 1 /\ last' = 1 /\ data' = data
      /\ pipe_size' = pipe_size /\ taken' = taken /\ UNCHANGED flags
      /\ outcome' = [outcome EXCEPT ![call[t].mine] = "accepted"]
      /\ call' = [call EXCEPT ![t] = Idle]
  BY <1>2 DEF OfferTaken, Return
<1>5. /\ \A u \in Threads : ~Offers(u)'
      /\ \A u \in Threads \ {t} : Passes(u)' = Passes(u) /\ call'[u] = call[u]
      /\ call'[t].op = "idle" /\ ~Passes(t)'
  BY <1>2, <1>3, <1>4 DEF Offers, Passes, Idle
<1>6. StoreTypes'
  BY <1>2, <1>3, <1>4 DEF StoreInv, StoreTypes, flags
<1>7. ItemsOwned'
  BY <1>2, <1>3, <1>4, <1>5 DEF StoreInv, ItemsOwned
<1>8. HandOver'
  BY <1>2, <1>4, <1>5 DEF HandOver
<1>9. RingInOrder'
  BY <1>2 DEF RingInOrder
<1>10. TakenKnown'
  <2> SUFFICES ASSUME NEW k \in DOMAIN taken PROVE outcome'[taken[k]] = "accepted"
    BY <1>4 DEF TakenKnown
  <2>1. outcome[taken[k]] = "accepted" \/ taken[k] = call[t].mine
    BY <1>2 DEF StoreInv, TakenKnown
  <2>2. taken[k] \in Items
    BY DEF StoreInv, StoreTypes
  <2> QED
    BY <1>2, <1>3, <1>4, <2>1, <2>2
<1> QED
  BY <1>6, <1>7, <1>8, <1>9, <1>10 DEF StoreInv

(* Taking the oldest item moves the others one place up.                   *)
LEMMA TakeFromRing ==
  ASSUME CallTypes, StoreInv, MaxSize > 0, NEW t \in Threads, NEW c \in Calls,
         NEW dw \in Nat, NEW asleep, DequeueTakes(t, c, dw, asleep)
  PROVE  /\ pipe_size > 0 /\ pipe_size' = pipe_size - 1
         /\ first \in Slots /\ first' \in Slots /\ first' = (first + 1) % MaxSize
         /\ last \in Slots /\ last' = last
         /\ Cell(0) \in Items /\ outcome[Cell(0)] = "accepted"
         /\ taken' = Append(taken, Cell(0))
         /\ data' = [data EXCEPT ![first] = c.item]
         /\ \A k \in 0 .. pipe_size - 2 : Cell(k)' = Cell(k + 1)
         /\ pipe_size > 1 => last' = (first' + (pipe_size' - 1)) % MaxSize
         /\ outcome' = outcome /\ UNCHANGED flags
<1>1. /\ MaxSize \in Nat /\ Slots = 0 .. MaxSize - 1
      /\ pipe_size \in 0 .. MaxSize
      /\ pipe_size > 0 => first \in Slots /\ last \in Slots
      /\ data \in [Slots -> Items \cup {NoItem}]
  BY NumbersAreNumbers DEF Slots, StoreInv, StoreTypes
<1>2. pipe_size > 0
  <2>1. ~NothingThere /\ enabled /\ dequeue_enabled
    BY DEF DequeueTakes
  <2>2. pipe_size # 0
    BY <2>1 DEF NothingThere, OnOffer
  <2> QED
    BY <1>1, <2>2
<1>3. first \in Slots /\ last \in Slots
  BY <1>1, <1>2
<1>4. /\ pipe_size' = pipe_size - 1 /\ first' = (first + 1) % MaxSize /\ last' = last
      /\ taken' = Append(taken, data[first]) /\ data' = [data EXCEPT ![first] = c.item]
      /\ outcome' = outcome /\ UNCHANGED flags
  BY DEF DequeueTakes
<1>5. /\ first' = IF first + 1 < MaxSize THEN first + 1 ELSE first + 1 - MaxSize
      /\ first' \in Slots
  <2>1. 1 \in 0 .. MaxSize
    BY <1>1
  <2> QED
    BY <1>3, <1>4, <2>1, AroundTheRing
<1>6. Cell(0) = data[first] /\ Cell(0) \in Items /\ outcome[Cell(0)] = "accepted"
  <2>1. (first + 0) % MaxSize = first
    <3>1. 0 \in 0 .. MaxSize
      BY <1>1
    <3>2. (first + 0) % MaxSize = IF first + 0 < MaxSize THEN first + 0 ELSE first + 0 - MaxSize
      BY <1>3, <3>1, AroundTheRing
    <3> QED
      BY <1>1, <1>3, <3>2
  <2>2. 0 \in 0 .. pipe_size - 1
    BY <1>1, <1>2
  <2> QED
    BY <1>2, <2>1, <2>2 DEF Cell, StoreInv, RingInOrder
<1>7. ASSUME NEW k \in 0 .. pipe_size - 2
      PROVE  /\ (first' + k) % MaxSize = (first + (k + 1)) % MaxSize
             /\ (first' + k) % MaxSize \in Slots
             /\ (first' + k) % MaxSize # first
  <2>1. k \in 0 .. MaxSize /\ k + 1 \in 0 .. MaxSize /\ k + 1 < MaxSize /\ k \in Nat
    BY <1>1
  <2>2. /\ (first' + k) % MaxSize =
             IF first' + k < MaxSize THEN first' + k ELSE first' + k - MaxSize
        /\ (first' + k) % MaxSize \in Slots
    BY <1>5, <2>1, AroundTheRing
  <2>3. (first + (k + 1)) % MaxSize =
          IF first + (k + 1) < MaxSize THEN first + (k + 1) ELSE first + (k + 1) - MaxSize
    BY <1>3, <2>1, AroundTheRing
  <2> QED
    BY <1>1, <1>3, <1>5, <2>1, <2>2, <2>3
<1>8. ASSUME NEW k \in 0 .. pipe_size - 2 PROVE Cell(k)' = Cell(k + 1)
  BY <1>1, <1>4, <1>7, <1>8 DEF Cell
<1>9. ASSUME pipe_size > 1 PROVE last' = (first' + (pipe_size' - 1)) % MaxSize
  <2>1. last = (first + (pipe_size - 1)) % MaxSize
    BY <1>2 DEF StoreInv, RingInOrder
  <2> DEFINE k == pipe_size - 2
  <2>2. k \in 0 .. pipe_size - 2 /\ k + 1 = pipe_size - 1 /\ k = pipe_size' - 1
    BY <1>1, <1>4, <1>9
  <2> HIDE DEF k
  <2>3. (first' + k) % MaxSize = (first + (k + 1)) % MaxSize
    BY <1>7, <2>2
  <2> QED
    BY <1>4, <2>1, <2>2, <2>3
<1> QED
  BY <1>2, <1>3, <1>4, <1>5, <1>6, <1>8, <1>9

LEMMA AppendKnown ==
  ASSUME NEW s \in Seq(Items), NEW i \in Items, NEW r, r = Append(s, i)
  PROVE  /\ r \in Seq(Items) /\ DOMAIN s \subseteq DOMAIN r
         /\ \A k \in DOMAIN r : (k \in DOMAIN s /\ r[k] = s[k]) \/ r[k] = i
         /\ \A k \in DOMAIN s : r[k] = s[k]
         /\ \E k \in DOMAIN r : r[k] = i
<1>1. /\ r \in Seq(Items) /\ Len(r) = Len(s) + 1 /\ Len(s) \in Nat
      /\ DOMAIN s = 1 .. Len(s) /\ DOMAIN r = 1 .. Len(s) + 1
      /\ \A k \in 1 .. Len(s) : r[k] = s[k]
      /\ r[Len(s) + 1] = i
  OBVIOUS
<1> QED
  BY <1>1

LEMMA DequeueIsQuiet ==
  ASSUME CallTypes, NEW t \in Threads, NEW c, NEW dw, NEW asleep, EntersDequeue(t, c, dw, asleep)
  PROVE  SameItem(t, Idle) /\ SameItem(t, c)
BY DEF EntersDequeue, Enters, SameItem, Idle, Passes

LEMMA DequeueTakesKeepsStore ==
  ASSUME CallTypes, StoreInv, NEW t \in Threads, NEW c \in Calls,
         NEW dw \in Nat, NEW asleep, EntersDequeue(t, c, dw, asleep),
         DequeueTakes(t, c, dw, asleep)
  PROVE  StoreInv'
<1>1. call' = [call EXCEPT ![t] = Idle] /\ outcome' = outcome /\ UNCHANGED flags
  BY DEF DequeueTakes, Return
<1>2. \A u \in Threads :
        /\ Passes(u)' = Passes(u) /\ Offers(u)' = Offers(u)
        /\ (call'[u].op = "enqueue") = (call[u].op = "enqueue")
        /\ Passes(u) => call'[u].mine = call[u].mine /\ call'[u].item = call[u].item
  BY <1>1, DequeueIsQuiet, QuietKeepsOffers
<1>3. \A u \in Threads : Offers(u) => Passes(u)
  BY DEF Offers, Passes
<1>4. ItemsOwned'
  <2>1. \A u \in Threads : call[u].op = "enqueue" => Passes(u)
    BY DEF Passes
  <2> QED
    BY <1>1, <1>2, <2>1 DEF StoreInv, ItemsOwned
<1>5. CASE MaxSize > 0
  <2>1. /\ pipe_size > 0 /\ pipe_size' = pipe_size - 1
        /\ first \in Slots /\ first' \in Slots /\ last \in Slots /\ last' = last
        /\ Cell(0) \in Items /\ outcome[Cell(0)] = "accepted"
        /\ taken' = Append(taken, Cell(0))
        /\ data' = [data EXCEPT ![first] = c.item]
        /\ \A k \in 0 .. pipe_size - 2 : Cell(k)' = Cell(k + 1)
        /\ pipe_size > 1 => last' = (first' + (pipe_size' - 1)) % MaxSize
    BY <1>5, TakeFromRing
  <2>2. /\ MaxSize \in Nat /\ Capacity = MaxSize /\ pipe_size \in 0 .. MaxSize
        /\ data \in [Slots -> Items \cup {NoItem}] /\ taken \in Seq(Items)
    BY <1>5, NumbersAreNumbers DEF StoreInv, StoreTypes
  <2>3. StoreTypes'
    <3>1. pipe_size' \in 0 .. MaxSize
      BY <2>1, <2>2
    <3>2. \A k \in Slots : k \in 0 .. Capacity
      BY <2>2 DEF Slots
    <3>3. data' \in [Slots -> Items \cup {NoItem}]
      BY <2>1, <2>2 DEF Calls
    <3>4. taken' \in Seq(Items)
      BY <2>1, <2>2, AppendKnown
    <3> QED
      BY <1>1, <2>1, <3>1, <3>2, <3>3, <3>4 DEF StoreInv, StoreTypes, flags
  <2>4. HandOver'
    BY <1>2, <1>5 DEF StoreInv, HandOver
  <2>5. RingInOrder'
    <3> SUFFICES ASSUME pipe_size' > 0
                 PROVE  /\ last' = (first' + (pipe_size' - 1)) % MaxSize
                        /\ \A k \in 0 .. pipe_size' - 1 :
                             Cell(k)' \in Items /\ outcome'[Cell(k)'] = "accepted"
      BY DEF RingInOrder
    <3>1. pipe_size > 1
      BY <2>1, <2>2
    <3>2. ASSUME NEW k \in 0 .. pipe_size' - 1
          PROVE  Cell(k)' \in Items /\ outcome'[Cell(k)'] = "accepted"
      <4>1. k \in 0 .. pipe_size - 2 /\ k + 1 \in 0 .. pipe_size - 1
        BY <2>1, <2>2
      <4>2. Cell(k + 1) \in Items /\ outcome[Cell(k + 1)] = "accepted"
        BY <1>5, <2>1, <4>1 DEF StoreInv, RingInOrder
      <4> QED
        BY <1>1, <2>1, <4>1, <4>2
    <3> QED
      BY <2>1, <3>1, <3>2
  <2>6. TakenKnown'
    <3> SUFFICES ASSUME NEW k \in DOMAIN taken' PROVE outcome[taken'[k]] = "accepted"
      BY <1>1 DEF TakenKnown
    <3>1. (k \in DOMAIN taken /\ taken'[k] = taken[k]) \/ taken'[k] = Cell(0)
      BY <2>1, <2>2, AppendKnown
    <3>2. \A u \in Threads : ~Offers(u)
      BY <1>5 DEF StoreInv, HandOver
    <3> QED
      BY <2>1, <3>1, <3>2 DEF StoreInv, TakenKnown
  <2> QED
    BY <1>4, <2>3, <2>4, <2>5, <2>6 DEF StoreInv
<1>6. CASE ~(MaxSize > 0)
  <2>1. /\ MaxSize = 0 /\ Capacity = 1 /\ Slots = {0} /\ pipe_size = 0
        /\ data \in [Slots -> Items \cup {NoItem}] /\ taken \in Seq(Items)
    BY <1>6, NumbersAreNumbers DEF StoreInv, StoreTypes
  <2>2. first = 0 /\ last = 0
    BY <2>1 DEF DequeueTakes, NothingThere, OnOffer
  <2>3. PICK u \in Threads : Offers(u)
    BY <2>1, <2>2 DEF StoreInv, HandOver
  <2>4. /\ data[0] = call[u].mine /\ call[u].mine \in Items
        /\ \A v \in Threads : Offers(v) => v = u
    BY <2>2, <2>3, OfferBelongs
  <2>5. /\ first' = 0 /\ last' = 1 /\ pipe_size' = 0
        /\ taken' = Append(taken, call[u].mine) /\ data' = [data EXCEPT ![0] = c.item]
    BY <1>6, <2>1, <2>2, <2>4 DEF DequeueTakes
  <2>6. /\ taken' \in Seq(Items) /\ DOMAIN taken \subseteq DOMAIN taken'
        /\ \A k \in DOMAIN taken' :
             (k \in DOMAIN taken /\ taken'[k] = taken[k]) \/ taken'[k] = call[u].mine
        /\ \E k \in DOMAIN taken' : taken'[k] = call[u].mine
    BY <2>1, <2>4, <2>5, AppendKnown
  <2>7. StoreTypes'
    <3>1. data' \in [Slots -> Items \cup {NoItem}]
      BY <2>1, <2>5 DEF Calls
    <3> QED
      BY <1>1, <2>1, <2>5, <2>6, <3>1 DEF StoreInv, StoreTypes, flags
  <2>8. HandOver'
    BY <1>2, <1>3, <2>1, <2>3, <2>4, <2>5, <2>6 DEF HandOver
  <2>9. RingInOrder'
    BY <1>6 DEF RingInOrder
  <2>10. TakenKnown'
    <3> SUFFICES ASSUME NEW k \in DOMAIN taken'
                 PROVE  \/ outcome'[taken'[k]] = "accepted"
                        \/ \E v \in Threads : Offers(v)' /\ call'[v].mine = taken'[k]
      BY <2>5 DEF TakenKnown
    <3>1. CASE k \in DOMAIN taken /\ taken'[k] = taken[k]
      BY <1>1, <2>2, <3>1 DEF StoreInv, TakenKnown
    <3>2. CASE taken'[k] = call[u].mine
      BY <1>2, <1>3, <2>3, <3>2
    <3> QED
      BY <2>6, <3>1, <3>2
  <2> QED
    BY <1>4, <2>7, <2>8, <2>9, <2>10 DEF StoreInv
<1> QED
  BY <1>5, <1>6

(***************************************************************************)
(* Every step keeps the store in order: it is one of those above, or quiet.*)
(***************************************************************************)
LEMMA StepKeepsStore ==
  ASSUME CallInv, StoreInv, NEW t \in Threads, Step(t)
  PROVE  StoreInv'
<1>1. CallTypes /\ call[t] \in Calls /\ call \in [Threads -> Calls]
  BY DEF CallInv, CallTypes
<1>2. FlagTypes
  BY DEF StoreInv, StoreTypes, FlagTypes
<1>3. SameItem(t, call[t]) /\ call = [call EXCEPT ![t] = call[t]]
  BY <1>1 DEF SameItem
<1>4. ASSUME NEW c, Quiet(t, c), FlagTypes' PROVE StoreInv'
  BY <1>1, <1>4, QuietKeepsStore
<1>5. ASSUME NEW c \in Calls, NEW ew \in Nat, EntersEnqueue(t, c, ew), EnqueueSegment(t, c, ew)
      PROVE  StoreInv'
  <2>1. EnqueueWaits(t, c, ew) \/ EnqueueFails(t, c, ew) \/ EnqueuePuts(t, c, ew)
    BY <1>5 DEF EnqueueSegment
  <2>2. CASE EnqueuePuts(t, c, ew)
    BY <1>1, <1>5, <2>2, PutKeepsStore, OfferStarts
  <2> QED
    BY <1>1, <1>5, <2>1, <2>2, EnqueueWaitsKeepsStore, EnqueueFailsKeepsStore
<1>6. ASSUME Offering(t) PROVE StoreInv'
  <2>1. CASE OfferWaits(t)
    <3>1. Quiet(t, call[t]) /\ FlagTypes'
      BY <1>2, <1>3, <2>1 DEF OfferWaits, Sleep, Quiet, store, flags, FlagTypes
    <3> QED
      BY <1>4, <3>1
  <2> QED
    BY <1>1, <1>6, <2>1, OfferWithdrawnKeepsStore, OfferTakenKeepsStore DEF Offering
<1>7. ASSUME NEW c \in Calls, NEW dw \in Nat, NEW asleep \in [Signalers -> SUBSET Threads],
             EntersDequeue(t, c, dw, asleep), DequeueSegment(t, c, dw, asleep)
      PROVE  StoreInv'
  <2>1. SameItem(t, Idle) /\ SameItem(t, c)
    BY <1>1, <1>7, DequeueIsQuiet
  <2>2. CASE DequeueWaits(t, c, dw, asleep)
    <3>1. Quiet(t, c) /\ FlagTypes'
      BY <1>2, <2>1, <2>2 DEF DequeueWaits, Sleep, Quiet, store, flags, FlagTypes
    <3> QED
      BY <1>4, <3>1
  <2>3. CASE DequeueFails(t, c, dw, asleep)
    <3>1. Quiet(t, Idle) /\ FlagTypes'
      BY <1>2, <2>1, <2>3 DEF DequeueFails, Return, Quiet, store, flags, FlagTypes
    <3> QED
      BY <1>4, <3>1
  <2>4. CASE DequeueTakes(t, c, dw, asleep)
    BY <1>1, <1>7, <2>4, DequeueTakesKeepsStore
  <2> QED
    BY <1>7, <2>2, <2>3, <2>4 DEF DequeueSegment
<1>8. ASSUME NEW c \in Calls, NEW ew \in Nat, EntersWaitEmpty(t, c, ew),
             WaitUntilEmptySegment(t, c, ew)
      PROVE  StoreInv'
  <2>1. SameItem(t, Idle) /\ SameItem(t, c)
    BY <1>8 DEF EntersWaitEmpty, Enters, SameItem, Idle, Passes
  <2>2. (Quiet(t, c) \/ Quiet(t, Idle)) /\ FlagTypes'
    BY <1>2, <1>8, <2>1
    DEF WaitUntilEmptySegment, Sleep, Return, Quiet, store, flags, FlagTypes
  <2> QED
    BY <1>4, <2>2
<1>9. ASSUME NEW c \in Calls, NEW uw \in Nat, EntersWaitBlocked(t, c, uw),
              WaitForBlockedSegment(t, c, uw)
       PROVE  StoreInv'
  <2>1. SameItem(t, Idle) /\ SameItem(t, c)
    BY <1>9 DEF EntersWaitBlocked, Enters, SameItem, Idle, Passes
  <2>2. (Quiet(t, c) \/ Quiet(t, Idle)) /\ FlagTypes'
    <3>1. /\ UNCHANGED <<store, flags, history>>
          /\ call' = [call EXCEPT ![t] = c] \/ call' = [call EXCEPT ![t] = Idle]
      BY <1>9 DEF WaitForBlockedSegment, Sleep, Return
    <3> QED
      BY <1>2, <2>1, <3>1 DEF Quiet, store, flags, FlagTypes
  <2> QED
    BY <1>4, <2>2
<1>10. ASSUME Sets(t) PROVE StoreInv'
  <2>1. Quiet(t, call[t])
    BY <1>3, <1>10
    DEF Sets, Empty, Enable, Disable, EnableEnqueue, DisableEnqueue, EnableDequeue,
        DisableDequeue, Quiet, store
  <2>2. FlagTypes'
    BY <1>2, <1>10
    DEF Sets, Empty, Enable, Disable, EnableEnqueue, DisableEnqueue, EnableDequeue,
        DisableDequeue, FlagTypes, flags
  <2> QED
    BY <1>4, <2>1, <2>2
<1>11. ASSUME NEW uw \in Nat, NEW asleep \in [Signalers -> SUBSET Threads],
              EntersDestroy(t, uw, asleep), DestroySegment(t, uw, asleep),
              UNCHANGED <<store, history>>
       PROVE  StoreInv'
  <2> DEFINE c == Call("destroy", "forever", NoItem, 0)
  <2>1. SameItem(t, Idle) /\ SameItem(t, c)
    BY <1>11 DEF EntersDestroy, SameItem, Idle, Call, Passes
  <2>2. call' = [call EXCEPT ![t] = c] \/ call' = [call EXCEPT ![t] = Idle]
    BY <1>11 DEF DestroySegment, Sleep, Return
  <2> HIDE DEF c
  <2>3. Quiet(t, c) \/ Quiet(t, Idle)
    BY <1>11, <2>1, <2>2 DEF Quiet, store
  <2>4. FlagTypes'
    BY <1>2, <1>11 DEF EntersDestroy, FlagTypes, flags
  <2> QED
    BY <1>4, <2>3, <2>4
<1>12. ASSUME TimeRunsOut(t) PROVE StoreInv'
  <2> DEFINE d == [call[t] EXCEPT !.expired = TRUE]
  <2>1. call' = [call EXCEPT ![t] = d] /\ SameItem(t, d)
    BY <1>1, <1>12 DEF TimeRunsOut, SameItem, Calls
  <2> HIDE DEF d
  <2>2. Quiet(t, d) /\ FlagTypes'
    BY <1>2, <1>12, <2>1 DEF TimeRunsOut, Quiet, store, flags, FlagTypes
  <2> QED
    BY <1>4, <2>2
<1>13. ASSUME WakesUnasked(t) PROVE StoreInv'
  <2>1. Quiet(t, call[t]) /\ FlagTypes'
    BY <1>2, <1>3, <1>13 DEF WakesUnasked, Quiet, store, flags, FlagTypes
  <2> QED
    BY <1>4, <2>1
<1> QED
  BY <1>5, <1>6, <1>7, <1>8, <1>9, <1>10, <1>11, <1>12, <1>13 DEF Step

LEMMA CoreInit == PipeInit => CallInv /\ StoreInv
<1> SUFFICES ASSUME PipeInit PROVE CallInv /\ StoreInv
  OBVIOUS
<1>1. \A ops : "idle" \notin ops => In(ops) = {}
  BY DEF PipeInit, In, Idle
<1>2. WaitersCounted
  <2>1. In({"dequeue"}) = {} /\ In({"enqueue", "offer", "waitEmpty"}) = {}
        /\ In({"waitBlocked", "destroy"}) = {}
    BY <1>1
  <2> QED
    BY <2>1, FS_EmptySet DEF PipeInit, WaitersCounted
<1>3. CallTypes /\ SleepersMatch /\ NoneInsideAfterDestroy
  BY CallsMade DEF PipeInit, CallTypes, SleepersMatch, NoneInsideAfterDestroy, Patience
<1>4. StoreTypes
  BY NumbersAreNumbers DEF PipeInit, StoreTypes
<1>5. \A t \in Threads : ~Passes(t) /\ ~Offers(t) /\ call[t].op # "enqueue"
  BY DEF PipeInit, Passes, Offers, Idle
<1>6. ItemsOwned /\ HandOver /\ RingInOrder /\ TakenKnown
  BY <1>5, NumbersAreNumbers DEF PipeInit, ItemsOwned, HandOver, RingInOrder, TakenKnown
<1> QED
  BY <1>2, <1>3, <1>4, <1>6 DEF CallInv, StoreInv

LEMMA CoreKept == CallInv /\ StoreInv /\ [Next]_vars => (CallInv /\ StoreInv)'
<1> SUFFICES ASSUME CallInv, StoreInv, [Next]_vars PROVE (CallInv /\ StoreInv)'
  OBVIOUS
<1>1. CallInv'
  BY CallInvKept DEF StoreInv
<1>2. CASE Next
  <2>1. PICK t \in Threads : Step(t)
    BY <1>2, StepCases DEF StoreInv
  <2> QED
    BY <1>1, <2>1, StepKeepsStore
<1>3. CASE UNCHANGED vars
  <2>1. StoreTypes' /\ ItemsOwned'
    BY <1>3 DEF vars, store, flags, history, StoreInv, StoreTypes, ItemsOwned, Passes
  <2>2. HandOver'
    BY <1>3 DEF vars, store, history, StoreInv, HandOver, Offers
  <2>3. RingInOrder' /\ TakenKnown'
    BY <1>3 DEF vars, store, history, StoreInv, RingInOrder, Cell, TakenKnown, Offers
  <2> QED
    BY <1>1, <2>1, <2>2, <2>3 DEF StoreInv
<1> QED
  BY <1>2, <1>3

(* The calls and the store are in order in every reachable state.         *)
THEOREM CoreInvariant == PipeSpec => [](CallInv /\ StoreInv)
BY CoreInit, CoreKept, PTL DEF PipeSpec

(***************************************************************************)
(* The counters always equal the number of threads in each class of calls, *)
(* the ring's indices stay in range, no enqueue() gets back another's      *)
(* item, and ~pipe() deletes data under nobody.                            *)
(***************************************************************************)
THEOREM PipeIsSafe == PipeSpec => []PipeInv
<1>1. CallInv /\ StoreInv => PipeInv
  <2> SUFFICES ASSUME CallInv, StoreInv PROVE PipeTypeOK
    BY DEF CallInv, PipeInv
  <2>1. ASSUME NEW s \in Signalers, NEW r \in Signalers, s # r
        PROVE  sleeping[s] \cap sleeping[r] = {}
    BY <2>1 DEF CallInv, SleepersMatch, Matches, DequeueOps, EnqueueOps, UnblockOps
  <2> QED
    BY <2>1 DEF CallInv, CallTypes, StoreInv, StoreTypes, PipeTypeOK
<1> QED
  BY <1>1, CoreInvariant, PTL

(***************************************************************************)
(* The contract. Queue lists the ring from first to last, or the offer.    *)
(***************************************************************************)
QueueShows ==
  /\ Queue \in Seq(Items)
  /\ MaxSize > 0 => /\ Len(Queue) = pipe_size
                    /\ \A k \in 1 .. pipe_size : Queue[k] = Cell(k - 1)
  /\ ~(MaxSize > 0) => Queue = IF OnOffer THEN <<data[0]>> ELSE <<>>

LEMMA StoreShows == StoreInv => QueueShows
<1> SUFFICES ASSUME StoreInv PROVE QueueShows
  OBVIOUS
<1>1. CASE MaxSize > 0
  <2>1. Queue = [k \in 1 .. pipe_size |-> data[(first + k - 1) % MaxSize]]
    BY <1>1 DEF Queue
  <2>2. pipe_size \in Nat /\ (pipe_size > 0 => first \in Nat)
    BY NumbersAreNumbers DEF StoreInv, StoreTypes, Slots
  <2>3. ASSUME NEW k \in 1 .. pipe_size
        PROVE  Queue[k] = Cell(k - 1) /\ Cell(k - 1) \in Items
    <3>1. first + k - 1 = first + (k - 1) /\ k - 1 \in 0 .. pipe_size - 1 /\ pipe_size > 0
      BY <2>2
    <3>2. Queue[k] = data[(first + k - 1) % MaxSize]
      BY <2>1
    <3>3. Queue[k] = Cell(k - 1)
      BY <3>1, <3>2 DEF Cell
    <3>4. \A j \in 0 .. pipe_size - 1 : Cell(j) \in Items
      BY <1>1, <3>1 DEF StoreInv, RingInOrder
    <3> QED
      BY <3>1, <3>3, <3>4
  <2>4. Queue \in [1 .. pipe_size -> Items]
    <3>1. \A k \in 1 .. pipe_size : data[(first + k - 1) % MaxSize] \in Items
      BY <2>1, <2>3
    <3> QED
      BY <2>1, <3>1
  <2>5. Queue \in Seq(Items) /\ Len(Queue) = pipe_size
    BY <2>2, <2>4
  <2> QED
    BY <1>1, <2>3, <2>5 DEF QueueShows
<1>2. CASE ~(MaxSize > 0)
  <2>1. Queue = IF OnOffer THEN <<data[0]>> ELSE <<>>
    BY <1>2 DEF Queue
  <2>2. OnOffer => data[0] \in Items
    <3> SUFFICES ASSUME OnOffer PROVE data[0] \in Items
      OBVIOUS
    <3>1. PICK t \in Threads : Offers(t)
      BY DEF OnOffer, StoreInv, HandOver
    <3>2. Passes(t) /\ data[0] = call[t].mine
      BY <3>1 DEF OnOffer, StoreInv, HandOver, Offers, Passes
    <3> QED
      BY <3>2 DEF StoreInv, ItemsOwned
  <2> QED
    BY <1>2, <2>1, <2>2 DEF QueueShows
<1> QED
  BY <1>1, <1>2

LEMMA StoreShowsNext == StoreInv' => QueueShows'
BY StoreShows, PTL

LEMMA QuietKeepsQueue ==
  ASSUME UNCHANGED <<pipe_size, first, last, data>>
  PROVE  Queue' = Queue
<1>1. OnOffer' = OnOffer
  BY DEF OnOffer
<1> QED
  BY <1>1 DEF Queue

(* No item lies in the pipe before its enqueue() puts it there.            *)
LEMMA NotInQueue ==
  ASSUME CallTypes, StoreInv, NEW t \in Threads, NEW c \in Calls, NEW ew \in Nat,
         EntersEnqueue(t, c, ew)
  PROVE  \A k \in DOMAIN Queue : Queue[k] # c.mine
<1>1. /\ c.mine \in Items /\ outcome[c.mine] \in {"unused", "pending"} /\ ~Offers(t)
      /\ \A u \in Threads \ {t} : Passes(u) => call[u].mine # c.mine
  BY EnqueueOwns
<1>2. CASE MaxSize > 0
  <2> SUFFICES ASSUME NEW k \in DOMAIN Queue PROVE Queue[k] # c.mine
    OBVIOUS
  <2>1. k \in 1 .. pipe_size /\ Queue[k] = Cell(k - 1)
    BY <1>2, StoreShows DEF QueueShows
  <2>2. k - 1 \in 0 .. pipe_size - 1 /\ pipe_size > 0
    BY <2>1 DEF StoreInv, StoreTypes
  <2>3. outcome[Cell(k - 1)] = "accepted"
    BY <1>2, <2>2 DEF StoreInv, RingInOrder
  <2> QED
    BY <1>1, <2>1, <2>3
<1>3. CASE ~(MaxSize > 0)
  <2>1. CASE OnOffer
    <3>1. PICK u \in Threads : Offers(u)
      BY <2>1 DEF OnOffer, StoreInv, HandOver
    <3>2. Passes(u) /\ data[0] = call[u].mine /\ u # t
      BY <1>1, <2>1, <3>1 DEF OnOffer, StoreInv, HandOver, Offers, Passes
    <3>3. data[0] # c.mine
      BY <1>1, <3>2
    <3>4. Queue = <<data[0]>>
      BY <1>3, <2>1, StoreShows DEF QueueShows
    <3> QED
      BY <3>3, <3>4
  <2>2. CASE ~OnOffer
    <3>1. Queue = <<>>
      BY <1>3, <2>2, StoreShows DEF QueueShows
    <3> QED
      BY <3>1
  <2> QED
    BY <2>1, <2>2
<1> QED
  BY <1>2, <1>3

LEMMA PutIsPut ==
  ASSUME CallTypes, StoreInv, StoreInv', NEW t \in Threads, NEW c \in Calls, NEW ew \in Nat,
         EntersEnqueue(t, c, ew), EnqueuePuts(t, c, ew)
  PROVE  Contract!Put(c.mine)
<1>1. c.mine \in Items /\ outcome[c.mine] \in {"unused", "pending"}
  BY EnqueueOwns
<1>2. \A k \in DOMAIN Queue : Queue[k] # c.mine
  BY NotInQueue
<1>3. Queue \in Seq(Items) /\ Queue' \in Seq(Items)
  BY StoreShows, StoreShowsNext DEF QueueShows
<1>4. CASE MaxSize > 0
  <2>1. /\ pipe_size < MaxSize /\ pipe_size' = pipe_size + 1
        /\ \A k \in 0 .. pipe_size - 1 : Cell(k)' = Cell(k)
        /\ \A k : k = pipe_size => Cell(k)' = c.mine
        /\ outcome' = [outcome EXCEPT ![c.mine] = "accepted"]
        /\ taken' = taken
    BY <1>4, PutInRing
  <2>2. /\ Len(Queue) = pipe_size /\ \A k \in 1 .. pipe_size : Queue[k] = Cell(k - 1)
    BY <1>4, StoreShows DEF QueueShows
  <2>3. /\ Len(Queue') = pipe_size' /\ \A k \in 1 .. pipe_size' : Queue'[k] = Cell(k - 1)'
    BY <1>4, StoreShowsNext DEF QueueShows
  <2>4. pipe_size \in Nat
    BY NumbersAreNumbers DEF StoreInv, StoreTypes
  <2>5. Queue' = Append(Queue, c.mine)
    <3> DEFINE longer == Append(Queue, c.mine)
    <3>1. /\ longer \in Seq(Items) /\ Len(longer) = Len(Queue) + 1
          /\ \A i \in 1 .. Len(Queue) : longer[i] = Queue[i]
          /\ longer[Len(Queue) + 1] = c.mine
      BY <1>1, <1>3, AppendProperties
    <3> HIDE DEF longer
    <3>2. ASSUME NEW k \in 1 .. pipe_size' PROVE Queue'[k] = longer[k]
      <4>1. CASE k \in 1 .. pipe_size
        <5>1. k - 1 \in 0 .. pipe_size - 1
          BY <2>4, <4>1
        <5> QED
          BY <2>1, <2>2, <2>3, <3>1, <3>2, <4>1, <5>1
      <4>2. CASE k = pipe_size + 1
        <5>1. k - 1 = pipe_size
          BY <2>4, <4>2
        <5> QED
          BY <2>1, <2>2, <2>3, <3>1, <3>2, <4>2, <5>1
      <4> QED
        BY <2>1, <2>4, <3>2, <4>1, <4>2
    <3>3. Len(Queue') = Len(longer)
      BY <2>1, <2>2, <2>3, <3>1
    <3> QED
      BY <1>3, <2>3, <3>1, <3>2, <3>3, SeqEqual DEF longer
  <2> QED
    BY <1>1, <1>2, <1>4, <2>1, <2>2, <2>5 DEF Contract!Put
<1>5. CASE ~(MaxSize > 0)
  <2>1. /\ MaxSize = 0 /\ first = 1 /\ last = 1 /\ first' = 0 /\ last' = 0
        /\ data'[0] = c.mine /\ outcome' = [outcome EXCEPT ![c.mine] = "pending"]
        /\ UNCHANGED <<pipe_size, taken>>
    BY <1>5, OfferStarts
  <2>2. Queue = <<>>
    BY <1>5, <2>1, StoreShows DEF QueueShows, OnOffer
  <2>3. Queue' = <<c.mine>>
    BY <1>5, <2>1, StoreShowsNext DEF QueueShows, OnOffer
  <2>4. Queue' = Append(Queue, c.mine)
    BY <2>2, <2>3
  <2> QED
    BY <1>1, <1>2, <2>1, <2>2, <2>4 DEF Contract!Put
<1> QED
  BY <1>4, <1>5

LEMMA TakeIsTake ==
  ASSUME CallTypes, StoreInv, StoreInv', NEW t \in Threads, NEW c \in Calls,
         NEW dw \in Nat, NEW asleep, DequeueTakes(t, c, dw, asleep)
  PROVE  Contract!Take
<1>1. Queue \in Seq(Items) /\ Queue' \in Seq(Items)
  BY StoreShows, StoreShowsNext DEF QueueShows
<1>2. outcome' = outcome
  BY DEF DequeueTakes
<1>3. CASE MaxSize > 0
  <2>1. /\ pipe_size > 0 /\ pipe_size' = pipe_size - 1
        /\ taken' = Append(taken, Cell(0))
        /\ \A k \in 0 .. pipe_size - 2 : Cell(k)' = Cell(k + 1)
    BY <1>3, TakeFromRing
  <2>2. /\ Len(Queue) = pipe_size /\ \A k \in 1 .. pipe_size : Queue[k] = Cell(k - 1)
    BY <1>3, StoreShows DEF QueueShows
  <2>3. /\ Len(Queue') = pipe_size' /\ \A k \in 1 .. pipe_size' : Queue'[k] = Cell(k - 1)'
    BY <1>3, StoreShowsNext DEF QueueShows
  <2>4. pipe_size \in Nat
    BY NumbersAreNumbers DEF StoreInv, StoreTypes
  <2>5. Queue # <<>> /\ Head(Queue) = Cell(0)
    <3>1. Queue # <<>>
      BY <2>1, <2>2
    <3>2. 1 \in 1 .. pipe_size /\ 1 - 1 = 0
      BY <2>1, <2>4
    <3>3. Queue[1] = Cell(0)
      BY <2>2, <3>2
    <3> QED
      BY <1>1, <3>1, <3>3
  <2>6. Queue' = Tail(Queue)
    <3> DEFINE rest == Tail(Queue)
    <3>1. /\ rest \in Seq(Items) /\ Len(rest) = Len(Queue) - 1
          /\ \A i \in 1 .. Len(rest) : rest[i] = Queue[i + 1]
      BY <1>1, <2>5, HeadTailProperties
    <3> HIDE DEF rest
    <3>2. ASSUME NEW k \in 1 .. pipe_size' PROVE Queue'[k] = rest[k]
      <4>1. /\ k - 1 \in 0 .. pipe_size - 2 /\ k + 1 \in 1 .. pipe_size
            /\ (k + 1) - 1 = (k - 1) + 1 /\ k \in 1 .. Len(rest)
        BY <2>1, <2>2, <2>4, <3>1
      <4>2. Queue'[k] = Cell((k - 1) + 1)
        BY <2>1, <2>3, <4>1
      <4>3. rest[k] = Cell((k + 1) - 1)
        BY <2>2, <3>1, <4>1
      <4> QED
        BY <4>1, <4>2, <4>3
    <3>3. Len(Queue') = Len(rest)
      BY <2>1, <2>2, <2>3, <3>1
    <3> QED
      BY <1>1, <2>3, <3>1, <3>2, <3>3, SeqEqual DEF rest
  <2> QED
    BY <1>2, <2>1, <2>5, <2>6 DEF Contract!Take
<1>4. CASE ~(MaxSize > 0)
  <2>1. MaxSize = 0 /\ pipe_size = 0
    BY <1>4, NumbersAreNumbers DEF StoreInv, StoreTypes
  <2>2. /\ OnOffer /\ first = 0 /\ last = 0 /\ first' = 0 /\ last' = 1
        /\ taken' = Append(taken, data[0])
    BY <1>4, <2>1 DEF DequeueTakes, NothingThere, OnOffer
  <2>3. Queue = <<data[0]>>
    BY <1>4, <2>2, StoreShows DEF QueueShows
  <2>4. Queue' = <<>>
    BY <1>4, <2>2, StoreShowsNext DEF QueueShows, OnOffer
  <2>5. Head(Queue) = data[0] /\ Tail(Queue) = <<>> /\ Queue # <<>>
    BY <2>3
  <2> QED
    BY <1>2, <2>2, <2>4, <2>5 DEF Contract!Take
<1> QED
  BY <1>3, <1>4

LEMMA StepKeepsContract ==
  ASSUME CallInv, StoreInv, StoreInv', NEW t \in Threads, Step(t)
  PROVE  [Contract!ContractNext]_(Contract!contractVars)
<1>1. CallTypes /\ call \in [Threads -> Calls] /\ call[t] \in Calls
      /\ outcome \in [Items -> {"unused", "pending", "accepted", "returned"}]
  BY DEF CallInv, CallTypes, StoreInv, StoreTypes
<1>2. ASSUME UNCHANGED <<store, history>> PROVE UNCHANGED Contract!contractVars
  <2>1. Queue' = Queue
    BY <1>2, QuietKeepsQueue DEF store
  <2> QED
    BY <1>2, <2>1 DEF Contract!contractVars, history
<1>3. ASSUME NEW c \in Calls, NEW ew \in Nat, EntersEnqueue(t, c, ew), EnqueueSegment(t, c, ew)
      PROVE  Contract!ContractNext \/ UNCHANGED Contract!contractVars
  <2>1. /\ c.mine \in Items /\ outcome[c.mine] \in {"unused", "pending"}
        /\ \A k \in DOMAIN taken : taken[k] # c.mine
    BY <1>1, <1>3, EnqueueOwns
  <2>2. \A k \in DOMAIN Queue : Queue[k] # c.mine
    BY <1>1, <1>3, NotInQueue
  <2>3. CASE EnqueueWaits(t, c, ew)
    <3>1. /\ UNCHANGED store /\ taken' = taken
          /\ outcome' = [outcome EXCEPT ![c.mine] = "pending"]
      BY <2>3 DEF EnqueueWaits
    <3>2. Queue' = Queue
      BY <3>1, QuietKeepsQueue DEF store
    <3>3. CASE outcome[c.mine] = "unused"
      BY <2>1, <3>1, <3>2, <3>3 DEF Contract!ContractNext, Contract!Begin
    <3>4. CASE outcome[c.mine] = "pending"
      <4>1. outcome' = outcome
        BY <1>1, <2>1, <3>1, <3>4
      <4> QED
        BY <3>1, <3>2, <4>1 DEF Contract!contractVars
    <3> QED
      BY <2>1, <3>3, <3>4
  <2>4. CASE EnqueueFails(t, c, ew)
    <3>1. UNCHANGED store /\ taken' = taken
      BY <2>4 DEF EnqueueFails
    <3>2. outcome' = [outcome EXCEPT ![c.mine] = "returned"]
      BY <1>1, <1>3, <2>4, EnqueueFailsKeepsStore
    <3>3. Queue' = Queue
      BY <3>1, QuietKeepsQueue DEF store
    <3>4. Contract!Refuse(c.mine)
      BY <2>1, <2>2, <3>1, <3>2, <3>3 DEF Contract!Refuse
    <3> QED
      BY <2>1, <3>4 DEF Contract!ContractNext
  <2>5. CASE EnqueuePuts(t, c, ew)
    BY <1>1, <1>3, <2>1, <2>5, PutIsPut DEF Contract!ContractNext
  <2> QED
    BY <1>3, <2>3, <2>4, <2>5 DEF EnqueueSegment
<1>4. ASSUME Offering(t) PROVE Contract!ContractNext \/ UNCHANGED Contract!contractVars
  <2>1. Offers(t)
    BY <1>4 DEF Offering, OfferWaits, OfferWithdrawn, OfferTaken, Awake, Offers
  <2>2. /\ MaxSize = 0 /\ first = 0
        /\ call[t].mine \in Items /\ outcome[call[t].mine] = "pending"
        /\ last = 0 => /\ data[0] = call[t].mine
                       /\ \A k \in DOMAIN taken : taken[k] # call[t].mine
        /\ last # 0 => /\ last = 1
                       /\ \E k \in DOMAIN taken : taken[k] = call[t].mine
    BY <1>1, <2>1, OfferBelongs
  <2>3. ~(MaxSize > 0)
    BY <2>2
  <2>4. CASE OfferWaits(t)
    BY <1>2, <2>4 DEF OfferWaits
  <2>5. CASE OfferWithdrawn(t)
    <3>1. last = 0 /\ last' = 1 /\ taken' = taken
      BY <2>5 DEF OfferWithdrawn, Withdrawing
    <3>2. outcome' = [outcome EXCEPT ![call[t].mine] = "returned"]
      BY <1>1, <2>5, OfferWithdrawnKeepsStore
    <3>3. Queue = <<call[t].mine>>
      BY <2>2, <2>3, <3>1, StoreShows DEF QueueShows, OnOffer
    <3>4. Queue' = <<>>
      BY <2>3, <3>1, StoreShowsNext DEF QueueShows, OnOffer
    <3>5. Contract!Refuse(call[t].mine)
      BY <2>2, <3>1, <3>2, <3>3, <3>4 DEF Contract!Refuse
    <3> QED
      BY <2>2, <3>5 DEF Contract!ContractNext
  <2>6. CASE OfferTaken(t)
    <3>1. last # 0 /\ last' = 1 /\ taken' = taken
          /\ outcome' = [outcome EXCEPT ![call[t].mine] = "accepted"]
      BY <2>6 DEF OfferTaken
    <3>2. Queue = <<>>
      BY <2>3, <3>1, StoreShows DEF QueueShows, OnOffer
    <3>3. Queue' = <<>>
      BY <2>3, <3>1, StoreShowsNext DEF QueueShows, OnOffer
    <3>4. Contract!Report(call[t].mine)
      BY <2>2, <3>1, <3>2, <3>3 DEF Contract!Report
    <3> QED
      BY <2>2, <3>4 DEF Contract!ContractNext
  <2> QED
    BY <1>4, <2>4, <2>5, <2>6 DEF Offering
<1>5. ASSUME NEW c \in Calls, NEW dw \in Nat, NEW asleep \in [Signalers -> SUBSET Threads],
             DequeueSegment(t, c, dw, asleep)
      PROVE  Contract!ContractNext \/ UNCHANGED Contract!contractVars
  <2>1. CASE DequeueWaits(t, c, dw, asleep) \/ DequeueFails(t, c, dw, asleep)
    BY <1>2, <2>1 DEF DequeueWaits, DequeueFails
  <2>2. CASE DequeueTakes(t, c, dw, asleep)
    BY <1>1, <2>2, TakeIsTake DEF Contract!ContractNext
  <2> QED
    BY <1>5, <2>1, <2>2 DEF DequeueSegment
<1>6. ASSUME Sets(t) PROVE Contract!ContractNext \/ UNCHANGED Contract!contractVars
  <2>1. CASE Empty(t)
    <3>1. pipe_size' = 0 /\ UNCHANGED <<first, last, data, history>>
      BY <2>1 DEF Empty
    <3>2. CASE MaxSize > 0
      <4>1. Queue' \in Seq(Items) /\ Len(Queue') = 0
        BY <3>1, <3>2, StoreShowsNext DEF QueueShows
      <4>2. Queue' = <<>>
        BY <4>1
      <4> QED
        BY <3>1, <3>2, <4>2 DEF Contract!ContractNext, Contract!Clear, history
    <3>3. CASE ~(MaxSize > 0)
      <4>1. pipe_size = 0
        BY <3>3, NumbersAreNumbers DEF StoreInv, StoreTypes
      <4> QED
        BY <1>2, <3>1, <4>1 DEF store
    <3> QED
      BY <3>2, <3>3
  <2>2. CASE ~Empty(t)
    BY <1>2, <1>6, <2>2
    DEF Sets, Enable, Disable, EnableEnqueue, DisableEnqueue, EnableDequeue, DisableDequeue
  <2> QED
    BY <2>1, <2>2
<1>7. \A c \in Calls, n \in Nat :
        WaitUntilEmptySegment(t, c, n) \/ WaitForBlockedSegment(t, c, n)
          => UNCHANGED <<store, history>>
  BY DEF WaitUntilEmptySegment, WaitForBlockedSegment
<1>8. TimeRunsOut(t) \/ WakesUnasked(t) => UNCHANGED <<store, history>>
  BY DEF TimeRunsOut, WakesUnasked
<1> QED
  BY <1>2, <1>3, <1>4, <1>5, <1>6, <1>7, <1>8 DEF Step

(***************************************************************************)
(* The pipe keeps PipeContract, whatever its threads do: items leave in    *)
(* the order they entered, each to one dequeue(), and an enqueue() is told *)
(* the truth about its item.                                               *)
(***************************************************************************)
THEOREM PipeKeepsContract == PipeSpec => KeepsContract
<1>1. PipeInit => Contract!ContractInit
  <2> SUFFICES ASSUME PipeInit PROVE Contract!ContractInit
    OBVIOUS
  <2>1. QueueShows /\ pipe_size = 0 /\ ~OnOffer
    BY CoreInit, StoreShows DEF PipeInit, OnOffer
  <2>2. Queue = <<>>
    BY <2>1 DEF QueueShows
  <2> QED
    BY <2>2 DEF PipeInit, Contract!ContractInit
<1>2. CallInv /\ StoreInv /\ StoreInv' /\ [Next]_vars
        => [Contract!ContractNext]_(Contract!contractVars)
  <2> SUFFICES ASSUME CallInv, StoreInv, StoreInv', [Next]_vars
               PROVE  [Contract!ContractNext]_(Contract!contractVars)
    OBVIOUS
  <2>1. CASE Next
    <3>1. PICK t \in Threads : Step(t)
      BY <2>1, StepCases DEF StoreInv
    <3> QED
      BY <3>1, StepKeepsContract
  <2>2. CASE UNCHANGED vars
    <3>1. Queue' = Queue
      BY <2>2, QuietKeepsQueue DEF vars, store
    <3> QED
      BY <2>2, <3>1 DEF vars, history, Contract!contractVars
  <2> QED
    BY <2>1, <2>2
<1> QED
  BY <1>1, <1>2, CoreInvariant, PTL DEF PipeSpec, KeepsContract, Contract!ContractSpec

(***************************************************************************)
(* Wake-ups. A call has cause to sleep on enqueue_sig as long as its       *)
(* loop's test would send it back to sleep; a dequeue is ready to take     *)
(* when it is awake and its time has not run out.                          *)
(***************************************************************************)
Cause(c) ==
  \/ c.op = "enqueue" /\ NoRoom(c)
  \/ c.op = "offer" /\ last = 0 /\ enabled /\ enqueue_enabled
  \/ c.op = "waitEmpty" /\ pipe_size > 0 /\ enabled
Ready == {u \in In({"dequeue"}) : u \notin sleeping["dequeue_sig"] /\ ~call[u].expired}

ReadyIsAwake ==
  /\ {u \in In({"dequeue"}) : ~Asleep(u) /\ ~call[u].expired} = Ready
  /\ IsFiniteSet(Ready) /\ Cardinality(Ready) \in Nat

LEMMA AwakeIsReady == CallTypes /\ SleepersMatch => ReadyIsAwake
<1> SUFFICES ASSUME CallTypes, SleepersMatch PROVE ReadyIsAwake
  OBVIOUS
<1>1. \A u \in In({"dequeue"}) : ~Asleep(u) <=> u \notin sleeping["dequeue_sig"]
  BY DEF In, Asleep, SleepersMatch, Matches, Signalers, EnqueueOps, UnblockOps
<1>2. IsFiniteSet(Ready)
  BY PipeAssumption, FS_Subset DEF Ready, In
<1> QED
  BY <1>1, <1>2, FS_CardinalityType DEF Ready, ReadyIsAwake

LEMMA AwakeIsReadyNext == CallTypes' /\ SleepersMatch' => ReadyIsAwake'
BY AwakeIsReady, PTL

(* Whoever sleeps in the next state, but for the thread that moves, slept  *)
(* before, in the same call.                                               *)
LEMMA OthersSlept ==
  ASSUME CallInv, NEW t \in Threads, NEW c, Moves(t, c)
  PROVE  /\ call'[t] = c /\ c \in Calls
         /\ \A u \in Threads \ {t} : call'[u] = call[u]
         /\ \A s \in Signalers, u \in Threads \ {t} : u \in sleeping'[s] => u \in sleeping[s]
         /\ sleeping' \in [Signalers -> SUBSET Threads]
         /\ sleeping \in [Signalers -> SUBSET Threads]
         /\ \A s \in Signalers : t \in sleeping'[s] => Matches(s, c)
BY DEF CallInv, CallTypes, Moves, Settles

LEMMA EnqueueSide ==
  ASSUME CallInv, EnqueuersSleepForCause, NEW t \in Threads, NEW c, Moves(t, c),
         \A d \in Calls : Cause(d) => Cause(d)',
         t \in sleeping'["enqueue_sig"] => Cause(c)'
  PROVE  EnqueuersSleepForCause'
<1>1. "enqueue_sig" \in Signalers
  BY DEF Signalers
<1> SUFFICES ASSUME NEW u \in sleeping'["enqueue_sig"]
             PROVE  \E d \in Calls : d = call'[u] /\ Cause(d)'
  BY DEF EnqueuersSleepForCause, Cause, NoRoom
<1>2. CASE u = t
  BY <1>2, OthersSlept
<1>3. CASE u # t
  <2>1. u \in sleeping["enqueue_sig"] /\ call'[u] = call[u] /\ u \in Threads
    BY <1>1, <1>3, OthersSlept
  <2>2. call[u] \in Calls /\ Cause(call[u])
    BY <2>1 DEF CallInv, CallTypes, EnqueuersSleepForCause, Cause
  <2> QED
    BY <2>1, <2>2
<1> QED
  BY <1>2, <1>3

LEMMA NoEnqueuerSleeps ==
  ASSUME sleeping'["enqueue_sig"] = {}
  PROVE  EnqueuersSleepForCause'
BY DEF EnqueuersSleepForCause

LEMMA DequeueSide ==
  ASSUME CallInv, CallTypes', SleepersMatch', NEW t \in Threads, NEW c, Moves(t, c),
         DequeuersSleepForCause, DisabledWoken, Available \in Nat, Available' \in Nat,
         sleeping'["dequeue_sig"] # {} =>
           /\ enabled' /\ dequeue_enabled'
           /\ \/ Available' = 0
              \/ /\ sleeping["dequeue_sig"] # {}
                 /\ \/ Available' <= Available /\ (t \in Ready => t \in Ready')
                    \/ Available' < Available
                    \/ /\ Available' <= Available + 1 /\ t \notin Ready
                       /\ \E u \in Ready' : u \notin Ready
  PROVE  DequeuersSleepForCause' /\ DisabledWoken'
<1> SUFFICES ASSUME sleeping'["dequeue_sig"] # {}
             PROVE  enabled' /\ dequeue_enabled' /\ Available' <= Cardinality(Ready')
  BY AwakeIsReadyNext DEF ReadyIsAwake, DequeuersSleepForCause, DisabledWoken
<1>1. /\ IsFiniteSet(Ready) /\ Cardinality(Ready) \in Nat
      /\ IsFiniteSet(Ready') /\ Cardinality(Ready') \in Nat
  BY AwakeIsReady, AwakeIsReadyNext DEF ReadyIsAwake, CallInv
<1>2. CASE Available' = 0
  BY <1>1, <1>2
<1>3. CASE sleeping["dequeue_sig"] # {} /\ Available' # 0
  <2>1. Available <= Cardinality(Ready)
    BY <1>3, AwakeIsReady DEF ReadyIsAwake, DequeuersSleepForCause, DisabledWoken, CallInv
  <2>2. Ready \ {t} \subseteq Ready' \cup {t}
    <3>1. "dequeue_sig" \in Signalers
      BY DEF Signalers
    <3> QED
      BY <3>1, OthersSlept DEF Ready, In
  <2>3. Ready \ {t} \subseteq Ready'
    BY <2>2
  <2>4. CASE t \in Ready => t \in Ready'
    <3>1. Ready \subseteq Ready'
      BY <2>3, <2>4
    <3>2. Cardinality(Ready) <= Cardinality(Ready')
      BY <1>1, <3>1, FS_Subset
    <3>3. CASE Available' <= Available
      BY <1>1, <2>1, <3>2, <3>3
    <3>4. CASE Available' <= Available + 1 /\ \E u \in Ready' : u \notin Ready
      <4>1. Cardinality(Ready) # Cardinality(Ready')
        BY <1>1, <3>1, <3>4, FS_Subset
      <4> QED
        BY <1>1, <2>1, <3>2, <3>4, <4>1
    <3> QED
      BY <1>3, <3>3, <3>4
  <2>5. CASE Available' < Available
    <3>1. /\ IsFiniteSet(Ready \ {t}) /\ Cardinality(Ready \ {t}) \in Nat
          /\ Cardinality(Ready) <= Cardinality(Ready \ {t}) + 1
      <4>1. /\ IsFiniteSet(Ready \ {t})
            /\ Cardinality(Ready \ {t}) = IF t \in Ready THEN Cardinality(Ready) - 1
                                          ELSE Cardinality(Ready)
        BY <1>1, FS_RemoveElement
      <4>2. Cardinality(Ready \ {t}) \in Nat
        BY <4>1, FS_CardinalityType
      <4> QED
        BY <1>1, <4>1, <4>2
    <3>2. Cardinality(Ready \ {t}) <= Cardinality(Ready')
      BY <1>1, <2>3, FS_Subset
    <3> QED
      BY <1>1, <2>1, <2>5, <3>1, <3>2
  <2> QED
    BY <1>3, <2>4, <2>5
<1> QED
  BY <1>2, <1>3

(* A call that leaves the store, the flags and the dequeues alone can only *)
(* put itself to sleep, for its own cause.                                 *)
LEMMA CalmKeepsWakeUps ==
  ASSUME CallInv, CallTypes', SleepersMatch', WakeInv, Available \in Nat,
         NEW t \in Threads, NEW c, Moves(t, c),
         UNCHANGED <<store, flags, dequeue_waiters>>,
         t \in sleeping'["enqueue_sig"] => Cause(c),
         t \notin sleeping'["dequeue_sig"],
         t \in Ready => t \in Ready'
  PROVE  WakeInv'
<1>1. \A d \in Calls : Cause(d) <=> Cause(d)'
  BY DEF Cause, NoRoom, store, flags
<1>2. EnqueuersSleepForCause'
  <2>1. c \in Calls
    BY DEF Moves
  <2> QED
    BY <1>1, <2>1, EnqueueSide DEF WakeInv
<1>3. Available' = Available
  BY DEF Available, OnOffer, store
<1>4. "dequeue_sig" \in Signalers
  BY DEF Signalers
<1>5. sleeping'["dequeue_sig"] \subseteq sleeping["dequeue_sig"]
  BY <1>4, OthersSlept
<1>6. DequeuersSleepForCause' /\ DisabledWoken'
  <2>1. sleeping'["dequeue_sig"] # {} =>
          /\ enabled' /\ dequeue_enabled' /\ sleeping["dequeue_sig"] # {}
    BY <1>5 DEF WakeInv, DisabledWoken, flags
  <2>2. Available' <= Available
    BY <1>3
  <2> QED
    BY <1>3, <2>1, <2>2, DequeueSide DEF WakeInv
<1> QED
  BY <1>2, <1>6 DEF WakeInv

LEMMA AvailableIsNumber == StoreTypes => Available \in Nat
BY NumbersAreNumbers DEF StoreTypes, Available

LEMMA AvailableIsNumberNext == StoreTypes' => Available' \in Nat
BY NumbersAreNumbers DEF StoreTypes, Available

(* Nobody counts as a waiting enqueue() or dequeue() but those inside.     *)
LEMMA NoWaitersNoSleepers ==
  ASSUME CallInv
  PROVE  /\ ~(enqueue_waiters > 0) => sleeping["enqueue_sig"] = {}
         /\ ~(dequeue_waiters > 0) => sleeping["dequeue_sig"] = {}
         /\ \A t \in Threads : ~(enqueue_waiters > 1) /\ call[t].op \in EnqueueOps
              => sleeping["enqueue_sig"] \subseteq {t}
<1>1. /\ dequeue_waiters \in Nat /\ enqueue_waiters \in Nat
      /\ sleeping \in [Signalers -> SUBSET Threads]
      /\ dequeue_waiters = Cardinality(In(DequeueOps))
      /\ enqueue_waiters = Cardinality(In(EnqueueOps))
  BY DEF CallInv, CallTypes, WaitersCounted, DequeueOps, EnqueueOps
<1>2. \A ops : IsFiniteSet(In(ops))
  BY PipeAssumption, FS_Subset DEF In
<1>3. /\ sleeping["enqueue_sig"] \subseteq In(EnqueueOps)
      /\ sleeping["dequeue_sig"] \subseteq In(DequeueOps)
  BY <1>1 DEF CallInv, SleepersMatch, Matches, In, Signalers
<1>4. ~(enqueue_waiters > 0) => sleeping["enqueue_sig"] = {}
  BY <1>1, <1>2, <1>3, FS_EmptySet
<1>5. ~(dequeue_waiters > 0) => sleeping["dequeue_sig"] = {}
  BY <1>1, <1>2, <1>3, FS_EmptySet
<1>6. ASSUME NEW t \in Threads, ~(enqueue_waiters > 1), call[t].op \in EnqueueOps
      PROVE  sleeping["enqueue_sig"] \subseteq {t}
  <2>1. t \in In(EnqueueOps)
    BY <1>6 DEF In
  <2>2. Cardinality(In(EnqueueOps)) = 1
    BY <1>1, <1>2, <1>6, <2>1, FS_EmptySet
  <2>3. PICK x : In(EnqueueOps) = {x}
    BY <1>2, <2>2, FS_Singleton
  <2> QED
    BY <1>3, <2>1, <2>3
<1> QED
  BY <1>4, <1>5, <1>6

LEMMA StepKeepsWakeUps ==
  ASSUME CallInv, StoreInv, WakeInv, CallInv', StoreInv', NEW t \in Threads, Step(t)
  PROVE  WakeInv'
<1> USE DEF DequeueOps, EnqueueOps, UnblockOps
<1>1. PICK c : Moves(t, c)
  BY StepMoves DEF StoreInv
<1>2. /\ call'[t] = c /\ c \in Calls
      /\ \A u \in Threads \ {t} : call'[u] = call[u]
      /\ \A s \in Signalers, u \in Threads \ {t} : u \in sleeping'[s] => u \in sleeping[s]
      /\ sleeping' \in [Signalers -> SUBSET Threads]
      /\ sleeping \in [Signalers -> SUBSET Threads]
      /\ \A s \in Signalers : t \in sleeping'[s] => Matches(s, c)
  BY <1>1, OthersSlept
<1>3. /\ "enqueue_sig" \in Signalers /\ "unblock_sig" \in Signalers /\ "dequeue_sig" \in Signalers
      /\ t \in sleeping'["enqueue_sig"] => c.op \in EnqueueOps
      /\ t \in sleeping'["dequeue_sig"] => c.op = "dequeue"
  BY <1>2 DEF Signalers, Matches
<1>4. /\ Available \in Nat /\ Available' \in Nat
      /\ CallTypes' /\ SleepersMatch' /\ CallTypes
      /\ EnqueuersSleepForCause /\ DequeuersSleepForCause /\ DisabledWoken
  BY AvailableIsNumber, AvailableIsNumberNext DEF StoreInv, CallInv, WakeInv
<1>5. call[t].op # "dequeue" => t \notin Ready
  BY DEF Ready, In
<1>6. ASSUME UNCHANGED <<store, flags, dequeue_waiters>>,
             t \in sleeping'["enqueue_sig"] => Cause(c),
             t \notin sleeping'["dequeue_sig"], t \in Ready => t \in Ready'
      PROVE  WakeInv'
  BY <1>1, <1>4, <1>6, CalmKeepsWakeUps
<1>7. ASSUME \A d \in Calls : Cause(d) => Cause(d)', t \in sleeping'["enqueue_sig"] => Cause(c)'
      PROVE  EnqueuersSleepForCause'
  BY <1>1, <1>4, <1>7, EnqueueSide
<1>8. ASSUME sleeping'["dequeue_sig"] # {} =>
               /\ enabled' /\ dequeue_enabled'
               /\ \/ Available' = 0
                  \/ /\ sleeping["dequeue_sig"] # {}
                     /\ \/ Available' <= Available /\ (t \in Ready => t \in Ready')
                        \/ Available' < Available
                        \/ /\ Available' <= Available + 1 /\ t \notin Ready
                           /\ \E u \in Ready' : u \notin Ready
      PROVE  DequeuersSleepForCause' /\ DisabledWoken'
  BY <1>1, <1>4, <1>8, DequeueSide
<1>9. sleeping["dequeue_sig"] # {} => enabled /\ dequeue_enabled
  BY <1>4 DEF DisabledWoken
<1>10. t \notin sleeping'["dequeue_sig"] => sleeping'["dequeue_sig"] \subseteq sleeping["dequeue_sig"]
  BY <1>2, <1>3
<1>11. ASSUME NEW d \in Calls, NEW ew \in Nat, EntersEnqueue(t, d, ew), EnqueueSegment(t, d, ew)
       PROVE  WakeInv'
  <2>1. t \notin Ready /\ d.op = "enqueue"
    BY <1>5, <1>11 DEF EntersEnqueue, Enters
  <2>2. CASE EnqueueWaits(t, d, ew)
    <3>1. /\ UNCHANGED <<store, flags, dequeue_waiters>> /\ NoRoom(d)
          /\ call' = [call EXCEPT ![t] = d]
      BY <2>2 DEF EnqueueWaits, Sleep
    <3>2. c = d
      BY <1>2, <1>4, <3>1 DEF CallTypes
    <3> QED
      BY <1>3, <1>6, <2>1, <3>1, <3>2 DEF Cause
  <2>3. CASE EnqueueFails(t, d, ew)
    <3>1. /\ UNCHANGED <<store, flags, dequeue_waiters>>
          /\ call' = [call EXCEPT ![t] = Idle]
      BY <2>3 DEF EnqueueFails, Return
    <3>2. c.op = "idle"
      BY <1>2, <1>4, <3>1 DEF CallTypes, Idle
    <3> QED
      BY <1>3, <1>6, <2>1, <3>1, <3>2
  <2>4. CASE EnqueuePuts(t, d, ew)
    <3>1. PICK asleep \in IF dequeue_waiters > 0 THEN Signalled("dequeue_sig", sleeping)
                          ELSE {sleeping} :
            IF MaxSize > 0 THEN sleeping' = asleep /\ call' = [call EXCEPT ![t] = Idle]
            ELSE sleeping' = [asleep EXCEPT !["enqueue_sig"] = @ \cup {t}]
      BY <2>4 DEF EnqueuePuts, Sleep, Return
    <3>2. UNCHANGED <<flags, dequeue_waiters>> /\ enabled /\ enqueue_enabled /\ ~NoRoom(d)
      BY <2>4 DEF EnqueuePuts
    <3>3. asleep \in [Signalers -> SUBSET Threads]
      BY <1>2, <1>3, Notifications
    <3>4. sleeping'["dequeue_sig"] = asleep["dequeue_sig"]
      BY <3>1, <3>3 DEF Signalers
    <3>5. c.op \in {"idle", "offer"}
      <4>1. CASE MaxSize > 0
        BY <1>2, <1>4, <3>1, <4>1 DEF CallTypes, Idle
      <4>2. CASE ~(MaxSize > 0)
        BY <1>2, <1>4, <1>11, <2>4, <4>2, OfferStarts DEF StoreInv
      <4> QED
        BY <4>1, <4>2
    <3>6. sleeping'["dequeue_sig"] \subseteq sleeping["dequeue_sig"]
      BY <1>3, <1>10, <3>5
    <3>7. ASSUME sleeping'["dequeue_sig"] # {} PROVE \E u \in Ready' : u \notin Ready
      <4>1. dequeue_waiters > 0
        BY <3>6, <3>7, NoWaitersNoSleepers
      <4>2. PICK u \in sleeping["dequeue_sig"] :
              asleep = [sleeping EXCEPT !["dequeue_sig"] = @ \ {u}]
        BY <3>1, <3>6, <3>7, <4>1 DEF Signalled
      <4>3. /\ u \in Threads /\ u \notin sleeping'["dequeue_sig"] /\ u # t
            /\ call[u].op = "dequeue" /\ ~call[u].expired
        <5>1. u \in Threads /\ u \notin sleeping'["dequeue_sig"]
          BY <1>2, <1>3, <3>4, <4>2
        <5>2. call[u].op = "dequeue" /\ ~call[u].expired
          BY <1>3 DEF CallInv, SleepersMatch, Matches
        <5> QED
          BY <1>11, <5>1, <5>2 DEF EntersEnqueue, Enters
      <4>4. call'[u] = call[u]
        BY <1>2, <4>3
      <4> QED
        BY <4>3, <4>4 DEF Ready, In
    <3>8. Available' <= Available + 1
      <4>1. CASE MaxSize > 0
        <5>1. pipe_size' = pipe_size + 1
          BY <2>4, <4>1 DEF EnqueuePuts
        <5> QED
          BY <1>4, <4>1, <5>1 DEF Available
      <4>2. CASE ~(MaxSize > 0)
        BY <1>4, <4>2 DEF Available
      <4> QED
        BY <4>1, <4>2
    <3>9. DequeuersSleepForCause' /\ DisabledWoken'
      BY <1>8, <1>9, <2>1, <3>2, <3>6, <3>7, <3>8 DEF flags
    <3>10. EnqueuersSleepForCause'
      <4>1. CASE MaxSize > 0
        <5>1. pipe_size < MaxSize /\ pipe_size' = pipe_size + 1 /\ c.op = "idle"
          <6>1. c.op = "idle"
            BY <1>2, <1>4, <3>1, <4>1 DEF CallTypes, Idle
          <6> QED
            BY <1>4, <1>11, <2>4, <4>1, <6>1, PutInRing
        <5>2. pipe_size \in Nat /\ MaxSize \in Nat
          BY NumbersAreNumbers DEF StoreInv, StoreTypes
        <5>3. \A e \in Calls : e.op # "offer" /\ Cause(e) => Cause(e)'
          BY <3>2, <5>1, <5>2 DEF Cause, NoRoom, flags
        <5>4. \A u \in sleeping["enqueue_sig"] : call[u].op # "offer"
          BY <1>2, <1>3, <4>1 DEF StoreInv, HandOver, Offers
        <5> SUFFICES ASSUME NEW u \in sleeping'["enqueue_sig"]
                     PROVE  \E e \in Calls : e = call'[u] /\ Cause(e)'
          BY DEF EnqueuersSleepForCause, Cause, NoRoom
        <5>5. u \in Threads \ {t}
          BY <1>2, <1>3, <5>1
        <5>6. u \in sleeping["enqueue_sig"] /\ call'[u] = call[u]
          BY <1>2, <1>3, <5>5
        <5>7. call[u] \in Calls /\ Cause(call[u])
          BY <1>4, <5>5, <5>6 DEF CallTypes, EnqueuersSleepForCause, Cause
        <5> QED
          BY <5>3, <5>4, <5>6, <5>7
      <4>2. CASE ~(MaxSize > 0)
        <5>1. MaxSize = 0 /\ first = 1 /\ last = 1 /\ first' = 0 /\ last' = 0
              /\ UNCHANGED pipe_size /\ c.op = "offer"
          BY <1>2, <1>4, <1>11, <2>4, <4>2, OfferStarts DEF StoreInv
        <5>2. \A e \in Calls : Cause(e) => Cause(e)'
          BY <3>2, <5>1 DEF Cause, NoRoom, flags
        <5>3. Cause(c)'
          BY <3>2, <5>1 DEF Cause, flags
        <5> QED
          BY <1>7, <5>2, <5>3
      <4> QED
        BY <4>1, <4>2
    <3> QED
      BY <3>9, <3>10 DEF WakeInv
  <2> QED
    BY <1>11, <2>2, <2>3, <2>4 DEF EnqueueSegment
<1>12. ASSUME Offering(t) PROVE WakeInv'
  <2>1. Offers(t) /\ call[t].op = "offer" /\ ~Asleep(t) /\ t \notin Ready
    BY <1>5, <1>12 DEF Offering, OfferWaits, OfferWithdrawn, OfferTaken, Awake, Offers
  <2>2. /\ MaxSize = 0 /\ pipe_size = 0 /\ first = 0
        /\ last # 0 => last = 1
    BY <1>4, <2>1, OfferBelongs
  <2>3. CASE OfferWaits(t)
    <3>1. UNCHANGED <<store, flags, dequeue_waiters>> /\ last = 0 /\ enabled /\ enqueue_enabled
          /\ call' = [call EXCEPT ![t] = call[t]]
      BY <2>3 DEF OfferWaits, Withdrawing, Sleep, waiters
    <3>2. c.op = "offer"
      BY <1>2, <1>4, <2>1, <3>1 DEF CallTypes
    <3> QED
      BY <1>3, <1>6, <2>1, <3>1, <3>2 DEF Cause
  <2>4. CASE OfferWithdrawn(t) \/ OfferTaken(t)
    <3>1. /\ last' = 1 /\ first' = 1 /\ UNCHANGED <<pipe_size, flags, dequeue_waiters>>
          /\ call' = [call EXCEPT ![t] = Idle]
      BY <2>4 DEF OfferWithdrawn, OfferTaken, Return
    <3>2. c.op = "idle"
      BY <1>2, <1>4, <3>1 DEF CallTypes, Idle
    <3>3. Available' = 0
      BY <2>2, <3>1 DEF Available, OnOffer
    <3>4. sleeping'["dequeue_sig"] \subseteq sleeping["dequeue_sig"]
      BY <1>3, <1>10, <3>2
    <3>5. DequeuersSleepForCause' /\ DisabledWoken'
      BY <1>8, <1>9, <3>1, <3>3, <3>4 DEF flags
    <3>6. sleeping'["enqueue_sig"] = {}
      <4>1. \A u \in sleeping'["enqueue_sig"] : u \in sleeping["enqueue_sig"] /\ u # t
        BY <1>2, <1>3, <3>2
      <4>2. CASE OfferWithdrawn(t)
        <5>1. last = 0 /\ ~(enabled /\ enqueue_enabled)
          BY <4>2 DEF OfferWithdrawn, Withdrawing
        <5>2. \A u \in sleeping["enqueue_sig"] : FALSE
          BY <1>4, <2>2, <5>1 DEF EnqueuersSleepForCause, NoRoom
        <5> QED
          BY <4>1, <5>2
      <4>3. CASE OfferTaken(t)
        <5>1. CASE enqueue_waiters > 1
          <6> DEFINE inner == BroadcastIf(enqueue_waiters > 1, "enqueue_sig", sleeping)
          <6>1. inner \in [Signalers -> SUBSET Threads] /\ inner["enqueue_sig"] = {}
            BY <1>2, <1>3, <5>1, Notifications DEF BroadcastIf
          <6>2. sleeping' = BroadcastIf(~enabled /\ unblock_sig_waiters > 0, "unblock_sig", inner)
            BY <4>3 DEF OfferTaken
          <6> HIDE DEF inner
          <6>3. Quieter(sleeping', inner)
            BY <1>3, <6>1, <6>2, BroadcastIsQuieter DEF BroadcastIf
          <6> QED
            BY <1>3, <6>1, <6>3 DEF Quieter
        <5>2. CASE ~(enqueue_waiters > 1)
          BY <2>1, <4>1, <5>2, NoWaitersNoSleepers
        <5> QED
          BY <5>1, <5>2
      <4> QED
        BY <2>4, <4>2, <4>3
    <3> QED
      BY <3>5, <3>6, NoEnqueuerSleeps DEF WakeInv
  <2> QED
    BY <1>12, <2>3, <2>4 DEF Offering
<1>13. ASSUME NEW d \in Calls, NEW dw \in Nat, NEW asleep \in [Signalers -> SUBSET Threads],
              EntersDequeue(t, d, dw, asleep), DequeueSegment(t, d, dw, asleep)
       PROVE  WakeInv'
  <2>1. /\ Quieter(asleep, sleeping) /\ asleep["dequeue_sig"] = sleeping["dequeue_sig"]
        /\ pipe_size = 0 /\ call[t].op = "idle" => asleep["enqueue_sig"] = {}
        /\ call[t].op \in {"idle", "dequeue"}
        /\ call[t].op = "idle" => ~d.expired
        /\ call[t].op = "dequeue" => d = call[t] /\ dw = dequeue_waiters
        /\ call[t].op = "idle" => dw = dequeue_waiters + 1
        /\ dequeue_waiters \in Nat /\ d.op = "dequeue" /\ ~Asleep(t)
    <3>1. Quieter(asleep, sleeping) /\ asleep["dequeue_sig"] = sleeping["dequeue_sig"]
      BY <1>2, <1>4, <1>13, NoticeLeaves DEF EntersDequeue, Quieter, StoreInv
    <3>2. dequeue_waiters \in Nat /\ enqueue_waiters \in Nat
      BY <1>4 DEF CallTypes
    <3>3. /\ call[t].op \in {"idle", "dequeue"}
          /\ call[t].op = "idle" => ~d.expired /\ asleep = DequeueNotice
          /\ call[t].op = "dequeue" => d = call[t] /\ dw = dequeue_waiters
          /\ call[t].op = "idle" => dw = dequeue_waiters + 1
          /\ d.op = "dequeue" /\ ~Asleep(t)
      BY <1>13, <3>2 DEF EntersDequeue, Enters, One
    <3>4. ASSUME pipe_size = 0, call[t].op = "idle" PROVE asleep["enqueue_sig"] = {}
      <4>1. CASE enqueue_waiters > 0
        <5> DEFINE inner == BroadcastIf(unblock_sig_waiters > 0, "unblock_sig", sleeping)
        <5>1. inner \in [Signalers -> SUBSET Threads]
          BY <1>2, <1>3, Notifications DEF BroadcastIf
        <5>2. asleep = BroadcastIf(enqueue_waiters > 0, "enqueue_sig", inner)
          BY <3>3, <3>4 DEF DequeueNotice
        <5> HIDE DEF inner
        <5> QED
          BY <1>3, <4>1, <5>1, <5>2, Notifications DEF BroadcastIf
      <4>2. CASE ~(enqueue_waiters > 0)
        BY <1>3, <3>1, <4>2, NoWaitersNoSleepers DEF Quieter
      <4> QED
        BY <4>1, <4>2
    <3> QED
      BY <3>1, <3>2, <3>3, <3>4
  <2>2. CASE DequeueWaits(t, d, dw, asleep)
    <3>1. /\ NothingThere /\ sleeping' = [asleep EXCEPT !["dequeue_sig"] = @ \cup {t}]
          /\ dequeue_waiters' = dw /\ UNCHANGED <<store, flags>>
          /\ call' = [call EXCEPT ![t] = d]
      BY <2>2 DEF DequeueWaits, Sleep
    <3>2. Available' = 0
      BY <3>1 DEF NothingThere, Available, OnOffer, store
    <3>3. DequeuersSleepForCause' /\ DisabledWoken'
      BY <1>8, <3>1, <3>2 DEF NothingThere, flags
    <3>4. sleeping'["enqueue_sig"] = asleep["enqueue_sig"] /\ c.op = "dequeue"
      BY <1>2, <1>3, <1>4, <2>1, <3>1 DEF CallTypes
    <3>5. CASE call[t].op = "idle"
      BY <2>1, <3>1, <3>3, <3>4, <3>5, NoEnqueuerSleeps DEF NothingThere, WakeInv
    <3>6. CASE call[t].op = "dequeue"
      <4>1. \A e \in Calls : Cause(e) => Cause(e)'
        BY <2>1, <3>1, <3>6 DEF Cause, NoRoom, store, flags
      <4> QED
        BY <1>3, <1>7, <3>3, <3>4, <4>1 DEF WakeInv
    <3> QED
      BY <2>1, <3>5, <3>6
  <2>3. CASE DequeueFails(t, d, dw, asleep)
    <3>1. /\ \/ d.expired
             \/ NothingThere
             \/ ~enabled \/ ~dequeue_enabled
          /\ dequeue_waiters' = dw - 1 /\ UNCHANGED <<store, flags>>
          /\ call' = [call EXCEPT ![t] = Idle]
      BY <2>3 DEF DequeueFails, Return
    <3>2. c.op = "idle"
      BY <1>2, <1>4, <3>1 DEF CallTypes, Idle
    <3>3. sleeping'["dequeue_sig"] \subseteq sleeping["dequeue_sig"]
      BY <1>3, <1>10, <3>2
    <3>4. Available' = Available
      BY <3>1 DEF Available, OnOffer, store
    <3>5. EnqueuersSleepForCause'
      <4>1. dequeue_waiters' > 0 => dequeue_waiters > 0
        BY <2>1, <3>1
      <4>2. \A e \in Calls : Cause(e) => Cause(e)'
        BY <3>1, <4>1 DEF Cause, NoRoom, store, flags
      <4> QED
        BY <1>3, <1>7, <3>2, <4>2
    <3>6. DequeuersSleepForCause' /\ DisabledWoken'
      <4>1. CASE d.expired
        <5>1. t \notin Ready
          BY <2>1, <4>1 DEF Ready, In
        <5>2. Available' <= Available
          BY <1>4, <3>4
        <5> QED
          BY <1>8, <1>9, <3>1, <3>3, <5>1, <5>2 DEF flags
      <4>2. CASE NothingThere
        <5>1. Available' = 0
          BY <3>4, <4>2 DEF NothingThere, Available
        <5> QED
          BY <1>8, <1>9, <3>1, <3>3, <5>1 DEF flags
      <4>3. CASE ~enabled \/ ~dequeue_enabled
        BY <1>8, <1>9, <3>3, <4>3
      <4> QED
        BY <3>1, <4>1, <4>2, <4>3
    <3> QED
      BY <3>5, <3>6 DEF WakeInv
  <2>4. CASE DequeueTakes(t, d, dw, asleep)
    <3>1. /\ ~NothingThere /\ enabled /\ dequeue_enabled /\ UNCHANGED flags
          /\ sleeping' = BroadcastIf(enqueue_waiters > 0, "enqueue_sig", asleep)
          /\ call' = [call EXCEPT ![t] = Idle]
      BY <2>4 DEF DequeueTakes, Return
    <3>2. c.op = "idle"
      BY <1>2, <1>4, <3>1 DEF CallTypes, Idle
    <3>3. sleeping'["dequeue_sig"] \subseteq sleeping["dequeue_sig"]
      BY <1>3, <1>10, <3>2
    <3>4. sleeping'["enqueue_sig"] = {}
      <4>1. CASE enqueue_waiters > 0
        BY <1>3, <3>1, <4>1, Notifications DEF BroadcastIf
      <4>2. CASE ~(enqueue_waiters > 0)
        <5>1. sleeping["enqueue_sig"] = {}
          BY <4>2, NoWaitersNoSleepers
        <5> QED
          BY <1>3, <2>1, <3>1, <4>2, <5>1 DEF BroadcastIf, Quieter
      <4> QED
        BY <4>1, <4>2
    <3>5. Available' < Available
      <4>1. CASE MaxSize > 0
        <5>1. pipe_size' = pipe_size - 1
          BY <2>4, <4>1 DEF DequeueTakes
        <5> QED
          BY <1>4, <4>1, <5>1 DEF Available
      <4>2. CASE ~(MaxSize > 0)
        <5>1. pipe_size = 0
          BY <4>2, NumbersAreNumbers DEF StoreInv, StoreTypes
        <5>2. OnOffer /\ last' = 1
          BY <2>4, <3>1, <4>2, <5>1 DEF DequeueTakes, NothingThere
        <5> QED
          BY <4>2, <5>2 DEF Available, OnOffer
      <4> QED
        BY <4>1, <4>2
    <3>6. DequeuersSleepForCause' /\ DisabledWoken'
      BY <1>8, <3>1, <3>3, <3>5 DEF flags
    <3> QED
      BY <3>4, <3>6, NoEnqueuerSleeps DEF WakeInv
  <2> QED
    BY <1>13, <2>2, <2>3, <2>4 DEF DequeueSegment
<1>14. ASSUME NEW d \in Calls, NEW ew \in Nat, EntersWaitEmpty(t, d, ew),
              WaitUntilEmptySegment(t, d, ew)
       PROVE  WakeInv'
  <2>1. t \notin Ready /\ d.op = "waitEmpty"
    BY <1>5, <1>14 DEF EntersWaitEmpty, Enters
  <2>2. UNCHANGED <<store, flags, dequeue_waiters>>
    BY <1>14 DEF WaitUntilEmptySegment
  <2>3. CASE pipe_size > 0 /\ enabled /\ dequeue_enabled
    <3>1. call' = [call EXCEPT ![t] = d]
      BY <1>14, <2>3 DEF WaitUntilEmptySegment, Sleep
    <3>2. c = d
      BY <1>2, <1>4, <3>1 DEF CallTypes
    <3> QED
      BY <1>3, <1>6, <2>1, <2>2, <2>3, <3>2 DEF Cause
  <2>4. CASE ~(pipe_size > 0 /\ enabled /\ dequeue_enabled)
    <3>1. call' = [call EXCEPT ![t] = Idle]
      BY <1>14, <2>4 DEF WaitUntilEmptySegment, Return
    <3>2. c.op = "idle"
      BY <1>2, <1>4, <3>1 DEF CallTypes, Idle
    <3> QED
      BY <1>3, <1>6, <2>1, <2>2, <3>2
  <2> QED
    BY <2>3, <2>4
<1>15. ASSUME NEW d \in Calls, NEW uw \in Nat, EntersWaitBlocked(t, d, uw),
              WaitForBlockedSegment(t, d, uw)
       PROVE  WakeInv'
  <2>1. t \notin Ready /\ d.op = "waitBlocked"
    BY <1>5, <1>15 DEF EntersWaitBlocked, Enters
  <2>2. /\ UNCHANGED <<store, flags, dequeue_waiters>>
        /\ call' = [call EXCEPT ![t] = d] \/ call' = [call EXCEPT ![t] = Idle]
    BY <1>15 DEF WaitForBlockedSegment, Sleep, Return
  <2>3. c.op \in {"idle", "waitBlocked"}
    BY <1>2, <1>4, <2>1, <2>2 DEF CallTypes, Idle
  <2> QED
    BY <1>3, <1>6, <2>1, <2>2, <2>3
<1>16. ASSUME Sets(t) PROVE WakeInv'
  <2>1. CanCall(t) /\ call' = call /\ dequeue_waiters' = dequeue_waiters
    BY <1>16 DEF Sets, Empty, Enable, Disable, EnableEnqueue, DisableEnqueue, EnableDequeue,
                 DisableDequeue, waiters
  <2>2. call[t].op = "idle" /\ c.op = "idle" /\ t \notin Ready
    BY <1>2, <1>5, <2>1 DEF CanCall
  <2>3. sleeping'["dequeue_sig"] \subseteq sleeping["dequeue_sig"]
    BY <1>3, <1>10, <2>2
  <2>4. CASE Empty(t)
    <3>1. /\ pipe_size' = 0 /\ UNCHANGED <<first, last, flags>>
          /\ sleeping' = BroadcastIf(enqueue_waiters > 0, "enqueue_sig", sleeping)
      BY <2>4 DEF Empty
    <3>2. sleeping'["enqueue_sig"] = {}
      BY <1>2, <1>3, <3>1, NoWaitersNoSleepers, Notifications DEF BroadcastIf
    <3>3. Available' <= Available
      <4>1. CASE MaxSize > 0
        BY <1>4, <3>1, <4>1 DEF Available
      <4>2. CASE ~(MaxSize > 0)
        <5>1. Available' = Available
          BY <3>1, <4>2 DEF Available, OnOffer
        <5> QED
          BY <1>4, <5>1
      <4> QED
        BY <4>1, <4>2
    <3>4. DequeuersSleepForCause' /\ DisabledWoken'
      BY <1>8, <1>9, <2>2, <2>3, <3>1, <3>3 DEF flags
    <3> QED
      BY <3>2, <3>4, NoEnqueuerSleeps DEF WakeInv
  <2>5. CASE ~Empty(t)
    <3>1. UNCHANGED store
      BY <1>16, <2>5
      DEF Sets, Enable, Disable, EnableEnqueue, DisableEnqueue, EnableDequeue, DisableDequeue
    <3>2. Available' = Available
      BY <3>1 DEF Available, OnOffer, store
    <3>3. Available' <= Available
      BY <1>4, <3>2
    <3>4. DequeuersSleepForCause' /\ DisabledWoken'
      <4>1. CASE Disable(t)
        <5>1. sleeping'["dequeue_sig"] = {}
          BY <1>3, <4>1 DEF Disable
        <5> QED
          BY <1>8, <5>1
      <4>2. CASE DisableDequeue(t)
        <5>1. sleeping'["dequeue_sig"] = {}
          BY <1>2, <1>3, <4>2, Notifications DEF DisableDequeue
        <5> QED
          BY <1>8, <5>1
      <4>3. CASE Enable(t) \/ EnableEnqueue(t) \/ EnableDequeue(t) \/ DisableEnqueue(t)
        <5>1. enabled /\ dequeue_enabled => enabled' /\ dequeue_enabled'
          BY <4>3 DEF Enable, EnableEnqueue, EnableDequeue, DisableEnqueue
        <5> QED
          BY <1>8, <1>9, <2>2, <2>3, <3>3, <5>1
      <4> QED
        BY <1>16, <2>5, <4>1, <4>2, <4>3 DEF Sets
    <3>5. EnqueuersSleepForCause'
      <4>1. CASE Disable(t)
        <5>1. sleeping'["enqueue_sig"] = {}
          BY <1>3, <4>1 DEF Disable
        <5> QED
          BY <5>1, NoEnqueuerSleeps
      <4>2. CASE DisableEnqueue(t)
        <5>1. sleeping'["enqueue_sig"] = {}
          BY <1>2, <1>3, <4>2, Notifications DEF DisableEnqueue
        <5> QED
          BY <5>1, NoEnqueuerSleeps
      <4>3. CASE Enable(t) \/ EnableEnqueue(t) \/ EnableDequeue(t) \/ DisableDequeue(t)
        <5>1. /\ enabled => enabled'
              /\ enqueue_enabled => enqueue_enabled'
          BY <4>3 DEF Enable, EnableEnqueue, EnableDequeue, DisableDequeue
        <5>2. \A e \in Calls : Cause(e) => Cause(e)'
          BY <2>1, <3>1, <5>1 DEF Cause, NoRoom, store
        <5> QED
          BY <1>3, <1>7, <2>2, <5>2
      <4> QED
        BY <1>16, <2>5, <4>1, <4>2, <4>3 DEF Sets
    <3> QED
      BY <3>4, <3>5 DEF WakeInv
  <2> QED
    BY <2>4, <2>5
<1>17. ASSUME NEW uw \in Nat, NEW asleep \in [Signalers -> SUBSET Threads],
              EntersDestroy(t, uw, asleep), DestroySegment(t, uw, asleep),
              UNCHANGED <<store, history>>
       PROVE  WakeInv'
  <2>1. /\ dequeue_waiters' = dequeue_waiters
        /\ call' = [call EXCEPT ![t] = Call("destroy", "forever", NoItem, 0)]
             \/ call' = [call EXCEPT ![t] = Idle]
        /\ sleeping' = asleep \/ sleeping' = [asleep EXCEPT !["unblock_sig"] = @ \cup {t}]
    BY <1>17 DEF DestroySegment, Sleep, Return
  <2>2. c.op \in {"idle", "destroy"}
    BY <1>2, <1>4, <2>1 DEF CallTypes, Call, Idle
  <2>3. t \notin Ready
    BY <1>5, <1>17 DEF EntersDestroy
  <2>4. CASE call[t].op = "idle"
    <3>1. sleeping'["enqueue_sig"] = {} /\ sleeping'["dequeue_sig"] = {}
      BY <1>3, <1>17, <2>1, <2>4 DEF EntersDestroy
    <3> QED
      BY <1>8, <3>1, NoEnqueuerSleeps DEF WakeInv
  <2>5. CASE call[t].op = "destroy"
    <3>1. UNCHANGED <<store, flags, dequeue_waiters>>
      BY <1>17, <2>1, <2>5 DEF EntersDestroy
    <3> QED
      BY <1>3, <1>6, <2>2, <2>3, <3>1
  <2> QED
    BY <1>17, <2>4, <2>5 DEF EntersDestroy
<1>18. ASSUME TimeRunsOut(t) \/ WakesUnasked(t) PROVE WakeInv'
  <2>1. /\ UNCHANGED <<store, flags, dequeue_waiters>> /\ Asleep(t)
        /\ sleeping' = [s \in Signalers |-> sleeping[s] \ {t}]
    BY <1>18 DEF TimeRunsOut, WakesUnasked, waiters
  <2>2. t \notin sleeping'["enqueue_sig"] /\ t \notin sleeping'["dequeue_sig"]
    BY <1>3, <2>1
  <2>3. t \notin Ready
    BY <1>4, <2>1, AwakeIsReady DEF ReadyIsAwake, CallInv
  <2> QED
    BY <1>6, <2>1, <2>2, <2>3
<1> QED
  BY <1>11, <1>12, <1>13, <1>14, <1>15, <1>16, <1>17, <1>18 DEF Step

(* The inductive invariant of the pipe.                                    *)
THEOREM PipeInvariant == PipeSpec => []PipeIInv
<1>1. PipeInit => PipeIInv
  <2>1. PipeInit => WakeInv
    <3>1. "enqueue_sig" \in Signalers /\ "dequeue_sig" \in Signalers
      BY DEF Signalers
    <3> QED
      BY <3>1 DEF PipeInit, WakeInv, EnqueuersSleepForCause, DequeuersSleepForCause, DisabledWoken
  <2> QED
    BY <2>1, CoreInit DEF PipeIInv
<1>2. PipeIInv /\ [Next]_vars => PipeIInv'
  <2> SUFFICES ASSUME PipeIInv, [Next]_vars PROVE PipeIInv'
    OBVIOUS
  <2>1. CallInv' /\ StoreInv'
    BY CoreKept DEF PipeIInv
  <2>2. CASE Next
    <3>1. PICK t \in Threads : Step(t)
      BY <2>2, StepCases DEF PipeIInv, StoreInv
    <3> QED
      BY <2>1, <3>1, StepKeepsWakeUps DEF PipeIInv
  <2>3. CASE UNCHANGED vars
    <3>1. WakeInv'
      BY <2>3
      DEF PipeIInv, WakeInv, EnqueuersSleepForCause, NoRoom, DequeuersSleepForCause, Available,
          OnOffer, In, Asleep, DisabledWoken, vars, store, flags, waiters
    <3> QED
      BY <2>1, <3>1 DEF PipeIInv
  <2> QED
    BY <2>2, <2>3
<1> QED
  BY <1>1, <1>2, PTL DEF PipeSpec

(***************************************************************************)
(* No wake-up is lost: every thread asleep in an enqueue() or in           *)
(* wait_until_empty() would go back to sleep if it were woken, and while a *)
(* dequeue() sleeps there are as many awake as there are items to take.    *)
(***************************************************************************)
THEOREM PipeLosesNoWakeUp == PipeSpec => []NoWakeUpLost
<1>1. PipeIInv => NoWakeUpLost
  BY DEF PipeIInv, WakeInv, NoWakeUpLost
<1> QED
  BY <1>1, PipeInvariant, PTL
=============================================================================
