-------------------------- MODULE ThreadPool_proofs --------------------------
(***************************************************************************)
(* Proofs about dlib::thread_pool, for any callers, workers and bounds.    *)
(*                                                                         *)
(* PoolTypes and StacksFit: which calls a thread can be in, and what it is *)
(* running there. TableFits: who serves a slot, which ids are used up, and *)
(* where the ids that add_task() gave out are now. Ready tasks and         *)
(* exceptions are counted on top of these.                                 *)
(***************************************************************************)
EXTENDS ThreadPool, FiniteSetTheorems, SequenceTheorems, TLAPS

Ops == {"runs", "starts", "looks", "gone", "adds", "waitsFor", "waitsAll", "shuts", "joins",
        "closed", "aborted"}
Numbers == Nat \ {0}
Frames == [slot : Slots \cup {Inline}, kids : SUBSET Numbers]

PoolTypes ==
  /\ tasks \in [Slots -> [task_id : Nat, is_being_processed : BOOLEAN,
                          thread_id : Threads \cup {NoOne}, eptr : BOOLEAN]]
  /\ next_task_id \in [Slots -> Nat \ {0, 1}]
  /\ worker_thread_ids \subseteq Workers /\ we_are_destructing \in BOOLEAN
  /\ doneSleep \subseteq Threads
  /\ doing \in [Threads -> [op : Ops, id : Nat]]
  /\ stack \in [Threads -> Seq(Frames)]
  /\ finished \subseteq Numbers /\ submitted \in [Threads -> SUBSET Numbers]
  /\ adds \in 0 .. MaxAdds /\ thrown \in 0 .. MaxThrows /\ caught \in Nat

(* A worker has a task, and perhaps some that it runs inline, or it is     *)
(* between two tasks; a caller is never without its own code to run.       *)
Free(op) == op \in {"starts", "looks", "gone"}
StackFits(t) ==
  /\ t \in Workers => /\ doing[t].op \notin {"shuts", "joins", "closed", "aborted"}
                      /\ Free(doing[t].op) <=> stack[t] = <<>>
                      /\ stack[t] # <<>> => stack[t][1].slot \in Slots
  /\ t \in Callers => /\ ~Free(doing[t].op)
                      /\ stack[t] # <<>> /\ stack[t][1].slot = Inline
  /\ \A k \in 2 .. Len(stack[t]) : stack[t][k].slot = Inline
  /\ \A k \in 1 .. Len(stack[t]) : stack[t][k].kids \subseteq submitted[t]
  /\ doing[t].op = "waitsFor" => doing[t].id \in submitted[t]
StacksFit == \A t \in Threads : StackFits(t)

(* Once the destructor has begun no caller is in another call; workers end *)
(* after the last task has.                                                *)
ClosesOrderly ==
  /\ Closing => \A c \in Callers : doing[c].op \in {"runs", "shuts", "joins", "closed", "aborted"}
  /\ readySleep \subseteq {w \in Workers : doing[w].op = "looks"}
  /\ (\E w \in Workers : doing[w].op = "gone") => we_are_destructing
  /\ we_are_destructing => Closing /\ \A i \in Slots : IsEmpty(i)

(* Slot i is marked while the one worker whose first frame is i serves it. *)
Serves(w, i) == stack[w] # <<>> /\ stack[w][1].slot = i
ServedOnce ==
  /\ \A w \in Workers, i \in Slots : Serves(w, i) => tasks[i].is_being_processed
  /\ \A i \in Slots : tasks[i].is_being_processed => \E w \in Workers : Serves(w, i)
  /\ \A w, x \in Workers, i \in Slots : Serves(w, i) /\ Serves(x, i) => w = x

(* An id was given out by the slot it is congruent to, earlier.            *)
Known(id) == id % N \in Slots /\ id < next_task_id[id % N] * N + (id % N)
IdsKnown ==
  /\ \A i \in Slots : ~IsEmpty(i) => tasks[i].task_id % N = i /\ Known(tasks[i].task_id)
  /\ \A id \in finished : Known(id)
  /\ \A i \in Slots : tasks[i].task_id \notin finished

SlotsTidy ==
  \A i \in Slots : /\ tasks[i].is_being_processed => ~IsEmpty(i)
                   /\ tasks[i].eptr => IsEmpty(i)

(* A task that was added is in the table, under its adder's name, or done. *)
NoneForgotten ==
  \A t \in Threads : \A id \in submitted[t] :
    id \in finished \/ \E i \in Slots : tasks[i].task_id = id /\ tasks[i].thread_id = t

TableFits == ServedOnce /\ IdsKnown /\ SlotsTidy /\ NoneForgotten

PoolIInv ==
  /\ PoolTypes /\ StacksFit /\ ClosesOrderly /\ TableFits /\ ReadyAnswered /\ ExceptionsKept

-----------------------------------------------------------------------------
LEMMA PoolNumbers ==
  /\ N \in Nat /\ Slots = 0 .. N - 1 /\ IsFiniteSet(Slots) /\ Cardinality(Slots) = N
  /\ IsFiniteSet(Workers) /\ Cardinality(Workers) = N
  /\ Callers \cap Workers = {} /\ Workers \subseteq Threads /\ Callers \subseteq Threads
  /\ \A t \in Threads : t \in Workers \/ t \in Callers
  /\ MaxAdds \in Nat /\ MaxThrows \in Nat /\ Inline \notin Slots
<1>1. N \in Nat /\ IsFiniteSet(Workers) /\ Cardinality(Workers) = N
  BY PoolAssumption, FS_CardinalityType DEF N
<1>2. IsFiniteSet(Slots) /\ Cardinality(Slots) = N
  <2>1. IsFiniteSet(0 .. N - 1) /\ Cardinality(0 .. N - 1) = IF 0 > N - 1 THEN 0 ELSE N - 1 - 0 + 1
    BY <1>1, FS_Interval
  <2> QED
    BY <1>1, <2>1 DEF Slots
<1> QED
  BY <1>1, <1>2, PoolAssumption DEF Slots, Threads, Inline

(* What is done to a stack of frames.                                      *)
LEMMA FramesPushed ==
  ASSUME NEW s \in Seq(Frames), NEW i \in Slots \cup {Inline}, NEW r, r = Append(s, Frame(i))
  PROVE  /\ r \in Seq(Frames) /\ Len(r) = Len(s) + 1 /\ r # <<>>
         /\ \A k \in 1 .. Len(s) : r[k] = s[k]
         /\ r[Len(s) + 1].slot = i /\ r[Len(s) + 1].kids = {}
<1>1. Frame(i) \in Frames /\ Frame(i).slot = i /\ Frame(i).kids = {}
  BY DEF Frame, Frames
<1> HIDE DEF Frame
<1> QED
  BY <1>1, AppendProperties

LEMMA FramesPopped ==
  ASSUME NEW s \in Seq(Frames), s # <<>>, NEW r, r = SubSeq(s, 1, Len(s) - 1)
  PROVE  /\ r \in Seq(Frames) /\ Len(r) = Len(s) - 1
         /\ \A k \in 1 .. Len(r) : r[k] = s[k]
<1>1. Len(s) \in Nat /\ Len(s) # 0 /\ \A k \in 1 .. Len(s) - 1 : s[k] \in Frames
  BY EmptySeq
<1> DEFINE n == Len(s) - 1
<1>2. n \in Nat /\ n = Len(s) - 1 /\ \A k \in 1 .. n : s[k] \in Frames
  BY <1>1
<1> HIDE DEF n
<1>3. /\ SubSeq(s, 1, n) \in Seq(Frames)
      /\ Len(SubSeq(s, 1, n)) = IF 1 <= n THEN n - 1 + 1 ELSE 0
      /\ \A k \in 1 .. n - 1 + 1 : SubSeq(s, 1, n)[k] = s[1 + k - 1]
  BY <1>2, SubSeqProperties
<1>4. \A k \in 1 .. n : SubSeq(s, 1, n)[k] = s[k]
  BY <1>2, <1>3
<1> QED
  BY <1>2, <1>3, <1>4

(***************************************************************************)
(* A step, sorted by what its thread is doing; Calling: it is in user code *)
(* or in a call that it made from there, before the destructor.            *)
(***************************************************************************)
Calling(t) == stack[t] # <<>> /\ (t \in Workers \/ ~Closing)

Adds(t) ==
  /\ Calling(t) /\ doing[t].op \in {"runs", "adds"} /\ adds' \in 0 .. MaxAdds
  /\ AddThrows(t) \/ AddRunsInline(t) \/ AddPlaces(t) \/ AddWaits(t)
WaitsOn(t) ==
  /\ doing[t].op \in {"runs", "waitsFor", "waitsAll", "shuts"} /\ stack[t] # <<>>
  /\ \/ \E id \in submitted[t] : Calling(t) /\ WaitOn(t, "waitsFor", id)
     \/ Calling(t) /\ WaitOn(t, "waitsAll", 0)
     \/ t \in Callers /\ WaitOn(t, "shuts", 0)
        /\ \A c \in Callers : doing[c].op \in {"runs", "shuts", "joins", "closed", "aborted"}
WaitEnds(t) ==
  /\ Calling(t) /\ doing[t].op \in {"runs", "waitsFor", "waitsAll"}
  /\ \E kids \in SUBSET Top(t).kids : WaitOver(t, kids)
CloseSteps(t) ==
  /\ t \in Callers
  /\ \/ /\ \A c \in Callers : doing[c].op \in {"runs", "shuts", "joins", "closed", "aborted"}
        /\ \A i \in Slots : IsEmpty(i)
        /\ we_are_destructing' = TRUE
        /\ readySleep' = {}
        /\ doing' = [doing EXCEPT ![t] = Op("joins", 0)]
        /\ UNCHANGED <<tasks, next_task_id, worker_thread_ids, doneSleep, stack, history>>
     \/ Joins(t)
WorkSteps(w) ==
  /\ w \in Workers
  /\ \/ WorkerSteps(w) \/ Vacate(w, TRUE) \/ ReturnInline(w)
     \/ thrown < MaxThrows /\ Vacate(w, FALSE)

PoolStep(t) ==
  Adds(t) \/ WaitsOn(t) \/ WaitEnds(t) \/ CloseSteps(t) \/ WorkSteps(t) \/ WakesUnasked(t)

LEMMA PoolStepCases ==
  ASSUME PoolTypes, StacksFit, ClosesOrderly, TPNext
  PROVE  \E t \in Threads : PoolStep(t)
<1>1. \A c \in Callers : doing[c] = Runs => doing[c].op = "runs"
  BY DEF Runs
<1>2. ASSUME NEW t \in Threads, doing[t].op \in {"runs", "adds", "waitsFor", "waitsAll"}
      PROVE  /\ stack[t] # <<>>
             /\ t \in Workers \/ ~Closing \/ doing[t].op = "runs"
  BY <1>2, PoolNumbers DEF StacksFit, StackFits, ClosesOrderly, Free
<1>3. \A t \in Threads : doing[t] = Runs => doing[t].op = "runs"
  BY DEF Runs
<1>4. ASSUME NEW t \in Threads, CanCall(t) PROVE Calling(t) /\ doing[t].op = "runs"
  BY <1>3, <1>4 DEF CanCall, Calling
<1>5. ASSUME NEW t \in Threads, doing[t].op \in {"adds", "waitsFor", "waitsAll"} PROVE Calling(t)
  BY <1>2, <1>5 DEF Calling
<1>6. ASSUME NEW t \in Threads, Calling(t)
      PROVE  /\ Top(t).kids \subseteq submitted[t]
             /\ \A id : Top(t).kids \ {id} \in SUBSET Top(t).kids
             /\ {} \in SUBSET Top(t).kids
  <2>1. Len(stack[t]) \in 1 .. Len(stack[t])
    BY <1>6, EmptySeq DEF Calling, PoolTypes
  <2> QED
    BY <2>1 DEF Top, StacksFit, StackFits
<1>7. ASSUME NEW t \in Threads, AddTask(t) PROVE PoolStep(t)
  <2>1. adds' \in 0 .. MaxAdds
    BY <1>7, PoolNumbers DEF AddTask, PoolTypes
  <2> QED
    BY <1>4, <1>7, <2>1 DEF AddTask, Adds, PoolStep
<1>8. ASSUME NEW t \in Threads, AddResumes(t) PROVE PoolStep(t)
  BY <1>5, <1>8 DEF AddResumes, Adds, PoolStep, PoolTypes
<1>9. ASSUME NEW t \in Threads, NEW id, ForTask(t, id), Calling(t), id \in submitted[t],
             doing[t].op \in {"runs", "waitsFor"}
      PROVE  PoolStep(t)
  <2>1. CASE WaitOn(t, "waitsFor", id)
    BY <1>9, <2>1 DEF PoolStep, WaitsOn, Calling
  <2>2. CASE WaitOver(t, Top(t).kids \ {id})
    BY <1>6, <1>9, <2>2 DEF PoolStep, WaitEnds
  <2> QED
    BY <1>9, <2>1, <2>2 DEF ForTask
<1>10. ASSUME NEW t \in Threads, ForAll(t), Calling(t), doing[t].op \in {"runs", "waitsAll"}
       PROVE  PoolStep(t)
  <2>1. CASE WaitOn(t, "waitsAll", 0)
    BY <1>10, <2>1 DEF PoolStep, WaitsOn, Calling
  <2>2. CASE WaitOver(t, {})
    BY <1>6, <1>10, <2>2 DEF PoolStep, WaitEnds
  <2> QED
    BY <1>10, <2>1, <2>2 DEF ForAll
<1>11. ASSUME NEW t \in Threads,
              WaitForTask(t) \/ WaitForResumes(t) \/ WaitForAllTasks(t) \/ WaitAllResumes(t)
       PROVE  PoolStep(t)
  <2>1. CASE WaitForTask(t)
    BY <1>4, <1>6, <1>9, <2>1 DEF WaitForTask
  <2>2. CASE WaitForResumes(t)
    BY <1>5, <1>9, <2>2 DEF WaitForResumes, StacksFit, StackFits
  <2>3. CASE WaitForAllTasks(t)
    BY <1>4, <1>10, <2>3 DEF WaitForAllTasks
  <2>4. CASE WaitAllResumes(t)
    BY <1>5, <1>10, <2>4 DEF WaitAllResumes
  <2> QED
    BY <1>11, <2>1, <2>2, <2>3, <2>4
<1>12. ASSUME NEW t \in Callers, Shutdown(t) \/ Closes(t)
       PROVE  PoolStep(t)
  <2>1. CASE Joins(t)
    BY <2>1 DEF PoolStep, CloseSteps
  <2>2. CASE Shutdown(t) \/ ShutdownResumes(t)
    <3>1. /\ \A c \in Callers : doing[c].op \in {"runs", "shuts", "joins", "closed", "aborted"}
          /\ doing[t].op \in {"runs", "shuts"} /\ Shutting(t)
      BY <1>1, <2>2 DEF Shutdown, ShutdownResumes, ClosesOrderly, Closing
    <3>2. stack[t] # <<>> /\ t \in Threads
      BY PoolNumbers DEF StacksFit, StackFits
    <3> QED
      BY <3>1, <3>2 DEF Shutting, PoolStep, CloseSteps, WaitsOn
  <2> QED
    BY <1>12, <2>1, <2>2 DEF Closes
<1>13. ASSUME NEW w \in Workers, WorkerSteps(w) \/ TaskEnds(w) \/ TaskThrows(w)
       PROVE  PoolStep(w)
  <2>1. WorkSteps(w)
    <3>1. CASE WorkerSteps(w)
      BY <3>1 DEF WorkSteps
    <3>2. CASE TaskEnds(w)
      BY <3>2, Zenon DEF TaskEnds, WorkSteps
    <3>3. CASE TaskThrows(w)
      BY <3>3, Zenon DEF TaskThrows, WorkSteps
    <3> QED
      BY <1>13, <3>1, <3>2, <3>3
  <2> QED
    BY <2>1 DEF PoolStep
<1> QED
  BY <1>7, <1>8, <1>11, <1>12, <1>13, PoolNumbers
  DEF TPNext, Calls, Resumes, PoolStep

(***************************************************************************)
(* What a step does to calls and frames. One thread moves; the others stay *)
(* in their calls and tasks.                                               *)
(***************************************************************************)
Moves(t) ==
  /\ doing' \in [Threads -> [op : Ops, id : Nat]]
  /\ stack' \in [Threads -> Seq(Frames)]
  /\ submitted' \in [Threads -> SUBSET Numbers]
  /\ \A u \in Threads \ {t} : doing'[u] = doing[u] /\ stack'[u] = stack[u]
  /\ \A u \in Threads : submitted[u] \subseteq submitted'[u]

LEMMA MovesKeepsStacks ==
  ASSUME PoolTypes, StacksFit, NEW t \in Threads, Moves(t), StackFits(t)'
  PROVE  StacksFit'
<1>1. ASSUME NEW u \in Threads, u # t PROVE StackFits(u)'
  <2>1. doing'[u] = doing[u] /\ stack'[u] = stack[u] /\ submitted[u] \subseteq submitted'[u]
    BY <1>1 DEF Moves
  <2>2. StackFits(u)
    BY DEF StacksFit
  <2> QED
    BY <2>1, <2>2 DEF StackFits
<1> QED
  BY <1>1 DEF StacksFit

(* A call that the thread can be in with the frames that it has.           *)
CallFits(t, c) ==
  /\ t \in Workers => c.op \notin {"shuts", "joins", "closed", "aborted"} /\ (Free(c.op) <=> stack[t] = <<>>)
  /\ t \in Callers => ~Free(c.op)
  /\ c.op = "waitsFor" => c.id \in submitted[t]

(* Nobody takes a task from the table, or ends one that it took.           *)
SameWork == \A u \in Threads, i \in Slots : Serves(u, i)' <=> Serves(u, i)

LEMMA FramesStay ==
  ASSUME PoolTypes, StacksFit, NEW t \in Threads, Moves(t),
         Len(stack'[t]) = Len(stack[t]),
         \A k \in 1 .. Len(stack[t]) : /\ stack'[t][k].slot = stack[t][k].slot
                                       /\ stack'[t][k].kids \subseteq submitted'[t],
         CallFits(t, doing'[t])
  PROVE  StackFits(t)' /\ SameWork
<1>1. StackFits(t)
  BY DEF StacksFit
<1>2. stack[t] \in Seq(Frames) /\ stack'[t] \in Seq(Frames) /\ submitted[t] \subseteq submitted'[t]
  BY DEF PoolTypes, Moves
<1>3. (stack'[t] = <<>> <=> stack[t] = <<>>) /\ Len(stack[t]) \in Nat
      /\ (stack[t] # <<>> => 1 \in 1 .. Len(stack[t]))
  BY <1>2, EmptySeq
<1>4. \A k \in 2 .. Len(stack[t]) : k \in 1 .. Len(stack[t])
  BY <1>3
<1>5. \A k \in 2 .. Len(stack'[t]) : stack'[t][k].slot = Inline
  BY <1>1, <1>4 DEF StackFits
<1>6. stack[t] # <<>> => stack'[t][1].slot = stack[t][1].slot
  BY <1>3
<1>7. \A k \in 1 .. Len(stack'[t]) : stack'[t][k].kids \subseteq submitted'[t]
  OBVIOUS
<1>8. t \in Workers => /\ doing'[t].op \notin {"shuts", "joins", "closed", "aborted"}
                       /\ Free(doing'[t].op) <=> stack'[t] = <<>>
                       /\ stack'[t] # <<>> => stack'[t][1].slot \in Slots
  BY <1>1, <1>3, <1>6 DEF StackFits, CallFits
<1>9. t \in Callers => /\ ~Free(doing'[t].op)
                       /\ stack'[t] # <<>> /\ stack'[t][1].slot = Inline
  BY <1>1, <1>3, <1>6 DEF StackFits, CallFits
<1>10. doing'[t].op = "waitsFor" => doing'[t].id \in submitted'[t]
  BY <1>2 DEF CallFits
<1>11. ASSUME NEW u \in Threads, NEW i \in Slots PROVE Serves(u, i)' <=> Serves(u, i)
  <2>1. CASE u = t
    BY <1>3, <1>6, <2>1 DEF Serves
  <2>2. CASE u # t
    BY <2>2 DEF Serves, Moves
  <2> QED
    BY <2>1, <2>2
<1> QED
  BY <1>5, <1>7, <1>8, <1>9, <1>10, <1>11 DEF StackFits, SameWork

LEMMA CallsTyped ==
  /\ Runs \in [op : Ops, id : Nat] /\ Runs.op = "runs"
  /\ \A op \in Ops, id \in Nat : /\ Op(op, id) \in [op : Ops, id : Nat]
                                 /\ Op(op, id).op = op /\ Op(op, id).id = id
BY DEF Ops, Runs, Op

(* A call of t begins or goes on waiting, or changes in no frame.          *)
LEMMA CallChanges ==
  ASSUME PoolTypes, StacksFit, NEW t \in Threads, NEW c \in [op : Ops, id : Nat],
         doing' = [doing EXCEPT ![t] = c], stack' = stack, submitted' = submitted,
         CallFits(t, c)
  PROVE  Moves(t) /\ StackFits(t)' /\ SameWork /\ doing'[t] = c
<1>1. Moves(t) /\ doing'[t] = c
  BY DEF Moves, PoolTypes
<1>2. \A k \in 1 .. Len(stack[t]) : stack'[t][k].kids \subseteq submitted'[t]
  BY DEF StacksFit, StackFits
<1> QED
  BY <1>1, <1>2, FramesStay

(* The thread's code goes on, knowing other tasks that it added.           *)
LEMMA KidsChange ==
  ASSUME PoolTypes, StacksFit, NEW t \in Threads, stack[t] # <<>>,
         doing' = [doing EXCEPT ![t] = Runs],
         submitted' \in [Threads -> SUBSET Numbers],
         \A u \in Threads : submitted[u] \subseteq submitted'[u],
         NEW kids \in SUBSET submitted'[t], stack' = SetKids(t, kids)
  PROVE  Moves(t) /\ StackFits(t)' /\ SameWork /\ doing'[t] = Runs
<1>1. kids \in SUBSET Numbers /\ stack[t] \in Seq(Frames)
  BY DEF PoolTypes
<1> DEFINE s == stack[t]
           top == [s[Len(s)] EXCEPT !.kids = kids]
           r == [s EXCEPT ![Len(s)] = top]
<1>2. s = stack[t] /\ s \in Seq(Frames) /\ Len(s) \in 1 .. Len(s) /\ s[Len(s)] \in Frames
  BY <1>1, EmptySeq
<1>3. stack' = [stack EXCEPT ![t] = r]
  BY DEF SetKids
<1>4. /\ r \in Seq(Frames) /\ Len(r) = Len(stack[t])
      /\ \A k \in 1 .. Len(stack[t]) :
           /\ r[k].slot = stack[t][k].slot
           /\ r[k].kids = IF k = Len(stack[t]) THEN kids ELSE stack[t][k].kids
  <2>1. top \in Frames /\ top.slot = s[Len(s)].slot /\ top.kids = kids
    BY <1>1, <1>2 DEF Frames
  <2>2. r = [s EXCEPT ![Len(s)] = top]
    OBVIOUS
  <2> HIDE DEF top, r, s
  <2>3. r \in Seq(Frames) /\ Len(r) = Len(s)
        /\ \A k \in 1 .. Len(s) : r[k] = IF k = Len(s) THEN top ELSE s[k]
    BY <1>2, <2>1, <2>2, ExceptSeq
  <2> QED
    BY <1>2, <2>1, <2>3
<1> HIDE DEF top, r, s
<1>5. Moves(t) /\ doing'[t] = Runs /\ stack'[t] = r
  BY <1>3, <1>4, CallsTyped DEF Moves, PoolTypes
<1>6. \A k \in 1 .. Len(stack[t]) : stack[t][k].kids \subseteq submitted'[t]
  BY DEF StacksFit, StackFits
<1>7. \A k \in 1 .. Len(stack[t]) : r[k].slot = stack[t][k].slot /\ r[k].kids \subseteq submitted'[t]
  BY <1>4, <1>6
<1>8. CallFits(t, Runs)
  BY CallsTyped DEF CallFits, Free
<1> QED
  BY <1>4, <1>5, <1>7, <1>8, FramesStay

(* A worker runs another task inline, on top of its own; and ends it.      *)
LEMMA InlineBegins ==
  ASSUME PoolTypes, StacksFit, NEW t \in Threads, stack[t] # <<>>,
         doing' = [doing EXCEPT ![t] = Runs], UNCHANGED submitted,
         stack' = [stack EXCEPT ![t] = Append(@, Frame(Inline))]
  PROVE  Moves(t) /\ StackFits(t)' /\ SameWork /\ doing'[t] = Runs
<1> DEFINE s == stack[t]
           r == Append(s, Frame(Inline))
<1>1. s = stack[t] /\ s \in Seq(Frames) /\ Inline \in Slots \cup {Inline} /\ s # <<>>
  BY DEF PoolTypes
<1>2. stack' = [stack EXCEPT ![t] = r]
  OBVIOUS
<1>3. r = Append(s, Frame(Inline))
  OBVIOUS
<1> HIDE DEF r, s
<1>4. /\ r \in Seq(Frames) /\ Len(r) = Len(s) + 1 /\ r # <<>>
      /\ \A k \in 1 .. Len(s) : r[k] = s[k]
      /\ r[Len(s) + 1].slot = Inline /\ r[Len(s) + 1].kids = {}
  BY <1>1, <1>3, FramesPushed
<1>5. Moves(t) /\ doing'[t] = Runs /\ stack'[t] = r
  BY <1>2, <1>4, CallsTyped DEF Moves, PoolTypes
<1>6. StackFits(t)
  BY DEF StacksFit
<1>7. Len(s) \in Nat /\ 1 \in 1 .. Len(s)
  BY <1>1, EmptySeq
<1>8. r[1] = s[1]
  BY <1>4, <1>7
<1>9. \A k \in 2 .. Len(r) : r[k].slot = Inline
  BY <1>1, <1>4, <1>6, <1>7 DEF StackFits
<1>10. \A k \in 1 .. Len(r) : r[k].kids \subseteq submitted'[t]
  BY <1>1, <1>4, <1>6, <1>7 DEF StackFits
<1>11. StackFits(t)'
  <2>1. t \in Workers => /\ doing'[t].op \notin {"shuts", "joins", "closed", "aborted"}
                         /\ Free(doing'[t].op) <=> stack'[t] = <<>>
                         /\ stack'[t] # <<>> => stack'[t][1].slot \in Slots
    BY <1>1, <1>4, <1>5, <1>6, <1>8, CallsTyped DEF StackFits, Free
  <2>2. t \in Callers => /\ ~Free(doing'[t].op)
                         /\ stack'[t] # <<>> /\ stack'[t][1].slot = Inline
    BY <1>1, <1>4, <1>5, <1>6, <1>8, CallsTyped DEF StackFits, Free
  <2>3. doing'[t].op # "waitsFor"
    BY <1>5, CallsTyped
  <2> QED
    BY <1>5, <1>9, <1>10, <2>1, <2>2, <2>3 DEF StackFits
<1>12. ASSUME NEW u \in Threads, NEW i \in Slots PROVE Serves(u, i)' <=> Serves(u, i)
  <2>1. CASE u = t
    BY <1>1, <1>4, <1>5, <1>8, <2>1 DEF Serves
  <2>2. CASE u # t
    BY <1>5, <2>2 DEF Serves, Moves
  <2> QED
    BY <2>1, <2>2
<1> QED
  BY <1>5, <1>11, <1>12 DEF SameWork

LEMMA InlineEnds ==
  ASSUME PoolTypes, StacksFit, NEW t \in Threads, ReturnInline(t)
  PROVE  Moves(t) /\ StackFits(t)' /\ SameWork /\ doing'[t] = Runs
<1> DEFINE s == stack[t]
           r == SubSeq(s, 1, Len(s) - 1)
<1>1. s = stack[t] /\ s \in Seq(Frames)
  BY DEF PoolTypes
<1>2. stack' = [stack EXCEPT ![t] = r] /\ Len(s) > 1 /\ doing' = doing /\ doing[t] = Runs
      /\ submitted' = submitted
  BY DEF ReturnInline, Pop, history
<1>3. r = SubSeq(s, 1, Len(s) - 1)
  OBVIOUS
<1> HIDE DEF r, s
<1>4. s # <<>> /\ Len(s) \in Nat
  BY <1>1, <1>2, EmptySeq
<1>5. r \in Seq(Frames) /\ Len(r) = Len(s) - 1 /\ \A k \in 1 .. Len(r) : r[k] = s[k]
  BY <1>1, <1>3, <1>4, FramesPopped
<1>6. r # <<>> /\ 1 \in 1 .. Len(r) /\ r[1] = s[1]
  BY <1>2, <1>4, <1>5, EmptySeq
<1>7. Moves(t) /\ doing'[t] = Runs /\ stack'[t] = r
  BY <1>2, <1>5 DEF Moves, PoolTypes
<1>8. StackFits(t)
  BY DEF StacksFit
<1>9. /\ \A k \in 2 .. Len(r) : r[k].slot = Inline
      /\ \A k \in 1 .. Len(r) : r[k].kids \subseteq submitted'[t]
  <2>1. /\ \A k \in 2 .. Len(s) : s[k].slot = Inline
        /\ \A k \in 1 .. Len(s) : s[k].kids \subseteq submitted[t]
    BY <1>1, <1>8 DEF StackFits
  <2>2. Len(r) \in Nat /\ Len(r) = Len(s) - 1
    BY <1>4, <1>5
  <2>3. \A k \in 1 .. Len(r) : k \in 1 .. Len(s) /\ r[k] = s[k]
    BY <1>4, <1>5, <2>2
  <2>4. \A k \in 2 .. Len(r) : k \in 2 .. Len(s) /\ r[k] = s[k]
    BY <1>4, <2>2, <2>3
  <2> QED
    BY <1>2, <2>1, <2>3, <2>4
<1>10. StackFits(t)'
  <2>1. t \in Workers => /\ doing'[t].op \notin {"shuts", "joins", "closed", "aborted"}
                         /\ Free(doing'[t].op) <=> stack'[t] = <<>>
                         /\ stack'[t] # <<>> => stack'[t][1].slot \in Slots
    BY <1>1, <1>2, <1>4, <1>6, <1>7, <1>8 DEF StackFits
  <2>2. t \in Callers => /\ ~Free(doing'[t].op)
                         /\ stack'[t] # <<>> /\ stack'[t][1].slot = Inline
    BY <1>1, <1>2, <1>6, <1>7, <1>8 DEF StackFits
  <2>3. doing'[t].op # "waitsFor"
    BY <1>7, CallsTyped
  <2> QED
    BY <1>7, <1>9, <2>1, <2>2, <2>3 DEF StackFits
<1>11. ASSUME NEW u \in Threads, NEW i \in Slots PROVE Serves(u, i)' <=> Serves(u, i)
  <2>1. CASE u = t
    BY <1>1, <1>4, <1>6, <1>7, <2>1 DEF Serves
  <2>2. CASE u # t
    BY <1>7, <2>2 DEF Serves, Moves
  <2> QED
    BY <2>1, <2>2
<1> QED
  BY <1>7, <1>10, <1>11 DEF SameWork

(* A worker takes the task of a slot, or ends the one it had taken.        *)
LEMMA TaskBegins ==
  ASSUME PoolTypes, StacksFit, NEW w \in Workers, NEW i \in Slots,
         doing' = [doing EXCEPT ![w] = Runs], UNCHANGED submitted,
         stack' = [stack EXCEPT ![w] = <<Frame(i)>>]
  PROVE  /\ Moves(w) /\ StackFits(w)' /\ doing'[w] = Runs
         /\ \A j \in Slots : Serves(w, j)' <=> j = i
         /\ \A u \in Threads \ {w}, j \in Slots : Serves(u, j)' <=> Serves(u, j)
<1> DEFINE r == <<Frame(i)>>
<1>1. Frame(i) \in Frames /\ Frame(i).slot = i /\ Frame(i).kids = {}
  BY DEF Frame, Frames
<1> HIDE DEF Frame
<1>2. /\ r \in Seq(Frames) /\ Len(r) = 1 /\ r # <<>> /\ r[1].slot = i /\ r[1].kids = {}
      /\ stack' = [stack EXCEPT ![w] = r]
  BY <1>1
<1> HIDE DEF r
<1>3. w \in Threads /\ w \notin Callers
  BY PoolNumbers
<1>4. Moves(w) /\ doing'[w] = Runs /\ stack'[w] = r
  BY <1>2, <1>3, CallsTyped DEF Moves, PoolTypes
<1>5. StackFits(w)'
  BY <1>2, <1>3, <1>4, CallsTyped DEF StackFits, Free
<1>6. \A j \in Slots : Serves(w, j)' <=> j = i
  BY <1>2, <1>4 DEF Serves
<1>7. \A u \in Threads \ {w}, j \in Slots : Serves(u, j)' <=> Serves(u, j)
  BY <1>4 DEF Serves, Moves
<1> QED
  BY <1>4, <1>5, <1>6, <1>7

LEMMA TaskLeaves ==
  ASSUME PoolTypes, StacksFit, NEW w \in Workers, NEW ok \in BOOLEAN, Vacate(w, ok)
  PROVE  /\ Top(w).slot \in Slots
         /\ Moves(w) /\ StackFits(w)' /\ doing'[w] = Op("looks", 0)
         /\ \A j \in Slots : Serves(w, j) <=> j = Top(w).slot
         /\ \A j \in Slots : ~Serves(w, j)'
         /\ \A u \in Threads \ {w}, j \in Slots : Serves(u, j)' <=> Serves(u, j)
<1>1. w \in Threads /\ w \notin Callers
  BY PoolNumbers
<1> DEFINE s == stack[w]
           r == SubSeq(s, 1, Len(s) - 1)
<1>2. s = stack[w] /\ s \in Seq(Frames) /\ s # <<>> /\ Top(w) = s[Len(s)]
  BY <1>1 DEF PoolTypes, Vacate, Top
<1>3. /\ stack' = [stack EXCEPT ![w] = r] /\ doing' = [doing EXCEPT ![w] = Op("looks", 0)]
      /\ submitted' = submitted /\ Top(w).slot # Inline
  BY DEF Vacate, Pop
<1>4. r = SubSeq(s, 1, Len(s) - 1)
  OBVIOUS
<1> HIDE DEF r, s
<1>5. StackFits(w)
  BY <1>1 DEF StacksFit
<1>6. Len(s) = 1 /\ Top(w) = s[1] /\ s[1].slot \in Slots
  <2> DEFINE n == Len(s)
  <2>1. n \in Nat /\ n # 0 /\ n = Len(s)
    BY <1>2, EmptySeq
  <2>2. n \notin 2 .. n
    BY <1>2, <1>3, <1>5 DEF StackFits
  <2> HIDE DEF n
  <2>3. n = 1
    BY <2>1, <2>2
  <2>4. s[1].slot \in Slots
    BY <1>2, <1>5 DEF StackFits
  <2> QED
    BY <1>2, <2>1, <2>3, <2>4
<1>7. r = <<>>
  BY <1>2, <1>4, <1>6, FramesPopped, EmptySeq
<1>8. Moves(w) /\ doing'[w] = Op("looks", 0) /\ stack'[w] = <<>>
  <2>1. Op("looks", 0) \in [op : Ops, id : Nat] /\ <<>> \in Seq(Frames)
    BY CallsTyped DEF Ops
  <2> QED
    BY <1>1, <1>3, <1>7, <2>1 DEF Moves, PoolTypes
<1>9. StackFits(w)'
  <2>1. doing'[w].op = "looks"
    BY <1>8, CallsTyped DEF Ops
  <2> QED
    BY <1>1, <1>8, <2>1 DEF StackFits, Free
<1>10. /\ \A j \in Slots : Serves(w, j) <=> j = Top(w).slot
       /\ \A j \in Slots : ~Serves(w, j)'
  BY <1>2, <1>6, <1>8 DEF Serves
<1>11. \A u \in Threads \ {w}, j \in Slots : Serves(u, j)' <=> Serves(u, j)
  BY <1>8 DEF Serves, Moves
<1> QED
  BY <1>6, <1>8, <1>9, <1>10, <1>11

(***************************************************************************)
(* What a step does to the table: nothing; it takes an exception out, for  *)
(* its caller to catch; or it puts a task in. The other two steps, taking  *)
(* a task and ending it, are WorkerTakes and Vacate.                       *)
(***************************************************************************)
TableStays == UNCHANGED <<tasks, next_task_id, finished, submitted, thrown, caught>>
Catches ==
  /\ \E i \in Slots : tasks[i].eptr /\ tasks' = [tasks EXCEPT ![i].eptr = FALSE]
  /\ caught' = caught + 1
  /\ UNCHANGED <<next_task_id, finished, submitted, thrown>>
NewId(i) == next_task_id[i] * N + i
Places(t, i) ==
  /\ IsEmpty(i) /\ ~tasks[i].eptr
  /\ tasks' = [tasks EXCEPT ![i].task_id = NewId(i), ![i].thread_id = t]
  /\ next_task_id' = [next_task_id EXCEPT ![i] = @ + 1]
  /\ submitted' = [submitted EXCEPT ![t] = @ \cup {NewId(i)}]
  /\ UNCHANGED <<finished, thrown, caught>>

(* A step of a thread in user code, or in a call that it made from there.  *)
CallOps == {"runs", "adds", "waitsFor", "waitsAll"}
CallEffect(t) ==
  /\ Calling(t) /\ doing[t].op \in CallOps /\ doing'[t].op \in CallOps
  /\ Moves(t) /\ StackFits(t)' /\ SameWork
  /\ UNCHANGED <<worker_thread_ids, we_are_destructing>>
  /\ doneSleep' \subseteq Threads /\ adds' \in 0 .. MaxAdds
  /\ \/ (TableStays \/ Catches) /\ readySleep' = readySleep
     \/ (\E i \in Slots : Places(t, i)) /\ readySleep' \in Signalled(readySleep)

(* Ids from one slot are congruent to it, and every one is greater.        *)
LEMMA IdArithmetic ==
  ASSUME NEW n \in Nat, NEW q \in Nat, NEW i \in 0 .. n - 1
  PROVE  /\ q * n + i \in Nat /\ (q * n + i) % n = i
         /\ q > 0 => q * n + i > 0
         /\ q * n + i < (q + 1) * n + i
<1>1. n > 0 /\ i \in Nat /\ i < n
  OBVIOUS
<1>2. q * n \in Nat /\ (q + 1) * n = q * n + n
  BY <1>1, Z3
<1>3. q > 0 => q * n > 0
  BY <1>1, Z3
<1>4. (q * n + i) % n = i
  BY <1>1, Z3
<1> QED
  BY <1>1, <1>2, <1>3, <1>4

LEMMA NewIds ==
  ASSUME PoolTypes, NEW i \in Slots
  PROVE  /\ NewId(i) \in Numbers /\ NewId(i) % N = i
         /\ NewId(i) < (next_task_id[i] + 1) * N + i
<1> DEFINE q == next_task_id[i]
<1>1. q \in Nat /\ q > 0
  BY DEF PoolTypes
<1>2. N \in Nat /\ i \in 0 .. N - 1
  BY PoolNumbers
<1>3. NewId(i) = q * N + i
  BY DEF NewId
<1> HIDE DEF q
<1>4. /\ q * N + i \in Nat /\ (q * N + i) % N = i
      /\ q > 0 => q * N + i > 0
      /\ q * N + i < (q + 1) * N + i
  BY <1>1, <1>2, IdArithmetic
<1>5. NewId(i) \in Nat /\ NewId(i) # 0
  BY <1>1, <1>3, <1>4
<1>6. NewId(i) < (q + 1) * N + i
  BY <1>3, <1>4
<1> QED
  BY <1>3, <1>4, <1>5, <1>6 DEF Numbers, q

LEMMA AddsEffect ==
  ASSUME PoolTypes, StacksFit, NEW t \in Threads, Adds(t)
  PROVE  CallEffect(t)
<1>1. Calling(t) /\ doing[t].op \in CallOps /\ stack[t] # <<>> /\ adds' \in 0 .. MaxAdds
  BY DEF Adds, Calling, CallOps
<1>2. \A c : c.op \in {"runs", "adds"} => CallFits(t, c)
  BY <1>1 DEF CallFits, Free
<1>3. doneSleep \subseteq Threads
  BY DEF PoolTypes
<1>4. CASE AddThrows(t)
  <2>1. /\ doing' = [doing EXCEPT ![t] = Runs] /\ UNCHANGED <<stack, submitted>>
        /\ UNCHANGED <<worker_thread_ids, we_are_destructing, readySleep, doneSleep>>
    BY <1>4 DEF AddThrows, Propagates, sleepers
  <2>2. Catches
    BY <1>4 DEF AddThrows, Propagates, Catches, First, Throws
  <2>3. Moves(t) /\ StackFits(t)' /\ SameWork /\ doing'[t] = Runs
    <3>1. CallFits(t, Runs) /\ Runs \in [op : Ops, id : Nat]
      BY <1>2, CallsTyped
    <3> QED
      BY <2>1, <3>1, CallChanges
  <2> QED
    BY <1>1, <1>3, <2>1, <2>2, <2>3, CallsTyped DEF CallEffect, CallOps
<1>5. CASE AddRunsInline(t)
  <2>1. /\ doing' = [doing EXCEPT ![t] = Runs] /\ TableStays
        /\ stack' = [stack EXCEPT ![t] = Append(@, Frame(Inline))]
        /\ UNCHANGED <<worker_thread_ids, we_are_destructing, readySleep, doneSleep, submitted>>
    BY <1>5 DEF AddRunsInline, TableStays, sleepers, table
  <2>2. Moves(t) /\ StackFits(t)' /\ SameWork /\ doing'[t] = Runs
    BY <1>1, <2>1, InlineBegins
  <2> QED
    BY <1>1, <1>3, <2>1, <2>2, CallsTyped DEF CallEffect, CallOps
<1>6. CASE AddWaits(t)
  <2>1. /\ doing' = [doing EXCEPT ![t] = Op("adds", 0)] /\ TableStays
        /\ UNCHANGED <<stack, submitted, worker_thread_ids, we_are_destructing, readySleep>>
        /\ doneSleep' = doneSleep \cup {t}
    BY <1>6 DEF AddWaits, TableStays, table
  <2>2. Op("adds", 0) \in [op : Ops, id : Nat] /\ Op("adds", 0).op = "adds"
    BY CallsTyped DEF Ops
  <2>3. Moves(t) /\ StackFits(t)' /\ SameWork /\ doing'[t] = Op("adds", 0)
    <3>1. CallFits(t, Op("adds", 0))
      BY <1>2, <2>2
    <3> QED
      BY <2>1, <2>2, <3>1, CallChanges
  <2> QED
    BY <1>1, <1>3, <2>1, <2>2, <2>3 DEF CallEffect, CallOps
<1>7. CASE AddPlaces(t)
  <2>1. PICK i \in Slots :
          /\ First(i, IsEmpty)
          /\ tasks' = [tasks EXCEPT ![i].task_id = NewId(i), ![i].thread_id = t]
          /\ next_task_id' = Advanced(i)
          /\ submitted' = [submitted EXCEPT ![t] = @ \cup {NewId(i)}]
          /\ stack' = SetKids(t, Top(t).kids \cup {NewId(i)})
    BY <1>7, Zenon DEF AddPlaces, NewId
  <2>2. /\ doing' = [doing EXCEPT ![t] = Runs]
        /\ UNCHANGED <<worker_thread_ids, we_are_destructing, doneSleep, finished, thrown, caught>>
        /\ readySleep' \in Signalled(readySleep) /\ NothingThrown
    BY <1>7 DEF AddPlaces
  <2>3. IsEmpty(i) /\ ~tasks[i].eptr
    BY <2>1, <2>2 DEF First, NothingThrown, Throws
  <2>4. Places(t, i)
    BY <2>1, <2>2, <2>3 DEF Places, Advanced
  <2>5. NewId(i) \in Numbers
    BY NewIds
  <2>6. /\ submitted' \in [Threads -> SUBSET Numbers]
        /\ \A u \in Threads : submitted[u] \subseteq submitted'[u]
        /\ submitted'[t] = submitted[t] \cup {NewId(i)}
    BY <2>1, <2>5 DEF PoolTypes
  <2>7. Top(t).kids \subseteq submitted[t]
    <3>1. Len(stack[t]) \in 1 .. Len(stack[t])
      BY <1>1, EmptySeq DEF PoolTypes
    <3> QED
      BY <3>1 DEF Top, StacksFit, StackFits
  <2>8. Top(t).kids \cup {NewId(i)} \in SUBSET submitted'[t]
    BY <2>6, <2>7
  <2>9. Moves(t) /\ StackFits(t)' /\ SameWork /\ doing'[t] = Runs
    BY <1>1, <2>1, <2>2, <2>6, <2>8, KidsChange
  <2> QED
    BY <1>1, <1>3, <2>2, <2>4, <2>9, CallsTyped DEF CallEffect, CallOps
<1> QED
  BY <1>4, <1>5, <1>6, <1>7 DEF Adds

LEMMA WaitEndsEffect ==
  ASSUME PoolTypes, StacksFit, NEW t \in Threads, WaitEnds(t)
  PROVE  CallEffect(t)
<1>1. PICK kids \in SUBSET Top(t).kids : WaitOver(t, kids)
  BY DEF WaitEnds
<1>2. Calling(t) /\ doing[t].op \in CallOps /\ stack[t] # <<>>
  BY DEF WaitEnds, Calling, CallOps
<1>3. /\ doing' = [doing EXCEPT ![t] = Runs] /\ stack' = SetKids(t, kids)
      /\ UNCHANGED <<worker_thread_ids, we_are_destructing, readySleep, doneSleep, adds, submitted>>
      /\ TableStays \/ Catches
  BY <1>1 DEF WaitOver, Propagates, TableStays, Catches, First, Throws, sleepers
<1>4. kids \in SUBSET submitted'[t]
  <2>1. Len(stack[t]) \in 1 .. Len(stack[t])
    BY <1>2, EmptySeq DEF PoolTypes
  <2> QED
    BY <1>3, <2>1 DEF Top, StacksFit, StackFits
<1>5. /\ submitted' \in [Threads -> SUBSET Numbers]
      /\ \A u \in Threads : submitted[u] \subseteq submitted'[u]
  BY <1>3 DEF PoolTypes
<1>6. Moves(t) /\ StackFits(t)' /\ SameWork /\ doing'[t] = Runs
  BY <1>2, <1>3, <1>4, <1>5, KidsChange
<1> QED
  BY <1>2, <1>3, <1>6, CallsTyped DEF CallEffect, CallOps, PoolTypes

LEMMA WaitsOnEffect ==
  ASSUME PoolTypes, StacksFit, NEW t \in Threads, NEW op \in {"waitsFor", "waitsAll", "shuts"},
         NEW id \in Nat, WaitOn(t, op, id), stack[t] # <<>>,
         op = "waitsFor" => id \in submitted[t],
         op = "shuts" => t \in Callers
  PROVE  /\ Moves(t) /\ StackFits(t)' /\ SameWork /\ TableStays /\ doing'[t].op = op
         /\ UNCHANGED <<worker_thread_ids, we_are_destructing, readySleep, adds>>
         /\ doneSleep' \subseteq Threads
<1>1. /\ doing' = [doing EXCEPT ![t] = Op(op, id)] /\ doneSleep' = doneSleep \cup {t}
      /\ stack' = stack /\ submitted' = submitted
      /\ UNCHANGED <<worker_thread_ids, we_are_destructing, readySleep, adds>> /\ TableStays
  BY DEF WaitOn, table, history, TableStays
<1>2. /\ Op(op, id) \in [op : Ops, id : Nat]
      /\ Op(op, id).op = op /\ Op(op, id).id = id
  BY DEF Op, Ops
<1>3. CallFits(t, Op(op, id))
  BY <1>2, PoolNumbers DEF CallFits, Free
<1>4. Moves(t) /\ StackFits(t)' /\ SameWork /\ doing'[t] = Op(op, id)
  BY <1>1, <1>2, <1>3, CallChanges
<1> QED
  BY <1>1, <1>2, <1>4 DEF PoolTypes

(* The destructor's steps; and a step of a worker, or a wake-up, that does *)
(* nothing to the tasks of the table.                                      *)
Ready == {i \in Slots : IsReady(i)}
Awake == {w \in Workers : doing[w].op \in {"starts", "looks"} /\ w \notin readySleep}

CloseEffect(t) ==
  /\ t \in Callers
  /\ \A c \in Callers : doing[c].op \in {"runs", "shuts", "joins", "closed", "aborted"}
  /\ doing'[t].op \in {"shuts", "joins", "closed", "aborted"}
  /\ Moves(t) /\ StackFits(t)' /\ SameWork /\ TableStays
  /\ UNCHANGED <<worker_thread_ids, adds>> /\ doneSleep' \subseteq Threads
  /\ readySleep' \subseteq readySleep /\ we_are_destructing' \in BOOLEAN
  /\ we_are_destructing => we_are_destructing'
  /\ we_are_destructing' => \A i \in Slots : IsEmpty(i)

IdleEffect(t) ==
  /\ Moves(t) /\ StackFits(t)' /\ SameWork /\ TableStays
  /\ \A c \in Callers : doing'[c] = doing[c]
  /\ worker_thread_ids' \subseteq Workers /\ UNCHANGED <<we_are_destructing, adds>>
  /\ doneSleep' \subseteq Threads
  /\ readySleep' \subseteq {w \in Workers : doing'[w].op = "looks"}
  /\ (\E w \in Workers : doing'[w].op = "gone") => we_are_destructing
  /\ Awake \subseteq Awake' \/ Ready = {}

LEMMA CloseStepsEffect ==
  ASSUME PoolTypes, StacksFit, ClosesOrderly, NEW t \in Threads, CloseSteps(t)
  PROVE  CloseEffect(t)
<1>1. t \in Callers /\ t \notin Workers /\ doneSleep \subseteq Threads
  BY PoolNumbers DEF CloseSteps, PoolTypes
<1>2. \A c : c.op \in {"joins", "closed", "aborted"} => CallFits(t, c)
  BY <1>1 DEF CallFits, Free
<1>3. CASE Joins(t)
  <2> DEFINE end == IF \E i \in Slots : Throws(i) THEN "aborted" ELSE "closed"
  <2>1. /\ doing' = [doing EXCEPT ![t] = Op(end, 0)] /\ TableStays
        /\ stack' = stack /\ submitted' = submitted /\ doing[t].op = "joins"
        /\ UNCHANGED <<worker_thread_ids, we_are_destructing, readySleep, doneSleep, adds>>
    BY <1>3 DEF Joins, table, sleepers, history, TableStays
  <2>2. end \in {"closed", "aborted"}
    OBVIOUS
  <2> HIDE DEF end
  <2>3. Op(end, 0) \in [op : Ops, id : Nat] /\ Op(end, 0).op = end
    BY <2>2, CallsTyped DEF Ops
  <2>4. CallFits(t, Op(end, 0))
    BY <1>2, <2>2, <2>3
  <2>5. Moves(t) /\ StackFits(t)' /\ SameWork /\ doing'[t] = Op(end, 0)
    BY <2>1, <2>3, <2>4, CallChanges
  <2>6. Closing
    BY <1>1, <2>1 DEF Closing
  <2> QED
    BY <1>1, <2>1, <2>2, <2>3, <2>5, <2>6 DEF CloseEffect, ClosesOrderly, PoolTypes
<1>4. CASE /\ \A c \in Callers : doing[c].op \in {"runs", "shuts", "joins", "closed", "aborted"}
           /\ \A i \in Slots : IsEmpty(i)
           /\ we_are_destructing' = TRUE
           /\ readySleep' = {}
           /\ doing' = [doing EXCEPT ![t] = Op("joins", 0)]
           /\ UNCHANGED <<tasks, next_task_id, worker_thread_ids, doneSleep, stack, history>>
  <2>1. /\ TableStays /\ stack' = stack /\ submitted' = submitted
        /\ UNCHANGED <<worker_thread_ids, doneSleep, adds>>
    BY <1>4 DEF history, TableStays
  <2>2. Op("joins", 0) \in [op : Ops, id : Nat] /\ Op("joins", 0).op = "joins"
    BY CallsTyped DEF Ops
  <2>3. CallFits(t, Op("joins", 0))
    BY <1>2, <2>2
  <2>4. Moves(t) /\ StackFits(t)' /\ SameWork /\ doing'[t] = Op("joins", 0)
    BY <1>4, <2>1, <2>2, <2>3, CallChanges
  <2> QED
    BY <1>1, <1>4, <2>1, <2>2, <2>4 DEF CloseEffect
<1> QED
  BY <1>3, <1>4 DEF CloseSteps

LEMMA WaitsEffect ==
  ASSUME PoolTypes, StacksFit, ClosesOrderly, NEW t \in Threads, WaitsOn(t)
  PROVE  CallEffect(t) \/ CloseEffect(t)
<1>1. adds \in 0 .. MaxAdds /\ stack[t] # <<>> /\ we_are_destructing \in BOOLEAN
  BY DEF PoolTypes, WaitsOn
<1>2. ASSUME NEW id \in submitted[t], Calling(t), WaitOn(t, "waitsFor", id)
      PROVE  CallEffect(t)
  <2>1. id \in Nat
    BY DEF PoolTypes, Numbers
  <2>2. /\ Moves(t) /\ StackFits(t)' /\ SameWork /\ TableStays /\ doing'[t].op = "waitsFor"
        /\ UNCHANGED <<worker_thread_ids, we_are_destructing, readySleep, adds>>
        /\ doneSleep' \subseteq Threads
    BY <1>1, <1>2, <2>1, WaitsOnEffect
  <2>3. doing[t].op \in CallOps
    BY <1>2, PoolNumbers DEF WaitsOn, Calling, Closing, CallOps, StacksFit, StackFits
  <2> QED
    BY <1>1, <1>2, <2>2, <2>3 DEF CallEffect, CallOps
<1>3. ASSUME Calling(t), WaitOn(t, "waitsAll", 0)
      PROVE  CallEffect(t)
  <2>2. /\ Moves(t) /\ StackFits(t)' /\ SameWork /\ TableStays /\ doing'[t].op = "waitsAll"
        /\ UNCHANGED <<worker_thread_ids, we_are_destructing, readySleep, adds>>
        /\ doneSleep' \subseteq Threads
    BY <1>1, <1>3, WaitsOnEffect
  <2>3. doing[t].op \in CallOps
    BY <1>3, PoolNumbers DEF WaitsOn, Calling, Closing, CallOps, StacksFit, StackFits
  <2> QED
    BY <1>1, <1>3, <2>2, <2>3 DEF CallEffect, CallOps
<1>4. ASSUME t \in Callers, WaitOn(t, "shuts", 0),
             \A c \in Callers : doing[c].op \in {"runs", "shuts", "joins", "closed", "aborted"}
      PROVE  CloseEffect(t)
  <2>1. /\ Moves(t) /\ StackFits(t)' /\ SameWork /\ TableStays /\ doing'[t].op = "shuts"
        /\ UNCHANGED <<worker_thread_ids, we_are_destructing, readySleep, adds>>
        /\ doneSleep' \subseteq Threads
    BY <1>1, <1>4, WaitsOnEffect
  <2> QED
    BY <1>1, <1>4, <2>1 DEF CloseEffect, ClosesOrderly
<1> QED
  BY <1>2, <1>3, <1>4 DEF WaitsOn

LEMMA IdleStepsEffect ==
  ASSUME PoolTypes, StacksFit, ClosesOrderly, NEW t \in Threads,
         \/ WakesUnasked(t)
         \/ /\ t \in Workers
            /\ WorkerStarts(t) \/ WorkerSleeps(t) \/ WorkerQuits(t) \/ ReturnInline(t)
  PROVE  IdleEffect(t)
<1>1. /\ doneSleep \subseteq Threads /\ worker_thread_ids \subseteq Workers
      /\ readySleep \subseteq {w \in Workers : doing[w].op = "looks"}
      /\ (\E w \in Workers : doing[w].op = "gone") => we_are_destructing
  BY DEF PoolTypes, ClosesOrderly
<1>2. CASE WakesUnasked(t)
  <2>1. /\ doing' = doing /\ stack' = stack /\ submitted' = submitted /\ TableStays
        /\ readySleep' = readySleep \ {t} /\ doneSleep' = doneSleep \ {t}
        /\ UNCHANGED <<worker_thread_ids, we_are_destructing, adds>>
    BY <1>2 DEF WakesUnasked, table, history, TableStays
  <2>2. Moves(t)
    BY <2>1 DEF Moves, PoolTypes
  <2>3. StackFits(t)' /\ SameWork
    BY <2>1 DEF StacksFit, StackFits, SameWork, Serves
  <2>4. Awake \subseteq Awake'
    BY <2>1 DEF Awake
  <2> QED
    BY <1>1, <2>1, <2>2, <2>3, <2>4 DEF IdleEffect
<1>3. CASE t \in Workers /\ WorkerStarts(t)
  <2>1. /\ doing' = [doing EXCEPT ![t] = Op("looks", 0)] /\ TableStays /\ doing[t].op = "starts"
        /\ stack' = stack /\ submitted' = submitted
        /\ UNCHANGED <<we_are_destructing, readySleep, doneSleep, adds>>
        /\ worker_thread_ids' = worker_thread_ids \cup {t}
    BY <1>3 DEF WorkerStarts, sleepers, history, TableStays
  <2>2. Op("looks", 0) \in [op : Ops, id : Nat] /\ Op("looks", 0).op = "looks"
    BY CallsTyped DEF Ops
  <2>3. CallFits(t, Op("looks", 0))
    BY <1>3, <2>1, <2>2, PoolNumbers DEF CallFits, Free, StacksFit, StackFits
  <2>4. Moves(t) /\ StackFits(t)' /\ SameWork /\ doing'[t] = Op("looks", 0)
    BY <2>1, <2>2, <2>3, CallChanges
  <2>5. \A u \in Threads : u # t => doing'[u] = doing[u]
    BY <2>4 DEF Moves
  <2>6. Awake \subseteq Awake'
    BY <1>1, <2>1, <2>2, <2>4, <2>5, PoolNumbers DEF Awake
  <2>7. /\ \A c \in Callers : doing'[c] = doing[c]
        /\ (\E w \in Workers : doing'[w].op = "gone") => we_are_destructing
        /\ readySleep' \subseteq {w \in Workers : doing'[w].op = "looks"}
    BY <1>1, <1>3, <2>1, <2>2, <2>4, <2>5, PoolNumbers
  <2> QED
    BY <1>1, <1>3, <2>1, <2>4, <2>6, <2>7 DEF IdleEffect
<1>4. CASE t \in Workers /\ WorkerSleeps(t)
  <2>1. /\ doing' = doing /\ TableStays /\ doing[t].op = "looks"
        /\ stack' = stack /\ submitted' = submitted
        /\ UNCHANGED <<we_are_destructing, doneSleep, adds, worker_thread_ids>>
        /\ readySleep' = readySleep \cup {t} /\ \A i \in Slots : ~IsReady(i)
    BY <1>4 DEF WorkerSleeps, Looks, table, history, TableStays
  <2>2. Moves(t)
    BY <2>1 DEF Moves, PoolTypes
  <2>3. StackFits(t)' /\ SameWork
    BY <2>1 DEF StacksFit, StackFits, SameWork, Serves
  <2>4. Ready = {}
    BY <2>1 DEF Ready
  <2> QED
    BY <1>1, <1>4, <2>1, <2>2, <2>3, <2>4 DEF IdleEffect
<1>5. CASE t \in Workers /\ WorkerQuits(t)
  <2>1. /\ doing' = [doing EXCEPT ![t] = Op("gone", 0)] /\ TableStays /\ doing[t].op = "looks"
        /\ stack' = stack /\ submitted' = submitted /\ we_are_destructing /\ t \notin readySleep
        /\ UNCHANGED <<we_are_destructing, readySleep, doneSleep, adds, worker_thread_ids>>
    BY <1>5 DEF WorkerQuits, Looks, table, sleepers, history, TableStays
  <2>2. Op("gone", 0) \in [op : Ops, id : Nat] /\ Op("gone", 0).op = "gone"
    BY CallsTyped DEF Ops
  <2>3. CallFits(t, Op("gone", 0))
    BY <1>5, <2>1, <2>2, PoolNumbers DEF CallFits, Free, StacksFit, StackFits
  <2>4. Moves(t) /\ StackFits(t)' /\ SameWork /\ doing'[t] = Op("gone", 0)
    BY <2>1, <2>2, <2>3, CallChanges
  <2>5. \A u \in Threads : u # t => doing'[u] = doing[u]
    BY <2>4 DEF Moves
  <2>6. Ready = {}
    BY <2>1 DEF ClosesOrderly, Ready, IsReady
  <2>7. /\ \A c \in Callers : doing'[c] = doing[c]
        /\ readySleep' \subseteq {w \in Workers : doing'[w].op = "looks"}
    BY <1>1, <1>5, <2>1, <2>5, PoolNumbers
  <2> QED
    BY <1>1, <2>1, <2>4, <2>6, <2>7 DEF IdleEffect
<1>6. CASE t \in Workers /\ ReturnInline(t)
  <2>1. /\ doing' = doing /\ TableStays
        /\ UNCHANGED <<we_are_destructing, readySleep, doneSleep, adds, worker_thread_ids>>
    BY <1>6 DEF ReturnInline, table, sleepers, history, TableStays
  <2>2. Moves(t) /\ StackFits(t)' /\ SameWork
    BY <1>6, InlineEnds
  <2>3. Awake \subseteq Awake'
    BY <2>1 DEF Awake
  <2> QED
    BY <1>1, <2>1, <2>2, <2>3 DEF IdleEffect
<1> QED
  BY <1>2, <1>3, <1>4, <1>5, <1>6

(* Every step is of one of these kinds.                                    *)
Kinds(t) ==
  \/ CallEffect(t)
  \/ CloseEffect(t)
  \/ IdleEffect(t)
  \/ t \in Workers /\ WorkerTakes(t)
  \/ t \in Workers /\ \E ok \in BOOLEAN : thrown' \in 0 .. MaxThrows /\ Vacate(t, ok)

LEMMA StepIsOfAKind ==
  ASSUME PoolTypes, StacksFit, ClosesOrderly, TPNext
  PROVE  \E t \in Threads : Kinds(t)
<1>1. PICK t \in Threads : PoolStep(t)
  BY PoolStepCases
<1>2. CASE Adds(t)
  BY <1>2, AddsEffect DEF Kinds
<1>3. CASE WaitsOn(t)
  BY <1>3, WaitsEffect DEF Kinds
<1>4. CASE WaitEnds(t)
  BY <1>4, WaitEndsEffect DEF Kinds
<1>5. CASE CloseSteps(t)
  BY <1>5, CloseStepsEffect DEF Kinds
<1>6. CASE WorkSteps(t)
  <2>1. CASE Vacate(t, TRUE)
    <3>1. thrown' \in 0 .. MaxThrows
      BY <2>1 DEF Vacate, PoolTypes
    <3> QED
      BY <1>6, <2>1, <3>1, Zenon DEF WorkSteps, Kinds
  <2>2. CASE thrown < MaxThrows /\ Vacate(t, FALSE)
    <3>1. thrown' \in 0 .. MaxThrows
      BY <2>2, PoolNumbers DEF Vacate, PoolTypes
    <3> QED
      BY <1>6, <2>2, <3>1, Zenon DEF WorkSteps, Kinds
  <2>3. CASE WorkerTakes(t)
    BY <1>6, <2>3 DEF WorkSteps, Kinds
  <2>4. CASE WorkerStarts(t) \/ WorkerSleeps(t) \/ WorkerQuits(t) \/ ReturnInline(t)
    BY <1>6, <2>4, IdleStepsEffect DEF WorkSteps, Kinds
  <2> QED
    BY <1>6, <2>1, <2>2, <2>3, <2>4 DEF WorkSteps, WorkerSteps
<1>7. CASE WakesUnasked(t)
  BY <1>7, IdleStepsEffect DEF Kinds
<1> QED
  BY <1>1, <1>2, <1>3, <1>4, <1>5, <1>6, <1>7 DEF PoolStep

(***************************************************************************)
(* Types, frames, and the order of closing.                                *)
(***************************************************************************)
(* While any task runs, or a caller is at work, the destructor waits.      *)
LEMMA CallingIsBeforeTheEnd ==
  ASSUME StacksFit, ClosesOrderly, TableFits, NEW t \in Threads, Calling(t)
  PROVE  ~we_are_destructing
<1>1. CASE t \in Workers
  <2>1. Serves(t, stack[t][1].slot) /\ stack[t][1].slot \in Slots
    BY <1>1 DEF StacksFit, StackFits, Calling, Serves
  <2>2. ~IsEmpty(stack[t][1].slot)
    BY <1>1, <2>1 DEF TableFits, ServedOnce, SlotsTidy
  <2> QED
    BY <2>1, <2>2 DEF ClosesOrderly
<1>2. CASE t \notin Workers
  BY <1>2 DEF Calling, ClosesOrderly
<1> QED
  BY <1>1, <1>2

LEMMA TypesKept ==
  ASSUME PoolTypes, StacksFit, TableFits, NEW t \in Threads, Kinds(t)
  PROVE  PoolTypes'
<1>1. CASE TableStays /\ Moves(t) /\ worker_thread_ids' \subseteq Workers
           /\ we_are_destructing' \in BOOLEAN /\ doneSleep' \subseteq Threads
           /\ adds' \in 0 .. MaxAdds
  BY <1>1 DEF PoolTypes, TableStays, Moves
<1>2. CASE CallEffect(t)
  <2>1. Moves(t) /\ UNCHANGED <<worker_thread_ids, we_are_destructing>>
        /\ doneSleep' \subseteq Threads /\ adds' \in 0 .. MaxAdds
    BY <1>2 DEF CallEffect
  <2>5. worker_thread_ids' \subseteq Workers /\ we_are_destructing' \in BOOLEAN
    BY <2>1 DEF PoolTypes
  <2>2. CASE TableStays
    BY <1>1, <2>1, <2>2, <2>5, Zenon
  <2>3. CASE Catches
    <3>1. PICK i \in Slots : tasks' = [tasks EXCEPT ![i].eptr = FALSE]
      BY <2>3 DEF Catches
    <3>2. tasks' \in [Slots -> [task_id : Nat, is_being_processed : BOOLEAN,
                                thread_id : Threads \cup {NoOne}, eptr : BOOLEAN]]
      BY <3>1 DEF PoolTypes
    <3>3. /\ next_task_id' \in [Slots -> Nat \ {0, 1}] /\ finished' \subseteq Numbers
          /\ thrown' \in 0 .. MaxThrows /\ caught' \in Nat
      BY <2>3 DEF PoolTypes, Catches
    <3> QED
      BY <2>1, <2>5, <3>2, <3>3 DEF PoolTypes, Moves
  <2>4. ASSUME NEW i \in Slots, Places(t, i) PROVE PoolTypes'
    <3>1. NewId(i) \in Nat
      BY NewIds DEF Numbers
    <3>2. tasks' \in [Slots -> [task_id : Nat, is_being_processed : BOOLEAN,
                                thread_id : Threads \cup {NoOne}, eptr : BOOLEAN]]
      <4>1. tasks' = [tasks EXCEPT ![i].task_id = NewId(i), ![i].thread_id = t]
        BY <2>4 DEF Places
      <4> HIDE DEF NewId
      <4> QED
        BY <3>1, <4>1 DEF PoolTypes
    <3>3. next_task_id' \in [Slots -> Nat \ {0, 1}]
      <4>1. next_task_id' = [next_task_id EXCEPT ![i] = @ + 1]
        BY <2>4 DEF Places
      <4>2. next_task_id[i] \in Nat \ {0, 1}
        BY DEF PoolTypes
      <4>3. next_task_id[i] + 1 \in Nat \ {0, 1}
        BY <4>2
      <4> QED
        BY <4>1, <4>3 DEF PoolTypes
    <3> QED
      BY <2>1, <2>4, <3>2, <3>3 DEF PoolTypes, Places, Moves
  <2> QED
    BY <1>2, <2>2, <2>3, <2>4 DEF CallEffect
<1>3. CASE CloseEffect(t) \/ IdleEffect(t)
  BY <1>1, <1>3 DEF CloseEffect, IdleEffect, PoolTypes
<1>4. CASE t \in Workers /\ WorkerTakes(t)
  <2>1. PICK i \in Slots :
          /\ tasks' = [tasks EXCEPT ![i].is_being_processed = TRUE]
          /\ stack' = [stack EXCEPT ![t] = <<Frame(i)>>]
    BY <1>4 DEF WorkerTakes
  <2>2. /\ doing' = [doing EXCEPT ![t] = Runs] /\ submitted' = submitted
        /\ UNCHANGED <<next_task_id, worker_thread_ids, we_are_destructing, doneSleep,
                       finished, adds, thrown, caught>>
    BY <1>4 DEF WorkerTakes, sleepers, history
  <2>3. Moves(t)
    BY <1>4, <2>1, <2>2, TaskBegins
  <2>4. tasks' \in [Slots -> [task_id : Nat, is_being_processed : BOOLEAN,
                              thread_id : Threads \cup {NoOne}, eptr : BOOLEAN]]
    BY <2>1 DEF PoolTypes
  <2> QED
    BY <2>2, <2>3, <2>4 DEF PoolTypes, Moves
<1>5. ASSUME t \in Workers, NEW ok \in BOOLEAN, thrown' \in 0 .. MaxThrows, Vacate(t, ok)
      PROVE  PoolTypes'
  <2>1. Moves(t) /\ Top(t).slot \in Slots
    BY <1>5, TaskLeaves
  <2> DEFINE i == Top(t).slot
  <2>2. /\ tasks' = [tasks EXCEPT ![i].task_id = 0, ![i].is_being_processed = FALSE,
                                  ![i].eptr = ~ok]
        /\ finished' = finished \cup {tasks[i].task_id}
        /\ doneSleep' = {}
        /\ UNCHANGED <<next_task_id, worker_thread_ids, we_are_destructing, adds, caught>>
    BY <1>5 DEF Vacate
  <2> HIDE DEF i
  <2>3. tasks' \in [Slots -> [task_id : Nat, is_being_processed : BOOLEAN,
                              thread_id : Threads \cup {NoOne}, eptr : BOOLEAN]]
    <3>1. (~ok) \in BOOLEAN /\ i \in Slots
      BY <1>5, <2>1 DEF i
    <3> DEFINE b == ~ok
    <3>2. b \in BOOLEAN /\ tasks' = [tasks EXCEPT ![i].task_id = 0, ![i].is_being_processed = FALSE,
                                                ![i].eptr = b]
      BY <2>2, <3>1
    <3> HIDE DEF b
    <3>3. /\ tasks' = [j \in Slots |-> IF j = i THEN tasks'[i] ELSE tasks[j]]
          /\ tasks'[i] = [tasks[i] EXCEPT !.task_id = 0, !.is_being_processed = FALSE, !.eptr = b]
      BY <3>1, <3>2 DEF PoolTypes
    <3>4. tasks[i] \in [task_id : Nat, is_being_processed : BOOLEAN,
                        thread_id : Threads \cup {NoOne}, eptr : BOOLEAN]
      BY <3>1 DEF PoolTypes
    <3>5. tasks'[i] = [task_id |-> 0, is_being_processed |-> FALSE,
                       thread_id |-> tasks[i].thread_id, eptr |-> b]
      BY <3>3, <3>4
    <3>6. tasks'[i] \in [task_id : Nat, is_being_processed : BOOLEAN,
                         thread_id : Threads \cup {NoOne}, eptr : BOOLEAN]
      <4>1. tasks[i].thread_id \in Threads \cup {NoOne} /\ b \in BOOLEAN
        BY <3>2, <3>4
      <4> QED
        BY <3>5, <4>1
    <3> QED
      BY <3>3, <3>6 DEF PoolTypes
  <2>4. finished' \subseteq Numbers
    <3>1. Serves(t, i)
      BY <1>5, <2>1, TaskLeaves DEF i
    <3>2. ~IsEmpty(i)
      BY <1>5, <2>1, <3>1 DEF TableFits, ServedOnce, SlotsTidy, i
    <3> QED
      BY <2>1, <2>2, <3>2 DEF PoolTypes, IsEmpty, Numbers, i
  <2> QED
    BY <1>5, <2>1, <2>2, <2>3, <2>4 DEF PoolTypes, Moves
<1> QED
  BY <1>2, <1>3, <1>4, <1>5 DEF Kinds

(* In which calls the others may be, when one thread has moved.            *)
LEMMA ClosingAfter ==
  ASSUME NEW t \in Threads, Moves(t),
         \/ t \in Workers
         \/ doing[t].op \in CallOps /\ doing'[t].op \in CallOps
  PROVE  Closing' <=> Closing
<1>1. \A c \in Callers : c # t => doing'[c] = doing[c]
  BY PoolNumbers DEF Moves
<1>2. \A c \in Callers : doing'[c].op \in {"shuts", "joins", "closed", "aborted"}
                           <=> doing[c].op \in {"shuts", "joins", "closed", "aborted"}
  BY <1>1, PoolNumbers DEF CallOps
<1> QED
  BY <1>2 DEF Closing

LEMMA ClosesKept ==
  ASSUME PoolTypes, StacksFit, ClosesOrderly, TableFits, NEW t \in Threads, Kinds(t)
  PROVE  ClosesOrderly'
<1>1. ASSUME Moves(t) PROVE \A u \in Threads : u # t => doing'[u] = doing[u]
  BY <1>1 DEF Moves
<1>2. CASE CallEffect(t)
  <2>1. Moves(t) /\ doing[t].op \in CallOps /\ doing'[t].op \in CallOps /\ Calling(t)
        /\ we_are_destructing' = we_are_destructing
    BY <1>2 DEF CallEffect
  <2>2. Closing' <=> Closing
    BY <2>1, ClosingAfter
  <2>3. ~we_are_destructing'
    BY <2>1, CallingIsBeforeTheEnd
  <2>4. readySleep' \subseteq readySleep
    BY <1>2 DEF CallEffect, Signalled
  <2>5. \A w \in Workers : doing'[w].op = "gone" => doing[w].op = "gone"
    BY <1>1, <2>1, PoolNumbers DEF CallOps
  <2>6. readySleep' \subseteq {w \in Workers : doing'[w].op = "looks"}
    BY <1>1, <2>1, <2>4, PoolNumbers DEF CallOps, ClosesOrderly
  <2>7. Closing => \A c \in Callers : doing'[c].op \in {"runs", "shuts", "joins", "closed", "aborted"}
    BY <1>1, <2>1, PoolNumbers DEF Calling, ClosesOrderly
  <2>8. ~\E w \in Workers : doing'[w].op = "gone"
    BY <2>1, <2>3, <2>5 DEF ClosesOrderly
  <2> QED
    BY <2>2, <2>3, <2>6, <2>7, <2>8 DEF ClosesOrderly
<1>3. CASE CloseEffect(t)
  <2>1. /\ t \in Callers /\ doing'[t].op \in {"shuts", "joins", "closed", "aborted"} /\ Moves(t)
        /\ \A c \in Callers : doing[c].op \in {"runs", "shuts", "joins", "closed", "aborted"}
        /\ readySleep' \subseteq readySleep /\ tasks' = tasks
        /\ we_are_destructing' => \A i \in Slots : IsEmpty(i)
    BY <1>3 DEF CloseEffect, TableStays
  <2>2. Closing' /\ \A c \in Callers : doing'[c].op \in {"runs", "shuts", "joins", "closed", "aborted"}
    BY <1>1, <2>1, PoolNumbers DEF Closing
  <2>3. \A w \in Workers : doing'[w] = doing[w]
    BY <1>1, <2>1, PoolNumbers
  <2>4. readySleep' \subseteq {w \in Workers : doing'[w].op = "looks"}
    BY <2>1, <2>3 DEF ClosesOrderly
  <2>5. (\E w \in Workers : doing'[w].op = "gone") => we_are_destructing'
    BY <1>3, <2>3 DEF ClosesOrderly, CloseEffect
  <2>6. we_are_destructing' => \A i \in Slots : tasks'[i].task_id = 0
    BY <2>1 DEF IsEmpty
  <2> QED
    BY <2>2, <2>4, <2>5, <2>6 DEF ClosesOrderly, IsEmpty
<1>4. CASE IdleEffect(t)
  <2>1. /\ \A c \in Callers : doing'[c] = doing[c]
        /\ tasks' = tasks /\ we_are_destructing' = we_are_destructing
        /\ readySleep' \subseteq {w \in Workers : doing'[w].op = "looks"}
        /\ (\E w \in Workers : doing'[w].op = "gone") => we_are_destructing
    BY <1>4 DEF IdleEffect, TableStays
  <2>2. Closing' <=> Closing
    BY <2>1 DEF Closing
  <2> QED
    BY <2>1, <2>2 DEF ClosesOrderly, IsEmpty
<1>5. CASE t \in Workers /\ WorkerTakes(t)
  <2>1. PICK i \in Slots : stack' = [stack EXCEPT ![t] = <<Frame(i)>>]
    BY <1>5 DEF WorkerTakes
  <2>2. /\ doing' = [doing EXCEPT ![t] = Runs] /\ submitted' = submitted
        /\ ~we_are_destructing /\ we_are_destructing' = we_are_destructing
        /\ readySleep' = readySleep /\ t \notin readySleep
    BY <1>5 DEF WorkerTakes, sleepers, history, Looks
  <2>3. Moves(t) /\ doing'[t] = Runs
    BY <1>5, <2>1, <2>2, TaskBegins
  <2>4. Closing' <=> Closing
    BY <1>5, <2>3, ClosingAfter
  <2>5. readySleep' \subseteq {w \in Workers : doing'[w].op = "looks"}
    BY <1>1, <2>2, <2>3, PoolNumbers DEF ClosesOrderly
  <2>6. \A c \in Callers : doing'[c] = doing[c]
    BY <1>1, <1>5, <2>3, PoolNumbers
  <2>7. ~\E w \in Workers : doing'[w].op = "gone"
    BY <1>1, <2>2, <2>3, PoolNumbers, CallsTyped DEF ClosesOrderly
  <2> QED
    BY <2>2, <2>4, <2>5, <2>6, <2>7 DEF ClosesOrderly
<1>6. ASSUME t \in Workers, NEW ok \in BOOLEAN, Vacate(t, ok) PROVE ClosesOrderly'
  <2>1. Moves(t) /\ doing'[t] = Op("looks", 0) /\ Serves(t, Top(t).slot) /\ Top(t).slot \in Slots
    BY <1>6, TaskLeaves
  <2>2. doing'[t].op = "looks"
    BY <2>1 DEF Op
  <2>3. Calling(t)
    BY <1>6, <2>1 DEF Calling, Serves
  <2>4. ~we_are_destructing' /\ ~we_are_destructing
    BY <1>6, <2>3, CallingIsBeforeTheEnd DEF Vacate
  <2>5. Closing' <=> Closing
    BY <1>6, <2>1, ClosingAfter
  <2>6. readySleep' \subseteq {w \in Workers : doing'[w].op = "looks"}
    BY <1>1, <1>6, <2>1, <2>2, PoolNumbers DEF ClosesOrderly, Vacate
  <2>7. \A c \in Callers : doing'[c] = doing[c]
    BY <1>1, <1>6, <2>1, PoolNumbers
  <2>8. ~\E w \in Workers : doing'[w].op = "gone"
    BY <1>1, <2>1, <2>2, <2>4, PoolNumbers DEF ClosesOrderly
  <2> QED
    BY <2>4, <2>5, <2>6, <2>7, <2>8 DEF ClosesOrderly
<1> QED
  BY <1>2, <1>3, <1>4, <1>5, <1>6 DEF Kinds

LEMMA FramesKept ==
  ASSUME PoolTypes, StacksFit, NEW t \in Threads, Kinds(t)
  PROVE  StacksFit'
<1>1. CASE CallEffect(t) \/ CloseEffect(t) \/ IdleEffect(t)
  BY <1>1, MovesKeepsStacks DEF CallEffect, CloseEffect, IdleEffect
<1>2. CASE t \in Workers /\ WorkerTakes(t)
  <2>1. PICK i \in Slots : stack' = [stack EXCEPT ![t] = <<Frame(i)>>]
    BY <1>2 DEF WorkerTakes
  <2>2. doing' = [doing EXCEPT ![t] = Runs] /\ submitted' = submitted
    BY <1>2 DEF WorkerTakes, history
  <2>3. Moves(t) /\ StackFits(t)'
    BY <1>2, <2>1, <2>2, TaskBegins
  <2> QED
    BY <2>3, MovesKeepsStacks
<1>3. ASSUME t \in Workers, NEW ok \in BOOLEAN, Vacate(t, ok) PROVE StacksFit'
  <2>1. Moves(t) /\ StackFits(t)'
    BY <1>3, TaskLeaves
  <2> QED
    BY <2>1, MovesKeepsStacks
<1> QED
  BY <1>1, <1>2, <1>3 DEF Kinds

(***************************************************************************)
(* The table: each step, by the fields of the slots that it changes.       *)
(***************************************************************************)
SameTasks ==
  \A j \in Slots : /\ tasks'[j].task_id = tasks[j].task_id
                   /\ tasks'[j].thread_id = tasks[j].thread_id
SameMarks == \A j \in Slots : tasks'[j].is_being_processed <=> tasks[j].is_being_processed

LEMMA CatchesFields ==
  ASSUME PoolTypes, Catches
  PROVE  SameTasks /\ SameMarks /\ \A j \in Slots : tasks'[j].eptr => tasks[j].eptr
<1>1. PICK i \in Slots : tasks' = [tasks EXCEPT ![i].eptr = FALSE]
  BY DEF Catches
<1> QED
  BY <1>1 DEF PoolTypes, SameTasks, SameMarks

LEMMA PlacesFields ==
  ASSUME PoolTypes, NEW t \in Threads, NEW i \in Slots, Places(t, i)
  PROVE  /\ tasks'[i].task_id = NewId(i) /\ tasks'[i].thread_id = t
         /\ \A j \in Slots : j # i => /\ tasks'[j].task_id = tasks[j].task_id
                                      /\ tasks'[j].thread_id = tasks[j].thread_id
         /\ SameMarks
         /\ \A j \in Slots : tasks'[j].eptr <=> tasks[j].eptr
         /\ tasks[i].task_id = 0 /\ ~tasks[i].eptr
<1>1. tasks' = [tasks EXCEPT ![i].task_id = NewId(i), ![i].thread_id = t]
  BY DEF Places
<1> HIDE DEF NewId
<1>2. tasks[i].task_id = 0 /\ ~tasks[i].eptr
  BY DEF Places, IsEmpty
<1>3. \A j \in Slots : j # i => tasks'[j] = tasks[j]
  BY <1>1 DEF PoolTypes
<1>4. /\ tasks'[i].task_id = NewId(i) /\ tasks'[i].thread_id = t
      /\ tasks'[i].is_being_processed <=> tasks[i].is_being_processed
      /\ tasks'[i].eptr <=> tasks[i].eptr
  BY <1>1 DEF PoolTypes
<1> QED
  BY <1>2, <1>3, <1>4 DEF SameMarks

LEMMA TakesFields ==
  ASSUME PoolTypes, NEW i \in Slots, tasks' = [tasks EXCEPT ![i].is_being_processed = TRUE]
  PROVE  /\ SameTasks /\ tasks'[i].is_being_processed
         /\ \A j \in Slots : j # i => (tasks'[j].is_being_processed <=> tasks[j].is_being_processed)
         /\ \A j \in Slots : tasks'[j].eptr <=> tasks[j].eptr
BY DEF PoolTypes, SameTasks

LEMMA VacateFields ==
  ASSUME PoolTypes, NEW w, NEW ok \in BOOLEAN, Vacate(w, ok), NEW i \in Slots, Top(w).slot = i
  PROVE  /\ tasks'[i].task_id = 0 /\ ~tasks'[i].is_being_processed /\ (tasks'[i].eptr <=> ~ok)
         /\ \A j \in Slots : j # i => tasks'[j] = tasks[j]
         /\ finished' = finished \cup {tasks[i].task_id}
<1>1. /\ tasks' = [tasks EXCEPT ![i].task_id = 0, ![i].is_being_processed = FALSE,
                                ![i].eptr = ~ok]
      /\ finished' = finished \cup {tasks[i].task_id}
  BY DEF Vacate
<1> DEFINE b == ~ok
<1>2. /\ tasks' = [tasks EXCEPT ![i].task_id = 0, ![i].is_being_processed = FALSE, ![i].eptr = b]
      /\ b = ~ok
  BY <1>1
<1> HIDE DEF b
<1>3. \A j \in Slots : j # i => tasks'[j] = tasks[j]
  BY <1>2 DEF PoolTypes
<1>4. tasks'[i].task_id = 0 /\ ~tasks'[i].is_being_processed /\ tasks'[i].eptr = b
  BY <1>2 DEF PoolTypes
<1> QED
  BY <1>1, <1>2, <1>3, <1>4

LEMMA ServiceStays ==
  ASSUME ServedOnce, SameWork, SameMarks PROVE ServedOnce'
<1>1. /\ \A w \in Workers, i \in Slots : Serves(w, i)' <=> Serves(w, i)
      /\ \A i \in Slots : tasks'[i].is_being_processed <=> tasks[i].is_being_processed
  BY PoolNumbers DEF SameWork, SameMarks
<1>2. \A w \in Workers, i \in Slots : Serves(w, i)' => tasks'[i].is_being_processed
  BY <1>1 DEF ServedOnce
<1>3. \A i \in Slots : tasks'[i].is_being_processed => \E w \in Workers : Serves(w, i)'
  BY <1>1 DEF ServedOnce
<1>4. \A w, x \in Workers, i \in Slots : Serves(w, i)' /\ Serves(x, i)' => w = x
  BY <1>1 DEF ServedOnce
<1> QED
  BY <1>2, <1>3, <1>4 DEF ServedOnce

(* The slots that a worker's step changes.                                 *)
LEMMA TakesEffect ==
  ASSUME PoolTypes, StacksFit, NEW w \in Workers, WorkerTakes(w)
  PROVE  \E i \in Slots :
           /\ IsReady(i) /\ SameTasks /\ tasks'[i].is_being_processed
           /\ \A j \in Slots : j # i =>
                (tasks'[j].is_being_processed <=> tasks[j].is_being_processed)
           /\ \A j \in Slots : tasks'[j].eptr <=> tasks[j].eptr
           /\ Moves(w) /\ doing'[w] = Runs /\ doing[w].op = "looks" /\ w \notin readySleep
           /\ \A j \in Slots : ~Serves(w, j)
           /\ \A j \in Slots : Serves(w, j)' <=> j = i
           /\ \A u \in Threads \ {w}, j \in Slots : Serves(u, j)' <=> Serves(u, j)
           /\ UNCHANGED <<next_task_id, readySleep, finished, submitted, thrown, caught>>
<1>1. PICK i \in Slots :
        /\ IsReady(i)
        /\ tasks' = [tasks EXCEPT ![i].is_being_processed = TRUE]
        /\ stack' = [stack EXCEPT ![w] = <<Frame(i)>>]
  BY DEF WorkerTakes, First
<1>2. /\ doing' = [doing EXCEPT ![w] = Runs] /\ submitted' = submitted
      /\ doing[w].op = "looks" /\ w \notin readySleep
      /\ UNCHANGED <<next_task_id, readySleep, finished, submitted, thrown, caught>>
  BY DEF WorkerTakes, Looks, sleepers, history
<1>3. \A j \in Slots : ~Serves(w, j)
  BY <1>2, PoolNumbers DEF StacksFit, StackFits, Free, Serves
<1>4. /\ Moves(w) /\ doing'[w] = Runs
      /\ \A j \in Slots : Serves(w, j)' <=> j = i
      /\ \A u \in Threads \ {w}, j \in Slots : Serves(u, j)' <=> Serves(u, j)
  BY <1>1, <1>2, TaskBegins
<1>5. /\ SameTasks /\ tasks'[i].is_being_processed
      /\ \A j \in Slots : j # i => (tasks'[j].is_being_processed <=> tasks[j].is_being_processed)
      /\ \A j \in Slots : tasks'[j].eptr <=> tasks[j].eptr
  BY <1>1, TakesFields
<1> QED
  BY <1>1, <1>2, <1>3, <1>4, <1>5

LEMMA VacateEffect ==
  ASSUME PoolTypes, StacksFit, ServedOnce, SlotsTidy, NEW w \in Workers, NEW ok \in BOOLEAN,
         Vacate(w, ok)
  PROVE  \E i \in Slots :
           /\ tasks[i].is_being_processed /\ tasks[i].task_id # 0 /\ ~tasks[i].eptr
           /\ tasks'[i].task_id = 0 /\ ~tasks'[i].is_being_processed /\ (tasks'[i].eptr <=> ~ok)
           /\ \A j \in Slots : j # i => tasks'[j] = tasks[j]
           /\ finished' = finished \cup {tasks[i].task_id}
           /\ Moves(w) /\ doing'[w] = Op("looks", 0) /\ doing[w] = Runs
           /\ \A j \in Slots : Serves(w, j) <=> j = i
           /\ \A j \in Slots : ~Serves(w, j)'
           /\ \A u \in Threads \ {w}, j \in Slots : Serves(u, j)' <=> Serves(u, j)
           /\ thrown' = (IF ok THEN thrown ELSE thrown + 1)
           /\ UNCHANGED <<next_task_id, readySleep, submitted, caught>>
<1> DEFINE i == Top(w).slot
<1>1. /\ i \in Slots /\ Top(w).slot = i
      /\ Moves(w) /\ doing'[w] = Op("looks", 0)
      /\ \A j \in Slots : Serves(w, j) <=> j = i
      /\ \A j \in Slots : ~Serves(w, j)'
      /\ \A u \in Threads \ {w}, j \in Slots : Serves(u, j)' <=> Serves(u, j)
  BY TaskLeaves
<1>2. /\ thrown' = (IF ok THEN thrown ELSE thrown + 1) /\ doing[w] = Runs
      /\ UNCHANGED <<next_task_id, readySleep, submitted, caught>>
  BY DEF Vacate
<1> HIDE DEF i
<1>3. /\ tasks'[i].task_id = 0 /\ ~tasks'[i].is_being_processed /\ (tasks'[i].eptr <=> ~ok)
      /\ \A j \in Slots : j # i => tasks'[j] = tasks[j]
      /\ finished' = finished \cup {tasks[i].task_id}
  BY <1>1, VacateFields
<1>4. tasks[i].is_being_processed /\ tasks[i].task_id # 0 /\ ~tasks[i].eptr
  BY <1>1 DEF ServedOnce, SlotsTidy, IsEmpty
<1> QED
  BY <1>1, <1>2, <1>3, <1>4

LEMMA ServiceKept ==
  ASSUME PoolTypes, StacksFit, TableFits, NEW t \in Threads, Kinds(t)
  PROVE  ServedOnce'
<1>1. ServedOnce /\ SlotsTidy
  BY DEF TableFits
<1>2. ASSUME TableStays, SameWork PROVE ServedOnce'
  <2>1. SameMarks
    BY <1>2 DEF TableStays, SameMarks
  <2> QED
    BY <1>1, <1>2, <2>1, ServiceStays
<1>3. CASE CallEffect(t)
  <2>1. SameWork
    BY <1>3 DEF CallEffect
  <2>2. CASE Catches
    BY <1>1, <2>1, <2>2, CatchesFields, ServiceStays
  <2>3. ASSUME NEW i \in Slots, Places(t, i) PROVE ServedOnce'
    BY <1>1, <2>1, <2>3, PlacesFields, ServiceStays
  <2> QED
    BY <1>2, <1>3, <2>1, <2>2, <2>3 DEF CallEffect
<1>4. CASE CloseEffect(t) \/ IdleEffect(t)
  BY <1>2, <1>4 DEF CloseEffect, IdleEffect
<1>5. CASE t \in Workers /\ WorkerTakes(t)
  <2>1. PICK i \in Slots :
           /\ IsReady(i) /\ tasks'[i].is_being_processed
           /\ \A j \in Slots : j # i =>
                (tasks'[j].is_being_processed <=> tasks[j].is_being_processed)
           /\ \A j \in Slots : Serves(t, j)' <=> j = i
           /\ \A u \in Threads \ {t}, j \in Slots : Serves(u, j)' <=> Serves(u, j)
           /\ \A j \in Slots : ~Serves(t, j)
    BY <1>5, TakesEffect
  <2>2. \A u \in Workers : ~Serves(u, i)
    BY <1>1, <2>1 DEF ServedOnce, IsReady
  <2>3. \A u \in Workers, j \in Slots : u # t => (Serves(u, j)' <=> Serves(u, j))
    BY <2>1, PoolNumbers
  <2>4. \A u \in Workers, j \in Slots : Serves(u, j)' => tasks'[j].is_being_processed
    BY <1>1, <2>1, <2>2, <2>3 DEF ServedOnce
  <2>5. \A j \in Slots : tasks'[j].is_being_processed => \E u \in Workers : Serves(u, j)'
    <3>1. ASSUME NEW j \in Slots, tasks'[j].is_being_processed, j # i
          PROVE  \E u \in Workers : Serves(u, j)'
      <4>1. PICK u \in Workers : Serves(u, j)
        BY <1>1, <2>1, <3>1 DEF ServedOnce
      <4> QED
        BY <2>1, <2>3, <4>1
    <3> QED
      BY <1>5, <2>1, <3>1
  <2>6. \A u, x \in Workers, j \in Slots : Serves(u, j)' /\ Serves(x, j)' => u = x
    BY <1>1, <2>1, <2>2, <2>3 DEF ServedOnce
  <2> QED
    BY <2>4, <2>5, <2>6 DEF ServedOnce
<1>6. ASSUME t \in Workers, NEW ok \in BOOLEAN, Vacate(t, ok) PROVE ServedOnce'
  <2>1. PICK i \in Slots :
           /\ ~tasks'[i].is_being_processed
           /\ \A j \in Slots : j # i => tasks'[j] = tasks[j]
           /\ \A j \in Slots : Serves(t, j) <=> j = i
           /\ \A j \in Slots : ~Serves(t, j)'
           /\ \A u \in Threads \ {t}, j \in Slots : Serves(u, j)' <=> Serves(u, j)
    BY <1>1, <1>6, VacateEffect
  <2>2. \A u \in Workers, j \in Slots : Serves(u, j)' => Serves(u, j) /\ j # i
    BY <1>1, <1>6, <2>1, PoolNumbers DEF ServedOnce
  <2>3. \A u \in Workers, j \in Slots : Serves(u, j)' => tasks'[j].is_being_processed
    BY <1>1, <2>1, <2>2 DEF ServedOnce
  <2>4. \A j \in Slots : tasks'[j].is_being_processed => \E u \in Workers : Serves(u, j)'
    <3>1. ASSUME NEW j \in Slots, tasks'[j].is_being_processed
          PROVE  \E u \in Workers : Serves(u, j)'
      <4>1. j # i /\ tasks[j].is_being_processed
        BY <2>1, <3>1
      <4>2. PICK u \in Workers : Serves(u, j)
        BY <1>1, <4>1 DEF ServedOnce
      <4>3. u \in Threads \ {t}
        BY <2>1, <4>1, <4>2, PoolNumbers
      <4> QED
        BY <2>1, <4>2, <4>3
    <3> QED
      BY <3>1
  <2>5. \A u, x \in Workers, j \in Slots : Serves(u, j)' /\ Serves(x, j)' => u = x
    BY <1>1, <2>2 DEF ServedOnce
  <2> QED
    BY <2>3, <2>4, <2>5 DEF ServedOnce
<1> QED
  BY <1>3, <1>4, <1>5, <1>6 DEF Kinds

(* What a slot gives out counts as known from then on, and not before.     *)
KnownStays == \A id \in Nat : Known(id) => Known(id)'

LEMMA SameNextIds == ASSUME UNCHANGED next_task_id PROVE KnownStays
BY DEF KnownStays, Known

LEMMA PlacesKnown ==
  ASSUME PoolTypes, NEW t \in Threads, NEW i \in Slots, Places(t, i),
         NEW d, d = NewId(i)
  PROVE  KnownStays /\ ~Known(d) /\ Known(d)'
<1>1. next_task_id' = [next_task_id EXCEPT ![i] = @ + 1]
  BY DEF Places
<1>2. d \in Nat /\ d % N = i
  BY NewIds DEF Numbers
<1>3. d = next_task_id[i] * N + i
  BY DEF NewId
<1>4. /\ next_task_id'[i] = next_task_id[i] + 1
      /\ \A j \in Slots : j # i => next_task_id'[j] = next_task_id[j]
  BY <1>1 DEF PoolTypes
<1> DEFINE e == next_task_id'[i] * N + i
<1>5. e \in Int /\ d < e
  <2> DEFINE q == next_task_id[i]
  <2>1. q \in Nat /\ N \in Nat /\ i \in 0 .. N - 1
    BY PoolNumbers DEF PoolTypes
  <2>2. d = q * N + i /\ e = (q + 1) * N + i
    BY <1>3, <1>4
  <2> HIDE DEF q, e
  <2>3. q * N + i < (q + 1) * N + i
    BY <2>1, IdArithmetic
  <2>4. (q + 1) * N + i \in Int
    BY <2>1, Z3
  <2> QED
    BY <2>2, <2>3, <2>4
<1>6. ~Known(d)
  BY <1>2, <1>3 DEF Known
<1>7. Known(d)'
  BY <1>2, <1>5 DEF Known
<1>8. ASSUME NEW id \in Nat, Known(id) PROVE Known(id)'
  <2>1. CASE id % N = i
    <3>1. id < d
      BY <1>3, <1>8, <2>1 DEF Known
    <3>2. id < e
      BY <1>2, <1>5, <3>1
    <3> QED
      BY <2>1, <3>2 DEF Known
  <2>2. CASE id % N # i
    BY <1>4, <1>8, <2>2 DEF Known
  <2> QED
    BY <2>1, <2>2
<1> QED
  BY <1>6, <1>7, <1>8 DEF KnownStays

(* Nothing enters the table or leaves it.                                  *)
LEMMA EntriesStay ==
  ASSUME PoolTypes, IdsKnown, NoneForgotten, SameTasks,
         UNCHANGED <<next_task_id, finished, submitted>>
  PROVE  IdsKnown' /\ NoneForgotten'
<1>1. KnownStays /\ finished' = finished /\ submitted' = submitted
  BY SameNextIds
<1>2. \A j \in Slots : tasks'[j].task_id = tasks[j].task_id /\ tasks'[j].thread_id = tasks[j].thread_id
  BY DEF SameTasks
<1>3. \A j \in Slots : tasks'[j].task_id # 0 =>
        tasks'[j].task_id % N = j /\ \E d : d = tasks'[j].task_id /\ Known(d)'
  <2>1. ASSUME NEW j \in Slots, tasks'[j].task_id # 0, NEW d, d = tasks[j].task_id
        PROVE  d % N = j /\ Known(d)'
    <3>1. d \in Nat /\ d % N = j /\ Known(d)
      BY <1>2, <2>1 DEF IdsKnown, IsEmpty, PoolTypes
    <3> QED
      BY <1>1, <3>1 DEF KnownStays
  <2> QED
    BY <1>2, <2>1
<1>4. \A j \in Slots : ~IsEmpty(j)' => tasks'[j].task_id % N = j /\ Known(tasks[j].task_id)'
  BY <1>3 DEF IsEmpty, Known
<1>5. \A id \in finished' : Known(id)'
  BY <1>1 DEF IdsKnown, KnownStays, PoolTypes, Numbers
<1>6. \A j \in Slots : tasks'[j].task_id \notin finished'
  BY <1>1, <1>2 DEF IdsKnown
<1>7. NoneForgotten'
  BY <1>1, <1>2 DEF NoneForgotten
<1> QED
  BY <1>4, <1>5, <1>6, <1>7 DEF IdsKnown

LEMMA EntryAdded ==
  ASSUME PoolTypes, IdsKnown, NoneForgotten, NEW t \in Threads, NEW i \in Slots, Places(t, i)
  PROVE  IdsKnown' /\ NoneForgotten'
<1> PICK d : d = NewId(i)
  OBVIOUS
<1>1. d = NewId(i) /\ d \in Numbers /\ d \in Nat /\ d # 0 /\ d % N = i
  BY NewIds DEF Numbers
<1>2. /\ tasks'[i].task_id = d /\ tasks'[i].thread_id = t /\ tasks[i].task_id = 0
      /\ \A j \in Slots : j # i => /\ tasks'[j].task_id = tasks[j].task_id
                                   /\ tasks'[j].thread_id = tasks[j].thread_id
  BY PlacesFields
<1>3. finished' = finished /\ submitted' = [submitted EXCEPT ![t] = @ \cup {d}]
  BY DEF Places
<1>4. KnownStays /\ ~Known(d) /\ Known(d)'
  BY <1>1, PlacesKnown
<1>5. \A j \in Slots : tasks'[j].task_id # 0 =>
        tasks'[j].task_id % N = j /\ \E e : e = tasks'[j].task_id /\ Known(e)'
  <2>1. ASSUME NEW j \in Slots, j # i, tasks[j].task_id # 0, NEW e, e = tasks[j].task_id
        PROVE  e % N = j /\ Known(e)'
    <3>1. e \in Nat /\ e % N = j /\ Known(e)
      BY <2>1 DEF IdsKnown, IsEmpty, PoolTypes
    <3> QED
      BY <1>4, <3>1 DEF KnownStays
  <2> QED
    BY <1>1, <1>2, <1>4, <2>1
<1>6. \A j \in Slots : ~IsEmpty(j)' => tasks'[j].task_id % N = j /\ Known(tasks[j].task_id)'
  BY <1>5 DEF IsEmpty, Known
<1>7. \A id \in finished' : Known(id)'
  BY <1>3, <1>4 DEF IdsKnown, KnownStays, PoolTypes, Numbers
<1>8. \A j \in Slots : tasks'[j].task_id \notin finished'
  BY <1>2, <1>3, <1>4 DEF IdsKnown
<1>9. ASSUME NEW u \in Threads, NEW id \in submitted'[u]
      PROVE  id \in finished' \/ \E j \in Slots : tasks'[j].task_id = id /\ tasks'[j].thread_id = u
  <2>1. CASE id \in submitted[u]
    <3>1. id # 0
      BY <2>1 DEF PoolTypes, Numbers
    <3> QED
      BY <1>2, <1>3, <2>1, <3>1 DEF NoneForgotten
  <2>2. CASE id \notin submitted[u]
    <3>1. u = t /\ id = d
      BY <1>3, <1>9, <2>2 DEF PoolTypes
    <3> QED
      BY <1>2, <3>1
  <2> QED
    BY <2>1, <2>2
<1> QED
  BY <1>6, <1>7, <1>8, <1>9 DEF IdsKnown, NoneForgotten

LEMMA EntryDone ==
  ASSUME PoolTypes, IdsKnown, NoneForgotten, NEW i \in Slots,
         tasks[i].task_id # 0, tasks'[i].task_id = 0,
         \A j \in Slots : j # i => tasks'[j] = tasks[j],
         finished' = finished \cup {tasks[i].task_id},
         UNCHANGED <<next_task_id, submitted>>
  PROVE  IdsKnown' /\ NoneForgotten'
<1>1. KnownStays
  BY SameNextIds
<1>2. \A j \in Slots : tasks[j].task_id # 0 =>
        tasks[j].task_id \in Nat /\ tasks[j].task_id % N = j /\ Known(tasks[j].task_id)
  BY DEF PoolTypes, IdsKnown, IsEmpty
<1>3. \A j \in Slots : tasks'[j].task_id # 0 =>
        tasks'[j].task_id % N = j /\ \E e : e = tasks'[j].task_id /\ Known(e)'
  <2>1. ASSUME NEW j \in Slots, j # i, NEW e, e = tasks[j].task_id, e # 0
        PROVE  e % N = j /\ Known(e)'
    BY <1>1, <1>2, <2>1 DEF KnownStays
  <2> QED
    BY <2>1
<1>4. \A j \in Slots : ~IsEmpty(j)' => tasks'[j].task_id % N = j /\ Known(tasks[j].task_id)'
  BY <1>3 DEF IsEmpty, Known
<1>5. ASSUME NEW id \in finished' PROVE Known(id)'
  <2>1. id \in Nat /\ Known(id)
    BY <1>2, <1>5 DEF IdsKnown, PoolTypes, Numbers
  <2> QED
    BY <1>1, <2>1 DEF KnownStays
<1>6. ASSUME NEW j \in Slots PROVE tasks'[j].task_id \notin finished'
  <2>1. 0 \notin finished'
    BY <1>2 DEF PoolTypes, Numbers
  <2>2. CASE j # i /\ tasks[j].task_id # 0
    BY <1>2, <2>2 DEF IdsKnown
  <2>3. CASE j = i \/ tasks[j].task_id = 0
    BY <2>1, <2>3
  <2> QED
    BY <2>2, <2>3
<1>7. ASSUME NEW u \in Threads, NEW id \in submitted'[u]
      PROVE  id \in finished' \/ \E j \in Slots : tasks'[j].task_id = id /\ tasks'[j].thread_id = u
  <2>1. CASE id = tasks[i].task_id
    BY <2>1
  <2>2. CASE id # tasks[i].task_id
    BY <1>7, <2>2 DEF NoneForgotten
  <2> QED
    BY <2>1, <2>2
<1> QED
  BY <1>4, <1>5, <1>6, <1>7 DEF IdsKnown, NoneForgotten

LEMMA TableKept ==
  ASSUME PoolTypes, StacksFit, TableFits, NEW t \in Threads, Kinds(t)
  PROVE  TableFits'
<1>1. ServedOnce /\ IdsKnown /\ SlotsTidy /\ NoneForgotten
  BY DEF TableFits
<1>2. ASSUME TableStays PROVE IdsKnown' /\ NoneForgotten' /\ SlotsTidy'
  <2>1. SameTasks /\ tasks' = tasks /\ UNCHANGED <<next_task_id, finished, submitted>>
    BY <1>2 DEF TableStays, SameTasks
  <2> QED
    BY <1>1, <2>1, EntriesStay DEF SlotsTidy, IsEmpty
<1>3. ASSUME SameTasks, SameMarks, \A j \in Slots : tasks'[j].eptr => tasks[j].eptr
      PROVE  SlotsTidy'
  BY <1>1, <1>3 DEF SlotsTidy, SameTasks, SameMarks, IsEmpty
<1>4. CASE CallEffect(t)
  <2>1. CASE Catches
    <3>1. UNCHANGED <<next_task_id, finished, submitted>>
      BY <2>1 DEF Catches
    <3> QED
      BY <1>1, <1>3, <2>1, <3>1, CatchesFields, EntriesStay, ServiceKept DEF TableFits
  <2>2. ASSUME NEW i \in Slots, Places(t, i) PROVE TableFits'
    <3>1. IdsKnown' /\ NoneForgotten'
      BY <1>1, <2>2, EntryAdded
    <3>2. /\ tasks'[i].task_id = NewId(i) /\ SameMarks /\ tasks[i].task_id = 0 /\ ~tasks[i].eptr
          /\ \A j \in Slots : tasks'[j].eptr <=> tasks[j].eptr
          /\ \A j \in Slots : j # i => tasks'[j].task_id = tasks[j].task_id
      BY <2>2, PlacesFields
    <3>3. SlotsTidy'
      BY <1>1, <3>2 DEF SlotsTidy, SameMarks, IsEmpty
    <3> QED
      BY <3>1, <3>3, ServiceKept DEF TableFits
  <2> QED
    BY <1>2, <1>4, <2>1, <2>2, ServiceKept DEF CallEffect, TableFits
<1>5. CASE CloseEffect(t) \/ IdleEffect(t)
  BY <1>2, <1>5, ServiceKept DEF CloseEffect, IdleEffect, TableFits
<1>6. CASE t \in Workers /\ WorkerTakes(t)
  <2>1. PICK i \in Slots :
           /\ IsReady(i) /\ SameTasks
           /\ \A j \in Slots : j # i =>
                (tasks'[j].is_being_processed <=> tasks[j].is_being_processed)
           /\ \A j \in Slots : tasks'[j].eptr <=> tasks[j].eptr
           /\ UNCHANGED <<next_task_id, finished, submitted>>
    BY <1>6, TakesEffect
  <2>2. IdsKnown' /\ NoneForgotten'
    BY <1>1, <2>1, EntriesStay
  <2>3. SlotsTidy'
    BY <1>1, <2>1 DEF SlotsTidy, SameTasks, IsEmpty, IsReady
  <2> QED
    BY <2>2, <2>3, ServiceKept DEF TableFits
<1>7. ASSUME t \in Workers, NEW ok \in BOOLEAN, Vacate(t, ok) PROVE IdsKnown' /\ NoneForgotten' /\ SlotsTidy'
  <2>1. PICK i \in Slots :
           /\ tasks[i].task_id # 0
           /\ tasks'[i].task_id = 0 /\ ~tasks'[i].is_being_processed
           /\ \A j \in Slots : j # i => tasks'[j] = tasks[j]
           /\ finished' = finished \cup {tasks[i].task_id}
           /\ UNCHANGED <<next_task_id, submitted>>
    BY <1>1, <1>7, VacateEffect
  <2>2. IdsKnown' /\ NoneForgotten'
    BY <1>1, <2>1, EntryDone
  <2>3. SlotsTidy'
    BY <1>1, <2>1 DEF SlotsTidy, IsEmpty
  <2> QED
    BY <2>2, <2>3
<1> QED
  BY <1>4, <1>5, <1>6, <1>7, ServiceKept DEF Kinds, TableFits

(***************************************************************************)
(* Counting: awake workers against ready tasks.                            *)
(***************************************************************************)
LEMMA AnsweredBySets == ReadyAnswered <=> Cardinality(Ready) <= Cardinality(Awake)
BY DEF ReadyAnswered, Ready, Awake

LEMMA CountsAreNumbers ==
  /\ IsFiniteSet(Ready) /\ Cardinality(Ready) \in Nat
  /\ IsFiniteSet(Awake) /\ Cardinality(Awake) \in Nat
<1>1. Ready \in SUBSET Slots /\ Awake \in SUBSET Workers
  BY DEF Ready, Awake
<1> QED
  BY <1>1, PoolNumbers, FS_Subset, FS_CardinalityType

LEMMA FewerOrMore ==
  ASSUME ReadyAnswered, NEW R \in SUBSET Ready, NEW A \in SUBSET Workers, Awake \subseteq A
  PROVE  Cardinality(R) <= Cardinality(A)
<1>1. Cardinality(R) <= Cardinality(Ready) /\ IsFiniteSet(R)
  BY CountsAreNumbers, FS_Subset
<1>2. IsFiniteSet(A) /\ Awake \in SUBSET A
  BY PoolNumbers, FS_Subset
<1>3. Cardinality(Awake) <= Cardinality(A)
  BY <1>2, FS_Subset
<1>4. Cardinality(R) \in Nat /\ Cardinality(A) \in Nat
  BY <1>1, <1>2, FS_CardinalityType
<1> QED
  BY <1>1, <1>3, <1>4, CountsAreNumbers, AnsweredBySets

(* While nobody sleeps, every worker without a slot looks for work.        *)
LEMMA FreeSlotsFreeWorkers ==
  ASSUME StacksFit, ClosesOrderly, TableFits, ~we_are_destructing, readySleep = {},
         NEW R \in SUBSET Slots, \A i \in R : ~tasks[i].is_being_processed
  PROVE  Cardinality(R) <= Cardinality(Awake)
<1> DEFINE Marked == {i \in Slots : tasks[i].is_being_processed}
           Busy == Workers \ Awake
           f == [w \in Busy |-> stack[w][1].slot]
<1>1. IsFiniteSet(Marked) /\ Cardinality(Marked) \in Nat
  <2>1. Marked \in SUBSET Slots
    OBVIOUS
  <2> QED
    BY <2>1, PoolNumbers, FS_Subset, FS_CardinalityType
<1>2. IsFiniteSet(Busy) /\ Cardinality(Busy) \in Nat
      /\ Cardinality(Busy) = N - Cardinality(Awake)
  <2>1. Workers \cap Awake = Awake
    BY DEF Awake
  <2>2. IsFiniteSet(Busy) /\ Cardinality(Busy) = Cardinality(Workers) - Cardinality(Workers \cap Awake)
    BY PoolNumbers, FS_Difference
  <2> QED
    BY <2>1, <2>2, PoolNumbers, FS_CardinalityType
<1>3. ASSUME NEW w \in Busy PROVE Serves(w, stack[w][1].slot) /\ stack[w][1].slot \in Marked
  <2>1. doing[w].op \notin {"starts", "looks"}
    BY DEF Awake
  <2>2. doing[w].op # "gone"
    BY DEF ClosesOrderly
  <2>3. w \in Workers /\ StackFits(w)
    BY PoolNumbers DEF StacksFit
  <2>4. stack[w] # <<>> /\ stack[w][1].slot \in Slots
    BY <2>1, <2>2, <2>3 DEF StackFits, Free
  <2>5. Serves(w, stack[w][1].slot)
    BY <2>4 DEF Serves
  <2> QED
    BY <2>3, <2>4, <2>5 DEF TableFits, ServedOnce
<1>4. f \in [Busy -> Marked]
  BY <1>3
<1>5. \A w, x \in Busy : f[w] = f[x] => w = x
  BY <1>3 DEF TableFits, ServedOnce
<1>6. Cardinality(Busy) <= Cardinality(Marked)
  <2> HIDE DEF Busy, Marked, f
  <2> QED
    BY <1>1, <1>2, <1>4, <1>5, FS_PigeonHole
<1>7. Cardinality(Slots \ Marked) = N - Cardinality(Marked) /\ IsFiniteSet(Slots \ Marked)
  <2>1. Slots \cap Marked = Marked
    OBVIOUS
  <2>2. /\ IsFiniteSet(Slots \ Marked)
        /\ Cardinality(Slots \ Marked) = Cardinality(Slots) - Cardinality(Slots \cap Marked)
    BY PoolNumbers, FS_Difference
  <2> QED
    BY <2>1, <2>2, PoolNumbers
<1>8. R \in SUBSET (Slots \ Marked)
  OBVIOUS
<1> HIDE DEF Busy, Marked, f
<1>9. Cardinality(R) <= Cardinality(Slots \ Marked) /\ IsFiniteSet(R)
  BY <1>7, <1>8, FS_Subset
<1>10. Cardinality(R) \in Nat
  BY <1>9, FS_CardinalityType
<1> QED
  BY <1>1, <1>2, <1>6, <1>7, <1>9, <1>10, CountsAreNumbers, PoolNumbers

LEMMA AnsweredKept ==
  ASSUME PoolTypes, StacksFit, ClosesOrderly, TableFits, ReadyAnswered, NEW t \in Threads, Kinds(t)
  PROVE  ReadyAnswered'
<1>1. Awake' \in SUBSET Workers /\ Ready' \in SUBSET Slots
  BY DEF Awake, Ready
<1>2. ASSUME Ready' \subseteq Ready, Awake \subseteq Awake' PROVE ReadyAnswered'
  <2>1. Cardinality(Ready') <= Cardinality(Awake')
    BY <1>1, <1>2, FewerOrMore
  <2> QED
    BY <2>1 DEF ReadyAnswered, Ready, Awake
<1>3. ASSUME Moves(t), NEW w \in Workers, w # t PROVE doing'[w] = doing[w]
  BY <1>3, PoolNumbers DEF Moves
<1>4. ASSUME SameTasks, SameMarks PROVE Ready' \subseteq Ready
  BY <1>4 DEF SameTasks, SameMarks, Ready, IsReady, IsEmpty
<1>5. ASSUME TableStays PROVE Ready' \subseteq Ready
  BY <1>5 DEF TableStays, Ready, IsReady, IsEmpty
<1>6. CASE CallEffect(t)
  <2>1. Moves(t) /\ doing[t].op \in CallOps /\ doing'[t].op \in CallOps /\ Calling(t)
    BY <1>6 DEF CallEffect
  <2>2. ASSUME readySleep' \subseteq readySleep PROVE Awake \subseteq Awake'
    BY <1>3, <2>1, <2>2 DEF Awake, CallOps
  <2>3. CASE readySleep' = readySleep /\ (TableStays \/ Catches)
    BY <1>2, <1>4, <1>5, <2>2, <2>3, CatchesFields
  <2>4. ASSUME NEW i \in Slots, Places(t, i), readySleep' \in Signalled(readySleep)
        PROVE  ReadyAnswered'
    <3>1. /\ SameMarks /\ \A j \in Slots : j # i => tasks'[j].task_id = tasks[j].task_id
          /\ tasks[i].task_id = 0
      BY <2>4, PlacesFields
    <3>2. Ready' \subseteq Ready \cup {i}
      BY <3>1 DEF Ready, IsReady, IsEmpty, SameMarks
    <3>3. ~tasks[i].is_being_processed
      BY <3>1 DEF TableFits, SlotsTidy, IsEmpty
    <3>4. CASE readySleep = {}
      <4>1. \A j \in Ready' : ~tasks[j].is_being_processed
        BY <3>2, <3>3 DEF Ready, IsReady
      <4>2. Cardinality(Ready') <= Cardinality(Awake)
        BY <1>1, <2>1, <3>4, <4>1, CallingIsBeforeTheEnd, FreeSlotsFreeWorkers
      <4>3. Awake \subseteq Awake'
        BY <2>2, <2>4, <3>4 DEF Signalled
      <4>4. Cardinality(Awake) <= Cardinality(Awake')
        <5>1. IsFiniteSet(Awake') /\ Awake \in SUBSET Awake'
          BY <1>1, <4>3, PoolNumbers, FS_Subset
        <5> QED
          BY <5>1, FS_Subset
      <4>5. Cardinality(Ready') \in Nat /\ Cardinality(Awake') \in Nat
        BY <1>1, PoolNumbers, FS_Subset, FS_CardinalityType
      <4>6. Cardinality(Ready') <= Cardinality(Awake')
        BY <4>2, <4>4, <4>5, CountsAreNumbers
      <4> QED
        BY <4>6 DEF ReadyAnswered, Ready, Awake
    <3>5. CASE readySleep # {}
      <4>1. PICK x \in readySleep : readySleep' = readySleep \ {x}
        BY <2>4, <3>5 DEF Signalled
      <4>2. x \in Workers /\ doing[x].op = "looks" /\ x # t /\ x \notin Awake
        BY <2>1, <4>1 DEF ClosesOrderly, Awake, CallOps
      <4>3. Awake \cup {x} \in SUBSET Awake'
        BY <1>3, <2>1, <2>2, <4>1, <4>2 DEF Awake
      <4>4. Cardinality(Awake \cup {x}) = Cardinality(Awake) + 1
        BY <4>2, CountsAreNumbers, FS_AddElement
      <4>5. IsFiniteSet(Awake') /\ Cardinality(Awake') \in Nat
        BY <1>1, PoolNumbers, FS_Subset, FS_CardinalityType
      <4>6. Cardinality(Awake) + 1 <= Cardinality(Awake')
        BY <4>3, <4>4, <4>5, FS_Subset
      <4>7. /\ IsFiniteSet(Ready \cup {i})
            /\ Cardinality(Ready \cup {i}) <= Cardinality(Ready) + 1
            /\ Cardinality(Ready \cup {i}) \in Nat
        <5>1. /\ IsFiniteSet(Ready \cup {i})
              /\ Cardinality(Ready \cup {i})
                   = IF i \in Ready THEN Cardinality(Ready) ELSE Cardinality(Ready) + 1
          BY CountsAreNumbers, FS_AddElement
        <5>2. Cardinality(Ready \cup {i}) \in Nat
          BY <5>1, FS_CardinalityType
        <5> QED
          BY <5>1, <5>2, CountsAreNumbers
      <4>8. Cardinality(Ready') <= Cardinality(Ready \cup {i}) /\ Cardinality(Ready') \in Nat
        BY <1>1, <3>2, <4>7, PoolNumbers, FS_Subset, FS_CardinalityType
      <4>9. Cardinality(Ready') <= Cardinality(Awake')
        BY <4>5, <4>6, <4>7, <4>8, CountsAreNumbers, AnsweredBySets
      <4> QED
        BY <4>9 DEF ReadyAnswered, Ready, Awake
    <3> QED
      BY <3>4, <3>5
  <2> QED
    BY <1>6, <2>3, <2>4 DEF CallEffect
<1>7. CASE CloseEffect(t)
  <2>1. Moves(t) /\ t \in Callers /\ readySleep' \subseteq readySleep /\ TableStays
    BY <1>7 DEF CloseEffect
  <2>2. Awake \subseteq Awake'
    BY <1>3, <2>1, PoolNumbers DEF Awake
  <2> QED
    BY <1>2, <1>5, <2>1, <2>2
<1>8. CASE IdleEffect(t)
  <2>1. CASE Awake \subseteq Awake'
    BY <1>2, <1>5, <1>8, <2>1 DEF IdleEffect
  <2>2. CASE Ready = {}
    <3>1. Ready' = {}
      BY <1>5, <1>8, <2>2 DEF IdleEffect
    <3>2. Cardinality(Ready') = 0 /\ Cardinality(Awake') \in Nat
      BY <1>1, <3>1, FS_EmptySet, PoolNumbers, FS_Subset, FS_CardinalityType
    <3>3. Cardinality(Ready') <= Cardinality(Awake')
      BY <3>2
    <3> QED
      BY <3>3 DEF ReadyAnswered, Ready, Awake
  <2> QED
    BY <1>8, <2>1, <2>2 DEF IdleEffect
<1>9. CASE t \in Workers /\ WorkerTakes(t)
  <2>1. PICK i \in Slots :
           /\ IsReady(i) /\ SameTasks /\ tasks'[i].is_being_processed
           /\ \A j \in Slots : j # i =>
                (tasks'[j].is_being_processed <=> tasks[j].is_being_processed)
           /\ Moves(t) /\ doing'[t] = Runs /\ doing[t].op = "looks" /\ t \notin readySleep
           /\ readySleep' = readySleep
    BY <1>9, TakesEffect
  <2>2. i \in Ready /\ Ready' \subseteq Ready \ {i}
    BY <2>1 DEF Ready, IsReady, IsEmpty, SameTasks
  <2>3. t \in Awake /\ Awake \ {t} \subseteq Awake'
    BY <1>3, <1>9, <2>1 DEF Awake
  <2>4. /\ IsFiniteSet(Ready \ {i}) /\ Cardinality(Ready \ {i}) = Cardinality(Ready) - 1
        /\ IsFiniteSet(Awake \ {t}) /\ Cardinality(Awake \ {t}) = Cardinality(Awake) - 1
    BY <2>2, <2>3, CountsAreNumbers, FS_RemoveElement
  <2>5. Cardinality(Ready') <= Cardinality(Ready \ {i})
    BY <2>2, <2>4, FS_Subset
  <2>6. IsFiniteSet(Awake') /\ Cardinality(Awake') \in Nat /\ Cardinality(Ready') \in Nat
    BY <1>1, PoolNumbers, FS_Subset, FS_CardinalityType
  <2>7. Cardinality(Awake \ {t}) <= Cardinality(Awake')
    BY <2>3, <2>6, FS_Subset
  <2>8. Cardinality(Ready') <= Cardinality(Awake')
    BY <2>4, <2>5, <2>6, <2>7, CountsAreNumbers, AnsweredBySets
  <2> QED
    BY <2>8 DEF ReadyAnswered, Ready, Awake
<1>10. ASSUME t \in Workers, NEW ok \in BOOLEAN, Vacate(t, ok) PROVE ReadyAnswered'
  <2>1. PICK i \in Slots :
           /\ tasks'[i].task_id = 0
           /\ \A j \in Slots : j # i => tasks'[j] = tasks[j]
           /\ Moves(t) /\ doing[t] = Runs /\ readySleep' = readySleep
    BY <1>10, VacateEffect DEF TableFits
  <2>2. Ready' \subseteq Ready
    BY <2>1 DEF Ready, IsReady, IsEmpty
  <2>3. t \notin Awake
    BY <2>1, CallsTyped DEF Awake
  <2>4. Awake \subseteq Awake'
    BY <1>3, <2>1, <2>3 DEF Awake
  <2> QED
    BY <1>2, <2>2, <2>4
<1> QED
  BY <1>6, <1>7, <1>8, <1>9, <1>10 DEF Kinds

(***************************************************************************)
(* Exceptions: thrown ones are kept in their slots or have been caught.    *)
(***************************************************************************)
Kept == {i \in Slots : tasks[i].eptr}

LEMMA ExceptionsAreKept ==
  ASSUME PoolTypes, StacksFit, TableFits, ExceptionsKept, NEW t \in Threads, Kinds(t)
  PROVE  ExceptionsKept'
<1>1. IsFiniteSet(Kept) /\ Cardinality(Kept) \in Nat /\ Kept' \in SUBSET Slots
  <2>1. Kept \in SUBSET Slots /\ Kept' \in SUBSET Slots
    BY DEF Kept
  <2> QED
    BY <2>1, PoolNumbers, FS_Subset, FS_CardinalityType
<1>2. thrown = caught + Cardinality(Kept) /\ thrown \in Nat /\ caught \in Nat
  BY DEF ExceptionsKept, Kept, PoolTypes
<1>3. ASSUME thrown' = caught' + Cardinality(Kept') PROVE ExceptionsKept'
  BY <1>3 DEF ExceptionsKept, Kept
<1>4. ASSUME thrown' = thrown, caught' = caught,
             \A j \in Slots : tasks'[j].eptr <=> tasks[j].eptr
      PROVE  ExceptionsKept'
  <2>1. Kept' = Kept
    BY <1>4 DEF Kept
  <2> QED
    BY <1>2, <1>3, <1>4, <2>1
<1>5. ASSUME TableStays PROVE ExceptionsKept'
  BY <1>4, <1>5 DEF TableStays
<1>6. CASE CallEffect(t)
  <2>1. CASE Catches
    <3>1. PICK i \in Slots : tasks[i].eptr /\ tasks' = [tasks EXCEPT ![i].eptr = FALSE]
      BY <2>1 DEF Catches
    <3>2. caught' = caught + 1 /\ thrown' = thrown
      BY <2>1 DEF Catches
    <3>3. i \in Kept /\ Kept' = Kept \ {i}
      BY <3>1 DEF Kept, PoolTypes
    <3>4. Cardinality(Kept') = Cardinality(Kept) - 1
      BY <1>1, <3>3, FS_RemoveElement
    <3> QED
      BY <1>1, <1>2, <1>3, <3>2, <3>4
  <2>2. ASSUME NEW i \in Slots, Places(t, i) PROVE ExceptionsKept'
    BY <1>4, <2>2, PlacesFields DEF Places
  <2> QED
    BY <1>5, <1>6, <2>1, <2>2 DEF CallEffect
<1>7. CASE CloseEffect(t) \/ IdleEffect(t)
  BY <1>5, <1>7 DEF CloseEffect, IdleEffect
<1>8. CASE t \in Workers /\ WorkerTakes(t)
  BY <1>4, <1>8, TakesEffect
<1>9. ASSUME t \in Workers, NEW ok \in BOOLEAN, Vacate(t, ok) PROVE ExceptionsKept'
  <2>1. PICK i \in Slots :
           /\ ~tasks[i].eptr /\ (tasks'[i].eptr <=> ~ok)
           /\ \A j \in Slots : j # i => tasks'[j] = tasks[j]
           /\ thrown' = (IF ok THEN thrown ELSE thrown + 1) /\ caught' = caught
    BY <1>9, VacateEffect DEF TableFits
  <2>2. CASE ok
    BY <1>4, <2>1, <2>2
  <2>3. CASE ~ok
    <3>1. i \notin Kept /\ Kept' = Kept \cup {i}
      BY <2>1, <2>3 DEF Kept
    <3>2. Cardinality(Kept') = Cardinality(Kept) + 1
      BY <1>1, <3>1, FS_AddElement
    <3> QED
      BY <1>1, <1>2, <1>3, <2>1, <2>3, <3>2
  <2> QED
    BY <2>2, <2>3
<1> QED
  BY <1>6, <1>7, <1>8, <1>9 DEF Kinds

(***************************************************************************)
(* The pool as a whole.                                                    *)
(***************************************************************************)
LEMMA PoolBegins == TPInit => PoolIInv
<1> SUFFICES ASSUME TPInit PROVE PoolIInv
  OBVIOUS
<1>1. /\ tasks = [i \in Slots |-> [task_id |-> 0, is_being_processed |-> FALSE,
                                   thread_id |-> NoOne, eptr |-> FALSE]]
      /\ next_task_id = [i \in Slots |-> 2]
      /\ worker_thread_ids = {} /\ we_are_destructing = FALSE
      /\ readySleep = {} /\ doneSleep = {}
      /\ finished = {} /\ submitted = [t \in Threads |-> {}]
      /\ adds = 0 /\ thrown = 0 /\ caught = 0
  BY DEF TPInit
<1>2. /\ doing = [t \in Threads |-> IF t \in Callers THEN Runs ELSE Op("starts", 0)]
      /\ stack = [t \in Threads |-> IF t \in Callers THEN <<Frame(Inline)>> ELSE <<>>]
  BY DEF TPInit
<1>3. Frame(Inline) \in Frames /\ Frame(Inline).slot = Inline /\ Frame(Inline).kids = {}
  BY DEF Frame, Frames
<1>4. /\ Op("starts", 0) \in [op : Ops, id : Nat] /\ Op("starts", 0).op = "starts"
      /\ Runs \in [op : Ops, id : Nat] /\ Runs.op = "runs"
  BY CallsTyped DEF Ops
<1>5. \A i \in Slots : /\ tasks[i].task_id = 0 /\ ~tasks[i].is_being_processed
                       /\ ~tasks[i].eptr
  BY <1>1
<1>6. PoolTypes
  <2>1. doing \in [Threads -> [op : Ops, id : Nat]]
    BY <1>2, <1>4
  <2>2. stack \in [Threads -> Seq(Frames)]
    <3>1. <<Frame(Inline)>> \in Seq(Frames) /\ <<>> \in Seq(Frames)
      BY <1>3
    <3> QED
      BY <1>2, <3>1
  <2>3. tasks \in [Slots -> [task_id : Nat, is_being_processed : BOOLEAN,
                             thread_id : Threads \cup {NoOne}, eptr : BOOLEAN]]
    BY <1>1
  <2>4. next_task_id \in [Slots -> Nat \ {0, 1}] /\ submitted \in [Threads -> SUBSET Numbers]
    <3>1. 2 \in Nat \ {0, 1} /\ {} \in SUBSET Numbers
      OBVIOUS
    <3> QED
      BY <1>1, <3>1
  <2>5. worker_thread_ids \subseteq Workers /\ doneSleep \subseteq Threads /\ finished \subseteq Numbers
    BY <1>1
  <2>6. we_are_destructing \in BOOLEAN
    BY <1>1
  <2>7. adds \in 0 .. MaxAdds /\ thrown \in 0 .. MaxThrows /\ caught \in Nat
    BY <1>1, PoolNumbers
  <2> QED
    BY <2>1, <2>2, <2>3, <2>4, <2>5, <2>6, <2>7 DEF PoolTypes
<1>7. ASSUME NEW t \in Callers PROVE StackFits(t)
  <2>1. t \notin Workers /\ doing[t].op = "runs" /\ stack[t] = <<Frame(Inline)>>
    BY <1>2, <1>4, PoolNumbers
  <2>2. Len(stack[t]) = 1 /\ stack[t] # <<>> /\ stack[t][1] = Frame(Inline)
    BY <2>1
  <2>3. /\ \A k \in 2 .. Len(stack[t]) : stack[t][k].slot = Inline
        /\ \A k \in 1 .. Len(stack[t]) : stack[t][k].kids \subseteq submitted[t]
    BY <1>3, <2>2
  <2> QED
    BY <1>3, <2>1, <2>2, <2>3 DEF StackFits, Free
<1>8. ASSUME NEW t \in Workers PROVE StackFits(t)
  <2>1. t \notin Callers /\ doing[t].op = "starts" /\ stack[t] = <<>>
    BY <1>2, <1>4, PoolNumbers
  <2> QED
    BY <2>1 DEF StackFits, Free
<1>9. StacksFit
  BY <1>7, <1>8, PoolNumbers DEF StacksFit
<1>10. ClosesOrderly
  <2>1. \A c \in Callers : doing[c].op = "runs"
    BY <1>2, <1>4, PoolNumbers
  <2>2. \A w \in Workers : doing[w].op = "starts"
    BY <1>2, <1>4, PoolNumbers
  <2> QED
    BY <1>1, <2>1, <2>2 DEF ClosesOrderly, Closing
<1>11. TableFits
  <2>1. \A w \in Workers, i \in Slots : ~Serves(w, i)
    BY <1>2, PoolNumbers DEF Serves
  <2> QED
    BY <1>1, <1>5, <2>1 DEF TableFits, ServedOnce, IdsKnown, SlotsTidy, NoneForgotten, IsEmpty
<1>12. ReadyAnswered
  <2>1. Ready = {}
    BY <1>5 DEF Ready, IsReady, IsEmpty
  <2>2. Cardinality(Ready) = 0
    BY <2>1, FS_EmptySet
  <2> QED
    BY <2>2, CountsAreNumbers, AnsweredBySets
<1>13. ExceptionsKept
  <2>1. Kept = {}
    BY <1>5 DEF Kept
  <2>2. Cardinality(Kept) = 0
    BY <2>1, FS_EmptySet
  <2> QED
    BY <1>1, <2>2 DEF ExceptionsKept, Kept
<1> QED
  BY <1>6, <1>9, <1>10, <1>11, <1>12, <1>13 DEF PoolIInv

LEMMA PoolStepsOn == PoolIInv /\ [TPNext]_tpVars => PoolIInv'
<1> SUFFICES ASSUME PoolIInv, [TPNext]_tpVars PROVE PoolIInv'
  OBVIOUS
<1>1. PoolTypes /\ StacksFit /\ ClosesOrderly /\ TableFits /\ ReadyAnswered /\ ExceptionsKept
  BY DEF PoolIInv
<1>2. CASE TPNext
  <2>1. PICK t \in Threads : Kinds(t)
    BY <1>1, <1>2, StepIsOfAKind
  <2> QED
    BY <1>1, <2>1, TypesKept, FramesKept, ClosesKept, TableKept, AnsweredKept, ExceptionsAreKept
    DEF PoolIInv
<1>3. CASE UNCHANGED tpVars
  <2>1. /\ UNCHANGED <<tasks, next_task_id, worker_thread_ids, we_are_destructing>>
        /\ UNCHANGED <<readySleep, doneSleep, doing, stack>>
        /\ UNCHANGED <<finished, submitted, adds, thrown, caught>>
    BY <1>3 DEF tpVars, table, sleepers, history
  <2>2. PoolTypes' /\ StacksFit' /\ ClosesOrderly'
    BY <1>1, <2>1
    DEF PoolTypes, StacksFit, StackFits, ClosesOrderly, Closing, IsEmpty
  <2>3. TableFits'
    BY <1>1, <2>1
    DEF TableFits, ServedOnce, Serves, IdsKnown, Known, SlotsTidy, NoneForgotten, IsEmpty
  <2>4. ReadyAnswered' /\ ExceptionsKept'
    BY <1>1, <2>1 DEF ReadyAnswered, ExceptionsKept, IsReady, IsEmpty
  <2> QED
    BY <2>2, <2>3, <2>4 DEF PoolIInv
<1> QED
  BY <1>2, <1>3

(* The inductive invariant of the pool.                                    *)
THEOREM PoolInvariant == TPSpec => []PoolIInv
BY PoolBegins, PoolStepsOn, PTL DEF TPSpec

LEMMA PoolIInvSuffices == PoolIInv => PoolSafe
<1> SUFFICES ASSUME PoolIInv PROVE PoolSafe
  OBVIOUS
<1>1. PoolTypes /\ StacksFit /\ ClosesOrderly /\ TableFits /\ ReadyAnswered /\ ExceptionsKept
  BY DEF PoolIInv
<1>2. TPTypeOK
  <2>1. caught \in 0 .. MaxThrows
    <3>1. thrown = caught + Cardinality(Kept)
      BY <1>1 DEF ExceptionsKept, Kept
    <3>2. Cardinality(Kept) \in Nat
      <4>1. Kept \in SUBSET Slots
        BY DEF Kept
      <4> QED
        BY <4>1, PoolNumbers, FS_Subset, FS_CardinalityType
    <3> QED
      BY <1>1, <3>1, <3>2, PoolNumbers DEF PoolTypes
  <2>2. readySleep \subseteq Workers
    BY <1>1 DEF ClosesOrderly
  <2>3. ASSUME NEW t \in Threads
        PROVE  /\ doing[t].op \in {"runs", "starts", "looks", "gone", "adds", "waitsFor",
                                   "waitsAll", "shuts", "joins", "closed", "aborted"}
               /\ \A k \in 1 .. Len(stack[t]) :
                    stack[t][k].slot \in Slots \cup {Inline} /\ stack[t][k].kids \subseteq Nat \ {0}
    <3>1. doing[t].op \in Ops /\ stack[t] \in Seq(Frames)
      BY <1>1 DEF PoolTypes
    <3>2. \A k \in 1 .. Len(stack[t]) : stack[t][k] \in Frames
      BY <3>1
    <3> QED
      BY <3>1, <3>2 DEF Ops, Frames, Numbers
  <2>4. /\ tasks \in [Slots -> [task_id : Nat, is_being_processed : BOOLEAN,
                                thread_id : Threads \cup {NoOne}, eptr : BOOLEAN]]
        /\ next_task_id \in [Slots -> Nat \ {0, 1}]
        /\ worker_thread_ids \subseteq Workers /\ we_are_destructing \in BOOLEAN
        /\ doneSleep \subseteq Threads
        /\ adds \in 0 .. MaxAdds /\ thrown \in 0 .. MaxThrows
    BY <1>1 DEF PoolTypes
  <2> QED
    BY <2>1, <2>2, <2>3, <2>4 DEF TPTypeOK
<1>3. ASSUME NEW i \in Slots
      PROVE  Cardinality({w \in Workers : stack[w] # <<>> /\ stack[w][1].slot = i})
               = IF tasks[i].is_being_processed THEN 1 ELSE 0
  <2> DEFINE S == {w \in Workers : stack[w] # <<>> /\ stack[w][1].slot = i}
  <2>1. S = {w \in Workers : Serves(w, i)}
    BY DEF Serves
  <2>2. ServedOnce
    BY <1>1 DEF TableFits
  <2>3. CASE tasks[i].is_being_processed
    <3>1. PICK w \in Workers : Serves(w, i)
      BY <2>2, <2>3 DEF ServedOnce
    <3>2. S = {w}
      BY <2>1, <2>2, <3>1 DEF ServedOnce
    <3> QED
      BY <2>3, <3>2, FS_Singleton
  <2>4. CASE ~tasks[i].is_being_processed
    <3>1. S = {}
      BY <2>1, <2>2, <2>4 DEF ServedOnce
    <3> QED
      BY <2>4, <3>1, FS_EmptySet
  <2> QED
    BY <2>3, <2>4
<1>4. TakenOnce
  BY <1>3 DEF TakenOnce
<1>5. IdsNotReused
  BY <1>1 DEF TableFits, IdsKnown, IdsNotReused
<1>6. ClosedEmpty
  <2>1. ASSUME we_are_destructing, NEW t \in Threads, NEW id \in submitted[t]
        PROVE  id \in finished
    <3>1. id # 0
      BY <1>1 DEF PoolTypes, Numbers
    <3>2. \A i \in Slots : tasks[i].task_id = 0
      BY <1>1, <2>1 DEF ClosesOrderly, IsEmpty
    <3> QED
      BY <1>1, <3>1, <3>2 DEF TableFits, NoneForgotten
  <2> QED
    BY <2>1 DEF ClosedEmpty
<1> QED
  BY <1>1, <1>2, <1>4, <1>5, <1>6 DEF PoolSafe

(* Each task runs once, under an id of its own, none is left behind, and   *)
(* what it throws is kept: thread_pool_extension.cpp, add_task_internal(), *)
(* thread() and shutdown_pool().                                           *)
THEOREM PoolIsSafe == TPSpec => []PoolSafe
BY PoolInvariant, PoolIInvSuffices, PTL

(***************************************************************************)
(* Waiting for tasks.                                                      *)
(***************************************************************************)
(* Only a waiting thread's own step ends its wait.                         *)
LEMMA WaitersReturn ==
  ASSUME PoolTypes, TPNext, NEW t \in Threads,
         doing[t].op \in {"waitsFor", "waitsAll"}, doing'[t] = Runs
  PROVE  \/ doing[t].op = "waitsFor" /\ ForTask(t, doing[t].id)
         \/ doing[t].op = "waitsAll" /\ ForAll(t)
<1>1. doing[t] # Runs /\ doing'[t] # doing[t]
  BY CallsTyped
<1>2. ASSUME NEW u, NEW c, doing' = [doing EXCEPT ![u] = c] PROVE u = t
  BY <1>1, <1>2 DEF PoolTypes
<1>3. ASSUME NEW u, AddTask(u) \/ AddResumes(u) PROVE FALSE
  <2>1. \E c : doing' = [doing EXCEPT ![u] = c]
    BY <1>3 DEF AddTask, AddResumes, AddThrows, AddRunsInline, AddWaits, AddPlaces, Propagates
  <2>2. doing[u] = Runs \/ doing[u].op = "adds"
    BY <1>3 DEF AddTask, AddResumes, CanCall
  <2> QED
    BY <1>1, <1>2, <2>1, <2>2
<1>4. ASSUME NEW u, NEW kids, WaitOver(u, kids) PROVE u = t
  BY <1>2, <1>4 DEF WaitOver, Propagates
<1>5. ASSUME NEW u, NEW op, NEW id, WaitOn(u, op, id) PROVE u = t
  BY <1>2, <1>5 DEF WaitOn
<1>6. ASSUME NEW u, WaitForTask(u) \/ WaitForAllTasks(u) PROVE FALSE
  <2>1. u = t
    BY <1>4, <1>5, <1>6 DEF WaitForTask, WaitForAllTasks, ForTask, ForAll
  <2> QED
    BY <1>1, <1>6, <2>1 DEF WaitForTask, WaitForAllTasks, CanCall
<1>7. ASSUME NEW u, WaitForResumes(u) \/ WaitAllResumes(u)
      PROVE  \/ doing[t].op = "waitsFor" /\ ForTask(t, doing[t].id)
             \/ doing[t].op = "waitsAll" /\ ForAll(t)
  <2>1. u = t
    BY <1>4, <1>5, <1>7 DEF WaitForResumes, WaitAllResumes, ForTask, ForAll
  <2> QED
    BY <1>7, <2>1 DEF WaitForResumes, WaitAllResumes
<1>8. ASSUME NEW u, WorkerSteps(u) PROVE FALSE
  <2>1. CASE WorkerSleeps(u)
    BY <1>1, <2>1 DEF WorkerSleeps
  <2>2. CASE WorkerStarts(u) \/ WorkerTakes(u) \/ WorkerQuits(u)
    <3>1. /\ \E c : doing' = [doing EXCEPT ![u] = c]
          /\ doing[u].op \in {"starts", "looks"}
      BY <2>2 DEF WorkerStarts, WorkerTakes, WorkerQuits, Looks
    <3> QED
      BY <1>2, <3>1
  <2> QED
    BY <1>8, <2>1, <2>2 DEF WorkerSteps
<1>9. ASSUME NEW u, NEW ok, Vacate(u, ok) PROVE FALSE
  <2>1. doing' = [doing EXCEPT ![u] = Op("looks", 0)] /\ doing[u] = Runs
    BY <1>9 DEF Vacate
  <2> QED
    BY <1>1, <1>2, <2>1
<1>10. ASSUME NEW u, ReturnInline(u) \/ WakesUnasked(u) \/ Joins(u) PROVE FALSE
  <2>1. CASE ReturnInline(u) \/ WakesUnasked(u)
    BY <1>1, <2>1 DEF ReturnInline, WakesUnasked
  <2>2. CASE Joins(u)
    BY <1>2, <2>2 DEF Joins
  <2> QED
    BY <1>10, <2>1, <2>2
<1>11. ASSUME NEW u \in Callers, Shutdown(u) \/ ShutdownResumes(u) PROVE FALSE
  <2>1. \E c : doing' = [doing EXCEPT ![u] = c]
    BY <1>11 DEF Shutdown, ShutdownResumes, Shutting, WaitOn
  <2>2. doing[u] = Runs \/ doing[u].op = "shuts"
    BY <1>11 DEF Shutdown, ShutdownResumes
  <2> QED
    BY <1>1, <1>2, <2>1, <2>2
<1>12. ASSUME NEW u, TaskEnds(u) \/ TaskThrows(u) PROVE FALSE
  <2>1. CASE TaskEnds(u)
    BY <1>9, <1>10, <2>1, Zenon DEF TaskEnds
  <2>2. CASE TaskThrows(u)
    BY <1>9, <2>2, Zenon DEF TaskThrows
  <2> QED
    BY <1>12, <2>1, <2>2
<1> QED
  BY <1>3, <1>6, <1>7, <1>8, <1>10, <1>11, <1>12 DEF TPNext, Calls, Resumes, Closes

LEMMA WaitsEndTruly ==
  ASSUME PoolIInv, TPNext, NEW t \in Threads
  PROVE  /\ doing[t].op = "waitsFor" /\ doing'[t] = Runs => doing[t].id \in finished
         /\ doing[t].op = "waitsAll" /\ doing'[t] = Runs => submitted[t] \subseteq finished
<1>1. PoolTypes /\ StacksFit /\ IdsKnown /\ NoneForgotten
  BY DEF PoolIInv, TableFits
<1>2. \A op \in {"waitsFor", "waitsAll"} : \A id : Op(op, id) # Runs
  BY DEF Op, Runs
<1>3. ASSUME NEW op \in {"waitsFor", "waitsAll"}, NEW id, WaitOn(t, op, id), doing'[t] = Runs
      PROVE  FALSE
  BY <1>1, <1>2, <1>3 DEF WaitOn, PoolTypes
<1>4. ASSUME NEW id \in submitted[t], id \notin finished
      PROVE  \E j \in Slots : tasks[j].task_id = id /\ tasks[j].thread_id = t /\ id % N = j
                              /\ ~IsEmpty(j)
  <2>1. id # 0
    BY <1>1, <1>4 DEF PoolTypes, Numbers
  <2>2. PICK j \in Slots : tasks[j].task_id = id /\ tasks[j].thread_id = t
    BY <1>1, <1>4 DEF NoneForgotten
  <2> QED
    BY <1>1, <2>1, <2>2 DEF IdsKnown, IsEmpty
<1>5. ASSUME doing[t].op = "waitsFor", doing'[t] = Runs PROVE doing[t].id \in finished
  <2>1. ForTask(t, doing[t].id)
    BY <1>1, <1>5, WaitersReturn
  <2>2. tasks[doing[t].id % N].task_id # doing[t].id
    BY <1>3, <1>5, <2>1 DEF ForTask
  <2>3. doing[t].id \in submitted[t]
    BY <1>1, <1>5 DEF StacksFit, StackFits
  <2> QED
    BY <1>4, <2>2, <2>3
<1>6. ASSUME doing[t].op = "waitsAll", doing'[t] = Runs PROVE submitted[t] \subseteq finished
  <2>1. ForAll(t)
    BY <1>1, <1>6, WaitersReturn
  <2>2. ~\E i \in Slots : ~IsEmpty(i) /\ tasks[i].thread_id = t
    BY <1>3, <1>6, <2>1 DEF ForAll
  <2> QED
    BY <1>4, <2>2
<1> QED
  BY <1>5, <1>6

(* A wait that returns, by an exception too, means what it says:           *)
(* wait_for_task() and wait_for_all_tasks() of thread_pool_extension.cpp.  *)
THEOREM PoolWaitsMean == TPSpec => WaitsMean
<1>1. PoolIInv /\ [TPNext]_tpVars =>
        [\A t \in Threads :
           /\ doing[t].op = "waitsFor" /\ doing'[t] = Runs => doing[t].id \in finished
           /\ doing[t].op = "waitsAll" /\ doing'[t] = Runs => submitted[t] \subseteq finished
        ]_tpVars
  BY WaitsEndTruly
<1> QED
  BY <1>1, PoolInvariant, PTL DEF TPSpec, WaitsMean
=============================================================================
