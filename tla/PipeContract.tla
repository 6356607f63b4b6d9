---------------------------- MODULE PipeContract ----------------------------
(***************************************************************************)
(* What dlib::pipe promises of the items that go through it, whatever the  *)
(* threads do: a first in first out queue of at most MaxSize items, or,    *)
(* when MaxSize is 0, a hand-over from one enqueue() to one dequeue().     *)
(* (src/lib/dlib/pipe/pipe_kernel_abstract.h)                              *)
(***************************************************************************)
EXTENDS Naturals, Sequences

CONSTANTS
  MaxSize,   \* maximum_size, the argument of the constructor
  Items      \* the items ever enqueued

VARIABLES
  queue,     \* what is in the pipe, or, when MaxSize is 0, on offer in it
  taken,     \* the items that calls to dequeue() returned, in order
  outcome    \* what became of each item as its enqueue() was told

contractVars == <<queue, taken, outcome>>

ContractInit ==
  /\ queue = <<>>
  /\ taken = <<>>
  /\ outcome = [i \in Items |-> "unused"]

\* A call begins; its item is not in the pipe yet.
Begin(i) ==
  /\ outcome[i] = "unused"
  /\ outcome' = [outcome EXCEPT ![i] = "pending"]
  /\ UNCHANGED <<queue, taken>>

\* The item goes in. A pipe with room has thereby accepted it for good.
Put(i) ==
  /\ outcome[i] \in {"unused", "pending"}
  /\ \A k \in DOMAIN queue : queue[k] # i
  /\ queue' = Append(queue, i)
  /\ \/ MaxSize > 0 /\ Len(queue) < MaxSize
        /\ outcome' = [outcome EXCEPT ![i] = "accepted"]
     \/ MaxSize = 0 /\ queue = <<>>
        /\ outcome' = [outcome EXCEPT ![i] = "pending"]
  /\ UNCHANGED taken

\* The oldest item goes out, to one dequeue().
Take ==
  /\ queue # <<>>
  /\ taken' = Append(taken, Head(queue))
  /\ queue' = Tail(queue)
  /\ UNCHANGED outcome

\* A hand-over is reported once the item is in other hands.
Report(i) ==
  /\ outcome[i] = "pending"
  /\ \E k \in DOMAIN taken : taken[k] = i
  /\ outcome' = [outcome EXCEPT ![i] = "accepted"]
  /\ UNCHANGED <<queue, taken>>

\* An item that was not taken goes back to its enqueue(), unchanged; if it is
\* on offer it is no longer.
Refuse(i) ==
  /\ outcome[i] \in {"unused", "pending"}
  /\ \A k \in DOMAIN taken : taken[k] # i
  /\ outcome' = [outcome EXCEPT ![i] = "returned"]
  /\ \/ queue = <<i>> /\ queue' = <<>>
     \/ (\A k \in DOMAIN queue : queue[k] # i) /\ UNCHANGED queue
  /\ UNCHANGED taken

\* empty() drops what the pipe holds.
Clear ==
  /\ MaxSize > 0
  /\ queue' = <<>>
  /\ UNCHANGED <<taken, outcome>>

ContractNext ==
  \/ \E i \in Items : Begin(i) \/ Put(i) \/ Report(i) \/ Refuse(i)
  \/ Take
  \/ Clear

ContractSpec == ContractInit /\ [][ContractNext]_contractVars
=============================================================================
