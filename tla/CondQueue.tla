------------------------------- MODULE CondQueue -------------------------------
(***************************************************************************)
(* The unbounded queue of device/src/pipeline_l1.cpp (ThreadSafeQueue): a  *)
(* std::queue, a mutex, a condition variable, a shutdown flag.  The mutex  *)
(* is explicit because shutdown() is also called from a signal handler,    *)
(* on top of a thread that may own it.  One consumer waits on the          *)
(* condition variable.                                                     *)
(***************************************************************************)
EXTENDS Naturals, Sequences

VARIABLE q           \* the members of one ThreadSafeQueue object

Free == "free"

QueueType(Item, Threads) ==
  [items : Seq(Item), shutdown : BOOLEAN,
   owner : Threads \cup {Free},     \* who owns mtx_
   asleep : BOOLEAN]                \* the consumer waits on cv_

NewQueue == [items |-> <<>>, shutdown |-> FALSE, owner |-> Free, asleep |-> FALSE]

-----------------------------------------------------------------------------
(* Mutated forms of the operators below, see PROJECT.json.                  *)

\* No notification, a stack instead of a queue, pop() false as soon as shutdown_
\* is set, a wait whose predicate forgets shutdown_, a shutdown() that forgets to set it.
NotifyLost == UNCHANGED q
FlagForgotten == q' = [q EXCEPT !.owner = Free]
PushFront(item) == q' = [q EXCEPT !.items = <<item>> \o @, !.owner = Free]
FalseOnShutdown == q.shutdown /\ q' = [q EXCEPT !.owner = Free]
SleepsForGood ==
  /\ q.items = <<>>
  /\ q' = [q EXCEPT !.owner = Free, !.asleep = TRUE]

-----------------------------------------------------------------------------
Lock(t) ==
  /\ q.owner = Free
  /\ q' = [q EXCEPT !.owner = t]

\* size(), with nothing done to the queue.
Unlock == q' = [q EXCEPT !.owner = Free]

\* push(): the critical section; notify_one() comes after it.
AppendUnlock(item) == q' = [q EXCEPT !.items = Append(@, item), !.owner = Free]

\* pop(): the predicate of cv_.wait() under the mutex, and what follows it.
WaitSleeps ==
  /\ q.items = <<>> /\ ~q.shutdown
  /\ q' = [q EXCEPT !.owner = Free, !.asleep = TRUE]

\* "Returns false only when shutdown and queue is empty" (pipeline_l1.cpp:35)
PopFalse ==
  /\ q.items = <<>> /\ q.shutdown
  /\ q' = [q EXCEPT !.owner = Free]

PopFront ==
  /\ q.items # <<>>
  /\ q' = [q EXCEPT !.items = Tail(@), !.owner = Free]

\* notify_one() / notify_all(): with one consumer they are the same.
Notify == q' = [q EXCEPT !.asleep = FALSE]

\* A spurious return of cv_.wait().
Spurious ==
  /\ q.asleep
  /\ q' = [q EXCEPT !.asleep = FALSE]

\* The consumer, woken, takes the mutex again.
Relock(t) == ~q.asleep /\ Lock(t)

\* shutdown(): the critical section; notify_all() comes after it.
FlagUnlock == q' = [q EXCEPT !.shutdown = TRUE, !.owner = Free]
=============================================================================
