------------------------------ MODULE PosixQueue ------------------------------
(***************************************************************************)
(* The bounded queue of device/src/pipeline_l2.cpp: a std::queue under a   *)
(* mutex, two counting semaphores, a shutdown flag.  One operator per      *)
(* atomic step of push(), pop() and shutdown(); a critical section of the  *)
(* mutex is one step.                                                      *)
(***************************************************************************)
EXTENDS Naturals, Sequences

CONSTANT Capacity    \* kQueueCapacity

VARIABLE q           \* the members of one PosixQueue object

QueueType(Item) ==
  [items : Seq(Item), emptySlots : Nat, fillCount : Nat, shutdown : BOOLEAN]

-----------------------------------------------------------------------------
(* Mutated forms of the operators below, see PROJECT.json.                  *)

\* A wait whose failure is taken for success, a drain that ends too early, a
\* front() without pop(), a flag or a post that is forgotten.
NoTokenWait == q' = [q EXCEPT !.emptySlots = @ - 1]
DrainGivesUp == UNCHANGED q
FrontNotPopped == UNCHANGED q
FlagForgotten == UNCHANGED q
NewQueueUnbounded ==
  [items |-> <<>>, emptySlots |-> Capacity + 1, fillCount |-> 0, shutdown |-> FALSE]
NoPost == UNCHANGED q

-----------------------------------------------------------------------------
\* init(capacity)
NewQueue ==
  [items |-> <<>>, emptySlots |-> Capacity, fillCount |-> 0, shutdown |-> FALSE]

-----------------------------------------------------------------------------
(* push(item) *)

SemWaitEmpty ==
  /\ q.emptySlots > 0
  /\ q' = [q EXCEPT !.emptySlots = @ - 1]

\* The flag is clear: on to the critical section.
PushGranted == ~q.shutdown /\ UNCHANGED q

\* false
PushRefused == q.shutdown /\ UNCHANGED q

\* Under the mutex.
Append1(item) == q' = [q EXCEPT !.items = Append(@, item)]

PostFill == q' = [q EXCEPT !.fillCount = @ + 1]

-----------------------------------------------------------------------------
(* pop(out) *)

SemWaitFill ==
  /\ q.fillCount > 0
  /\ q' = [q EXCEPT !.fillCount = @ - 1]

\* Which way the test after the wait goes.
PopNormally == ~q.shutdown /\ UNCHANGED q
PopDraining == q.shutdown /\ UNCHANGED q

\* front() and pop() under the mutex.
TakeFront == q' = [q EXCEPT !.items = Tail(@)]

\* "Drain remaining items" (pipeline_l2.cpp:69): no empty slot is posted.
DrainSome == q.items # <<>>
DrainEnds == q.items = <<>> /\ UNCHANGED q

PostEmpty == q' = [q EXCEPT !.emptySlots = @ + 1]

-----------------------------------------------------------------------------
\* Either sem_wait fails with EINTR: false if the flag is set (else it is
\* retried, which changes nothing).
Interrupted == q.shutdown /\ UNCHANGED q

-----------------------------------------------------------------------------
(* shutdown() *)

SetShutdown == q' = [q EXCEPT !.shutdown = TRUE]
WakeProducer == q' = [q EXCEPT !.emptySlots = @ + 1]
WakeConsumer == q' = [q EXCEPT !.fillCount = @ + 1]
=============================================================================
