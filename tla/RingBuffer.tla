------------------------------ MODULE RingBuffer ------------------------------
(***************************************************************************)
(* The semaphore ring of device/src/ring_buffer.h: two counting semaphores, *)
(* one index per side and a shutdown flag.  Each operator is one atomic     *)
(* step of a method; the threads that call the methods, and the contents of *)
(* the slots, belong to the modules that use the ring (RingBufferSPSC,      *)
(* Pipeline).                                                               *)
(*                                                                         *)
(* A method is cut where another thread can run in between: a semaphore     *)
(* wait, the flag test that follows it, each post.  The test and the index  *)
(* update are one step because each index has a single caller (one producer *)
(* and one consumer, comment of line 7), so nothing can happen to the index *)
(* between them and the test is where the call takes effect.                *)
(***************************************************************************)
EXTENDS Naturals

CONSTANT N        \* number of slots, kRingSlots = 4 in the program

\* Any size: "power of 2 recommended but not required" (ring_buffer.h:9).
ASSUME NAssumption == N \in Nat \ {0}

VARIABLE ring     \* the members of one RingBuffer object

SlotIdx == 0 .. N - 1

RingType ==
  [emptyCount : Nat, fillCount : Nat,
   writeIdx : SlotIdx, readIdx : SlotIdx, shutdown : BOOLEAN]

-----------------------------------------------------------------------------
(* Mutated forms of the operators below: plausible bugs, see PROJECT.json.  *)

\* acquire_*_slot() without the flag test after the wait, or without the wrap.
NoFlagTest == ring' = [ring EXCEPT !.writeIdx = (@ + 1) % N]
NoReadFlagTest == ring' = [ring EXCEPT !.readIdx = (@ + 1) % N]
NoWrap == ~ring.shutdown /\ ring' = [ring EXCEPT !.writeIdx = @ + 1]
NoReadWrap == ~ring.shutdown /\ ring' = [ring EXCEPT !.readIdx = @ + 1]
\* A post that is forgotten, an init() with one token too many.
NoPost == UNCHANGED ring
NewRingOneTooMany ==
  [emptyCount |-> N + 1, fillCount |-> 0,
   writeIdx |-> 0, readIdx |-> 0, shutdown |-> FALSE]

-----------------------------------------------------------------------------
\* init(): N empty tokens, no filled slot.
NewRing ==
  [emptyCount |-> N, fillCount |-> 0,
   writeIdx |-> 0, readIdx |-> 0, shutdown |-> FALSE]

-----------------------------------------------------------------------------
(* acquire_write_slot() *)

\* sem_wait(&empty_count_) returns 0: the caller has taken a token.
SemWaitEmpty ==
  /\ ring.emptyCount > 0
  /\ ring' = [ring EXCEPT !.emptyCount = @ - 1]

\* The flag is clear: slot writeIdx is the caller's and the index advances.
TakeWriteSlot ==
  /\ ~ring.shutdown
  /\ ring' = [ring EXCEPT !.writeIdx = (@ + 1) % N]

\* The flag is set: nullptr, and the token the caller took is not put back.
RefuseWrite == ring.shutdown /\ UNCHANGED ring

\* sem_wait fails with EINTR: nullptr if the flag is set (else it is retried,
\* which changes nothing).
InterruptWrite == ring.shutdown /\ UNCHANGED ring

\* commit_write_slot()
CommitWrite == ring' = [ring EXCEPT !.fillCount = @ + 1]

-----------------------------------------------------------------------------
(* acquire_read_slot() *)

SemWaitFill ==
  /\ ring.fillCount > 0
  /\ ring' = [ring EXCEPT !.fillCount = @ - 1]

TakeReadSlot ==
  /\ ~ring.shutdown
  /\ ring' = [ring EXCEPT !.readIdx = (@ + 1) % N]

RefuseRead == ring.shutdown /\ UNCHANGED ring

InterruptRead == ring.shutdown /\ UNCHANGED ring

\* commit_read_slot()
CommitRead == ring' = [ring EXCEPT !.emptyCount = @ + 1]

-----------------------------------------------------------------------------
(* shutdown(): three steps, in this order, by any thread or signal handler. *)

SetShutdown == ring' = [ring EXCEPT !.shutdown = TRUE]

WakeProducer == ring' = [ring EXCEPT !.emptyCount = @ + 1]

WakeConsumer == ring' = [ring EXCEPT !.fillCount = @ + 1]
=============================================================================
