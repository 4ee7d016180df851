---------------------------- MODULE RingBufferSPSC ----------------------------
(***************************************************************************)
(* One ring and the threads around it, as the pipeline uses it: a producer *)
(* that acquires, writes and commits slots and calls shutdown() when it    *)
(* leaves (recv for ring A, infer for ring B), a consumer that leaves when *)
(* it is answered nullptr, or with its last slot given back, and other     *)
(* callers of shutdown() (the signal handler, the error paths of start()). *)
(* PipelineProofs has the proof that both rings of the pipeline are used   *)
(* in this way.                                                            *)
(*                                                                         *)
(* The k-th item the producer writes is the number k.                      *)
(***************************************************************************)
EXTENDS RingBuffer, Integers

CONSTANTS
  Closers,     \* calls of shutdown() by others than the producer
  MaxItems     \* bound: how many items the source has

ASSUME MaxItemsAssumption == MaxItems \in Nat

VARIABLES
  slots,       \* slots_: what each slot holds, 0 at first
  prod,        \* where the producer is
  cons,        \* where the consumer is
  closing,     \* where each other call of shutdown() is
  wslot,       \* the slot acquire_write_slot() returned last
  rslot,       \* the slot acquire_read_slot() returned last
  sent,        \* items committed so far
  received     \* slots acquired by the consumer so far

vars == <<ring, slots, prod, cons, closing, wslot, rslot, sent, received>>

ProdPC == {"loop", "waiting", "woken", "writing", "written",
           "eof", "eofFlagged", "eofWoke",
           "leaving", "flagged", "wokeProducer", "done"}
ConsPC == {"waiting", "woken", "reading", "done"}
ClosePC == {"idle", "flagged", "wokeProducer", "done"}

Init ==
  /\ ring = NewRing
  /\ slots = [i \in SlotIdx |-> 0]
  /\ prod = "loop"
  /\ cons = "waiting"
  /\ closing = [c \in Closers |-> "idle"]
  /\ wslot = 0
  /\ rslot = 0
  /\ sent = 0
  /\ received = 0

-----------------------------------------------------------------------------
(* The producer. *)

\* Another item of the source: call acquire_write_slot().
ProdCall ==
  /\ prod = "loop"
  /\ sent < MaxItems
  /\ prod' = "waiting"
  /\ UNCHANGED <<ring, slots, cons, closing, wslot, rslot, sent, received>>

\* The source has no more items: recv calls shutdown() at once, and again when it
\* leaves; infer leaves.
ProdEnd ==
  /\ prod = "loop"
  /\ prod' \in {"eof", "leaving"}
  /\ UNCHANGED <<ring, slots, cons, closing, wslot, rslot, sent, received>>

\* The test at the top of the loop sees the flag.
ProdSeesFlag ==
  /\ prod = "loop"
  /\ ring.shutdown
  /\ prod' = "leaving"
  /\ UNCHANGED <<ring, slots, cons, closing, wslot, rslot, sent, received>>

ProdWake ==
  /\ prod = "waiting"
  /\ SemWaitEmpty
  /\ prod' = "woken"
  /\ UNCHANGED <<slots, cons, closing, wslot, rslot, sent, received>>

ProdTake ==
  /\ prod = "woken"
  /\ TakeWriteSlot
  /\ wslot' = ring.writeIdx
  /\ prod' = "writing"
  /\ UNCHANGED <<slots, cons, closing, rslot, sent, received>>

\* nullptr.
ProdRefused ==
  /\ prod = "woken"
  /\ RefuseWrite
  /\ prod' = "leaving"
  /\ UNCHANGED <<slots, cons, closing, wslot, rslot, sent, received>>

ProdWrite ==
  /\ prod = "writing"
  /\ slots' = [slots EXCEPT ![wslot] = sent + 1]
  /\ prod' = "written"
  /\ UNCHANGED <<ring, cons, closing, wslot, rslot, sent, received>>

ProdCommit ==
  /\ prod = "written"
  /\ CommitWrite
  /\ sent' = sent + 1
  /\ prod' = "loop"
  /\ UNCHANGED <<slots, cons, closing, wslot, rslot, received>>

\* shutdown() by the producer, at the end of its source and as it leaves.
ProdShutdown ==
  /\ \/ prod = "eof" /\ SetShutdown /\ prod' = "eofFlagged"
     \/ prod = "eofFlagged" /\ WakeProducer /\ prod' = "eofWoke"
     \/ prod = "eofWoke" /\ WakeConsumer /\ prod' = "leaving"
     \/ prod = "leaving" /\ SetShutdown /\ prod' = "flagged"
     \/ prod = "flagged" /\ WakeProducer /\ prod' = "wokeProducer"
     \/ prod = "wokeProducer" /\ WakeConsumer /\ prod' = "done"
  /\ UNCHANGED <<slots, cons, closing, wslot, rslot, sent, received>>

ProdStep ==
  \/ ProdCall \/ ProdSeesFlag \/ ProdWake \/ ProdTake \/ ProdRefused
  \/ ProdWrite \/ ProdCommit \/ ProdShutdown

-----------------------------------------------------------------------------
(* The consumer. *)

ConsWake ==
  /\ cons = "waiting"
  /\ SemWaitFill
  /\ cons' = "woken"
  /\ UNCHANGED <<slots, prod, closing, wslot, rslot, sent, received>>

ConsTake ==
  /\ cons = "woken"
  /\ TakeReadSlot
  /\ rslot' = ring.readIdx
  /\ received' = received + 1
  /\ cons' = "reading"
  /\ UNCHANGED <<slots, prod, closing, wslot, sent>>

ConsRefused ==
  /\ cons = "woken"
  /\ RefuseRead
  /\ cons' = "done"
  /\ UNCHANGED <<slots, prod, closing, wslot, rslot, sent, received>>

\* The consumer has finished with the slot.
ConsCommit ==
  /\ cons = "reading"
  /\ CommitRead
  /\ cons' = "waiting"
  /\ UNCHANGED <<slots, prod, closing, wslot, rslot, sent, received>>

\* The consumer leaves with the slot given back: infer, for which the ring after this
\* one has no slot.  That ring is not shut down before this one.
ConsLeave ==
  /\ cons = "reading"
  /\ ring.shutdown
  /\ CommitRead
  /\ cons' = "done"
  /\ UNCHANGED <<slots, prod, closing, wslot, rslot, sent, received>>

Cons == ConsWake \/ ConsTake \/ ConsRefused \/ ConsCommit \/ ConsLeave

-----------------------------------------------------------------------------
\* A signal handled by a waiting thread ends its sem_wait with EINTR, and the
\* thread leaves if it then finds the flag set.  No thread may rely on it.
Interrupted ==
  /\ \/ prod = "waiting" /\ InterruptWrite /\ prod' = "leaving" /\ UNCHANGED cons
     \/ cons = "waiting" /\ InterruptRead /\ cons' = "done" /\ UNCHANGED prod
  /\ UNCHANGED <<slots, closing, wslot, rslot, sent, received>>

-----------------------------------------------------------------------------
(* The other calls of shutdown(). *)

CloseBegin(c) ==
  /\ closing[c] = "idle"
  /\ SetShutdown
  /\ closing' = [closing EXCEPT ![c] = "flagged"]
  /\ UNCHANGED <<slots, prod, cons, wslot, rslot, sent, received>>

CloseRest(c) ==
  /\ \/ /\ closing[c] = "flagged"
        /\ WakeProducer
        /\ closing' = [closing EXCEPT ![c] = "wokeProducer"]
     \/ /\ closing[c] = "wokeProducer"
        /\ WakeConsumer
        /\ closing' = [closing EXCEPT ![c] = "done"]
  /\ UNCHANGED <<slots, prod, cons, wslot, rslot, sent, received>>

Close(c) == CloseBegin(c) \/ CloseRest(c)

-----------------------------------------------------------------------------
\* Every thread has returned; a run that stops anywhere else is a deadlock.
Terminated ==
  /\ prod = "done" /\ cons = "done"
  /\ UNCHANGED vars

Next ==
  \/ ProdStep \/ ProdEnd \/ Cons \/ Interrupted
  \/ \E c \in Closers : Close(c)
  \/ Terminated

Spec == Init /\ [][Next]_vars

\* The threads are scheduled; a call of shutdown() that has begun is carried
\* on.  No call has to begin and the source never has to end: with MaxItems
\* items sent, the producer may wait for another one for ever.  EINTR is left to
\* chance: a blocked thread must be woken by a post.
Fairness ==
  /\ WF_vars(ProdStep)
  /\ WF_vars(Cons)
  /\ \A c \in Closers : WF_vars(CloseRest(c))

FairSpec == Spec /\ Fairness

-----------------------------------------------------------------------------
(* Properties. *)

ProdHolds == prod \in {"writing", "written"}
ConsHolds == cons = "reading"

\* Values of every variable.
TypeOK ==
  /\ ring \in RingType
  /\ slots \in [SlotIdx -> Nat]
  /\ prod \in ProdPC
  /\ cons \in ConsPC
  /\ closing \in [Closers -> ClosePC]
  /\ wslot \in SlotIdx
  /\ rslot \in SlotIdx
  /\ sent \in Nat
  /\ received \in Nat

\* The slot the producer writes and the slot the consumer reads are never the
\* same one, even with the extra tokens shutdown() has posted and a producer
\* that passes sem_wait on one of them.
SlotExclusive == ProdHolds /\ ConsHolds => wslot # rslot

\* What the consumer holds is the item that is its turn, and stays so until it
\* gives the slot back: nothing is skipped, duplicated, reordered or overwritten.
InOrder == ConsHolds => slots[rslot] = received /\ received <= sent

\* After any call of shutdown() sets the flag, both threads return, wherever
\* they were ("unblock any waiting threads", ring_buffer.h:91).
ShutdownEndsThreads == ring.shutdown ~> (prod = "done" /\ cons = "done")

\* An item committed is received, unless the ring is shut down first.
Delivered ==
  \A k \in 1 .. MaxItems : (sent >= k) ~> (received >= k \/ ring.shutdown)

-----------------------------------------------------------------------------
(* The inductive invariant behind SlotExclusive and InOrder.                *)

\* Slots taken by the producer, filled, or held by the consumer.
InUse ==
  (IF ProdHolds THEN 1 ELSE 0) + (sent - received) + (IF ConsHolds THEN 1 ELSE 0)

\* Until shutdown() the tokens count exactly the free and the filled slots;
\* afterwards it posts tokens that stand for no slot.
TokensExact ==
  ~ring.shutdown =>
    /\ ring.emptyCount + (IF prod = "woken" THEN 1 ELSE 0) + InUse = N
    /\ ring.fillCount + (IF cons = "woken" THEN 1 ELSE 0) = sent - received

\* A post by shutdown() comes after the flag.
FlagFirst ==
  \/ prod \in {"eofFlagged", "eofWoke", "flagged", "wokeProducer", "done"}
  \/ cons = "done"
  \/ \E c \in Closers : closing[c] # "idle"
  => ring.shutdown

\* The indices follow the counts of items.
Cursors ==
  /\ ring.writeIdx = (IF ProdHolds THEN sent + 1 ELSE sent) % N
  /\ ring.readIdx = received % N
  /\ ProdHolds => wslot = sent % N
  /\ ConsHolds => received > 0 /\ rslot = (received - 1) % N

\* Every item written and not yet given back is where its number says.
FirstInUse == IF ConsHolds THEN received ELSE received + 1

Contents ==
  /\ \A k \in FirstInUse .. sent : slots[(k - 1) % N] = k
  /\ prod = "written" => slots[wslot] = sent + 1

IInv ==
  /\ TypeOK
  /\ received <= sent
  /\ InUse <= N
  /\ TokensExact
  /\ FlagFirst
  /\ Cursors
  /\ Contents

-----------------------------------------------------------------------------
(* The ring implements the closable bounded channel. *)

Channel ==
  INSTANCE FrameChannel WITH
    Capacity <- N,
    Items <- 1 .. MaxItems,
    queue <- [i \in 1 .. sent - received |-> slots[(received + i - 1) % N]],
    granted <- ProdHolds,
    held <- IF ConsHolds THEN <<slots[rslot]>> ELSE <<>>,
    closed <- ring.shutdown

\* Read through that mapping, every step is a step of the channel or a stutter:
\* in particular no slot is granted and none delivered once the flag is set, and
\* the slots in use never exceed N.
ImplementsChannel == Channel!Spec
=============================================================================
