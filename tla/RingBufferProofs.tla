--------------------------- MODULE RingBufferProofs ---------------------------
(***************************************************************************)
(* Proofs about RingBufferSPSC, for every number of slots, of items and of *)
(* calls of shutdown().                                                    *)
(***************************************************************************)
EXTENDS RingBufferSPSC, SequenceTheorems, TLAPS

-----------------------------------------------------------------------------
(* Remainders.                                                             *)

\* Quotient and remainder of a natural number.
LEMMA ModFacts ==
  ASSUME NEW n \in Nat \ {0}, NEW a \in Nat
  PROVE  /\ a \div n \in Nat
         /\ a % n \in 0 .. n - 1
         /\ a = n * (a \div n) + (a % n)
OBVIOUS

\* Multiples of n are at least n apart.
LEMMA MultiplesApart ==
  ASSUME NEW n \in Nat \ {0}, NEW p \in Int, NEW q \in Int, p < q
  PROVE  n * q - n * p >= n
<1> DEFINE d == q - p - 1
<1>1. d \in Nat /\ q = p + 1 + d
  OBVIOUS
<1>2. n * (p + 1 + d) = n * p + n + n * d
  OBVIOUS
<1>3. n * d \in Nat
  OBVIOUS
<1>4. n * p \in Int /\ n * q \in Int
  OBVIOUS
<1> QED
  BY <1>1, <1>2, <1>3, <1>4

\* Two numbers less than n apart do not share a remainder: two items of the
\* ring less than N apart are in different slots.
LEMMA ModApart ==
  ASSUME NEW n \in Nat \ {0}, NEW a \in Nat, NEW b \in Nat,
         a < b, b - a < n
  PROVE  a % n # b % n
<1> SUFFICES ASSUME a % n = b % n PROVE FALSE
  OBVIOUS
<1> DEFINE p == a \div n
           q == b \div n
           r == a % n
<1>1. p \in Nat /\ r \in Nat /\ a = n * p + r
  OBVIOUS
<1>2. q \in Nat /\ b = n * q + r
  OBVIOUS
<1> HIDE DEF p, q, r
<1>3. n * p \in Nat /\ n * q \in Nat
  BY <1>1, <1>2
<1>4. CASE p < q
  <2>1. n * q - n * p >= n
    BY <1>1, <1>2, <1>4, MultiplesApart
  <2> QED
    BY <1>1, <1>2, <1>3, <2>1
<1>5. CASE p = q
  BY <1>1, <1>2, <1>3, <1>5
<1>6. CASE q < p
  <2>1. n * p - n * q >= n
    BY <1>1, <1>2, <1>6, MultiplesApart
  <2> QED
    BY <1>1, <1>2, <1>3, <2>1
<1> QED
  BY <1>1, <1>2, <1>4, <1>5, <1>6

\* Advancing an index around the ring is counting one item further.
LEMMA ModNext ==
  ASSUME NEW n \in Nat \ {0}, NEW a \in Nat
  PROVE  ((a % n) + 1) % n = (a + 1) % n
<1> DEFINE p == a \div n
           r == a % n
           q == (a + 1) \div n
           s == (a + 1) % n
           u == (r + 1) \div n
           v == (r + 1) % n
<1>1. p \in Nat /\ r \in Nat /\ a = n * p + r
  OBVIOUS
<1>2. q \in Nat /\ s \in 0 .. n - 1 /\ a + 1 = n * q + s
  <2>1. a + 1 \in Nat
    OBVIOUS
  <2> QED
    BY <2>1
<1> HIDE DEF p, r
<1>3. u \in Nat /\ v \in 0 .. n - 1 /\ r + 1 = n * u + v
  <2> DEFINE c == r + 1
  <2>1. c \in Nat
    BY <1>1
  <2> HIDE DEF c
  <2>2. c \div n \in Nat /\ c % n \in 0 .. n - 1 /\ c = n * (c \div n) + (c % n)
    BY <2>1
  <2> QED
    BY <2>2 DEF c
<1> HIDE DEF q, s, u, v
<1>4. n * (p + u) = n * p + n * u
  BY <1>1, <1>3
<1>5. n * p \in Nat /\ n * q \in Nat /\ n * u \in Nat /\ n * (p + u) \in Nat
  BY <1>1, <1>2, <1>3
<1>6. n * q + s = n * (p + u) + v
  BY <1>1, <1>2, <1>3, <1>4, <1>5
<1>7. CASE q < p + u
  <2>1. n * (p + u) - n * q >= n
    BY <1>1, <1>2, <1>3, <1>7, MultiplesApart
  <2> QED
    BY <1>2, <1>3, <1>5, <1>6, <2>1
<1>8. CASE p + u < q
  <2>1. n * q - n * (p + u) >= n
    BY <1>1, <1>2, <1>3, <1>8, MultiplesApart
  <2> QED
    BY <1>2, <1>3, <1>5, <1>6, <2>1
<1>9. CASE q = p + u
  <2>1. s = v
    BY <1>2, <1>3, <1>5, <1>6, <1>9
  <2> QED
    BY <2>1 DEF s, v, r
<1> QED
  BY <1>1, <1>2, <1>3, <1>7, <1>8, <1>9

-----------------------------------------------------------------------------
(* The steps of the ring.                                                  *)

\* Every remainder modulo N is the index of a slot.
LEMMA SlotIdxFacts ==
  /\ N \in Nat \ {0}
  /\ \A a \in Nat : a % N \in SlotIdx
BY NAssumption DEF SlotIdx

\* Advancing an index that stands for a count stands for the count plus one.
LEMMA NextIdx ==
  ASSUME NEW i \in SlotIdx
  PROVE  (i + 1) % N \in SlotIdx
<1> DEFINE a == i + 1
<1>1. a \in Nat
  BY NAssumption DEF SlotIdx
<1> HIDE DEF a
<1>2. a % N \in SlotIdx
  BY <1>1, SlotIdxFacts
<1> QED
  BY <1>2 DEF a

\* init() makes a well-typed ring.
LEMMA NewRingType == NewRing \in RingType
BY NAssumption DEF NewRing, RingType, SlotIdx

\* A wait of the producer takes an empty token and nothing else.
LEMMA SemWaitEmptyFields ==
  ASSUME ring \in RingType, SemWaitEmpty
  PROVE  /\ ring' \in RingType
         /\ ring'.emptyCount = ring.emptyCount - 1
         /\ ring'.fillCount = ring.fillCount
         /\ ring'.writeIdx = ring.writeIdx
         /\ ring'.readIdx = ring.readIdx
         /\ ring'.shutdown = ring.shutdown
BY DEF RingType, SemWaitEmpty

\* A granted write slot moves the write index and nothing else, with the flag clear.
LEMMA TakeWriteSlotFields ==
  ASSUME ring \in RingType, TakeWriteSlot
  PROVE  /\ ring' \in RingType
         /\ ring'.emptyCount = ring.emptyCount
         /\ ring'.fillCount = ring.fillCount
         /\ ring'.writeIdx = (ring.writeIdx + 1) % N
         /\ ring'.readIdx = ring.readIdx
         /\ ring'.shutdown = ring.shutdown
<1> DEFINE i == (ring.writeIdx + 1) % N
<1>1. i \in SlotIdx
  BY NextIdx DEF RingType
<1>2. ring' = [ring EXCEPT !.writeIdx = i]
  BY DEF TakeWriteSlot
<1> HIDE DEF i
<1>3. /\ ring' \in RingType
      /\ ring'.writeIdx = i
      /\ ring'.emptyCount = ring.emptyCount
      /\ ring'.fillCount = ring.fillCount
      /\ ring'.readIdx = ring.readIdx
      /\ ring'.shutdown = ring.shutdown
  BY <1>1, <1>2 DEF RingType
<1> QED
  BY <1>3 DEF i

\* A committed write adds a filled token and nothing else.
LEMMA CommitWriteFields ==
  ASSUME ring \in RingType, CommitWrite
  PROVE  /\ ring' \in RingType
         /\ ring'.emptyCount = ring.emptyCount
         /\ ring'.fillCount = ring.fillCount + 1
         /\ ring'.writeIdx = ring.writeIdx
         /\ ring'.readIdx = ring.readIdx
         /\ ring'.shutdown = ring.shutdown
BY DEF RingType, CommitWrite

\* A wait of the consumer takes a filled token and nothing else.
LEMMA SemWaitFillFields ==
  ASSUME ring \in RingType, SemWaitFill
  PROVE  /\ ring' \in RingType
         /\ ring'.emptyCount = ring.emptyCount
         /\ ring'.fillCount = ring.fillCount - 1
         /\ ring'.writeIdx = ring.writeIdx
         /\ ring'.readIdx = ring.readIdx
         /\ ring'.shutdown = ring.shutdown
BY DEF RingType, SemWaitFill

\* A granted read slot moves the read index and nothing else, with the flag clear.
LEMMA TakeReadSlotFields ==
  ASSUME ring \in RingType, TakeReadSlot
  PROVE  /\ ring' \in RingType
         /\ ring'.emptyCount = ring.emptyCount
         /\ ring'.fillCount = ring.fillCount
         /\ ring'.writeIdx = ring.writeIdx
         /\ ring'.readIdx = (ring.readIdx + 1) % N
         /\ ring'.shutdown = ring.shutdown
<1> DEFINE i == (ring.readIdx + 1) % N
<1>1. i \in SlotIdx
  BY NextIdx DEF RingType
<1>2. ring' = [ring EXCEPT !.readIdx = i]
  BY DEF TakeReadSlot
<1> HIDE DEF i
<1>3. /\ ring' \in RingType
      /\ ring'.readIdx = i
      /\ ring'.emptyCount = ring.emptyCount
      /\ ring'.fillCount = ring.fillCount
      /\ ring'.writeIdx = ring.writeIdx
      /\ ring'.shutdown = ring.shutdown
  BY <1>1, <1>2 DEF RingType
<1> QED
  BY <1>3 DEF i

\* A released read slot adds an empty token and nothing else.
LEMMA CommitReadFields ==
  ASSUME ring \in RingType, CommitRead
  PROVE  /\ ring' \in RingType
         /\ ring'.emptyCount = ring.emptyCount + 1
         /\ ring'.fillCount = ring.fillCount
         /\ ring'.writeIdx = ring.writeIdx
         /\ ring'.readIdx = ring.readIdx
         /\ ring'.shutdown = ring.shutdown
BY DEF RingType, CommitRead

\* shutdown() first sets the flag and touches no token.
LEMMA SetShutdownFields ==
  ASSUME ring \in RingType, SetShutdown
  PROVE  /\ ring' \in RingType
         /\ ring'.emptyCount = ring.emptyCount
         /\ ring'.fillCount = ring.fillCount
         /\ ring'.writeIdx = ring.writeIdx
         /\ ring'.readIdx = ring.readIdx
         /\ ring'.shutdown = TRUE
BY DEF RingType, SetShutdown

\* shutdown() then posts one empty token that stands for no slot.
LEMMA WakeProducerFields ==
  ASSUME ring \in RingType, WakeProducer
  PROVE  /\ ring' \in RingType
         /\ ring'.emptyCount = ring.emptyCount + 1
         /\ ring'.fillCount = ring.fillCount
         /\ ring'.writeIdx = ring.writeIdx
         /\ ring'.readIdx = ring.readIdx
         /\ ring'.shutdown = ring.shutdown
BY DEF RingType, WakeProducer

\* shutdown() last posts one filled token that stands for no slot.
LEMMA WakeConsumerFields ==
  ASSUME ring \in RingType, WakeConsumer
  PROVE  /\ ring' \in RingType
         /\ ring'.emptyCount = ring.emptyCount
         /\ ring'.fillCount = ring.fillCount + 1
         /\ ring'.writeIdx = ring.writeIdx
         /\ ring'.readIdx = ring.readIdx
         /\ ring'.shutdown = ring.shutdown
BY DEF RingType, WakeConsumer

-----------------------------------------------------------------------------
(* The type invariant.                                                     *)

\* The threads start with every variable in its type.
LEMMA InitType == Init => TypeOK
BY NewRingType, SlotIdxFacts
DEF Init, TypeOK, SlotIdx, ProdPC, ConsPC, ClosePC

\* No step of a thread or of a shutdown() takes a variable out of its type.
LEMMA NextType == TypeOK /\ [Next]_vars => TypeOK'
<1> SUFFICES ASSUME TypeOK, [Next]_vars PROVE TypeOK'
  OBVIOUS
<1> USE DEF TypeOK, ProdPC, ConsPC, ClosePC
<1>0. ring.writeIdx \in SlotIdx /\ ring.readIdx \in SlotIdx
  BY DEF RingType
<1>1. CASE ProdStep
  <2>1. CASE ProdCall
    BY <2>1 DEF ProdCall
  <2>2. CASE ProdSeesFlag
    BY <2>2 DEF ProdSeesFlag
  <2>3. CASE ProdWake
    BY <2>3, SemWaitEmptyFields DEF ProdWake
  <2>4. CASE ProdTake
    BY <2>4, <1>0, TakeWriteSlotFields DEF ProdTake
  <2>5. CASE ProdRefused
    BY <2>5 DEF ProdRefused, RefuseWrite
  <2>6. CASE ProdWrite
    BY <2>6 DEF ProdWrite
  <2>7. CASE ProdCommit
    BY <2>7, CommitWriteFields DEF ProdCommit
  <2>8. CASE ProdShutdown
    BY <2>8, SetShutdownFields, WakeProducerFields, WakeConsumerFields
    DEF ProdShutdown
  <2> QED
    BY <1>1, <2>1, <2>2, <2>3, <2>4, <2>5, <2>6, <2>7, <2>8 DEF ProdStep
<1>2. CASE ProdEnd
  BY <1>2 DEF ProdEnd
<1>3. CASE Cons
  <2>1. CASE ConsWake
    BY <2>1, SemWaitFillFields DEF ConsWake
  <2>2. CASE ConsTake
    BY <2>2, <1>0, TakeReadSlotFields DEF ConsTake
  <2>3. CASE ConsRefused
    BY <2>3 DEF ConsRefused, RefuseRead
  <2>4. CASE ConsCommit \/ ConsLeave
    BY <2>4, CommitReadFields DEF ConsCommit, ConsLeave
  <2> QED
    BY <1>3, <2>1, <2>2, <2>3, <2>4 DEF Cons
<1>4. CASE Interrupted
  BY <1>4 DEF Interrupted, InterruptWrite, InterruptRead
<1>5. ASSUME NEW c \in Closers, Close(c) PROVE TypeOK'
  BY <1>5, SetShutdownFields, WakeProducerFields, WakeConsumerFields
  DEF Close, CloseBegin, CloseRest
<1>6. CASE Terminated
  BY <1>6 DEF Terminated, vars
<1>7. CASE UNCHANGED vars
  BY <1>7 DEF vars
<1> QED
  BY <1>1, <1>2, <1>3, <1>4, <1>5, <1>6, <1>7 DEF Next

\* Every reachable state is well typed: the semaphore counts never go below
\* zero and the indices never leave the array slots_ of ring_buffer.h.
THEOREM TypeCorrect == Spec => []TypeOK
<1> QED
  BY InitType, NextType, PTL DEF Spec

-----------------------------------------------------------------------------
(* The inductive invariant.                                                *)

\* The parts of IInv that speak of numbers and flags only: what an action does
\* to them is arithmetic.
Counts ==
  /\ received <= sent
  /\ InUse <= N
  /\ TokensExact
  /\ FlagFirst

\* The empty ring, with N tokens and both cursors at 0, satisfies the invariant.
LEMMA InitIInv == Init => IInv
<1> SUFFICES ASSUME Init PROVE IInv
  OBVIOUS
<1>1. TypeOK
  BY InitType
<1>2. 0 % N = 0
  BY SlotIdxFacts
<1> QED
  BY <1>1, <1>2, SlotIdxFacts
  DEF Init, IInv, InUse, TokensExact, FlagFirst, Cursors, Contents, FirstInUse,
      ProdHolds, ConsHolds, NewRing

\* A step keeps the accounting of slots and tokens: acquire and commit move one
\* slot between free, filled and held, and a stray token is posted after the flag.
LEMMA NextCounts == IInv /\ [Next]_vars => Counts'
<1> SUFFICES ASSUME IInv, [Next]_vars PROVE Counts'
  OBVIOUS
<1> USE SlotIdxFacts
    DEF IInv, Counts, InUse, TokensExact, FlagFirst, ProdHolds, ConsHolds, TypeOK
<1>0. /\ ring \in RingType
      /\ ring.emptyCount \in Nat /\ ring.fillCount \in Nat
      /\ sent \in Nat /\ received \in Nat
  BY DEF RingType
<1>1. CASE ProdStep
  <2>1. CASE ProdCall
    BY <2>1, <1>0 DEF ProdCall
  <2>2. CASE ProdSeesFlag
    BY <2>2, <1>0 DEF ProdSeesFlag
  <2>3. CASE ProdWake
    BY <2>3, <1>0, SemWaitEmptyFields DEF ProdWake
  <2>4. CASE ProdTake
    <3>1. ~ring.shutdown
      BY <2>4 DEF ProdTake, TakeWriteSlot
    <3> QED
      BY <2>4, <3>1, <1>0, TakeWriteSlotFields DEF ProdTake
  <2>5. CASE ProdRefused
    BY <2>5, <1>0 DEF ProdRefused, RefuseWrite
  <2>6. CASE ProdWrite
    BY <2>6, <1>0 DEF ProdWrite
  <2>7. CASE ProdCommit
    BY <2>7, <1>0, CommitWriteFields DEF ProdCommit
  <2>8. CASE ProdShutdown
    BY <2>8, <1>0, SetShutdownFields, WakeProducerFields, WakeConsumerFields
    DEF ProdShutdown
  <2> QED
    BY <1>1, <2>1, <2>2, <2>3, <2>4, <2>5, <2>6, <2>7, <2>8 DEF ProdStep
<1>2. CASE ProdEnd
  BY <1>2, <1>0 DEF ProdEnd
<1>3. CASE Cons
  <2>1. CASE ConsWake
    BY <2>1, <1>0, SemWaitFillFields DEF ConsWake
  <2>2. CASE ConsTake
    <3>1. ~ring.shutdown
      BY <2>2 DEF ConsTake, TakeReadSlot
    <3> QED
      BY <2>2, <3>1, <1>0, TakeReadSlotFields DEF ConsTake
  <2>3. CASE ConsRefused
    BY <2>3, <1>0 DEF ConsRefused, RefuseRead
  <2>4. CASE ConsCommit
    BY <2>4, <1>0, CommitReadFields DEF ConsCommit
  <2>5. CASE ConsLeave
    <3>1. /\ ring.shutdown /\ ring'.shutdown
          /\ cons = "reading" /\ cons' = "done"
          /\ UNCHANGED <<prod, closing, sent, received>>
      BY <2>5, <1>0, CommitReadFields DEF ConsLeave
    <3>2. received' <= sent' /\ InUse' <= N
      BY <3>1, <1>0
    <3>3. TokensExact' /\ FlagFirst'
      BY <3>1
    <3> QED
      BY <3>2, <3>3
  <2> QED
    BY <1>3, <2>1, <2>2, <2>3, <2>4, <2>5 DEF Cons
<1>4. CASE Interrupted
  BY <1>4, <1>0 DEF Interrupted, InterruptWrite, InterruptRead
<1>5. ASSUME NEW c \in Closers, Close(c) PROVE Counts'
  <2>1. CASE CloseBegin(c)
    BY <2>1, <1>0, SetShutdownFields DEF CloseBegin
  <2>2. CASE CloseRest(c)
    BY <2>2, <1>0, WakeProducerFields, WakeConsumerFields DEF CloseRest
  <2> QED
    BY <1>5, <2>1, <2>2 DEF Close
<1>6. CASE Terminated
  BY <1>6 DEF Terminated, vars
<1>7. CASE UNCHANGED vars
  BY <1>7 DEF vars
<1> QED
  BY <1>1, <1>2, <1>3, <1>4, <1>5, <1>6, <1>7 DEF Next

\* A step keeps the indices equal to the counts of items modulo N.
LEMMA NextCursors == IInv /\ [Next]_vars => Cursors'
<1> SUFFICES ASSUME IInv, [Next]_vars PROVE Cursors'
  OBVIOUS
<1> USE SlotIdxFacts DEF ProdHolds, ConsHolds
<1>0. /\ TypeOK /\ Cursors
      /\ ring \in RingType
      /\ sent \in Nat /\ received \in Nat
  BY DEF IInv, TypeOK
<1>1. CASE ProdStep
  <2>1. CASE ProdCall
    BY <2>1, <1>0 DEF ProdCall, Cursors
  <2>2. CASE ProdSeesFlag
    BY <2>2, <1>0 DEF ProdSeesFlag, Cursors
  <2>3. CASE ProdWake
    BY <2>3, <1>0, SemWaitEmptyFields DEF ProdWake, Cursors
  <2>4. CASE ProdTake
    <3>1. ring.writeIdx = sent % N /\ wslot' = sent % N
      BY <2>4, <1>0 DEF ProdTake, Cursors
    <3>2. ring'.writeIdx = (sent + 1) % N
      BY <2>4, <3>1, <1>0, TakeWriteSlotFields, ModNext DEF ProdTake
    <3> QED
      BY <2>4, <3>1, <3>2, <1>0, TakeWriteSlotFields DEF ProdTake, Cursors
  <2>5. CASE ProdRefused
    BY <2>5, <1>0 DEF ProdRefused, RefuseWrite, Cursors
  <2>6. CASE ProdWrite
    BY <2>6, <1>0 DEF ProdWrite, Cursors
  <2>7. CASE ProdCommit
    BY <2>7, <1>0, CommitWriteFields DEF ProdCommit, Cursors
  <2>8. CASE ProdShutdown
    BY <2>8, <1>0, SetShutdownFields, WakeProducerFields, WakeConsumerFields
    DEF ProdShutdown, Cursors
  <2> QED
    BY <1>1, <2>1, <2>2, <2>3, <2>4, <2>5, <2>6, <2>7, <2>8 DEF ProdStep
<1>2. CASE ProdEnd
  BY <1>2, <1>0 DEF ProdEnd, Cursors
<1>3. CASE Cons
  <2>1. CASE ConsWake
    BY <2>1, <1>0, SemWaitFillFields DEF ConsWake, Cursors
  <2>2. CASE ConsTake
    <3>1. ring.readIdx = received % N /\ rslot' = received % N
      BY <2>2, <1>0 DEF ConsTake, Cursors
    <3>2. ring'.readIdx = (received + 1) % N
      BY <2>2, <3>1, <1>0, TakeReadSlotFields, ModNext DEF ConsTake
    <3>3. received' = received + 1 /\ received' - 1 = received /\ received' > 0
      BY <2>2, <1>0 DEF ConsTake
    <3> QED
      BY <2>2, <3>1, <3>2, <3>3, <1>0, TakeReadSlotFields DEF ConsTake, Cursors
  <2>3. CASE ConsRefused
    BY <2>3, <1>0 DEF ConsRefused, RefuseRead, Cursors
  <2>4. CASE ConsCommit \/ ConsLeave
    BY <2>4, <1>0, CommitReadFields DEF ConsCommit, ConsLeave, Cursors
  <2> QED
    BY <1>3, <2>1, <2>2, <2>3, <2>4 DEF Cons
<1>4. CASE Interrupted
  BY <1>4, <1>0 DEF Interrupted, InterruptWrite, InterruptRead, Cursors
<1>5. ASSUME NEW c \in Closers, Close(c) PROVE Cursors'
  BY <1>5, <1>0, SetShutdownFields, WakeProducerFields, WakeConsumerFields
  DEF Close, CloseBegin, CloseRest, Cursors
<1>6. CASE Terminated
  BY <1>6, <1>0 DEF Terminated, vars, Cursors
<1>7. CASE UNCHANGED vars
  BY <1>7, <1>0 DEF vars, Cursors
<1> QED
  BY <1>1, <1>2, <1>3, <1>4, <1>5, <1>6, <1>7 DEF Next

\* The slot being written is none of those whose item is still to be read or
\* is being read: their items are less than N apart.
LEMMA WriterApart ==
  ASSUME IInv, ProdHolds, NEW k \in FirstInUse .. sent
  PROVE  (k - 1) % N # wslot
<1>1. /\ sent \in Nat /\ received \in Nat /\ N \in Nat \ {0}
      /\ wslot = sent % N
  BY SlotIdxFacts DEF IInv, TypeOK, Cursors
<1>2. /\ k - 1 \in Nat /\ k - 1 < sent /\ sent - (k - 1) < N
  BY <1>1 DEF IInv, InUse, FirstInUse, ConsHolds, Cursors
<1> QED
  BY <1>1, <1>2, ModApart

\* A step keeps the items in use where their numbers say, ProdWrite included.
LEMMA NextContents == IInv /\ [Next]_vars => Contents'
<1> SUFFICES ASSUME IInv, [Next]_vars PROVE Contents'
  OBVIOUS
<1> USE DEF ConsHolds, FirstInUse
<1>0. /\ Contents
      /\ slots \in [SlotIdx -> Nat] /\ wslot \in SlotIdx
      /\ sent \in Nat /\ received \in Nat
  BY DEF IInv, TypeOK
<1>1. CASE ProdStep
  <2>1. CASE ProdCall
    BY <2>1, <1>0 DEF ProdCall, Contents
  <2>2. CASE ProdSeesFlag
    BY <2>2, <1>0 DEF ProdSeesFlag, Contents
  <2>3. CASE ProdWake
    BY <2>3, <1>0 DEF ProdWake, Contents
  <2>4. CASE ProdTake
    BY <2>4, <1>0 DEF ProdTake, Contents
  <2>5. CASE ProdRefused
    BY <2>5, <1>0 DEF ProdRefused, Contents
  <2>6. CASE ProdWrite
    <3>1. \A k \in FirstInUse .. sent : (k - 1) % N # wslot
      BY <2>6, WriterApart DEF ProdWrite, ProdHolds
    <3>2. \A k \in FirstInUse .. sent : slots'[(k - 1) % N] = k
      <4> SUFFICES ASSUME NEW k \in FirstInUse .. sent
                   PROVE  slots'[(k - 1) % N] = k
        OBVIOUS
      <4>1. k - 1 \in Nat /\ (k - 1) % N \in SlotIdx
        <5>1. k - 1 \in Nat
          BY <1>0 DEF IInv, Cursors
        <5> QED
          BY <5>1, SlotIdxFacts
      <4>2. slots[(k - 1) % N] = k
        BY <1>0 DEF Contents
      <4> QED
        BY <2>6, <3>1, <4>1, <4>2, <1>0 DEF ProdWrite
    <3>3. slots'[wslot] = sent + 1
      BY <2>6, <1>0 DEF ProdWrite
    <3> QED
      BY <2>6, <3>2, <3>3 DEF ProdWrite, Contents
  <2>7. CASE ProdCommit
    <3>1. slots[sent % N] = sent + 1
      BY <2>7, <1>0 DEF ProdCommit, Contents, IInv, Cursors, ProdHolds
    <3> QED
      BY <2>7, <3>1, <1>0 DEF ProdCommit, Contents
  <2>8. CASE ProdShutdown
    BY <2>8, <1>0 DEF ProdShutdown, Contents
  <2> QED
    BY <1>1, <2>1, <2>2, <2>3, <2>4, <2>5, <2>6, <2>7, <2>8 DEF ProdStep
<1>2. CASE ProdEnd
  BY <1>2, <1>0 DEF ProdEnd, Contents
<1>3. CASE Cons
  BY <1>3, <1>0
  DEF Cons, ConsWake, ConsTake, ConsRefused, ConsCommit, ConsLeave, Contents
<1>4. CASE Interrupted
  BY <1>4, <1>0 DEF Interrupted, InterruptWrite, InterruptRead, Contents
<1>5. ASSUME NEW c \in Closers, Close(c) PROVE Contents'
  BY <1>5, <1>0 DEF Close, CloseBegin, CloseRest, Contents
<1>6. CASE Terminated
  BY <1>6, <1>0 DEF Terminated, vars, Contents
<1>7. CASE UNCHANGED vars
  BY <1>7, <1>0 DEF vars, Contents
<1> QED
  BY <1>1, <1>2, <1>3, <1>4, <1>5, <1>6, <1>7 DEF Next

\* The invariant is inductive.
LEMMA NextIInv == IInv /\ [Next]_vars => IInv'
BY NextType, NextCounts, NextCursors, NextContents DEF IInv, Counts

\* The inductive invariant: tokens, cursors and contents agree in every
\* reachable state of the ring.
THEOREM Invariance == Spec => []IInv
<1> QED
  BY InitIInv, NextIInv, PTL DEF Spec

-----------------------------------------------------------------------------
(* What it gives.                                                          *)

\* The producer never writes the slot the consumer is reading, whatever
\* shutdown() has done to the semaphores.
THEOREM Exclusion == Spec => []SlotExclusive
<1>1. IInv => SlotExclusive
  <2> SUFFICES ASSUME IInv, ProdHolds, ConsHolds PROVE wslot # rslot
    BY DEF SlotExclusive
  <2>1. received \in FirstInUse .. sent /\ rslot = (received - 1) % N
    BY DEF IInv, TypeOK, FirstInUse, Cursors
  <2> QED
    BY <2>1, WriterApart
<1> QED
  BY <1>1, Invariance, PTL

\* The consumer holds the items in the order they were committed, unharmed
\* until it gives the slot back.
THEOREM FirstInFirstOut == Spec => []InOrder
<1>1. IInv => InOrder
  <2> SUFFICES ASSUME IInv, ConsHolds
               PROVE  slots[rslot] = received /\ received <= sent
    BY DEF InOrder
  <2>1. received \in FirstInUse .. sent /\ rslot = (received - 1) % N
    BY DEF IInv, TypeOK, FirstInUse, Cursors
  <2> QED
    BY <2>1 DEF IInv, Contents, TypeOK
<1> QED
  BY <1>1, Invariance, PTL
-----------------------------------------------------------------------------
(* Nobody waits for nothing.                                               *)

\* shutdown() has posted the semaphore of the producer, and of the consumer.
PostedEmpty == \E c \in Closers : closing[c] \in {"wokeProducer", "done"}
PostedFill == prod = "done" \/ \E c \in Closers : closing[c] = "done"

\* As long as the producer is in its loop, and the consumer in its own, no token is
\* lost, before shutdown() or after: only who leaves takes one along.  A post of
\* shutdown() is a token more than there are slots.
EmptyAtLeast ==
  prod \in {"loop", "waiting", "woken", "writing", "written"} =>
    LET tokens == ring.emptyCount + (IF prod = "woken" THEN 1 ELSE 0) + InUse
    IN  tokens >= N /\ (PostedEmpty => tokens >= N + 1)

FillAtLeast ==
  cons # "done" =>
    LET tokens == ring.fillCount + (IF cons = "woken" THEN 1 ELSE 0)
    IN  tokens >= sent - received /\ (PostedFill => tokens >= sent - received + 1)

\* The flag was set by a shutdown() that has gone on, or will.
FlagHasSetter ==
  ring.shutdown =>
    \/ prod \in {"eofFlagged", "eofWoke", "leaving", "flagged", "wokeProducer", "done"}
    \/ \E c \in Closers : closing[c] # "idle"

Wakes == EmptyAtLeast /\ FillAtLeast /\ FlagHasSetter

\* A producer blocked in sem_wait has a consumer that can go on, or a shutdown() that
\* is about to wake it; a consumer blocked there has a producer that can go on.
NeverStuck ==
  /\ prod = "waiting" /\ ring.emptyCount = 0 =>
       \/ cons \in {"woken", "reading"}
       \/ cons = "waiting" /\ ring.fillCount > 0
       \/ \E c \in Closers : closing[c] = "flagged"
  /\ cons = "waiting" /\ ring.fillCount = 0 =>
       \/ prod \notin {"waiting", "done"}
       \/ prod = "waiting" /\ ring.emptyCount > 0

\* Steps that leave the closers alone leave what they have posted alone.
LEMMA PostedKept ==
  ASSUME closing' = closing
  PROVE  /\ PostedEmpty' <=> PostedEmpty
         /\ prod' = "done" \/ prod = "done" \/ (PostedFill' <=> PostedFill)
         /\ prod' = "done" /\ prod = "done" => (PostedFill' <=> PostedFill)
BY DEF PostedEmpty, PostedFill

\* A closer posts when it is past its flag, each semaphore once.
LEMMA PostedBy ==
  ASSUME closing \in [Closers -> ClosePC], NEW c \in Closers, Close(c)
  PROVE  /\ prod' = prod /\ cons' = cons /\ sent' = sent /\ received' = received
         /\ \/ /\ SetShutdown /\ closing'[c] # "idle"
               /\ (PostedEmpty' <=> PostedEmpty) /\ (PostedFill' <=> PostedFill)
            \/ /\ WakeProducer /\ (PostedFill' <=> PostedFill) /\ closing'[c] # "idle"
            \/ /\ WakeConsumer /\ (PostedEmpty' <=> PostedEmpty) /\ closing'[c] # "idle"
<1> USE DEF PostedEmpty, PostedFill, ClosePC
<1>1. CASE CloseBegin(c)
  <2>1. /\ closing[c] = "idle" /\ closing'[c] = "flagged" /\ SetShutdown
        /\ \A d \in Closers \ {c} : closing'[d] = closing[d]
        /\ UNCHANGED <<prod, cons, sent, received>>
    BY <1>1 DEF CloseBegin
  <2>2. (PostedEmpty' <=> PostedEmpty) /\ (PostedFill' <=> PostedFill)
    BY <2>1
  <2> QED
    BY <2>1, <2>2
<1>2. CASE closing[c] = "flagged" /\ CloseRest(c)
  <2>1. /\ closing'[c] = "wokeProducer" /\ WakeProducer
        /\ \A d \in Closers \ {c} : closing'[d] = closing[d]
        /\ UNCHANGED <<prod, cons, sent, received>>
    BY <1>2 DEF CloseRest
  <2>2. PostedFill' <=> PostedFill
    BY <1>2, <2>1
  <2> QED
    BY <2>1, <2>2
<1>3. CASE closing[c] = "wokeProducer" /\ CloseRest(c)
  <2>1. /\ closing'[c] = "done" /\ WakeConsumer
        /\ \A d \in Closers \ {c} : closing'[d] = closing[d]
        /\ UNCHANGED <<prod, cons, sent, received>>
    BY <1>3 DEF CloseRest
  <2>2. PostedEmpty' <=> PostedEmpty
    BY <1>3, <2>1
  <2> QED
    BY <2>1, <2>2
<1> QED
  BY <1>1, <1>2, <1>3 DEF Close, CloseRest

\* Each step keeps the counts from below: a token leaves a semaphore only into the
\* hand of a thread, and is spent on a slot.
LEMMA NextWakes == IInv /\ Wakes /\ [Next]_vars => Wakes'
<1> SUFFICES ASSUME IInv, Wakes, [Next]_vars PROVE Wakes'
  OBVIOUS
<1> USE DEF Wakes, EmptyAtLeast, FillAtLeast, FlagHasSetter, InUse, ProdHolds, ConsHolds
<1>0. /\ ring \in RingType
      /\ ring.emptyCount \in Nat /\ ring.fillCount \in Nat /\ N \in Nat
      /\ sent \in Nat /\ received \in Nat
      /\ closing \in [Closers -> ClosePC]
  BY SlotIdxFacts DEF IInv, TypeOK, RingType
<1>1. ASSUME NEW c \in Closers, Close(c) PROVE Wakes'
  <2>1. prod' = prod /\ cons' = cons /\ sent' = sent /\ received' = received
    BY <1>0, <1>1, PostedBy
  <2>2. CASE /\ SetShutdown /\ closing'[c] # "idle"
             /\ (PostedEmpty' <=> PostedEmpty) /\ (PostedFill' <=> PostedFill)
    <3>1. ring'.emptyCount = ring.emptyCount /\ ring'.fillCount = ring.fillCount
      BY <1>0, <2>2, SetShutdownFields
    <3>2. EmptyAtLeast'
      BY <1>0, <2>1, <2>2, <3>1
    <3>3. FillAtLeast'
      BY <1>0, <2>1, <2>2, <3>1
    <3>4. FlagHasSetter'
      BY <2>2
    <3> QED
      BY <3>2, <3>3, <3>4
  <2>3. CASE /\ WakeProducer /\ (PostedFill' <=> PostedFill) /\ closing'[c] # "idle"
    <3>1. /\ ring'.emptyCount = ring.emptyCount + 1
          /\ ring'.fillCount = ring.fillCount
      BY <1>0, <2>3, WakeProducerFields
    <3>2. EmptyAtLeast'
      BY <1>0, <2>1, <3>1
    <3>3. FillAtLeast'
      BY <1>0, <2>1, <2>3, <3>1
    <3>4. FlagHasSetter'
      BY <2>3
    <3> QED
      BY <3>2, <3>3, <3>4
  <2>4. CASE /\ WakeConsumer /\ (PostedEmpty' <=> PostedEmpty) /\ closing'[c] # "idle"
    <3>1. /\ ring'.emptyCount = ring.emptyCount
          /\ ring'.fillCount = ring.fillCount + 1
      BY <1>0, <2>4, WakeConsumerFields
    <3>2. EmptyAtLeast'
      BY <1>0, <2>1, <2>4, <3>1
    <3>3. FillAtLeast'
      BY <1>0, <2>1, <3>1
    <3>4. FlagHasSetter'
      BY <2>4
    <3> QED
      BY <3>2, <3>3, <3>4
  <2> QED
    BY <1>0, <1>1, <2>2, <2>3, <2>4, PostedBy
<1>2. CASE ProdStep
  <2>1. closing' = closing /\ cons' = cons /\ received' = received
    BY <1>2 DEF ProdStep, ProdCall, ProdSeesFlag, ProdWake, ProdTake, ProdRefused,
      ProdWrite, ProdCommit, ProdShutdown
  <2> USE <1>0, <2>1, PostedKept
  <2>2. CASE ProdCall \/ ProdSeesFlag
    BY <2>2 DEF ProdCall, ProdSeesFlag
  <2>3. CASE ProdWake
    BY <2>3, SemWaitEmptyFields DEF ProdWake
  <2>4. CASE ProdTake
    BY <2>4, TakeWriteSlotFields DEF ProdTake
  <2>5. CASE ProdRefused
    BY <2>5 DEF ProdRefused, RefuseWrite
  <2>6. CASE ProdWrite
    BY <2>6 DEF ProdWrite
  <2>7. CASE ProdCommit
    BY <2>7, CommitWriteFields DEF ProdCommit
  <2>8. CASE ProdShutdown
    <3>1. sent' = sent /\ PostedEmpty' = PostedEmpty
      BY <2>8 DEF ProdShutdown, PostedEmpty
    <3>2. EmptyAtLeast'
      BY <2>8 DEF ProdShutdown
    <3>3. FillAtLeast'
      <4>1. CASE prod = "wokeProducer"
        BY <2>8, <3>1, <4>1, WakeConsumerFields DEF ProdShutdown
      <4>2. CASE prod \in {"eof", "leaving"}
        BY <2>8, <3>1, <4>2, SetShutdownFields DEF ProdShutdown
      <4>3. CASE prod \in {"eofFlagged", "flagged"}
        BY <2>8, <3>1, <4>3, WakeProducerFields DEF ProdShutdown
      <4>4. CASE prod = "eofWoke"
        BY <2>8, <3>1, <4>4, WakeConsumerFields DEF ProdShutdown
      <4> QED
        BY <2>8, <4>1, <4>2, <4>3, <4>4 DEF ProdShutdown
    <3>4. FlagHasSetter'
      BY <2>8, SetShutdownFields, WakeProducerFields, WakeConsumerFields
      DEF ProdShutdown
    <3> QED
      BY <3>2, <3>3, <3>4
  <2> QED
    BY <1>2, <2>2, <2>3, <2>4, <2>5, <2>6, <2>7, <2>8 DEF ProdStep
<1>3. CASE ProdEnd
  BY <1>3, <1>0, PostedKept DEF ProdEnd
<1>4. CASE Cons
  <2>1. closing' = closing /\ prod' = prod /\ sent' = sent
    BY <1>4 DEF Cons, ConsWake, ConsTake, ConsRefused, ConsCommit, ConsLeave
  <2> USE <1>0, <2>1, PostedKept
  <2>2. CASE ConsWake
    BY <2>2, SemWaitFillFields DEF ConsWake
  <2>3. CASE ConsTake
    BY <2>3, TakeReadSlotFields DEF ConsTake
  <2>4. CASE ConsRefused
    BY <2>4 DEF ConsRefused, RefuseRead
  <2>5. CASE ConsCommit
    BY <2>5, CommitReadFields DEF ConsCommit
  <2>6. CASE ConsLeave
    BY <2>6, CommitReadFields DEF ConsLeave
  <2> QED
    BY <1>4, <2>2, <2>3, <2>4, <2>5, <2>6 DEF Cons
<1>5. CASE Interrupted
  BY <1>5, <1>0, PostedKept DEF Interrupted, InterruptWrite, InterruptRead
<1>6. CASE Terminated \/ UNCHANGED vars
  BY <1>6, <1>0, PostedKept DEF Terminated, vars
<1> QED
  BY <1>1, <1>2, <1>3, <1>4, <1>5, <1>6 DEF Next

\* At first nothing is posted that stands for no slot, and nobody has set the flag.
LEMMA InitWakes == Init => Wakes
BY NAssumption DEF Init, NewRing, Wakes, EmptyAtLeast, FillAtLeast, FlagHasSetter,
  PostedEmpty, PostedFill, InUse, ProdHolds, ConsHolds

\* Who is blocked although the tokens count is waited for by nobody: the tokens that
\* are missing are in the other thread's hand, or in a slot that is its turn.
LEMMA WakesSuffices == IInv /\ Wakes => NeverStuck
<1> SUFFICES ASSUME IInv, Wakes PROVE NeverStuck
  OBVIOUS
<1>1. /\ ring.emptyCount \in Nat /\ ring.fillCount \in Nat /\ N \in Nat /\ N > 0
      /\ sent \in Nat /\ received \in Nat
      /\ prod \in ProdPC /\ cons \in ConsPC /\ closing \in [Closers -> ClosePC]
  BY NAssumption DEF IInv, TypeOK, RingType
<1>2. ASSUME prod = "waiting", ring.emptyCount = 0
      PROVE  \/ cons \in {"woken", "reading"}
             \/ cons = "waiting" /\ ring.fillCount > 0
             \/ \E c \in Closers : closing[c] = "flagged"
  <2>1. ~PostedEmpty
    BY <1>1, <1>2 DEF Wakes, EmptyAtLeast, InUse, IInv, ProdHolds
  <2>2. CASE cons = "waiting"
    BY <1>1, <1>2, <2>2
    DEF Wakes, EmptyAtLeast, FillAtLeast, InUse, ProdHolds, ConsHolds
  <2>3. CASE cons = "done"
    <3>1. ring.shutdown
      BY <2>3 DEF IInv, FlagFirst
    <3>2. PICK c \in Closers : closing[c] # "idle"
      BY <1>2, <3>1 DEF Wakes, FlagHasSetter
    <3>3. closing[c] = "flagged"
      BY <1>1, <2>1, <3>2 DEF PostedEmpty, ClosePC
    <3> QED
      BY <3>3
  <2> QED
    BY <1>1, <2>2, <2>3 DEF ConsPC
<1>3. ASSUME cons = "waiting", ring.fillCount = 0
      PROVE  \/ prod \notin {"waiting", "done"}
             \/ prod = "waiting" /\ ring.emptyCount > 0
  <2>1. prod # "done" /\ sent - received <= 0
    BY <1>1, <1>3 DEF IInv, Wakes, FillAtLeast, PostedFill
  <2>2. CASE prod = "waiting"
    BY <1>1, <1>3, <2>1, <2>2 DEF Wakes, EmptyAtLeast, InUse, ProdHolds, ConsHolds
  <2> QED
    BY <2>1, <2>2
<1> QED
  BY <1>2, <1>3 DEF NeverStuck

\* Neither thread is ever blocked for good: who waits for a token is waiting for a
\* thread that can move, or for a shutdown() that has its post still to make.  It is
\* the safety part of ShutdownEndsThreads and Delivered.
THEOREM NobodyStuck == Spec => []NeverStuck
<1>1. Init => IInv /\ Wakes
  BY InitIInv, InitWakes
<1>2. IInv /\ Wakes /\ [Next]_vars => (IInv /\ Wakes)'
  BY NextIInv, NextWakes
<1>3. IInv /\ Wakes => NeverStuck
  BY WakesSuffices
<1> QED
  BY <1>1, <1>2, <1>3, PTL DEF Spec

-----------------------------------------------------------------------------
(* The ring implements the channel.  Read through the mapping of            *)
(* RingBufferSPSC, what is queued are consecutive numbers.                  *)

\* The items a + 1, a + 2, ... b, in this order.
Run(a, b) == [i \in 1 .. b - a |-> a + i]

\* What a run is as a sequence.
LEMMA RunSeq ==
  ASSUME NEW a \in Nat, NEW b \in Nat, a <= b
  PROVE  /\ Run(a, b) \in Seq(Nat)
         /\ Len(Run(a, b)) = b - a
         /\ \A i \in 1 .. b - a : Run(a, b)[i] = a + i
<1> DEFINE n == b - a
<1>1. n \in Nat
  OBVIOUS
<1>2. \A i \in 1 .. n : a + i \in Nat
  BY <1>1
<1> HIDE DEF n
<1>3. [i \in 1 .. n |-> a + i] \in [1 .. n -> Nat]
  BY <1>2
<1> QED
  BY <1>1, <1>3 DEF Run, n

\* Two sequences with the same items are the same.
LEMMA RunIs ==
  ASSUME NEW a \in Nat, NEW b \in Nat, a <= b, NEW s \in Seq(Nat),
         Len(s) = b - a, \A i \in 1 .. b - a : s[i] = a + i
  PROVE  s = Run(a, b)
<1> DEFINE r == Run(a, b)
<1>1. r \in Seq(Nat) /\ Len(r) = b - a /\ \A i \in 1 .. b - a : r[i] = a + i
  BY RunSeq
<1> HIDE DEF r
<1>2. Len(s) = Len(r) /\ \A i \in 1 .. Len(s) : s[i] = r[i]
  BY <1>1
<1>3. s = r
  BY <1>1, <1>2, SeqEqual
<1> QED
  BY <1>3 DEF r

\* Nothing is queued between a and a.
LEMMA RunEmpty ==
  ASSUME NEW a \in Nat
  PROVE  Run(a, a) = <<>>
<1>1. Len(Run(a, a)) = 0 /\ Run(a, a) \in Seq(Nat)
  BY RunSeq
<1> QED
  BY <1>1, EmptySeq

\* One more item at the end.
LEMMA RunAppend ==
  ASSUME NEW a \in Nat, NEW b \in Nat, a <= b
  PROVE  Run(a, b + 1) = Append(Run(a, b), b + 1)
<1> DEFINE r == Run(a, b)
           s == Append(r, b + 1)
<1>1. r \in Seq(Nat) /\ Len(r) = b - a /\ \A i \in 1 .. b - a : r[i] = a + i
  BY RunSeq
<1>2. b + 1 \in Nat
  OBVIOUS
<1> HIDE DEF r
<1>3. /\ s \in Seq(Nat) /\ Len(s) = b - a + 1
      /\ \A i \in 1 .. b - a : s[i] = r[i]
      /\ s[b - a + 1] = b + 1
  BY <1>1, <1>2, AppendProperties
<1> HIDE DEF s
<1>4. ASSUME NEW i \in 1 .. b + 1 - a PROVE s[i] = a + i
  <2>1. i \in 1 .. b - a \/ i = b - a + 1
    OBVIOUS
  <2>2. a + (b - a + 1) = b + 1
    OBVIOUS
  <2> QED
    BY <1>1, <1>3, <2>1, <2>2
<1>5. s = Run(a, b + 1)
  BY <1>2, <1>3, <1>4, RunIs
<1> QED
  BY <1>5 DEF s, r

\* One item less at the front.
LEMMA RunTail ==
  ASSUME NEW a \in Nat, NEW b \in Nat, a < b
  PROVE  /\ Run(a, b) # <<>>
         /\ Head(Run(a, b)) = a + 1
         /\ Tail(Run(a, b)) = Run(a + 1, b)
<1> DEFINE r == Run(a, b)
           t == Tail(r)
<1>1. r \in Seq(Nat) /\ Len(r) = b - a /\ \A i \in 1 .. b - a : r[i] = a + i
  BY RunSeq
<1> HIDE DEF r
<1>2. r # <<>>
  BY <1>1, EmptySeq
<1>3. Head(r) = a + 1
  BY <1>1, <1>2
<1>4. /\ t \in Seq(Nat) /\ Len(t) = b - a - 1
      /\ \A i \in 1 .. b - a - 1 : t[i] = r[i + 1]
  BY <1>1, <1>2, HeadTailProperties
<1> HIDE DEF t
<1>5. Len(t) = b - (a + 1) /\ \A i \in 1 .. b - (a + 1) : t[i] = (a + 1) + i
  BY <1>1, <1>4
<1>6. t = Run(a + 1, b)
  BY <1>4, <1>5, RunIs
<1> QED
  BY <1>2, <1>3, <1>6 DEF t, r

-----------------------------------------------------------------------------
\* What the mapping makes of the slots.
Queued == [i \in 1 .. sent - received |-> slots[(received + i - 1) % N]]
Held == IF ConsHolds THEN <<slots[rslot]>> ELSE <<>>

\* The slots between the indices hold the items committed and not yet received, in order.
LEMMA QueuedIsRun == IInv => Queued = Run(received, sent)
<1> SUFFICES ASSUME IInv PROVE Queued = Run(received, sent)
  OBVIOUS
<1>1. sent \in Nat /\ received \in Nat /\ received <= sent
  BY DEF IInv, TypeOK
<1>2. ASSUME NEW i \in 1 .. sent - received
      PROVE  slots[(received + i - 1) % N] = received + i
  <2> DEFINE k == received + i
  <2>1. k \in FirstInUse .. sent /\ k - 1 = received + i - 1
    BY <1>1, <1>2 DEF FirstInUse
  <2>2. slots[(k - 1) % N] = k
    BY <2>1 DEF IInv, Contents
  <2> QED
    BY <2>1, <2>2
<1> QED
  BY <1>2 DEF Queued, Run

\* What the consumer holds is the item received last.
LEMMA HeldIsLast == IInv => Held = IF ConsHolds THEN <<received>> ELSE <<>>
<1> SUFFICES ASSUME IInv, ConsHolds PROVE slots[rslot] = received
  BY DEF Held
<1>1. received \in FirstInUse .. sent /\ rslot = (received - 1) % N
  BY DEF IInv, TypeOK, FirstInUse, Cursors
<1> QED
  BY <1>1 DEF IInv, Contents, TypeOK

\* The mapped state, by the counts alone.
Mapped ==
  /\ Queued = Run(received, sent)
  /\ Held = IF ConsHolds THEN <<received>> ELSE <<>>

\* The mapped state is given by the counts, before a step and after it.
LEMMA MappedIs == (IInv => Mapped) /\ (IInv' => Mapped')
<1>1. IInv => Mapped
  BY QueuedIsRun, HeldIsLast DEF Mapped
<1> QED
  BY <1>1, PTL

\* The producer has an item of the source at hand when it calls for a slot.
HasItem ==
  prod \in {"waiting", "woken", "writing", "written"} => sent + 1 \in 1 .. MaxItems

\* Only a commit moves sent, and the producer then asks the source again.
LEMMA NextHasItem == IInv /\ HasItem /\ [Next]_vars => HasItem'
<1> SUFFICES ASSUME IInv, HasItem, [Next]_vars PROVE HasItem'
  OBVIOUS
<1>1. sent \in Nat /\ MaxItems \in Nat
  BY MaxItemsAssumption DEF IInv, TypeOK
<1>2. CASE ProdStep
  BY <1>1, <1>2 DEF HasItem, ProdStep, ProdCall, ProdSeesFlag, ProdWake, ProdTake,
    ProdRefused, ProdWrite, ProdCommit, ProdShutdown
<1>3. CASE ProdEnd
  BY <1>3 DEF HasItem, ProdEnd
<1>4. CASE ~ProdStep /\ ~ProdEnd
  <2>1. sent' = sent /\ (prod' = prod \/ prod' = "leaving")
    BY <1>4 DEF Next, Cons, ConsWake, ConsTake, ConsRefused, ConsCommit, ConsLeave, Interrupted,
      Close, CloseBegin, CloseRest, Terminated, vars
  <2> QED
    BY <2>1 DEF HasItem
<1> QED
  BY <1>2, <1>3, <1>4

\* The step of the channel that a step of the ring stands for, over the four
\* parts of its state.
LEMMA ChannelStep ==
  ASSUME IInv, IInv', HasItem, [Next]_vars
  PROVE  [Channel!Next]_Channel!vars
<1>1. /\ Queued = Run(received, sent) /\ Queued' = Run(received', sent')
      /\ Held = IF ConsHolds THEN <<received>> ELSE <<>>
      /\ Held' = IF ConsHolds' THEN <<received'>> ELSE <<>>
  BY MappedIs DEF Mapped, Run
<1>2. /\ ring \in RingType
      /\ sent \in Nat /\ received \in Nat /\ received <= sent
      /\ received' \in Nat
      /\ N \in Nat \ {0}
  BY SlotIdxFacts DEF IInv, TypeOK
<1>3. UNCHANGED <<received, sent, ConsHolds>> => UNCHANGED <<Queued, Held>>
  BY <1>1
<1>4. UNCHANGED <<received, sent, ConsHolds, ProdHolds, ring.shutdown>>
        => UNCHANGED Channel!vars
  BY <1>3 DEF Channel!vars, Queued, Held
<1>5. CASE ProdTake
  <2>1. /\ ~ring.shutdown /\ ring'.shutdown = ring.shutdown
        /\ prod = "woken" /\ prod' = "writing"
        /\ UNCHANGED <<sent, received, cons>>
    BY <1>2, <1>5, TakeWriteSlotFields DEF ProdTake, TakeWriteSlot
  <2>2. UNCHANGED <<Queued, Held>>
    BY <1>3, <2>1 DEF ConsHolds
  <2>3. InUse' <= N
    BY DEF IInv
  <2>4. Len(Queued) = sent - received /\ Len(Held) = IF ConsHolds THEN 1 ELSE 0
    BY <1>1, <1>2, RunSeq
  <2>5. Len(Queued) + 0 + Len(Held) < N
    BY <1>2, <2>1, <2>3, <2>4 DEF InUse, ProdHolds, ConsHolds
  <2>6. ~ProdHolds /\ ProdHolds' = TRUE
    BY <2>1 DEF ProdHolds
  <2> QED
    BY <2>1, <2>2, <2>5, <2>6
    DEF Channel!Next, Channel!BeginPut, Channel!InUse, Queued, Held
<1>6. CASE ProdCommit
  <2>1. /\ ring'.shutdown = ring.shutdown
        /\ prod = "written" /\ prod' = "loop"
        /\ sent' = sent + 1 /\ UNCHANGED <<received, cons>>
    BY <1>2, <1>6, CommitWriteFields DEF ProdCommit
  <2>2. Queued' = Append(Queued, sent + 1) /\ Held' = Held
    BY <1>1, <1>2, <2>1, RunAppend DEF ConsHolds
  <2>3. ProdHolds /\ ProdHolds' = FALSE
    BY <2>1 DEF ProdHolds
  <2>4. sent + 1 \in 1 .. MaxItems
    BY <2>1 DEF HasItem
  <2> QED
    BY <2>1, <2>2, <2>3, <2>4 DEF Channel!Next, Channel!EndPut, Queued, Held
<1>7. CASE ConsTake
  <2>1. /\ ~ring.shutdown /\ ring'.shutdown = ring.shutdown
        /\ cons = "woken" /\ cons' = "reading"
        /\ received' = received + 1 /\ UNCHANGED <<sent, prod>>
    BY <1>2, <1>7, TakeReadSlotFields DEF ConsTake, TakeReadSlot
  <2>2. received < sent
    BY <1>2, <2>1 DEF IInv
  <2>3. /\ Queued # <<>> /\ Queued' = Tail(Queued)
        /\ Held = <<>> /\ Held' = <<Head(Queued)>>
    BY <1>1, <1>2, <2>1, <2>2, RunTail DEF ConsHolds
  <2>4. ProdHolds' = ProdHolds
    BY <2>1 DEF ProdHolds
  <2> QED
    BY <2>1, <2>3, <2>4 DEF Channel!Next, Channel!Get, Queued, Held
<1>8. CASE ConsCommit \/ ConsLeave
  <2>1. /\ ring'.shutdown = ring.shutdown
        /\ cons = "reading" /\ cons' \in {"waiting", "done"}
        /\ UNCHANGED <<sent, received, prod>>
    BY <1>2, <1>8, CommitReadFields DEF ConsCommit, ConsLeave
  <2>2. Queued' = Queued /\ Held # <<>> /\ Held' = <<>>
    BY <1>1, <2>1 DEF ConsHolds
  <2>3. ProdHolds' = ProdHolds
    BY <2>1 DEF ProdHolds
  <2> QED
    BY <2>1, <2>2, <2>3 DEF Channel!Next, Channel!Release, Queued, Held
<1>9. ASSUME SetShutdown, UNCHANGED <<sent, received, ConsHolds, ProdHolds>>
      PROVE  Channel!Next
  <2>1. ring'.shutdown = TRUE
    BY <1>2, <1>9, SetShutdownFields
  <2> QED
    BY <1>3, <1>9, <2>1 DEF Channel!Next, Channel!Close, Queued, Held
<1>10. CASE /\ ~ProdTake /\ ~ProdCommit /\ ~ConsTake /\ ~ConsCommit /\ ~ConsLeave
            /\ ~SetShutdown
  <2>1. UNCHANGED <<received, sent, ConsHolds, ProdHolds>>
    BY <1>10 DEF Next, ProdStep, ProdCall, ProdSeesFlag, ProdWake, ProdRefused, ProdWrite,
      ProdShutdown, ProdEnd, Cons, ConsWake, ConsRefused, Interrupted, Close, CloseBegin,
      CloseRest, Terminated, vars, ProdHolds, ConsHolds
  <2>2. ring' = ring \/ SemWaitEmpty \/ SemWaitFill \/ WakeProducer \/ WakeConsumer
    BY <1>10 DEF Next, ProdStep, ProdCall, ProdSeesFlag, ProdWake, ProdRefused, ProdWrite,
      ProdShutdown, ProdEnd, Cons, ConsWake, ConsRefused, Interrupted, Close, CloseBegin,
      CloseRest, Terminated, vars, RefuseWrite, RefuseRead, InterruptWrite, InterruptRead
  <2>3. ring'.shutdown = ring.shutdown
    BY <1>2, <2>2, SemWaitEmptyFields, SemWaitFillFields, WakeProducerFields,
      WakeConsumerFields
  <2> QED
    BY <1>4, <2>1, <2>3
<1>11. CASE /\ SetShutdown
            /\ ~ProdTake /\ ~ProdCommit /\ ~ConsTake /\ ~ConsCommit /\ ~ConsLeave
  <2>1. UNCHANGED <<received, sent, ConsHolds, ProdHolds>>
    BY <1>11 DEF Next, ProdStep, ProdCall, ProdSeesFlag, ProdWake, ProdRefused, ProdWrite,
      ProdShutdown, ProdEnd, Cons, ConsWake, ConsRefused, Interrupted, Close, CloseBegin,
      CloseRest, Terminated, vars, ProdHolds, ConsHolds
  <2> QED
    BY <1>9, <1>11, <2>1
<1> QED
  BY <1>5, <1>6, <1>7, <1>8, <1>10, <1>11

\* An empty ring is an empty channel.
LEMMA ChannelInit == Init => Channel!Init
<1> SUFFICES ASSUME Init PROVE Channel!Init
  OBVIOUS
<1>1. IInv
  BY InitIInv
<1>2. Queued = Run(0, 0) /\ Held = <<>>
  BY <1>1, QueuedIsRun DEF Init, Held, ConsHolds
<1>3. Queued = <<>>
  BY <1>2, RunEmpty
<1>4. ProdHolds = FALSE /\ ring.shutdown = FALSE
  BY DEF Init, ProdHolds, NewRing
<1> QED
  BY <1>2, <1>3, <1>4 DEF Channel!Init, Queued, Held

\* The ring of ring_buffer.h is a bounded FIFO channel that can be closed: no
\* slot is granted and no item delivered once the flag is set, and the slots in
\* use never exceed N.
THEOREM Refinement == Spec => ImplementsChannel
<1>1. Init => HasItem
  BY DEF Init, HasItem
<1>2. Spec => []HasItem
  BY <1>1, NextHasItem, Invariance, PTL DEF Spec
<1>3. IInv /\ IInv' /\ HasItem /\ [Next]_vars => [Channel!Next]_Channel!vars
  BY ChannelStep
<1> QED
  BY <1>2, <1>3, ChannelInit, Invariance, PTL DEF Spec, ImplementsChannel, Channel!Spec
=============================================================================
