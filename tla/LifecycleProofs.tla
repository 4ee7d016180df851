---------------------------- MODULE LifecycleProofs ----------------------------
(***************************************************************************)
(* Proofs about Lifecycle, for any number of signals.                      *)
(*                                                                         *)
(* The inductive invariant ties what exists to where main() is: what       *)
(* start() has made so far and its error paths and stop() have not yet     *)
(* taken away, and which threads it has created and not yet joined.        *)
(***************************************************************************)
EXTENDS Lifecycle, TLAPS

\* A thread runs only between its creation and the return of its join.
RunsUnjoined ==
  /\ thread["recv"] = "running" => main = "joinRecv"
  /\ thread["infer"] = "running" =>
       main \in {"createRecv", "failRecvShutA", "failRecvShutB", "failRecvJoinInfer",
                 "joinRecv", "joinInfer"}
  /\ thread["upload"] = "running" =>
       main \in {"createInfer", "createRecv", "failInferShutB", "failInferJoin",
                 "failRecvShutA", "failRecvShutB", "failRecvJoinInfer",
                 "failRecvJoinUpload", "joinRecv", "joinInfer", "joinUpload"}

\* From the initialisation of ring B, which is the second, to the first destroy().
BothReady ==
  main \in {"createUpload", "createInfer", "createRecv", "failInferShutB",
            "failInferJoin", "failRecvShutA", "failRecvShutB", "failRecvJoinInfer",
            "failRecvJoinUpload", "failDestroyA",
            "joinRecv", "joinInfer", "joinUpload", "destroyA"}

\* impl_ is live from new to delete.
ImplFollows ==
  impl = IF main \in {"setup", "newImpl", "unpublish", "exit0", "exit1"} THEN "null"
         ELSE IF main \in {"failNull", "null"} THEN "dangling"
         ELSE "live"

\* Each ring is ready from its init() to its destroy(), on every path, so that each
\* destroy() meets a ring that is ready; at the end a ring may never have been
\* initialised.
RingsFollow ==
  /\ main \in {"setup", "newImpl", "initA"} => ring["A"] = "raw" /\ ring["B"] = "raw"
  /\ main \in {"initB", "failRingB"} => ring["A"] = "ready" /\ ring["B"] = "raw"
  /\ BothReady => ring["A"] = "ready" /\ ring["B"] = "ready"
  /\ main \in {"failDestroyB", "destroyB"} => ring["A"] = "destroyed" /\ ring["B"] = "ready"
  /\ main \in {"failDelete", "failNull", "delete", "null", "unpublish", "exit0", "exit1"} =>
       ring["A"] \in {"raw", "destroyed"} /\ ring["B"] \in {"raw", "destroyed"}

\* The inductive invariant.
IInv == TypeOK /\ RunsUnjoined /\ ImplFollows /\ RingsFollow

-----------------------------------------------------------------------------
\* main() starts with nothing made.
LEMMA InitIInv == Init => IInv
BY DEF Init, IInv, TypeOK, MainPC, ThreadNames, RunsUnjoined, ImplFollows, RingsFollow, BothReady

\* Each step of main(), start(), stop(), of a thread and of a handler keeps every
\* variable in its type.
LEMMA NextType == TypeOK /\ [Next]_vars => TypeOK'
<1> SUFFICES ASSUME TypeOK, [Next]_vars PROVE TypeOK'
  OBVIOUS
<1> USE DEF TypeOK, MainPC, ThreadNames
<1>1. CASE Setup
  BY <1>1 DEF Setup
<1>2. CASE Start
  <2>1. CASE NewImpl \/ InitA \/ InitB
    <3>1. CASE NewImpl
      BY <3>1 DEF NewImpl
    <3>2. CASE InitA
      BY <3>2 DEF InitA
    <3>3. CASE InitB
      BY <3>3 DEF InitB
    <3> QED
      BY <2>1, <3>1, <3>2, <3>3
  <2>2. CASE CreateUpload \/ CreateInfer \/ CreateRecv
    BY <2>2 DEF CreateUpload, CreateInfer, CreateRecv, Create
  <2>3. CASE FailInfer \/ FailRecv
    BY <2>3 DEF FailInfer, FailRecv
  <2>4. CASE FailRingB \/ FailCleanup
    BY <2>4 DEF FailRingB, FailCleanup, Destroy
  <2> QED
    BY <1>2, <2>1, <2>2, <2>3, <2>4 DEF Start
<1>3. CASE Stop
  BY <1>3 DEF Stop, Join, Cleanup, Destroy
<1>4. CASE SourceEnds \/ RecvReturns \/ InferReturns \/ UploadReturns
  <2>1. CASE SourceEnds
    BY <2>1 DEF SourceEnds
  <2>2. CASE RecvReturns \/ UploadReturns
    BY <2>2 DEF RecvReturns, UploadReturns
  <2>3. CASE InferReturns
    BY <2>3 DEF InferReturns
  <2> QED
    BY <1>4, <2>1, <2>2, <2>3
<1>5. ASSUME NEW s \in Signals, HandlerBegin(s) \/ HandlerShuts(s) PROVE TypeOK'
  <2>1. CASE HandlerBegin(s)
    BY <2>1 DEF HandlerBegin
  <2>2. CASE HandlerShuts(s)
    BY <2>2 DEF HandlerShuts
  <2> QED
    BY <1>5, <2>1, <2>2
<1>6. CASE Finished \/ UNCHANGED vars
  BY <1>6 DEF Finished, vars
<1> QED
  BY <1>1, <1>2, <1>3, <1>4, <1>5, <1>6 DEF Next

\* Each step of main() moves what exists along with its place; the steps of threads and
\* handlers destroy nothing, and a thread that has returned does not run again.
LEMMA NextIInv == IInv /\ [Next]_vars => IInv'
<1> SUFFICES ASSUME IInv, [Next]_vars PROVE IInv'
  OBVIOUS
<1>0. TypeOK'
  BY NextType DEF IInv
<1> USE DEF IInv, TypeOK, MainPC, ThreadNames, RunsUnjoined, ImplFollows, RingsFollow,
      BothReady
<1>1. CASE Setup
  BY <1>0, <1>1 DEF Setup
<1>2. CASE Start
  <2>1. CASE NewImpl \/ InitA \/ InitB \/ FailRingB
    BY <1>0, <2>1 DEF NewImpl, InitA, InitB, FailRingB, Destroy
  <2>2. CASE CreateUpload \/ CreateInfer \/ CreateRecv
    BY <1>0, <2>2 DEF CreateUpload, CreateInfer, CreateRecv, Create
  <2>3. CASE FailInfer \/ FailRecv
    BY <1>0, <2>3 DEF FailInfer, FailRecv
  <2>4. CASE FailCleanup
    BY <1>0, <2>4 DEF FailCleanup, Destroy
  <2> QED
    BY <1>2, <2>1, <2>2, <2>3, <2>4 DEF Start
<1>3. CASE Stop
  <2>1. CASE Stop /\ ~Cleanup
    BY <1>0, <2>1 DEF Stop, Join
  <2>2. CASE Cleanup
    BY <1>0, <2>2 DEF Cleanup, Destroy
  <2> QED
    BY <1>3, <2>1, <2>2
<1>4. CASE SourceEnds \/ RecvReturns \/ InferReturns \/ UploadReturns
  BY <1>0, <1>4 DEF SourceEnds, RecvReturns, InferReturns, UploadReturns
<1>5. ASSUME NEW s \in Signals, HandlerBegin(s) \/ HandlerShuts(s) PROVE IInv'
  BY <1>0, <1>5 DEF HandlerBegin, HandlerShuts
<1>6. CASE Finished \/ UNCHANGED vars
  BY <1>0, <1>6 DEF Finished, vars
<1> QED
  BY <1>1, <1>2, <1>3, <1>4, <1>5, <1>6 DEF Next

\* What exists is at every moment what the place of main() says, however start() fails.
THEOREM Invariance == Spec => []IInv
<1> QED
  BY InitIInv, NextIInv, PTL DEF Spec

-----------------------------------------------------------------------------
\* The variables of main() (start(), stop()), the threads and the handler stay in
\* their types.
THEOREM TypeCorrect == Spec => []TypeOK
<1>1. IInv => TypeOK
  BY DEF IInv
<1> QED
  BY <1>1, Invariance, PTL

\* While any of the three threads runs, neither ring is destroyed and impl_ is not
\* deleted, on any path of start() and stop() and whatever signals are handled.
THEOREM ThreadsSafe == Spec => []RingsOutliveThreads
<1>1. IInv => RingsOutliveThreads
  BY DEF IInv, RunsUnjoined, ImplFollows, RingsFollow, BothReady, ThreadNames,
    RingsOutliveThreads
<1> QED
  BY <1>1, Invariance, PTL

\* However main() ends, no initialised ring is left undestroyed and impl_ is released.
THEOREM NoLeak == Spec => []NothingLeaks
<1>1. IInv => NothingLeaks
  BY DEF IInv, ImplFollows, RingsFollow, NothingLeaks, Exited
<1> QED
  BY <1>1, Invariance, PTL

\* No path of start() and stop() destroys a ring that is not initialised, or one twice:
\* wherever main() is about to destroy a ring, the ring is ready.
THEOREM NoDoubleDestroy == Spec => []DestroyedOnce
<1>1. IInv => DestroyedOnce
  <2> SUFFICES ASSUME IInv PROVE ring["A"] # "broken" /\ ring["B"] # "broken"
    BY DEF DestroyedOnce
  <2>1. main \in MainPC
    BY DEF IInv, TypeOK
  <2> QED
    BY <2>1 DEF IInv, RingsFollow, BothReady, MainPC
<1> QED
  BY <1>1, Invariance, PTL
=============================================================================
