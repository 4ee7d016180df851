------------------------------- MODULE Lifecycle -------------------------------
(***************************************************************************)
(* The life of a device process: main() of device/src/main.cpp, start(),   *)
(* stop() and request_shutdown() of device/src/pipeline.cpp (level 4; the  *)
(* levels 2 and 3 do the same with their own queues), with every           *)
(* initialisation that can fail and the signal handler, from the moment    *)
(* main() has installed it.                                                *)
(*                                                                         *)
(* Of the threads only what start() and stop() rely on is kept: when they  *)
(* may return and what they shut down as they do (module Pipeline).        *)
(***************************************************************************)
EXTENDS Integers

CONSTANTS
  Signals       \* deliveries of SIGINT / SIGTERM

ThreadNames == {"recv", "infer", "upload"}

VARIABLES
  main,         \* where main() is, in start() and stop() too
  published,    \* g_pipeline # nullptr
  impl,         \* impl_: "null", "live", "dangling" (deleted, not yet null)
  ring,         \* per ring: "raw", "ready", "destroyed"; "broken": see Destroy
  shut,         \* per ring: shutdown_
  thread,       \* per thread: "none", "running", "returned"
  handler       \* per signal: "idle", "begun", "shutA", "shutB", "done"

vars == <<main, published, impl, ring, shut, thread, handler>>

MainPC ==
  {"setup", "newImpl", "initA", "initB",
   "createUpload", "createInfer", "createRecv",
   "failRingB", "failInferShutB", "failInferJoin",
   "failRecvShutA", "failRecvShutB", "failRecvJoinInfer", "failRecvJoinUpload",
   "failDestroyA", "failDestroyB", "failDelete", "failNull",
   "joinRecv", "joinInfer", "joinUpload",
   "destroyA", "destroyB", "delete", "null", "unpublish", "exit0", "exit1"}

Exited == main \in {"exit0", "exit1"}

Init ==
  /\ main = "setup"
  /\ published = FALSE
  /\ impl = "null"
  /\ ring = [r \in {"A", "B"} |-> "raw"]
  /\ shut = [r \in {"A", "B"} |-> FALSE]
  /\ thread = [t \in ThreadNames |-> "none"]
  /\ handler = [s \in Signals |-> "idle"]

\* RingBuffer::destroy(): sem_destroy and pthread_mutex_destroy are undefined on what
\* is not initialised, or has been destroyed; a ring they were called on so stays
\* "broken".
Destroy(r) ==
  ring' = [ring EXCEPT ![r] = IF @ = "ready" THEN "destroyed" ELSE "broken"]

-----------------------------------------------------------------------------
(* Mutated forms of the actions below, see PROJECT.json.                    *)

\* Ring A is not shut down before infer is joined.
FailRecvNoShutA ==
  /\ \/ main = "failRecvShutA" /\ main' = "failRecvShutB"
        /\ UNCHANGED shut
     \/ main = "failRecvShutB" /\ main' = "failRecvJoinInfer"
        /\ shut' = [shut EXCEPT !["B"] = TRUE]
     \/ main = "failRecvJoinInfer" /\ thread["infer"] = "returned"
        /\ main' = "failRecvJoinUpload" /\ UNCHANGED shut
     \/ main = "failRecvJoinUpload" /\ thread["upload"] = "returned"
        /\ main' = "failDestroyA" /\ UNCHANGED shut
  /\ UNCHANGED <<published, impl, ring, thread, handler>>

\* upload is not joined before the rings are destroyed.
FailInferNoJoin ==
  /\ main = "failInferShutB" /\ main' = "failDestroyA"
  /\ shut' = [shut EXCEPT !["B"] = TRUE]
  /\ UNCHANGED <<published, impl, ring, thread, handler>>

\* Ring A is not destroyed when ring B fails.
InitBLeaks ==
  /\ main = "initB"
  /\ \/ /\ main' = "createUpload"
        /\ ring' = [ring EXCEPT !["B"] = "ready"]
        /\ shut' = [shut EXCEPT !["B"] = FALSE]
     \/ main' = "failDelete" /\ UNCHANGED <<ring, shut>>
  /\ UNCHANGED <<published, impl, thread, handler>>

\* An error path of init() that leaves what it has created.
InitAHalfDone ==
  /\ main = "initA"
  /\ \/ /\ main' = "initB"
        /\ ring' = [ring EXCEPT !["A"] = "ready"]
        /\ shut' = [shut EXCEPT !["A"] = FALSE]
     \/ main' = "failDelete" /\ ring' = [ring EXCEPT !["A"] = "halfDone"] /\ UNCHANGED shut
  /\ UNCHANGED <<published, impl, thread, handler>>

\* Ring A is destroyed, and once more in the clean-up of the other error paths.
FailRingBTwice ==
  /\ main = "failRingB"
  /\ Destroy("A")
  /\ main' = "failDestroyA"
  /\ UNCHANGED <<published, impl, shut, thread, handler>>

\* infer_loop leaves without ring_b.shutdown().
InferReturnsSilently ==
  /\ thread["infer"] = "running" /\ (shut["A"] \/ shut["B"])
  /\ thread' = [thread EXCEPT !["infer"] = "returned"]
  /\ UNCHANGED <<main, published, impl, ring, shut, handler>>

-----------------------------------------------------------------------------
(* main() up to start() *)

\* Labels, frame source, model, gRPC channel: the source or the model may fail.
Setup ==
  /\ main = "setup"
  /\ \/ main' = "newImpl" /\ published' = TRUE
     \/ main' = "exit1" /\ UNCHANGED published
  /\ UNCHANGED <<impl, ring, shut, thread, handler>>

-----------------------------------------------------------------------------
(* start() *)

NewImpl ==
  /\ main = "newImpl"
  /\ impl' = "live"
  /\ main' = "initA"
  /\ UNCHANGED <<published, ring, shut, thread, handler>>

\* ring_a.init() ends with shutdown_ = false.
InitA ==
  /\ main = "initA"
  /\ \/ /\ main' = "initB"
        /\ ring' = [ring EXCEPT !["A"] = "ready"]
        /\ shut' = [shut EXCEPT !["A"] = FALSE]
     \/ main' = "failDelete" /\ UNCHANGED <<ring, shut>>
  /\ UNCHANGED <<published, impl, thread, handler>>

InitB ==
  /\ main = "initB"
  /\ \/ /\ main' = "createUpload"
        /\ ring' = [ring EXCEPT !["B"] = "ready"]
        /\ shut' = [shut EXCEPT !["B"] = FALSE]
     \/ main' = "failRingB" /\ UNCHANGED <<ring, shut>>
  /\ UNCHANGED <<published, impl, thread, handler>>

\* ring_b.init() failed: destroy ring A, delete impl_.
FailRingB ==
  /\ main = "failRingB"
  /\ Destroy("A")
  /\ main' = "failDelete"
  /\ UNCHANGED <<published, impl, shut, thread, handler>>

\* Consumers first, then the producer.
Create(t, from, ok, failed) ==
  /\ main = from
  /\ \/ main' = ok /\ thread' = [thread EXCEPT ![t] = "running"]
     \/ main' = failed /\ UNCHANGED thread
  /\ UNCHANGED <<published, impl, ring, shut, handler>>

CreateUpload == Create("upload", "createUpload", "createInfer", "failDestroyA")
CreateInfer == Create("infer", "createInfer", "createRecv", "failInferShutB")
CreateRecv == Create("recv", "createRecv", "joinRecv", "failRecvShutA")

\* pthread_create(infer) failed: shut ring B down and join upload.
FailInfer ==
  /\ \/ main = "failInferShutB" /\ main' = "failInferJoin"
        /\ shut' = [shut EXCEPT !["B"] = TRUE]
     \/ main = "failInferJoin" /\ thread["upload"] = "returned"
        /\ main' = "failDestroyA" /\ UNCHANGED shut
  /\ UNCHANGED <<published, impl, ring, thread, handler>>

\* pthread_create(recv) failed: shut both rings down, join infer and upload.
FailRecv ==
  /\ \/ main = "failRecvShutA" /\ main' = "failRecvShutB"
        /\ shut' = [shut EXCEPT !["A"] = TRUE]
     \/ main = "failRecvShutB" /\ main' = "failRecvJoinInfer"
        /\ shut' = [shut EXCEPT !["B"] = TRUE]
     \/ main = "failRecvJoinInfer" /\ thread["infer"] = "returned"
        /\ main' = "failRecvJoinUpload" /\ UNCHANGED shut
     \/ main = "failRecvJoinUpload" /\ thread["upload"] = "returned"
        /\ main' = "failDestroyA" /\ UNCHANGED shut
  /\ UNCHANGED <<published, impl, ring, thread, handler>>

\* Both rings destroyed, impl_ deleted and cleared, -1: main() returns 1.
FailCleanup ==
  /\ \/ main = "failDestroyA" /\ main' = "failDestroyB"
        /\ Destroy("A") /\ UNCHANGED impl
     \/ main = "failDestroyB" /\ main' = "failDelete"
        /\ Destroy("B") /\ UNCHANGED impl
     \/ main = "failDelete" /\ main' = "failNull"
        /\ impl' = "dangling" /\ UNCHANGED ring
     \/ main = "failNull" /\ main' = "exit1"
        /\ impl' = "null" /\ UNCHANGED ring
  /\ UNCHANGED <<published, shut, thread, handler>>

Start ==
  \/ NewImpl \/ InitA \/ InitB \/ FailRingB
  \/ CreateUpload \/ CreateInfer \/ CreateRecv
  \/ FailInfer \/ FailRecv \/ FailCleanup

-----------------------------------------------------------------------------
(* stop() and the rest of main() *)

Join(t, from, to) ==
  /\ main = from
  /\ thread[t] = "returned"
  /\ main' = to
  /\ UNCHANGED <<published, impl, ring, shut, thread, handler>>

Cleanup ==
  /\ \/ main = "destroyA" /\ main' = "destroyB"
        /\ Destroy("A") /\ UNCHANGED <<impl, published>>
     \/ main = "destroyB" /\ main' = "delete"
        /\ Destroy("B") /\ UNCHANGED <<impl, published>>
     \/ main = "delete" /\ main' = "null"
        /\ impl' = "dangling" /\ UNCHANGED <<ring, published>>
     \/ main = "null" /\ main' = "unpublish"
        /\ impl' = "null" /\ UNCHANGED <<ring, published>>
     \/ main = "unpublish" /\ main' = "exit0"
        /\ published' = FALSE /\ UNCHANGED <<ring, impl>>
  /\ UNCHANGED <<shut, thread, handler>>

Stop ==
  \/ Join("recv", "joinRecv", "joinInfer")
  \/ Join("infer", "joinInfer", "joinUpload")
  \/ Join("upload", "joinUpload", "destroyA")
  \/ Cleanup

-----------------------------------------------------------------------------
(* The threads.                                                            *)

\* The source ends: recv_loop shuts ring A down.
SourceEnds ==
  /\ thread["recv"] = "running"
  /\ shut' = [shut EXCEPT !["A"] = TRUE]
  /\ UNCHANGED <<main, published, impl, ring, thread, handler>>

RecvReturns ==
  /\ thread["recv"] = "running" /\ shut["A"]
  /\ thread' = [thread EXCEPT !["recv"] = "returned"]
  /\ UNCHANGED <<main, published, impl, ring, shut, handler>>

\* infer_loop leaves on either ring and shuts ring B down.
InferReturns ==
  /\ thread["infer"] = "running" /\ (shut["A"] \/ shut["B"])
  /\ thread' = [thread EXCEPT !["infer"] = "returned"]
  /\ shut' = [shut EXCEPT !["B"] = TRUE]
  /\ UNCHANGED <<main, published, impl, ring, handler>>

UploadReturns ==
  /\ thread["upload"] = "running" /\ shut["B"]
  /\ thread' = [thread EXCEPT !["upload"] = "returned"]
  /\ UNCHANGED <<main, published, impl, ring, shut, handler>>

-----------------------------------------------------------------------------
(* sig_handler *)

\* g_pipeline and impl_ are tested once, when the handler begins.
HandlerBegin(s) ==
  /\ handler[s] = "idle" /\ ~Exited
  /\ handler' = [handler EXCEPT ![s] = IF published /\ impl # "null" THEN "begun" ELSE "done"]
  /\ UNCHANGED <<main, published, impl, ring, shut, thread>>

\* ring_a.shutdown(); ring_b.shutdown();
HandlerShuts(s) ==
  /\ \/ handler[s] = "begun" /\ shut' = [shut EXCEPT !["A"] = TRUE]
        /\ handler' = [handler EXCEPT ![s] = "shutA"]
     \/ handler[s] = "shutA" /\ shut' = [shut EXCEPT !["B"] = TRUE]
        /\ handler' = [handler EXCEPT ![s] = "done"]
  /\ UNCHANGED <<main, published, impl, ring, thread>>

-----------------------------------------------------------------------------
Finished == Exited /\ UNCHANGED vars

Next ==
  \/ Setup \/ Start \/ Stop
  \/ SourceEnds \/ RecvReturns \/ InferReturns \/ UploadReturns
  \/ \E s \in Signals : HandlerBegin(s) \/ HandlerShuts(s)
  \/ Finished

Spec == Init /\ [][Next]_vars

\* main() and the handler are scheduled.  A thread whose ring is shut down
\* returns: that is ShutdownJoins of module Pipeline (infer: once ring A is shut
\* down).  The source never has to end, no signal has to come.
Fairness ==
  /\ WF_vars(Setup \/ Start \/ Stop)
  /\ WF_vars(RecvReturns)
  /\ WF_vars(InferReturns /\ shut["A"])
  /\ WF_vars(UploadReturns)
  /\ \A s \in Signals : WF_vars(HandlerShuts(s))

FairSpec == Spec /\ Fairness

-----------------------------------------------------------------------------
(* Properties. *)

TypeOK ==
  /\ main \in MainPC
  /\ published \in BOOLEAN
  /\ impl \in {"null", "live", "dangling"}
  /\ ring \in [{"A", "B"} -> {"raw", "ready", "destroyed", "broken"}]
  /\ shut \in [{"A", "B"} -> BOOLEAN]
  /\ thread \in [ThreadNames -> {"none", "running", "returned"}]
  /\ handler \in [Signals -> {"idle", "begun", "shutA", "done"}]

\* While a thread runs, the rings it works on and impl_ are there: start() joins
\* what it has started before it destroys anything, on each of its error paths.
RingsOutliveThreads ==
  (\E t \in ThreadNames : thread[t] = "running") =>
    impl = "live" /\ ring["A"] = "ready" /\ ring["B"] = "ready"

\* Whichever way the process ends, what was initialised has been destroyed and
\* impl_ released.
NothingLeaks ==
  Exited => impl = "null" /\ \A r \in {"A", "B"} : ring[r] # "ready"

\* Neither ring is ever destroyed twice, or without having been initialised: each
\* error path of start() destroys what the path to it has made, once, and stop() does
\* not follow a start() that failed.
DestroyedOnce == \A r \in {"A", "B"} : ring[r] # "broken"

\* A shutdown of ring A made after ring A is initialised ends the process,
\* whatever start() is doing and whichever of its steps fail.
ShutdownExits == (ring["A"] = "ready" /\ shut["A"]) ~> Exited

\* A start() that cannot create a thread returns: the threads it did create are
\* woken and joined.
FailedStartExits == (main \in {"failInferShutB", "failRecvShutA"}) ~> Exited

\* "Shutdown: `Ctrl-C`" (RUNBOOK.md:157): a signal handled by sig_handler ends
\* the process.
SignalExits == \A s \in Signals : (handler[s] # "idle") ~> Exited
=============================================================================
