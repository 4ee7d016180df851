------------------------------- MODULE LiveView -------------------------------
(***************************************************************************)
(* From a device to the viewers of its live stream: send_detection() of    *)
(* device/src/grpc_client.cpp, the worker pool and ReportDetection of      *)
(* server/app/grpc_server.py, the Store, and one _mjpeg_generate() of      *)
(* server/app/main.py per viewer.  The device may restart, and numbers its *)
(* frames from 1 again.                                                    *)
(***************************************************************************)
EXTENDS Store, FiniteSets

CONSTANTS
  Viewers,      \* open connections to /api/stream/{edge_id}
  MaxFrames,    \* bound: frames a run of the device sends
  MaxRuns,      \* bound: runs of the device
  Workers,      \* max_workers of the server's ThreadPoolExecutor (4)
  Blank         \* frames whose thumbnail is empty

VARIABLES
  sending,      \* the frame of the device's call in progress, None between calls
  lastSent,     \* the last frame the device has called send_detection for
  late,         \* a request has outlived its call: the 5 s deadline, or a restart
  queued,       \* requests waiting for a worker
  working,      \* requests a worker is handling
  viewer,       \* where each viewer is
  lastFrame,    \* the frame whose number is each viewer's last_frame, None for -1
  arrived       \* a frame has arrived since the viewer called wait_new_frame()

deviceVars == <<sending, lastSent, late>>
serverVars == <<queued, working>>
viewerVars == <<viewer, lastFrame, arrived>>
storeVars == <<latest, event, notified>>
vars == <<deviceVars, serverVars, viewerVars, storeVars>>

Frames == [run : 1 .. MaxRuns, number : 1 .. MaxFrames]

ASSUME BoundsAssumption == MaxFrames \in Nat /\ MaxRuns \in Nat \ {0}
ASSUME BlankAssumption == Blank \subseteq Frames

NextFrame == [lastSent EXCEPT !.number = @ + 1]
ViewerPC == {"call", "clear", "test", "waiting", "gaveUp", "look", "yield", "gone"}

Init ==
  /\ sending = None /\ lastSent = [run |-> 1, number |-> 0] /\ late = FALSE
  /\ queued = {} /\ working = {}
  /\ viewer = [v \in Viewers |-> "call"]
  /\ lastFrame = [v \in Viewers |-> None]
  /\ arrived = [v \in Viewers |-> FALSE]
  /\ EmptyStore(Viewers)

-----------------------------------------------------------------------------
(* Mutated forms of the actions below, see PROJECT.json.                    *)

\* evt.wait() without a timeout; a device that does not wait for the reply; a viewer
\* that remembers the number it expects.
NoTimeout(v) ==
  /\ FALSE
  /\ UNCHANGED vars

DeviceDoesNotWait ==
  /\ lastSent.number < MaxFrames
  /\ sending' = NextFrame
  /\ lastSent' = NextFrame
  /\ queued' = queued \cup {NextFrame}
  /\ UNCHANGED <<late, working, viewerVars, storeVars>>

LookOffByOne(v) ==
  /\ viewer[v] \in {"look", "gaveUp"}
  /\ latest # None
  /\ viewer' = [viewer EXCEPT ![v] = "yield"]
  /\ lastFrame' = [lastFrame EXCEPT ![v] = [latest EXCEPT !.number = @ + 1]]
  /\ UNCHANGED <<deviceVars, serverVars, arrived, storeVars>>

-----------------------------------------------------------------------------
(* The device: one blocking call at a time.                                *)

DeviceSends ==
  /\ sending = None
  /\ lastSent.number < MaxFrames
  /\ sending' = NextFrame
  /\ lastSent' = NextFrame
  /\ queued' = queued \cup {NextFrame}
  /\ UNCHANGED <<late, working, viewerVars, storeVars>>

\* The deadline passes: the device goes on to its next frame, the request is
\* still on its way to a worker or with one.
DeadlinePasses ==
  /\ sending # None
  /\ sending' = None
  /\ late' = TRUE
  /\ UNCHANGED <<lastSent, serverVars, viewerVars, storeVars>>

\* The call fails before the server has seen the request: the frame is gone, the
\* device goes on to the next one.
CallLost ==
  /\ sending \in queued
  /\ sending' = None
  /\ queued' = queued \ {sending}
  /\ UNCHANGED <<lastSent, late, working, viewerVars, storeVars>>

\* gRPC may drop a request whose call has ended before a worker takes it.
RequestDropped(frame) ==
  /\ frame \in queued /\ sending # frame
  /\ queued' = queued \ {frame}
  /\ UNCHANGED <<deviceVars, working, viewerVars, storeVars>>

\* The process ends, in the middle of a call or between two, and a new one starts.
DeviceRestarts ==
  /\ lastSent.run < MaxRuns
  /\ lastSent' = [run |-> lastSent.run + 1, number |-> 0]
  /\ sending' = None
  /\ late' = (late \/ sending # None)
  /\ UNCHANGED <<serverVars, viewerVars, storeVars>>

-----------------------------------------------------------------------------
(* The gRPC server.                                                        *)

WorkerStarts(frame) ==
  /\ frame \in queued
  /\ Cardinality(working) < Workers
  /\ queued' = queued \ {frame}
  /\ working' = working \cup {frame}
  /\ UNCHANGED <<deviceVars, viewerVars, storeVars>>

Waiting == {v \in Viewers : viewer[v] = "waiting"}

\* ReportDetection: update_detection(), then the reply ends the device's call.
ReportDetection(frame) ==
  /\ frame \in working
  /\ UpdateDetection(frame, Waiting)
  /\ working' = working \ {frame}
  /\ sending' = IF sending = frame THEN None ELSE sending
  /\ arrived' = [v \in Viewers |-> TRUE]
  /\ UNCHANGED <<lastSent, late, queued, viewer, lastFrame>>

-----------------------------------------------------------------------------
(* _mjpeg_generate(): wait_new_frame(), get_latest(), yield.               *)

CallWait(v) ==
  /\ viewer[v] = "call"
  /\ GetEvent
  /\ viewer' = [viewer EXCEPT ![v] = "clear"]
  /\ arrived' = [arrived EXCEPT ![v] = FALSE]
  /\ UNCHANGED <<deviceVars, serverVars, lastFrame>>

Clear(v) ==
  /\ viewer[v] = "clear"
  /\ ClearEvent
  /\ viewer' = [viewer EXCEPT ![v] = "test"]
  /\ UNCHANGED <<deviceVars, serverVars, lastFrame, arrived>>

Test(v) ==
  /\ viewer[v] = "test"
  /\ \/ FlagSeen /\ viewer' = [viewer EXCEPT ![v] = "look"]
     \/ BeginWait(v) /\ viewer' = [viewer EXCEPT ![v] = "waiting"]
  /\ UNCHANGED <<deviceVars, serverVars, lastFrame, arrived>>

WaitReturnsTrue(v) ==
  /\ viewer[v] = "waiting"
  /\ Woken(v)
  /\ viewer' = [viewer EXCEPT ![v] = "look"]
  /\ UNCHANGED <<deviceVars, serverVars, lastFrame, arrived>>

\* timeout=1.0; the caller ignores the answer.
WaitReturnsFalse(v) ==
  /\ viewer[v] = "waiting"
  /\ TimedOut(v)
  /\ viewer' = [viewer EXCEPT ![v] = "gaveUp"]
  /\ UNCHANGED <<deviceVars, serverVars, lastFrame, arrived>>

\* Nothing to show, or shown already: wait again.
Look(v) ==
  /\ viewer[v] \in {"look", "gaveUp"}
  /\ IF latest = None \/ latest \in Blank \/ latest.number = lastFrame[v].number
       THEN viewer' = [viewer EXCEPT ![v] = "call"] /\ UNCHANGED lastFrame
       ELSE /\ viewer' = [viewer EXCEPT ![v] = "yield"]
            /\ lastFrame' = [lastFrame EXCEPT ![v] = latest]
  /\ UNCHANGED <<deviceVars, serverVars, arrived, storeVars>>

Yielded(v) ==
  /\ viewer[v] = "yield"
  /\ viewer' = [viewer EXCEPT ![v] = "call"]
  /\ UNCHANGED <<deviceVars, serverVars, lastFrame, arrived, storeVars>>

\* The browser has left: seen only where the generator yields.
Leave(v) ==
  /\ viewer[v] = "yield"
  /\ viewer' = [viewer EXCEPT ![v] = "gone"]
  /\ UNCHANGED <<deviceVars, serverVars, lastFrame, arrived, storeVars>>

ViewerStep(v) ==
  \/ CallWait(v) \/ Clear(v) \/ Test(v)
  \/ WaitReturnsTrue(v) \/ WaitReturnsFalse(v)
  \/ Look(v) \/ Yielded(v)

-----------------------------------------------------------------------------
\* Every viewer has left and the device has sent its frames.
Quiet ==
  /\ \A v \in Viewers : viewer[v] = "gone"
  /\ lastSent = [run |-> MaxRuns, number |-> MaxFrames] /\ queued = {} /\ working = {}
  /\ UNCHANGED vars

Next ==
  \/ DeviceSends \/ DeadlinePasses \/ CallLost \/ DeviceRestarts
  \/ \E f \in Frames : RequestDropped(f) \/ WorkerStarts(f) \/ ReportDetection(f)
  \/ \E v \in Viewers : ViewerStep(v) \/ Leave(v)
  \/ Quiet

Spec == Init /\ [][Next]_vars

\* Workers and viewers are scheduled, a wait times out.  The device may stop
\* sending, a deadline need not pass, a browser need not leave.
Fairness ==
  /\ \A f \in Frames : WF_vars(WorkerStarts(f)) /\ WF_vars(ReportDetection(f))
  /\ \A v \in Viewers : WF_vars(ViewerStep(v))

FairSpec == Spec /\ Fairness

-----------------------------------------------------------------------------
(* Properties. *)

TypeOK ==
  /\ latest \in Frames \cup {None} /\ event \in {"absent", "clear", "set"}
  /\ notified \in [Viewers -> BOOLEAN]
  /\ sending \in Frames \cup {None} /\ late \in BOOLEAN
  /\ lastSent \in [run : 1 .. MaxRuns, number : 0 .. MaxFrames]
  /\ queued \subseteq Frames /\ working \subseteq Frames
  /\ viewer \in [Viewers -> ViewerPC]
  /\ lastFrame \in [Viewers -> Frames \cup {None}]
  /\ arrived \in [Viewers -> BOOLEAN]

Newer(f, g) == f.run > g.run \/ (f.run = g.run /\ f.number > g.number)

\* As long as no request outlives its call, each frame a viewer is shown is newer
\* than the one before, although several workers update the store, the events are
\* shared by all viewers and a restarted device numbers its frames from 1.
YieldsNewer ==
  [][\A v \in Viewers : ~late /\ viewer[v] # "yield" /\ viewer'[v] = "yield" =>
       Newer(lastFrame'[v], lastFrame[v])]_vars

\* When the device falls silent, what the viewer sees is the newest frame the store
\* has, lost wake-ups or not: the timeout makes up for them.  After a restart it may
\* also be the earlier run's frame of the same number: that is all the viewer
\* compares (main.py:65).
NewestShown ==
  \A v \in Viewers :
    \/ []<>(\/ latest \in Blank \cup {None} \/ lastFrame[v].number = latest.number
           \/ viewer[v] = "gone")
    \/ []<><<latest' # latest>>_vars

\* "Block until a new frame arrives for edge_id, or timeout" (state.py:43): a
\* wait that times out has seen no frame arrive during the call.
TimeoutMeansNothingCame ==
  \A v \in Viewers : viewer[v] = "gaveUp" => ~arrived[v]

\* "edge_id -> latest result" (state.py:21): the store's entry is never replaced
\* by an older frame.
LatestStaysLatest == [][latest' = latest \/ Newer(latest', latest)]_vars
=============================================================================
