----------------------------- MODULE LiveViewProofs -----------------------------
(***************************************************************************)
(* Proofs about LiveView, for any number of viewers, workers, frames and   *)
(* restarts.                                                               *)
(*                                                                         *)
(* As long as no request has outlived its call, the device's one call at a *)
(* time is all that keeps the workers from overtaking each other: there is *)
(* one request at most, newer than what the store has, and the store is at *)
(* least as new as what a viewer has been shown.                           *)
(***************************************************************************)
EXTENDS LiveView, TLAPS

\* g is not older than f.
AtMost(f, g) == f = g \/ Newer(g, f)

\* The only request is that of the call in progress: it waits for a worker or is with
\* one.
OneRequest ==
  /\ queued \cap working = {}
  /\ queued \cup working \subseteq {sending} \ {None}
  /\ sending # None => sending = lastSent

\* The store has nothing the device has not sent, and not yet what is being sent.
StoreBehind ==
  /\ AtMost(latest, lastSent)
  /\ sending # None => Newer(lastSent, latest)

ViewersBehind == \A v \in Viewers : AtMost(lastFrame[v], latest)

\* The inductive invariant.
IInv ==
  /\ TypeOK
  /\ ~late => OneRequest /\ StoreBehind /\ ViewersBehind

-----------------------------------------------------------------------------
(* Frames.                                                                 *)

\* A frame has a run and a number, and None has smaller ones.
LEMMA FrameFacts ==
  ASSUME NEW f \in Frames \cup {None}
  PROVE  f.run \in Nat /\ f.number \in Nat
BY BoundsAssumption DEF Frames, None

\* None is no frame: frames are numbered from 1.
LEMMA NoneIsNoFrame == None \notin Frames
BY BoundsAssumption DEF Frames, None

\* What the device sends next is a frame, newer than what it has sent last.
LEMMA NextFrameFacts ==
  ASSUME lastSent \in [run : 1 .. MaxRuns, number : 0 .. MaxFrames],
         lastSent.number < MaxFrames
  PROVE  /\ NextFrame \in Frames
         /\ NextFrame \in [run : 1 .. MaxRuns, number : 0 .. MaxFrames]
         /\ Newer(NextFrame, lastSent)
BY BoundsAssumption DEF NextFrame, Frames, Newer

\* Newer is transitive.
LEMMA NewerTransitive ==
  ASSUME NEW f, NEW g, NEW h,
         f.run \in Nat, g.run \in Nat, h.run \in Nat,
         f.number \in Nat, g.number \in Nat, h.number \in Nat,
         Newer(f, g), AtMost(h, g)
  PROVE  Newer(f, h)
BY DEF Newer, AtMost

-----------------------------------------------------------------------------
(* Types.                                                                  *)

\* Everything starts empty.
LEMMA InitType == Init => TypeOK
<1> SUFFICES ASSUME Init PROVE TypeOK
  OBVIOUS
<1>1. lastSent \in [run : 1 .. MaxRuns, number : 0 .. MaxFrames]
  BY BoundsAssumption DEF Init
<1>2. latest = None /\ event = "absent" /\ notified = [v \in Viewers |-> FALSE]
  BY DEF Init, EmptyStore
<1> QED
  BY <1>1, <1>2 DEF Init, TypeOK, ViewerPC

\* A step of a viewer touches its own state and the event.
LEMMA ViewerType ==
  ASSUME TypeOK, NEW v \in Viewers, ViewerStep(v) \/ Leave(v)
  PROVE  /\ TypeOK'
         /\ UNCHANGED <<sending, lastSent, late, queued, working, latest>>
<1> USE DEF TypeOK, ViewerPC, deviceVars, serverVars
<1>1. CASE CallWait(v)
  BY <1>1 DEF CallWait, GetEvent
<1>2. CASE Clear(v)
  BY <1>2 DEF Clear, ClearEvent
<1>3. CASE Test(v)
  BY <1>3 DEF Test, FlagSeen, BeginWait
<1>4. CASE WaitReturnsTrue(v) \/ WaitReturnsFalse(v)
  BY <1>4 DEF WaitReturnsTrue, WaitReturnsFalse, Woken, TimedOut
<1>5. CASE Look(v)
  BY <1>5 DEF Look, storeVars
<1>6. CASE Yielded(v) \/ Leave(v)
  BY <1>6 DEF Yielded, Leave, storeVars
<1> QED
  BY <1>1, <1>2, <1>3, <1>4, <1>5, <1>6 DEF ViewerStep

\* No step takes a variable out of its type.
LEMMA NextType == TypeOK /\ [Next]_vars => TypeOK'
<1> SUFFICES ASSUME TypeOK, [Next]_vars PROVE TypeOK'
  OBVIOUS
<1> USE DEF TypeOK
<1>1. CASE DeviceSends
  BY <1>1, NextFrameFacts DEF DeviceSends, viewerVars, storeVars
<1>2. CASE DeadlinePasses \/ CallLost
  BY <1>2 DEF DeadlinePasses, CallLost, serverVars, viewerVars, storeVars
<1>3. CASE DeviceRestarts
  <2>1. [run |-> lastSent.run + 1, number |-> 0]
          \in [run : 1 .. MaxRuns, number : 0 .. MaxFrames]
    BY <1>3, BoundsAssumption DEF DeviceRestarts
  <2> QED
    BY <1>3, <2>1 DEF DeviceRestarts, serverVars, viewerVars, storeVars
<1>4. ASSUME NEW f \in Frames, RequestDropped(f) PROVE TypeOK'
  BY <1>4 DEF RequestDropped, deviceVars, viewerVars, storeVars
<1>5. ASSUME NEW f \in Frames, WorkerStarts(f) PROVE TypeOK'
  BY <1>5 DEF WorkerStarts, deviceVars, viewerVars, storeVars
<1>6. ASSUME NEW f \in Frames, ReportDetection(f) PROVE TypeOK'
  BY <1>6 DEF ReportDetection, UpdateDetection
<1>7. ASSUME NEW v \in Viewers, ViewerStep(v) \/ Leave(v) PROVE TypeOK'
  BY <1>7, ViewerType
<1>8. CASE Quiet \/ UNCHANGED vars
  BY <1>8 DEF Quiet, vars, deviceVars, serverVars, viewerVars, storeVars
<1> QED
  BY <1>1, <1>2, <1>3, <1>4, <1>5, <1>6, <1>7, <1>8 DEF Next

\* Every variable of the device, the server and the viewers stays in its type.
THEOREM TypeCorrect == Spec => []TypeOK
<1> QED
  BY InitType, NextType, PTL DEF Spec

-----------------------------------------------------------------------------
(* Order.                                                                  *)

\* While no request is late, a worker that updates the store replaces its frame by a
\* newer one, and ends the call.
LEMMA ReportIsNewer ==
  ASSUME IInv, ~late, NEW f \in Frames, ReportDetection(f)
  PROVE  /\ f = lastSent /\ latest' = f /\ Newer(f, latest)
         /\ sending' = None /\ queued' = {} /\ working' = {}
         /\ UNCHANGED <<lastSent, late, lastFrame>>
<1>1. f \in working /\ f = sending /\ f = lastSent /\ Newer(f, latest) /\ f \notin queued
  BY DEF ReportDetection, IInv, OneRequest, StoreBehind
<1>2. queued = {} /\ working \ {f} = {}
  BY <1>1 DEF IInv, OneRequest
<1> QED
  BY <1>1, <1>2 DEF ReportDetection, UpdateDetection

\* What a viewer yields is newer than what it has yielded before.
LEMMA LookIsNewer ==
  ASSUME IInv, ~late, NEW v \in Viewers, Look(v), viewer'[v] = "yield"
  PROVE  /\ lastFrame' = [lastFrame EXCEPT ![v] = latest]
         /\ Newer(latest, lastFrame[v])
<1>1. viewer \in [Viewers -> ViewerPC] /\ AtMost(lastFrame[v], latest)
  BY DEF IInv, TypeOK, ViewersBehind
<1>2. /\ latest.number # lastFrame[v].number
      /\ lastFrame' = [lastFrame EXCEPT ![v] = latest]
  BY <1>1 DEF Look
<1> QED
  BY <1>1, <1>2 DEF AtMost

\* A step keeps the order of device, store and viewers, or makes a request late.
LEMMA NextIInv == IInv /\ [Next]_vars => IInv'
<1> SUFFICES ASSUME IInv, [Next]_vars, ~late'
             PROVE  OneRequest' /\ StoreBehind' /\ ViewersBehind'
  BY NextType DEF IInv
<1>0. /\ TypeOK /\ lastSent \in [run : 1 .. MaxRuns, number : 0 .. MaxFrames]
      /\ lastSent.run \in Nat /\ lastSent.number \in Nat
      /\ latest.run \in Nat /\ latest.number \in Nat
      /\ lastFrame \in [Viewers -> Frames \cup {None}]
      /\ \A v \in Viewers : lastFrame[v].run \in Nat /\ lastFrame[v].number \in Nat
  BY FrameFacts DEF IInv, TypeOK
<1>1. CASE DeviceSends
  <2>1. ~late
    BY <1>1 DEF DeviceSends
  <2>2. /\ sending = None /\ sending' = NextFrame /\ lastSent' = NextFrame
        /\ NextFrame \in Frames /\ NextFrame # None /\ Newer(NextFrame, lastSent)
        /\ NextFrame.run \in Nat /\ NextFrame.number \in Nat
        /\ UNCHANGED <<latest, lastFrame>>
    BY <1>0, <1>1, NextFrameFacts, NoneIsNoFrame, FrameFacts
    DEF DeviceSends, viewerVars, storeVars
  <2>3. queued = {} /\ working = {} /\ AtMost(latest, lastSent) /\ ViewersBehind
    BY <2>1, <2>2 DEF IInv, OneRequest, StoreBehind
  <2>4. queued' = {NextFrame} /\ working' = {}
    BY <1>1, <2>3 DEF DeviceSends
  <2>5. Newer(NextFrame, latest)
    BY <1>0, <2>2, <2>3, NewerTransitive
  <2> QED
    BY <2>2, <2>3, <2>4, <2>5 DEF OneRequest, StoreBehind, ViewersBehind, AtMost
<1>2. CASE CallLost
  <2>1. /\ ~late /\ sending' = None /\ queued' = queued \ {sending}
        /\ UNCHANGED <<lastSent, working, latest, lastFrame>>
    BY <1>2 DEF CallLost, viewerVars, storeVars
  <2>2. OneRequest /\ StoreBehind /\ ViewersBehind /\ sending \in queued
    BY <1>2, <2>1 DEF IInv, CallLost
  <2>3. queued' = {} /\ working' = {}
    BY <2>1, <2>2 DEF OneRequest
  <2> QED
    BY <2>1, <2>2, <2>3 DEF OneRequest, StoreBehind, ViewersBehind
<1>3. CASE DeviceRestarts
  <2>1. /\ ~late /\ sending = None /\ sending' = None
        /\ lastSent' = [run |-> lastSent.run + 1, number |-> 0]
        /\ UNCHANGED <<queued, working, latest, lastFrame>>
    BY <1>0, <1>3 DEF DeviceRestarts, serverVars, viewerVars, storeVars, TypeOK
  <2>2. OneRequest /\ StoreBehind /\ ViewersBehind
    BY <2>1 DEF IInv
  <2>3. Newer(lastSent', lastSent) /\ lastSent'.run \in Nat /\ lastSent'.number \in Nat
    BY <1>0, <2>1 DEF Newer
  <2>4. Newer(lastSent', latest)
    BY <1>0, <2>2, <2>3, NewerTransitive DEF StoreBehind
  <2> QED
    BY <2>1, <2>2, <2>4 DEF OneRequest, StoreBehind, ViewersBehind, AtMost
<1>4. ASSUME NEW f \in Frames, RequestDropped(f) \/ WorkerStarts(f)
      PROVE  OneRequest' /\ StoreBehind' /\ ViewersBehind'
  <2>1. /\ ~late /\ UNCHANGED <<sending, lastSent, latest, lastFrame>>
        /\ \/ queued' = queued \ {f} /\ working' = working
           \/ f \in queued /\ queued' = queued \ {f} /\ working' = working \cup {f}
    BY <1>4 DEF RequestDropped, WorkerStarts, deviceVars, viewerVars, storeVars
  <2>2. OneRequest /\ StoreBehind /\ ViewersBehind
    BY <2>1 DEF IInv
  <2> QED
    BY <2>1, <2>2 DEF OneRequest, StoreBehind, ViewersBehind
<1>5. ASSUME NEW f \in Frames, ReportDetection(f)
      PROVE  OneRequest' /\ StoreBehind' /\ ViewersBehind'
  <2>1. ~late
    BY <1>5 DEF ReportDetection
  <2>2. /\ f = lastSent /\ latest' = f /\ Newer(f, latest)
        /\ sending' = None /\ queued' = {} /\ working' = {}
        /\ UNCHANGED <<lastSent, lastFrame>>
    BY <1>5, <2>1, ReportIsNewer
  <2>3. ViewersBehind
    BY <2>1 DEF IInv
  <2>4. ASSUME NEW v \in Viewers PROVE Newer(f, lastFrame[v])
    BY <1>0, <2>2, <2>3, NewerTransitive DEF ViewersBehind
  <2> QED
    BY <2>2, <2>4 DEF OneRequest, StoreBehind, ViewersBehind, AtMost
<1>6. ASSUME NEW v \in Viewers, ViewerStep(v) \/ Leave(v)
      PROVE  OneRequest' /\ StoreBehind' /\ ViewersBehind'
  <2>1. ~late /\ UNCHANGED <<sending, lastSent, queued, working, latest>>
    BY <1>0, <1>6, ViewerType
  <2>2. OneRequest /\ StoreBehind /\ ViewersBehind
    BY <2>1 DEF IInv
  <2>3. lastFrame' = lastFrame \/ lastFrame' = [lastFrame EXCEPT ![v] = latest]
    BY <1>6 DEF ViewerStep, CallWait, Clear, Test, WaitReturnsTrue, WaitReturnsFalse,
      Look, Yielded, Leave
  <2>4. ViewersBehind'
    BY <1>0, <2>1, <2>2, <2>3 DEF ViewersBehind, AtMost
  <2> QED
    BY <2>1, <2>2, <2>4 DEF OneRequest, StoreBehind
<1>7. CASE Quiet \/ UNCHANGED vars
  BY <1>7 DEF Quiet, vars, deviceVars, serverVars, viewerVars, storeVars, IInv,
    OneRequest, StoreBehind, ViewersBehind
<1>8. ~DeadlinePasses
  BY DEF DeadlinePasses
<1> QED
  BY <1>1, <1>2, <1>3, <1>4, <1>5, <1>6, <1>7, <1>8 DEF Next

\* Nothing has been sent, stored or shown.
LEMMA InitIInv == Init => IInv
<1> SUFFICES ASSUME Init PROVE OneRequest /\ StoreBehind /\ ViewersBehind
  BY InitType DEF IInv
<1>1. OneRequest
  BY DEF Init, OneRequest
<1>2. StoreBehind
  BY DEF Init, EmptyStore, StoreBehind, AtMost, Newer, None
<1>3. ViewersBehind
  BY DEF Init, EmptyStore, ViewersBehind, AtMost
<1> QED
  BY <1>1, <1>2, <1>3

\* Device, store and viewers are in order as long as no request has outlived its call.
THEOREM Invariance == Spec => []IInv
<1> QED
  BY InitIInv, NextIInv, PTL DEF Spec

-----------------------------------------------------------------------------
\* Each frame a viewer is shown is newer than the one before, until a request has
\* outlived its call: however the workers, the shared event and the other viewers'
\* generators interleave, and across restarts of the device.
THEOREM ShownInOrder == Spec => YieldsNewer
<1>1. ASSUME IInv, [Next]_vars, NEW v \in Viewers,
             ~late, viewer[v] # "yield", viewer'[v] = "yield"
      PROVE  Newer(lastFrame'[v], lastFrame[v])
  <2>0. viewer \in [Viewers -> ViewerPC] /\ lastFrame \in [Viewers -> Frames \cup {None}]
    BY <1>1 DEF IInv, TypeOK
  <2>1. Look(v)
    BY <1>1, <2>0 DEF Next, DeviceSends, DeadlinePasses, CallLost, DeviceRestarts,
      RequestDropped, WorkerStarts, ReportDetection, ViewerStep, CallWait, Clear, Test,
      WaitReturnsTrue, WaitReturnsFalse, Look, Yielded, Leave, Quiet, vars, viewerVars
  <2> QED
    BY <1>1, <2>0, <2>1, LookIsNewer
<1>2. IInv /\ [Next]_vars =>
        [\A v \in Viewers : ~late /\ viewer[v] # "yield" /\ viewer'[v] = "yield" =>
           Newer(lastFrame'[v], lastFrame[v])]_vars
  BY <1>1
<1> QED
  BY <1>2, Invariance, PTL DEF Spec, YieldsNewer

\* "edge_id -> latest result" (state.py:21) is true of the store until a request has
\* outlived its call: only then can an older frame replace a newer one.
THEOREM LatestUntilLate ==
  Spec => [][late \/ latest' = latest \/ Newer(latest', latest)]_vars
<1>1. ASSUME IInv, [Next]_vars, ~late PROVE latest' = latest \/ Newer(latest', latest)
  <2>1. ASSUME NEW f \in Frames, ReportDetection(f) PROVE Newer(latest', latest)
    BY <1>1, <2>1, ReportIsNewer
  <2>2. ASSUME NEW v \in Viewers, ViewerStep(v) \/ Leave(v) PROVE latest' = latest
    BY <1>1, <2>2, ViewerType DEF IInv
  <2> QED
    BY <1>1, <2>1, <2>2 DEF Next, DeviceSends, DeadlinePasses, CallLost, DeviceRestarts,
      RequestDropped, WorkerStarts, Quiet, vars, storeVars
<1>2. IInv /\ [Next]_vars =>
        [late \/ latest' = latest \/ Newer(latest', latest)]_vars
  BY <1>1
<1> QED
  BY <1>2, Invariance, PTL DEF Spec
=============================================================================
