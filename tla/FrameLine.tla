------------------------------- MODULE FrameLine -------------------------------
(***************************************************************************)
(* What the pipeline of device/src/pipeline.h promises at every level      *)
(* that has threads: a line on which frames are captured, inferred and     *)
(* sent, each exactly in the order of capture.  It is closed by the end of *)
(* the source or by an interrupt, and its threads return only then.        *)
(*                                                                         *)
(* A frame is its number.  While a thread works on a frame, what it works  *)
(* on is the set of the frames whose data it may read: more than one if    *)
(* parts of two frames were mixed.                                         *)
(***************************************************************************)
EXTENDS Integers

CONSTANTS
  InFlight,    \* frames captured and not yet sent, at most
  Drains       \* the end of the source leaves no frame behind

VARIABLES
  captured,    \* frames the source has returned
  inferring,   \* the frame inference works on, or {}
  inferred,    \* frames inference has finished
  sending,     \* the frame being sent, or {}
  sent,        \* frames sent
  closed,      \* no more frames are asked for
  interrupted, \* by a signal
  returned     \* all threads have returned

vars == <<captured, inferring, inferred, sending, sent, closed, interrupted, returned>>

Init ==
  /\ captured = 0
  /\ inferring = {} /\ inferred = 0
  /\ sending = {} /\ sent = 0
  /\ closed = FALSE /\ interrupted = FALSE /\ returned = FALSE

Capture ==
  /\ ~returned
  /\ captured - sent < InFlight
  /\ captured' = captured + 1
  /\ UNCHANGED <<inferring, inferred, sending, sent, closed, interrupted, returned>>

BeginInfer ==
  /\ ~returned
  /\ inferring = {} /\ inferred < captured
  /\ closed => Drains
  /\ inferring' = {inferred + 1}
  /\ UNCHANGED <<captured, inferred, sending, sent, closed, interrupted, returned>>

EndInfer ==
  /\ inferring # {}
  /\ inferring' = {} /\ inferred' = inferred + 1
  /\ UNCHANGED <<captured, sending, sent, closed, interrupted, returned>>

BeginSend ==
  /\ ~returned
  /\ sending = {} /\ sent < inferred
  /\ sending' = {sent + 1}
  /\ UNCHANGED <<captured, inferring, inferred, sent, closed, interrupted, returned>>

EndSend ==
  /\ sending # {}
  /\ sending' = {} /\ sent' = sent + 1
  /\ UNCHANGED <<captured, inferring, inferred, closed, interrupted, returned>>

Close ==
  /\ closed' = TRUE
  /\ UNCHANGED <<captured, inferring, inferred, sending, sent, interrupted, returned>>

\* A signal closes the line, at once or later.
Interrupt ==
  /\ interrupted' = TRUE
  /\ closed' \in {closed, TRUE}
  /\ UNCHANGED <<captured, inferring, inferred, sending, sent, returned>>

Return ==
  /\ closed
  /\ inferring = {} /\ sending = {}
  /\ Drains /\ ~interrupted => sent = captured
  /\ returned' = TRUE
  /\ UNCHANGED <<captured, inferring, inferred, sending, sent, closed, interrupted>>

Next ==
  \/ Capture
  \/ BeginInfer \/ EndInfer
  \/ BeginSend \/ EndSend
  \/ Close \/ Interrupt \/ Return

Spec == Init /\ [][Next]_vars
=============================================================================
