--------------------------------- MODULE Store ---------------------------------
(***************************************************************************)
(* The entry of one edge_id in the Store of server/app/state.py: the       *)
(* latest detection and the Event its viewers wait on.  One operator per   *)
(* step that the store's lock or the Event's own makes atomic.             *)
(***************************************************************************)
EXTENDS Naturals

VARIABLES
  latest,       \* _latest[edge_id]: a frame, None before the first
  event,        \* _frame_events[edge_id]: "absent", "clear", "set"
  notified      \* waiters of the Event that a set() has woken

\* A detection is the run of the device that has sent it, which the code does not
\* know, and its frame_number; numbers start at 1.
None == [run |-> 0, number |-> 0]

EmptyStore(Viewers) ==
  /\ latest = None
  /\ event = "absent"
  /\ notified = [v \in Viewers |-> FALSE]

-----------------------------------------------------------------------------
\* update_detection(): unconditional; Event.set() wakes all who wait.
UpdateDetection(frame, waiting) ==
  /\ latest' = frame
  /\ event' = IF event = "absent" THEN "absent" ELSE "set"
  /\ notified' = [v \in DOMAIN notified |->
       notified[v] \/ (event # "absent" /\ v \in waiting)]

\* wait_new_frame(), under the store's lock: create the Event on first use.
GetEvent ==
  /\ event' = IF event = "absent" THEN "clear" ELSE event
  /\ UNCHANGED <<latest, notified>>

\* evt.clear(), no longer under the store's lock.
ClearEvent ==
  /\ event' = "clear"
  /\ UNCHANGED <<latest, notified>>

\* evt.wait() finds the flag set, or starts to wait.
FlagSeen == event = "set" /\ UNCHANGED <<latest, event, notified>>

BeginWait(v) ==
  /\ event = "clear"
  /\ notified' = [notified EXCEPT ![v] = FALSE]
  /\ UNCHANGED <<latest, event>>

Woken(v) == notified[v] /\ UNCHANGED <<latest, event, notified>>

TimedOut(v) == ~notified[v] /\ UNCHANGED <<latest, event, notified>>
=============================================================================
