----------------------------- MODULE FrameChannel -----------------------------
(***************************************************************************)
(* What a ring promises to the two threads it connects: a bounded FIFO     *)
(* channel that can be closed.  A put and a get each last for a while: the *)
(* writer owns a place from BeginPut to EndPut, the reader owns the item   *)
(* from Get to Release, and both count against the capacity.  Once closed  *)
(* the channel grants nothing, but a put or a get in progress completes;   *)
(* the items still queued are never delivered (acquire_read_slot answers   *)
(* nullptr as soon as the flag is set, ring_buffer.h:76).                  *)
(***************************************************************************)
EXTENDS Naturals, Sequences

CONSTANT Capacity
CONSTANT Items          \* what may be put

VARIABLES
  queue,     \* items put and not yet got, oldest first
  granted,   \* a place is owned by the writer
  held,      \* <<item>> owned by the reader, or <<>>
  closed

vars == <<queue, granted, held, closed>>

InUse == Len(queue) + (IF granted THEN 1 ELSE 0) + Len(held)

Init ==
  /\ queue = <<>>
  /\ granted = FALSE
  /\ held = <<>>
  /\ closed = FALSE

BeginPut ==
  /\ ~closed
  /\ ~granted
  /\ InUse < Capacity
  /\ granted' = TRUE
  /\ UNCHANGED <<queue, held, closed>>

EndPut(item) ==
  /\ granted
  /\ granted' = FALSE
  /\ queue' = Append(queue, item)
  /\ UNCHANGED <<held, closed>>

Get ==
  /\ ~closed
  /\ held = <<>>
  /\ queue # <<>>
  /\ held' = <<Head(queue)>>
  /\ queue' = Tail(queue)
  /\ UNCHANGED <<granted, closed>>

Release ==
  /\ held # <<>>
  /\ held' = <<>>
  /\ UNCHANGED <<queue, granted, closed>>

Close ==
  /\ closed' = TRUE
  /\ UNCHANGED <<queue, granted, held>>

Next ==
  \/ BeginPut
  \/ \E item \in Items : EndPut(item)
  \/ Get
  \/ Release
  \/ Close

Spec == Init /\ [][Next]_vars
=============================================================================
