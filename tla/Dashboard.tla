------------------------------- MODULE Dashboard -------------------------------
(***************************************************************************)
(* The dashboard of server/app/main.py: dashboard() once per page that a   *)
(* browser opens, _tick() every 0.5 s per open page, and the dicts and     *)
(* globals all pages share, for one device that reports to the Store and   *)
(* may restart.                                                            *)
(*                                                                         *)
(* The event loop runs one _tick at a time, but the store is filled by     *)
(* gRPC threads: between its two reads a frame may arrive.  Each run of    *)
(* the device numbers its frames from 1; the dashboard sees the number     *)
(* only.  The store takes whatever a worker hands it: a request that has   *)
(* outlived its call (module LiveView) may come after the next one.        *)
(* The latency line, the status icon and the texts are left out.           *)
(***************************************************************************)
EXTENDS Integers, Sequences, SequencesExt

CONSTANTS
  Pages,        \* pages browsers open
  MaxReports,   \* bound: reports the device sends, in all its runs
  MaxRuns,      \* bound: starts of the device
  MaxPoints     \* CHART_MAX_POINTS

ASSUME BoundsAssumption ==
  MaxReports \in Nat /\ MaxRuns \in Nat \ {0} /\ MaxPoints \in Nat

VARIABLES
  run, sent,    \* the device's run, and the last frame_number of that run
  reports,      \* how many it has sent in all its runs
  requests,     \* reports on their way to the store or with a worker
  late,         \* the device has gone on while a request was still with the server:
                \* the 5 s deadline, or a restart
  latest,       \* the store's _latest[edge_id], NoFrame before the first
  frameCount,   \* the store's _frame_count
  page,         \* "new", "open" or "closed"
  newest,       \* whose elements the globals _total_frames_label, ... are
  total,        \* what _total_frames_label of each page says
  waiting,      \* pages that say "Waiting for edge devices to connect..."
  card,         \* _device_cards[edge_id]: its page, frame_lbl, and a ghost
  prev,         \* _chart_data: prev_frame; prev_ts > 0
  points,       \* _chart_data: fps_times and fps_vals
  drawn,        \* the points _refresh_charts() has drawn on each page
  snapshot      \* between the two reads of a _tick: what the first has returned

callVars == <<run, sent, reports, requests, late>>
storeVars == <<latest, frameCount>>
pageVars == <<page, newest>>
shownVars == <<total, waiting, card, prev, points, drawn>>
vars == <<callVars, storeVars, pageVars, shownVars, snapshot>>

NoFrame == [run |-> 0, number |-> 0]
NoPage == "no page"

ASSUME PagesAssumption == NoPage \notin Pages

NoCard == [page |-> NoPage, frame |-> NoFrame, stored |-> 0]
Idle == [ticking |-> FALSE, frame |-> NoFrame, stored |-> 0]

Init ==
  /\ run = 1 /\ sent = 0 /\ reports = 0 /\ requests = {} /\ late = FALSE
  /\ latest = NoFrame /\ frameCount = 0
  /\ page = [p \in Pages |-> "new"] /\ newest = NoPage
  /\ total = [p \in Pages |-> 0] /\ waiting = {} /\ card = NoCard
  /\ prev = [frame |-> NoFrame, ticked |-> FALSE] /\ points = <<>>
  /\ drawn = [p \in Pages |-> <<>>]
  /\ snapshot = Idle

-----------------------------------------------------------------------------
(* The device and the store. *)

\* send_detection(): one call at a time, so a request that is still with the server
\* has outlived its call.  A request may fail to get there.
DeviceSends ==
  /\ reports < MaxReports
  /\ reports' = reports + 1 /\ sent' = sent + 1
  /\ requests' \in {requests, requests \cup {[run |-> run, number |-> sent + 1]}}
  /\ late' = (late \/ requests # {})
  /\ UNCHANGED <<run, storeVars, pageVars, shownVars, snapshot>>

\* update_detection(), from a worker: whichever of them comes first.
UpdateDetection(frame) ==
  /\ frame \in requests
  /\ requests' = requests \ {frame}
  /\ latest' = frame
  /\ frameCount' = frameCount + 1
  /\ UNCHANGED <<run, sent, reports, late, pageVars, shownVars, snapshot>>

\* The process ends, in a call or between two, and a new one starts.
DeviceRestarts ==
  /\ run < MaxRuns
  /\ run' = run + 1 /\ sent' = 0
  /\ late' = (late \/ requests # {})
  /\ UNCHANGED <<reports, requests, storeVars, pageVars, shownVars, snapshot>>

-----------------------------------------------------------------------------
(* Pages. *)

\* dashboard(): the globals now point at this page's elements.
OpenPage(p) ==
  /\ snapshot = Idle
  /\ page[p] = "new"
  /\ page' = [page EXCEPT ![p] = "open"]
  /\ newest' = p
  /\ UNCHANGED <<callVars, storeVars, shownVars, snapshot>>

\* The browser leaves: the page's timer stops, the globals and the card stay.
ClosePage(p) ==
  /\ snapshot = Idle
  /\ page[p] = "open"
  /\ page' = [page EXCEPT ![p] = "closed"]
  /\ UNCHANGED <<callVars, storeVars, newest, shownVars, snapshot>>

-----------------------------------------------------------------------------
(* _tick() *)

\* Mutated forms: a label that only moves forward; prev_frame left as it is; a
\* deque without maxlen.
LabelForward(frame) ==
  IF frame.number > card.frame.number THEN frame ELSE card.frame

KeepsPrev(frame) == prev' = [prev EXCEPT !.ticked = TRUE]

AppendForEver(point) == points' = Append(points, point)

\* store.get_latest()
TickReads(p) ==
  /\ snapshot = Idle
  /\ page[p] = "open"
  /\ snapshot' = [ticking |-> TRUE, frame |-> latest, stored |-> frameCount]
  /\ UNCHANGED <<callVars, storeVars, pageVars, shownVars>>

\* frame_lbl.set_text()
Label(frame) == frame

\* deque(maxlen=CHART_MAX_POINTS).append()
AppendPoint(point) ==
  points' = LET all == Append(points, point)
            IN  SubSeq(all, IF Len(all) > MaxPoints THEN 2 ELSE 1, Len(all))

SetPrev(frame) == prev' = [frame |-> frame, ticked |-> TRUE]

\* _update_chart_data(): a point if the number has grown, and if the clock has moved
\* on since the last tick of any page.
UpdateChartData(frame) ==
  /\ \/ /\ prev.ticked /\ frame.number > prev.frame.number
        /\ AppendPoint([from |-> prev.frame, to |-> frame])
     \/ UNCHANGED points
  /\ SetPrev(frame)

\* The first card of the device goes into the newest page and replaces its waiting
\* message; every later tick finds that card, on whichever page.
EnsureCard(frame, stored) ==
  LET on == IF card = NoCard THEN newest ELSE card.page
  IN  /\ card' = [page |-> on, frame |-> Label(frame), stored |-> stored]
      /\ waiting' = IF card = NoCard THEN waiting \ {newest} ELSE waiting

\* _refresh_charts()
Refresh == drawn' = [drawn EXCEPT ![newest] = points']

\* Once per tick: total label, then the waiting message or cards and charts.
Show(frame, stored, count) ==
  /\ total' = [total EXCEPT ![newest] = count]
  /\ IF frame = NoFrame
       THEN /\ waiting' = waiting \cup {newest}
            /\ UNCHANGED <<card, prev, points, drawn>>
       ELSE /\ EnsureCard(frame, stored)
            /\ UpdateChartData(frame)
            /\ Refresh

\* Mutated form: get_frame_count() before get_latest().
CountsFirst ==
  /\ snapshot.ticking
  /\ Show(latest, frameCount, snapshot.stored)
  /\ snapshot' = Idle
  /\ UNCHANGED <<callVars, storeVars, pageVars>>

\* store.get_frame_count(), and the rest of the tick.
TickShows ==
  /\ snapshot.ticking
  /\ Show(snapshot.frame, snapshot.stored, frameCount)
  /\ snapshot' = Idle
  /\ UNCHANGED <<callVars, storeVars, pageVars>>

-----------------------------------------------------------------------------
\* Nobody looks any more, and the bounds are reached.
Quiet ==
  /\ \A p \in Pages : page[p] = "closed"
  /\ reports = MaxReports /\ run = MaxRuns
  /\ UNCHANGED vars

Next ==
  \/ DeviceSends \/ DeviceRestarts
  \/ \E frame \in requests : UpdateDetection(frame)
  \/ \E p \in Pages : OpenPage(p) \/ ClosePage(p) \/ TickReads(p)
  \/ TickShows
  \/ Quiet

Spec == Init /\ [][Next]_vars

\* The timer of an open page fires again and again, a tick that has begun ends.  No
\* device has to send, no request has to be handled, no page has to be opened or closed.
Fairness ==
  /\ \A p \in Pages : WF_vars(TickReads(p))
  /\ WF_vars(TickShows)

FairSpec == Spec /\ Fairness

-----------------------------------------------------------------------------
(* Properties. *)

Frames == {NoFrame} \cup [run : 1 .. MaxRuns, number : 1 .. MaxReports]
Points == [from : Frames, to : Frames]

TypeOK ==
  /\ run \in 1 .. MaxRuns /\ sent \in 0 .. MaxReports /\ reports \in 0 .. MaxReports
  /\ requests \subseteq Frames \ {NoFrame} /\ late \in BOOLEAN
  /\ latest \in Frames /\ frameCount \in Nat
  /\ page \in [Pages -> {"new", "open", "closed"}] /\ newest \in Pages \cup {NoPage}
  /\ total \in [Pages -> Nat] /\ waiting \subseteq Pages
  /\ card \in [page : Pages \cup {NoPage}, frame : Frames, stored : Nat]
  /\ prev \in [frame : Frames, ticked : BOOLEAN]
  /\ \A line \in {points} \cup Range(drawn) :
       Range(line) \subseteq Points /\ Len(line) <= MaxPoints
  /\ snapshot \in [ticking : BOOLEAN, frame : Frames, stored : Nat]

\* "Total frames" of the page opened last never lags behind the device's card: from
\* its first tick on, the label counts at least the reports that were stored when
\* the frame on the card was the latest, although the two are read from the store
\* under its lock one after the other.
TotalCoversCards ==
  newest # NoPage => total[newest] = 0 \/ total[newest] >= card.stored

\* The frames a point has counted, by their numbers; a point that spans a restart of
\* the device counts none that could be named.
Counted(point) ==
  IF point.from.run \in {NoFrame.run, point.to.run}
    THEN [run : {point.to.run}, number : point.from.number + 1 .. point.to.number]
    ELSE {}

\* As long as no request has outlived its call, the FPS line counts no frame of a run
\* twice, however many pages tick on the shared chart data, whatever the clock does,
\* and across restarts of the device.  Once one has, its frame may be stored over a
\* newer one; prev_frame then goes back to it, and the frames in between are counted
\* again.
FramesCountedOnce ==
  ~late =>
    \A p \in Pages : \A i, j \in DOMAIN drawn[p] :
      i # j => Counted(drawn[p][i]) \cap Counted(drawn[p][j]) = {}

\* Once the store keeps the frame it has, the device's card comes to show it as long as
\* a page is open, also when its number is lower than the one shown: the device has
\* restarted, or an older frame has been stored late.
CardFresh ==
  \/ []<><<TRUE>>_latest
  \/ []<>(card.frame = latest \/ \A p \in Pages : page[p] # "open")
=============================================================================
