----------------------------- MODULE DashboardProofs -----------------------------
(***************************************************************************)
(* Proofs about Dashboard, for any number of pages, reports, restarts of   *)
(* the device and points of the chart.                                     *)
(*                                                                         *)
(* Frames are ordered by run and number.  As long as no request outlives   *)
(* its call, at most the frame sent last is on its way, so the store never *)
(* goes back; prev_frame never runs ahead of the frame a tick has read,    *)
(* which is never ahead of the store's; so a new point counts frames after *)
(* prev_frame, and all points before it frames up to prev_frame.           *)
(***************************************************************************)
EXTENDS Dashboard, TLAPS

\* f is g, or the device has sent it earlier.
NotAfter(f, g) == f.run < g.run \/ (f.run = g.run /\ f.number <= g.number)

\* No two points of a line count the same frame.
Disjoint(line) ==
  \A i, j \in 1 .. Len(line) :
    i # j => Counted(line[i]) \cap Counted(line[j]) = {}

IsLine(line) == line \in Seq(Points) /\ Len(line) <= MaxPoints

\* The types, with the lines as sequences.
Types ==
  /\ run \in 1 .. MaxRuns /\ sent \in 0 .. MaxReports /\ reports \in 0 .. MaxReports
  /\ requests \subseteq Frames \ {NoFrame} /\ late \in BOOLEAN
  /\ latest \in Frames /\ frameCount \in Nat
  /\ page \in [Pages -> {"new", "open", "closed"}] /\ newest \in Pages \cup {NoPage}
  /\ total \in [Pages -> Nat] /\ waiting \subseteq Pages
  /\ card \in [page : Pages \cup {NoPage}, frame : Frames, stored : Nat]
  /\ prev \in [frame : Frames, ticked : BOOLEAN]
  /\ IsLine(points) /\ drawn \in [Pages -> Seq(Points)]
  /\ \A p \in Pages : IsLine(drawn[p])
  /\ snapshot \in [ticking : BOOLEAN, frame : Frames, stored : Nat]

\* The globals point at an opened page from the first page on; the label of a page that
\* has not been opened says nothing.
PagesOpened ==
  /\ newest # NoPage => page[newest] # "new"
  /\ \A p \in Pages : page[p] = "new" => total[p] = 0
  /\ \A p \in Pages : page[p] # "new" => newest \in Pages
  /\ snapshot.ticking => newest \in Pages

\* A run has sent no more than all runs have; no one has counted more than the store.
Counters ==
  /\ sent <= reports
  /\ card.stored <= frameCount
  /\ snapshot.stored <= frameCount

\* The order in which frames are sent, stored, read and charted until a request
\* outlives its call.
Order ==
  ~late =>
    /\ requests \subseteq {[run |-> run, number |-> sent]}
    /\ NotAfter(latest, [run |-> run, number |-> sent])
    /\ NotAfter(prev.frame, latest)
    /\ snapshot.ticking =>
         NotAfter(prev.frame, snapshot.frame) /\ NotAfter(snapshot.frame, latest)

\* The lines of a chart count each frame once, and the shared one none after prev_frame.
LinesCountOnce ==
  /\ Disjoint(points)
  /\ \A p \in Pages : Disjoint(drawn[p])
  /\ \A i \in 1 .. Len(points) : \A f \in Counted(points[i]) : NotAfter(f, prev.frame)

Lines == ~late => LinesCountOnce

\* The inductive invariant.
IInv ==
  /\ Types /\ PagesOpened /\ Counters /\ TotalCoversCards
  /\ Order /\ Lines

-----------------------------------------------------------------------------
(* Frames and points.                                                      *)

\* A frame has a run and a number; NoFrame has smaller ones than any other.
LEMMA FrameFacts ==
  ASSUME NEW f \in Frames
  PROVE  /\ f.run \in Nat /\ f.number \in Nat
         /\ f # NoFrame => f.run > 0
BY BoundsAssumption DEF Frames, NoFrame

\* The next frame of a run is a frame.
LEMMA NewFrame ==
  ASSUME run \in 1 .. MaxRuns, sent \in 0 .. MaxReports, sent < MaxReports
  PROVE  [run |-> run, number |-> sent + 1] \in Frames \ {NoFrame}
BY BoundsAssumption DEF Frames, NoFrame

\* NotAfter is transitive.
LEMMA NotAfterTransitive ==
  ASSUME NEW f, NEW g, NEW h,
         f.run \in Nat, g.run \in Nat, h.run \in Nat,
         f.number \in Nat, g.number \in Nat, h.number \in Nat,
         NotAfter(f, g), NotAfter(g, h)
  PROVE  NotAfter(f, h)
BY DEF NotAfter

\* The frames of a point come after the one it starts from, up to the one it ends at.
LEMMA CountedFacts ==
  ASSUME NEW from \in Frames, NEW to \in Frames, to # NoFrame,
         NEW f \in Counted([from |-> from, to |-> to])
  PROVE  /\ f.run \in Nat /\ f.number \in Nat
         /\ NotAfter(f, to) /\ ~NotAfter(f, from)
<1>1. /\ from.run \in Nat /\ from.number \in Nat
      /\ to.run \in Nat /\ to.number \in Nat /\ to.run > 0
  BY FrameFacts
<1>2. from.run \in {0, to.run} /\ f \in [run : {to.run}, number : from.number + 1 .. to.number]
  BY DEF Counted, NoFrame
<1>3. /\ f.run = to.run
      /\ f.number \in Nat /\ f.number > from.number /\ f.number <= to.number
  BY <1>1, <1>2
<1> QED
  BY <1>1, <1>2, <1>3 DEF NotAfter

\* What a point counts are frames.
LEMMA CountedType ==
  ASSUME NEW point \in Points, NEW f \in Counted(point)
  PROVE  f.run \in Nat /\ f.number \in Nat
<1>1. point.from \in Frames /\ point.to \in Frames
  BY DEF Points
<1>2. /\ point.from.number \in Nat /\ point.to.number \in Nat /\ point.to.run \in Nat
  BY <1>1, FrameFacts
<1>3. f \in [run : {point.to.run}, number : point.from.number + 1 .. point.to.number]
  BY DEF Counted
<1> QED
  BY <1>2, <1>3

-----------------------------------------------------------------------------
(* The chart.                                                              *)

\* deque.append(): the new point is the last one, and the first one may drop out.
LEMMA AppendPointFacts ==
  ASSUME IsLine(points), NEW point \in Points, AppendPoint(point)
  PROVE  /\ IsLine(points')
         /\ \E k \in {0, 1} :
              /\ Len(points') = Len(points) + 1 - k
              /\ \A i \in 1 .. Len(points') :
                   points'[i] = IF i + k <= Len(points) THEN points[i + k] ELSE point
<1> DEFINE all == Append(points, point)
           n == Len(points)
           k == IF n + 1 > MaxPoints THEN 1 ELSE 0
<1>1. /\ all \in Seq(Points) /\ n \in Nat /\ n <= MaxPoints /\ MaxPoints \in Nat
      /\ Len(all) = n + 1
      /\ \A i \in 1 .. n + 1 : all[i] = IF i <= n THEN points[i] ELSE point
  BY BoundsAssumption DEF IsLine
<1>2. points' = SubSeq(all, 1 + k, n + 1)
  BY <1>1 DEF AppendPoint
<1>3. k \in {0, 1} /\ (n + 1 - k <= MaxPoints)
  BY <1>1
<1> HIDE DEF all, n, k
<1>4. /\ points' \in Seq(Points)
      /\ Len(points') = n + 1 - k
      /\ \A i \in 1 .. n + 1 - k : points'[i] = all[i + k]
  <2>1. CASE k = 0
    BY <1>1, <1>2, <2>1
  <2>2. CASE k = 1
    BY <1>1, <1>2, <2>2
  <2> QED
    BY <1>3, <2>1, <2>2
<1>5. ASSUME NEW i \in 1 .. n + 1 - k
      PROVE  points'[i] = IF i + k <= n THEN points[i + k] ELSE point
  <2>1. i + k \in 1 .. n + 1
    BY <1>1, <1>3
  <2> QED
    BY <1>1, <1>4, <2>1
<1>6. IsLine(points')
  BY <1>3, <1>4 DEF IsLine
<1> QED
  BY <1>3, <1>4, <1>5, <1>6 DEF n

\* A tick moves prev_frame and leaves a line.
LEMMA UpdateKeepsTypes ==
  ASSUME Types, NEW frame \in Frames, UpdateChartData(frame)
  PROVE  prev' = [frame |-> frame, ticked |-> TRUE] /\ IsLine(points')
<1>1. /\ IsLine(points) /\ prev.frame \in Frames
      /\ prev' = [frame |-> frame, ticked |-> TRUE]
  BY DEF Types, UpdateChartData, SetPrev
<1>2. CASE UNCHANGED points
  BY <1>1, <1>2 DEF IsLine
<1>3. CASE AppendPoint([from |-> prev.frame, to |-> frame])
  <2>1. [from |-> prev.frame, to |-> frame] \in Points
    BY <1>1 DEF Points
  <2> QED
    BY <1>1, <1>3, <2>1, AppendPointFacts
<1> QED
  BY <1>1, <1>2, <1>3 DEF UpdateChartData

\* A point that starts where the chart has ended counts no frame that is in it.
LEMMA UpdateKeepsLines ==
  ASSUME Types, LinesCountOnce, NEW frame \in Frames, frame # NoFrame,
         NotAfter(prev.frame, frame), UpdateChartData(frame)
  PROVE  /\ prev' = [frame |-> frame, ticked |-> TRUE]
         /\ Disjoint(points')
         /\ \A i \in 1 .. Len(points') : \A f \in Counted(points'[i]) : NotAfter(f, frame)
<1>0. /\ IsLine(points) /\ prev.frame \in Frames
      /\ prev' = [frame |-> frame, ticked |-> TRUE]
  BY DEF Types, UpdateChartData, SetPrev
<1>1. /\ frame.run \in Nat /\ frame.number \in Nat
      /\ prev.frame.run \in Nat /\ prev.frame.number \in Nat
  BY <1>0, FrameFacts
<1> DEFINE n == Len(points)
<1>2. /\ n \in Nat /\ \A i \in 1 .. n : points[i] \in Points
  BY <1>0 DEF IsLine
<1>3. ASSUME NEW i \in 1 .. n, NEW f \in Counted(points[i])
      PROVE  f.run \in Nat /\ f.number \in Nat /\ NotAfter(f, prev.frame) /\ NotAfter(f, frame)
  <2>1. f.run \in Nat /\ f.number \in Nat
    BY <1>2, <1>3, CountedType
  <2>2. NotAfter(f, prev.frame)
    BY <1>3 DEF LinesCountOnce
  <2> QED
    BY <1>1, <2>1, <2>2, NotAfterTransitive
<1>4. CASE UNCHANGED points
  BY <1>0, <1>3, <1>4 DEF LinesCountOnce, Disjoint
<1>5. CASE AppendPoint([from |-> prev.frame, to |-> frame])
  <2> DEFINE point == [from |-> prev.frame, to |-> frame]
  <2>1. point \in Points
    BY <1>0 DEF Points
  <2>2. ASSUME NEW f \in Counted(point)
        PROVE  NotAfter(f, frame) /\ ~NotAfter(f, prev.frame)
    BY <1>0, <2>2, CountedFacts
  <2> HIDE DEF point
  <2>4. PICK k \in {0, 1} :
          /\ Len(points') = n + 1 - k
          /\ \A i \in 1 .. Len(points') :
               points'[i] = IF i + k <= n THEN points[i + k] ELSE point
    BY <1>0, <1>5, <2>1, AppendPointFacts DEF point
  <2> HIDE DEF n
  <2>5. ASSUME NEW i \in 1 .. Len(points')
        PROVE  \/ i + k \in 1 .. n /\ points'[i] = points[i + k]
               \/ i + k = n + 1 /\ points'[i] = point
    BY <1>2, <2>4
  <2>6. \A i \in 1 .. Len(points') : \A f \in Counted(points'[i]) : NotAfter(f, frame)
    BY <1>3, <2>2, <2>5
  <2>7. ASSUME NEW i \in 1 .. Len(points'), NEW j \in 1 .. Len(points'), i # j,
               NEW f \in Counted(points'[i]), f \in Counted(points'[j])
        PROVE  FALSE
    <3>1. i + k # j + k
      BY <2>4, <2>7
    <3>2. CASE i + k \in 1 .. n /\ j + k \in 1 .. n
      <4>1. points'[i] = points[i + k] /\ points'[j] = points[j + k]
        BY <1>2, <2>5, <3>2
      <4> QED
        BY <2>7, <3>1, <3>2, <4>1 DEF LinesCountOnce, Disjoint, n
    <3>3. CASE i + k = n + 1 /\ j + k \in 1 .. n
      <4>1. points'[i] = point /\ points'[j] = points[j + k]
        BY <1>2, <2>5, <3>3
      <4> QED
        BY <1>3, <2>2, <2>7, <3>3, <4>1
    <3>4. CASE i + k \in 1 .. n /\ j + k = n + 1
      <4>1. points'[i] = points[i + k] /\ points'[j] = point
        BY <1>2, <2>5, <3>4
      <4> QED
        BY <1>3, <2>2, <2>7, <3>4, <4>1
    <3> QED
      BY <2>5, <3>1, <3>2, <3>3, <3>4
  <2>8. Disjoint(points')
    BY <2>7 DEF Disjoint
  <2> QED
    BY <1>0, <2>6, <2>8
<1> QED
  BY <1>4, <1>5 DEF UpdateChartData

\* Only a tick that shows a frame moves what the charts hold.
LEMMA LinesKept ==
  ASSUME Lines, UNCHANGED <<points, drawn, prev>>, ~late' => ~late
  PROVE  Lines'
<1>1. points' = points /\ drawn' = drawn /\ prev' = prev
  OBVIOUS
<1>2. LinesCountOnce => LinesCountOnce'
  BY <1>1 DEF LinesCountOnce, Disjoint
<1> QED
  BY <1>2 DEF Lines

-----------------------------------------------------------------------------
(* Invariance.                                                             *)

\* The invariant holds initially.
LEMMA InitIInv == Init => IInv
<1> SUFFICES ASSUME Init PROVE IInv
  OBVIOUS
<1>1. NoFrame \in Frames /\ NoFrame.run = 0 /\ NoFrame.number = 0
  BY DEF Frames, NoFrame
<1>2. /\ MaxRuns \in Nat /\ MaxRuns > 0 /\ MaxReports \in Nat /\ MaxPoints \in Nat
  BY BoundsAssumption
<1>3. /\ <<>> \in Seq(Points) /\ Len(<<>>) = 0
  OBVIOUS
<1>4. IsLine(<<>>) /\ Disjoint(<<>>)
  BY <1>2, <1>3 DEF IsLine, Disjoint
<1>5. /\ card \in [page : Pages \cup {NoPage}, frame : Frames, stored : Nat]
      /\ snapshot \in [ticking : BOOLEAN, frame : Frames, stored : Nat]
      /\ prev \in [frame : Frames, ticked : BOOLEAN]
      /\ card.stored = 0 /\ snapshot.stored = 0 /\ ~snapshot.ticking
      /\ prev.frame = NoFrame
  BY <1>1, <1>2 DEF Init, NoCard, Idle
<1>6. Types
  <2>1. /\ run \in 1 .. MaxRuns /\ sent \in 0 .. MaxReports /\ reports \in 0 .. MaxReports
    BY <1>2 DEF Init
  <2>2. /\ requests \subseteq Frames \ {NoFrame} /\ late \in BOOLEAN
        /\ latest \in Frames /\ frameCount \in Nat
    BY <1>1 DEF Init
  <2>3. /\ page \in [Pages -> {"new", "open", "closed"}] /\ newest \in Pages \cup {NoPage}
        /\ total \in [Pages -> Nat] /\ waiting \subseteq Pages
    BY DEF Init
  <2>4. /\ IsLine(points) /\ drawn \in [Pages -> Seq(Points)]
        /\ \A p \in Pages : IsLine(drawn[p])
    BY <1>3, <1>4 DEF Init
  <2> QED
    BY <1>5, <2>1, <2>2, <2>3, <2>4 DEF Types
<1>7. PagesOpened /\ Counters /\ TotalCoversCards
  BY <1>2, <1>5 DEF Init, PagesOpened, Counters, TotalCoversCards
<1>8. Order
  BY <1>1, <1>5 DEF Init, Order, NotAfter
<1>9. Lines
  BY <1>3, <1>4 DEF Init, Lines, LinesCountOnce
<1> QED
  BY <1>6, <1>7, <1>8, <1>9 DEF IInv

\* What the invariant says of the runs and numbers of the frames it names.
LEMMA OrderTypes ==
  ASSUME Types
  PROVE  /\ run \in Nat /\ sent \in Nat /\ reports \in Nat /\ frameCount \in Nat
         /\ latest.run \in Nat /\ latest.number \in Nat
         /\ prev.frame.run \in Nat /\ prev.frame.number \in Nat
         /\ snapshot.frame.run \in Nat /\ snapshot.frame.number \in Nat
         /\ card.stored \in Nat /\ snapshot.stored \in Nat
<1>1. /\ latest \in Frames /\ prev.frame \in Frames /\ snapshot.frame \in Frames
      /\ card.stored \in Nat /\ snapshot.stored \in Nat
      /\ run \in 1 .. MaxRuns /\ sent \in 0 .. MaxReports /\ reports \in 0 .. MaxReports
      /\ frameCount \in Nat
  BY DEF Types
<1> QED
  BY <1>1, FrameFacts

\* As long as no request has outlived its call, the frame sent next is alone on its way.
LEMMA DeviceSendsKeeps == IInv /\ DeviceSends => IInv'
<1> SUFFICES ASSUME IInv, DeviceSends PROVE IInv'
  OBVIOUS
<1> USE DEF DeviceSends, storeVars, pageVars, shownVars
<1> DEFINE frame == [run |-> run, number |-> sent + 1]
<1>0. /\ Types /\ PagesOpened /\ Counters /\ TotalCoversCards /\ Order /\ Lines
      /\ UNCHANGED <<run, latest, frameCount, page, newest, total, waiting, card, prev,
                     points, drawn, snapshot>>
      /\ MaxReports \in Nat
  BY BoundsAssumption DEF IInv
<1>1. /\ run \in Nat /\ sent \in Nat /\ reports \in Nat
      /\ latest.run \in Nat /\ latest.number \in Nat
      /\ run \in 1 .. MaxRuns /\ sent \in 0 .. MaxReports
      /\ late \in BOOLEAN /\ requests \subseteq Frames \ {NoFrame}
  BY <1>0, OrderTypes DEF Types
<1>2. /\ reports + 1 \in 0 .. MaxReports /\ sent < MaxReports /\ sent + 1 \in 0 .. MaxReports
      /\ sent + 1 <= reports + 1
  BY <1>0, <1>1 DEF Counters
<1>3. frame \in Frames \ {NoFrame}
  BY <1>1, <1>2, NewFrame
<1>4. /\ requests' \subseteq requests \cup {frame}
      /\ late' = (late \/ requests # {})
      /\ sent' = sent + 1 /\ reports' = reports + 1
  OBVIOUS
<1> HIDE DEF frame
<1>5. Types'
  <2>1. /\ requests' \subseteq Frames \ {NoFrame} /\ late' \in BOOLEAN
        /\ sent' \in 0 .. MaxReports /\ reports' \in 0 .. MaxReports
    BY <1>1, <1>2, <1>3, <1>4
  <2> QED
    BY <1>0, <2>1 DEF Types, IsLine
<1>6. PagesOpened' /\ TotalCoversCards'
  BY <1>0 DEF PagesOpened, TotalCoversCards
<1>7. Counters'
  BY <1>0, <1>2, <1>4 DEF Counters
<1>8. Order'
  <2> SUFFICES ASSUME ~late' PROVE Order'
    BY DEF Order
  <2>1. ~late /\ requests = {}
    BY <1>1, <1>4
  <2>2. requests' \subseteq {[run |-> run', number |-> sent']}
    BY <1>0, <1>4, <2>1 DEF frame
  <2>3. NotAfter(latest, [run |-> run', number |-> sent'])
    BY <1>0, <1>1, <1>4, <2>1 DEF Order, NotAfter
  <2> QED
    BY <1>0, <2>1, <2>2, <2>3 DEF Order
<1>9. Lines'
  BY <1>0, <1>1, <1>4, LinesKept
<1> QED
  BY <1>5, <1>6, <1>7, <1>8, <1>9 DEF IInv

\* A request that has not outlived its call is the frame sent last, so it is not before
\* any that has been stored, read or charted.
LEMMA UpdateDetectionKeeps ==
  ASSUME IInv, NEW frame \in requests, UpdateDetection(frame)
  PROVE  IInv'
<1> USE DEF UpdateDetection, pageVars, shownVars
<1>0. /\ Types /\ PagesOpened /\ Counters /\ TotalCoversCards /\ Order /\ Lines
      /\ UNCHANGED <<run, sent, reports, late, page, newest, total, waiting, card, prev,
                     points, drawn, snapshot>>
  BY DEF IInv
<1>1. /\ run \in Nat /\ sent \in Nat /\ frameCount \in Nat
      /\ latest.run \in Nat /\ latest.number \in Nat
      /\ prev.frame.run \in Nat /\ prev.frame.number \in Nat
      /\ snapshot.frame.run \in Nat /\ snapshot.frame.number \in Nat
      /\ card.stored \in Nat /\ snapshot.stored \in Nat
  BY <1>0, OrderTypes
<1>2. /\ latest' = frame /\ frame \in Frames /\ frame.run \in Nat /\ frame.number \in Nat
      /\ requests' \subseteq requests /\ requests \subseteq Frames \ {NoFrame}
  BY <1>0, FrameFacts DEF Types
<1>3. Types'
  <2>1. /\ requests' \subseteq Frames \ {NoFrame}
        /\ latest' \in Frames /\ frameCount' \in Nat
    BY <1>1, <1>2
  <2> QED
    BY <1>0, <2>1 DEF Types, IsLine
<1>4. PagesOpened' /\ TotalCoversCards'
  BY <1>0 DEF PagesOpened, TotalCoversCards
<1>5. Counters'
  BY <1>0, <1>1 DEF Counters
<1>6. Order'
  <2> SUFFICES ASSUME ~late PROVE Order'
    BY <1>0 DEF Order
  <2>1. frame = [run |-> run, number |-> sent] /\ NotAfter(latest, frame)
    BY <1>0 DEF Order
  <2>2. NotAfter(prev.frame, frame)
    BY <1>0, <1>1, <1>2, <2>1, NotAfterTransitive DEF Order
  <2>3. snapshot.ticking => NotAfter(snapshot.frame, frame)
    BY <1>0, <1>1, <1>2, <2>1, NotAfterTransitive DEF Order
  <2>4. NotAfter(frame, frame)
    BY <1>2 DEF NotAfter
  <2> QED
    BY <1>0, <1>2, <2>1, <2>2, <2>3, <2>4 DEF Order
<1>7. Lines'
  BY <1>0, LinesKept
<1> QED
  BY <1>3, <1>4, <1>5, <1>6, <1>7 DEF IInv

\* After a restart between two calls all frames of the run before it count as sent.
LEMMA DeviceRestartsKeeps == IInv /\ DeviceRestarts => IInv'
<1> SUFFICES ASSUME IInv, DeviceRestarts PROVE IInv'
  OBVIOUS
<1> USE DEF DeviceRestarts, storeVars, pageVars, shownVars
<1>0. /\ Types /\ PagesOpened /\ Counters /\ TotalCoversCards /\ Order /\ Lines
      /\ UNCHANGED <<reports, requests, latest, frameCount, page, newest, total, waiting,
                     card, prev, points, drawn, snapshot>>
      /\ late' = (late \/ requests # {})
      /\ MaxReports \in Nat /\ MaxRuns \in Nat
  BY BoundsAssumption DEF IInv
<1>1. /\ run \in Nat /\ sent \in Nat /\ reports \in Nat
      /\ latest.run \in Nat /\ latest.number \in Nat
      /\ run \in 1 .. MaxRuns /\ late \in BOOLEAN
  BY <1>0, OrderTypes DEF Types
<1>2. Types'
  <2>1. run' \in 1 .. MaxRuns /\ sent' \in 0 .. MaxReports /\ late' \in BOOLEAN
    BY <1>0, <1>1
  <2> QED
    BY <1>0, <2>1 DEF Types, IsLine
<1>3. PagesOpened' /\ TotalCoversCards'
  BY <1>0 DEF PagesOpened, TotalCoversCards
<1>4. Counters'
  BY <1>0, <1>1 DEF Counters
<1>5. Order'
  <2> SUFFICES ASSUME ~late' PROVE Order'
    BY DEF Order
  <2>1. ~late /\ requests = {}
    BY <1>0, <1>1
  <2>2. NotAfter(latest, [run |-> run', number |-> sent'])
    BY <1>0, <1>1, <2>1 DEF Order, NotAfter
  <2> QED
    BY <1>0, <2>1, <2>2 DEF Order
<1>6. Lines'
  BY <1>0, <1>1, LinesKept
<1> QED
  BY <1>2, <1>3, <1>4, <1>5, <1>6 DEF IInv

\* A page that is opened has no count yet; one that is closed keeps the one it has.
LEMMA PagesKeep ==
  ASSUME IInv, NEW p \in Pages, OpenPage(p) \/ ClosePage(p)
  PROVE  IInv'
<1> USE DEF OpenPage, ClosePage, callVars, storeVars, shownVars
<1>0. /\ Types /\ PagesOpened /\ Counters /\ TotalCoversCards /\ Order /\ Lines
      /\ UNCHANGED <<run, sent, reports, requests, late, latest, frameCount, total,
                     waiting, card, prev, points, drawn, snapshot>>
  BY DEF IInv
<1>1. ~snapshot.ticking
  BY DEF Idle
<1>2. /\ page \in [Pages -> {"new", "open", "closed"}] /\ newest \in Pages \cup {NoPage}
      /\ page' \in [Pages -> {"new", "open", "closed"}]
      /\ newest' \in Pages \cup {NoPage}
      /\ \A q \in Pages : page'[q] = "new" => page[q] = "new"
      /\ newest' \in {newest, p}
      /\ newest' = p \/ (page[p] = "open" /\ newest' = newest)
      /\ newest' = newest \/ page[p] = "new"
  BY <1>0 DEF Types
<1>3. Types'
  BY <1>0, <1>2 DEF Types, IsLine
<1>4. newest' \in Pages
  BY <1>0, <1>2 DEF PagesOpened
<1>5. PagesOpened'
  BY <1>0, <1>2, <1>4 DEF PagesOpened
<1>6. TotalCoversCards'
  <2>1. CASE newest' = newest
    BY <1>0, <2>1 DEF TotalCoversCards
  <2>2. CASE newest' = p /\ page[p] = "new"
    BY <1>0, <2>2 DEF TotalCoversCards, PagesOpened
  <2> QED
    BY <1>2, <2>1, <2>2
<1>7. Counters' /\ Order' /\ Lines'
  BY <1>0 DEF Counters, Order, Lines, LinesCountOnce, Disjoint
<1> QED
  BY <1>3, <1>5, <1>6, <1>7 DEF IInv

\* The first read of a tick takes the store's frame and the count that goes with it.
LEMMA TickReadsKeeps ==
  ASSUME IInv, NEW p \in Pages, TickReads(p)
  PROVE  IInv'
<1> USE DEF TickReads, callVars, storeVars, pageVars, shownVars
<1>0. /\ Types /\ PagesOpened /\ Counters /\ TotalCoversCards /\ Order /\ Lines
      /\ UNCHANGED <<run, sent, reports, requests, late, latest, frameCount, page, newest,
                     total, waiting, card, prev, points, drawn>>
  BY DEF IInv
<1>1. /\ snapshot' \in [ticking : BOOLEAN, frame : Frames, stored : Nat]
      /\ snapshot'.frame = latest /\ snapshot'.stored = frameCount
  BY <1>0 DEF Types
<1>2. Types'
  BY <1>0, <1>1 DEF Types, IsLine
<1>3. PagesOpened' /\ TotalCoversCards'
  BY <1>0 DEF PagesOpened, TotalCoversCards
<1>4. frameCount \in Nat /\ latest.run \in Nat /\ latest.number \in Nat
  BY <1>0, OrderTypes
<1>5. Counters'
  BY <1>0, <1>1, <1>4 DEF Counters
<1>6. Order'
  <2>1. NotAfter(latest, latest)
    BY <1>4 DEF NotAfter
  <2> QED
    BY <1>0, <1>1, <2>1 DEF Order
<1>7. Lines'
  BY <1>0, LinesKept
<1> QED
  BY <1>2, <1>3, <1>5, <1>6, <1>7 DEF IInv

\* The second read counts at least the reports of the first; the rest of the tick shows
\* both, and moves prev_frame to the frame read.
LEMMA TickShowsKeeps == IInv /\ TickShows => IInv'
<1> SUFFICES ASSUME IInv, TickShows PROVE IInv'
  OBVIOUS
<1> USE DEF TickShows, callVars, storeVars, pageVars
<1> DEFINE frame == snapshot.frame
           stored == snapshot.stored
<1>0. /\ Types /\ PagesOpened /\ Counters /\ TotalCoversCards /\ Order /\ Lines
      /\ UNCHANGED <<run, sent, reports, requests, late, latest, frameCount, page, newest>>
      /\ snapshot.ticking /\ Show(frame, stored, frameCount)
  BY DEF IInv
<1>1. newest \in Pages
  BY <1>0 DEF PagesOpened
<1>2. /\ frame \in Frames /\ stored \in Nat /\ stored <= frameCount
      /\ snapshot' \in [ticking : BOOLEAN, frame : Frames, stored : Nat]
      /\ snapshot'.ticking = FALSE /\ snapshot'.stored = 0
  <2>1. frame \in Frames /\ stored \in Nat /\ stored <= frameCount
    BY <1>0 DEF Types, Counters
  <2>2. NoFrame \in Frames
    BY DEF Frames
  <2>3. snapshot' = [ticking |-> FALSE, frame |-> NoFrame, stored |-> 0]
    BY DEF Idle
  <2> QED
    BY <2>1, <2>2, <2>3
<1>3. /\ total \in [Pages -> Nat] /\ frameCount \in Nat
      /\ total' = [total EXCEPT ![newest] = frameCount]
  BY <1>0 DEF Types, Show
<1>4. /\ total' \in [Pages -> Nat] /\ total'[newest] = frameCount
      /\ \A q \in Pages : q # newest => total'[q] = total[q]
  BY <1>1, <1>3
<1>5. /\ waiting' \subseteq Pages
      /\ card' \in [page : Pages \cup {NoPage}, frame : Frames, stored : Nat]
      /\ card'.stored <= frameCount
  <2>1. CASE frame = NoFrame
    BY <1>0, <1>1, <2>1 DEF Types, Show, Counters
  <2>2. CASE frame # NoFrame
    <3>1. EnsureCard(frame, stored)
      BY <1>0, <2>2 DEF Show
    <3>2. /\ waiting \subseteq Pages
          /\ card \in [page : Pages \cup {NoPage}, frame : Frames, stored : Nat]
      BY <1>0 DEF Types
    <3> HIDE DEF frame, stored
    <3>3. PICK on \in Pages \cup {NoPage} :
            card' = [page |-> on, frame |-> frame, stored |-> stored]
      BY <1>1, <3>1, <3>2 DEF EnsureCard, Label
    <3>4. waiting' \subseteq Pages
      BY <3>1, <3>2 DEF EnsureCard
    <3> QED
      BY <1>2, <3>3, <3>4
  <2> QED
    BY <2>1, <2>2
<1>6. /\ prev' \in [frame : Frames, ticked : BOOLEAN] /\ prev'.frame \in {prev.frame, frame}
      /\ IsLine(points')
      /\ ~late =>
           /\ Disjoint(points')
           /\ \A i \in 1 .. Len(points') : \A f \in Counted(points'[i]) : NotAfter(f, prev'.frame)
      /\ drawn' = drawn \/ drawn' = [drawn EXCEPT ![newest] = points']
  <2>1. CASE frame = NoFrame
    BY <1>0, <2>1 DEF Show, Types, Lines, LinesCountOnce, IsLine, Disjoint
  <2>2. CASE frame # NoFrame
    <3>1. UpdateChartData(frame) /\ Refresh
      BY <1>0, <2>2 DEF Show
    <3>2. ~late => NotAfter(prev.frame, frame) /\ LinesCountOnce
      BY <1>0 DEF Order, Lines
    <3> HIDE DEF frame
    <3>3. /\ prev' = [frame |-> frame, ticked |-> TRUE]
          /\ IsLine(points')
      BY <1>0, <1>2, <3>1, UpdateKeepsTypes
    <3>4. ~late =>
            /\ Disjoint(points')
            /\ \A i \in 1 .. Len(points') : \A f \in Counted(points'[i]) : NotAfter(f, frame)
      BY <1>0, <1>2, <2>2, <3>1, <3>2, UpdateKeepsLines
    <3> QED
      BY <1>2, <3>1, <3>3, <3>4 DEF Refresh
  <2> QED
    BY <2>1, <2>2
<1>7. /\ drawn' \in [Pages -> Seq(Points)]
      /\ \A q \in Pages : IsLine(drawn'[q])
      /\ ~late => \A q \in Pages : Disjoint(drawn'[q])
  <2>1. /\ drawn \in [Pages -> Seq(Points)]
        /\ \A q \in Pages : IsLine(drawn[q])
        /\ ~late => \A q \in Pages : Disjoint(drawn[q])
    BY <1>0 DEF Types, Lines, LinesCountOnce
  <2>2. CASE drawn' = drawn
    BY <2>1, <2>2
  <2>3. CASE drawn' = [drawn EXCEPT ![newest] = points']
    <3>1. points' \in Seq(Points)
      BY <1>6 DEF IsLine
    <3>2. drawn' \in [Pages -> Seq(Points)]
      BY <2>1, <2>3, <3>1
    <3>3. \A q \in Pages : drawn'[q] = IF q = newest THEN points' ELSE drawn[q]
      BY <2>1, <2>3
    <3> QED
      BY <1>6, <2>1, <3>2, <3>3
  <2> QED
    BY <1>6, <2>2, <2>3
<1>8. Types'
  BY <1>0, <1>2, <1>4, <1>5, <1>6, <1>7 DEF Types
<1>9. PagesOpened'
  <2>1. \A q \in Pages : page'[q] = "new" => total'[q] = 0
    BY <1>0, <1>1, <1>4, PagesAssumption DEF PagesOpened
  <2> QED
    BY <1>0, <1>2, <2>1 DEF PagesOpened
<1>10. Counters' /\ TotalCoversCards'
  BY <1>0, <1>2, <1>3, <1>4, <1>5 DEF Counters, TotalCoversCards, Types
<1>11. Order'
  <2>1. ~late => NotAfter(frame, latest) /\ NotAfter(prev.frame, latest)
    BY <1>0 DEF Order
  <2> QED
    BY <1>0, <1>2, <1>6, <2>1 DEF Order
<1>12. Lines'
  BY <1>0, <1>6, <1>7 DEF Lines, LinesCountOnce
<1> QED
  BY <1>8, <1>9, <1>10, <1>11, <1>12 DEF IInv

\* No step disturbs the invariant.
LEMMA NextKeeps == IInv /\ [Next]_vars => IInv'
<1>1. ASSUME IInv, UNCHANGED vars
      PROVE  IInv'
  <2>1. UNCHANGED <<run, sent, reports, requests, late, latest, frameCount, page, newest,
                    total, waiting, card, prev, points, drawn, snapshot>>
    BY <1>1 DEF vars, callVars, storeVars, pageVars, shownVars
  <2>2. Types' /\ PagesOpened' /\ Counters' /\ TotalCoversCards'
    BY <1>1, <2>1 DEF IInv, Types, IsLine, PagesOpened, Counters, TotalCoversCards
  <2>3. Order' /\ Lines'
    BY <1>1, <2>1 DEF IInv, Order, Lines, LinesCountOnce, Disjoint
  <2> QED
    BY <2>2, <2>3 DEF IInv
<1> QED
  BY <1>1, DeviceSendsKeeps, UpdateDetectionKeeps, DeviceRestartsKeeps, PagesKeep,
     TickReadsKeeps, TickShowsKeeps
     DEF Next, Quiet

-----------------------------------------------------------------------------
(* Theorems.                                                               *)

\* The invariant holds in every reachable state.
THEOREM Invariance == Spec => []IInv
BY InitIInv, NextKeeps, PTL DEF Spec

\* The variables have their types, and no chart line is longer than the deque's maxlen.
THEOREM TypeCorrect == Spec => []TypeOK
<1>1. IInv => TypeOK
  <2> SUFFICES ASSUME IInv PROVE TypeOK
    OBVIOUS
  <2>1. Types
    BY DEF IInv
  <2>2. ASSUME NEW line, IsLine(line)
        PROVE  Range(line) \subseteq Points /\ Len(line) <= MaxPoints
    <3>1. line \in Seq(Points) /\ DOMAIN line = 1 .. Len(line)
      BY <2>2 DEF IsLine
    <3>2. \A i \in DOMAIN line : line[i] \in Points
      BY <3>1
    <3> QED
      BY <2>2, <3>2 DEF Range, IsLine
  <2>3. ASSUME NEW line \in {points} \cup Range(drawn)
        PROVE  IsLine(line)
    <3>1. IsLine(points) /\ DOMAIN drawn = Pages /\ \A p \in Pages : IsLine(drawn[p])
      BY <2>1 DEF Types
    <3> QED
      BY <2>3, <3>1 DEF Range
  <2> QED
    BY <2>1, <2>2, <2>3 DEF Types, TypeOK
<1> QED
  BY <1>1, Invariance, PTL

\* The total of the page opened last never lags behind the device's card: the second
\* read of a tick comes after the first, and a page that has not ticked says nothing.
THEOREM TotalCovers == Spec => []TotalCoversCards
<1>1. IInv => TotalCoversCards
  BY DEF IInv
<1> QED
  BY <1>1, Invariance, PTL

\* Until a request outlives its call, no page's FPS line counts a frame twice, for any
\* number of pages that tick on the shared chart data, any order of their ticks, any
\* reports lost on the way, and any number of restarts between two calls.
THEOREM CountedOnce == Spec => []FramesCountedOnce
<1>1. IInv => FramesCountedOnce
  <2> SUFFICES ASSUME IInv, ~late, NEW p \in Pages
               PROVE  Disjoint(drawn[p]) /\ DOMAIN drawn[p] = 1 .. Len(drawn[p])
    BY DEF FramesCountedOnce, Disjoint
  <2>1. Disjoint(drawn[p]) /\ IsLine(drawn[p])
    BY DEF IInv, Types, Lines, LinesCountOnce
  <2> QED
    BY <2>1 DEF IsLine
<1> QED
  BY <1>1, Invariance, PTL
=============================================================================
