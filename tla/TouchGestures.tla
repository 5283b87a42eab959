--------------------------- MODULE TouchGestures ---------------------------
(***************************************************************************)
(* GestureClassifier (gesture.ts) behind TouchBridge's DOM handlers: which   *)
(* gesture a finger on the viewer turns into.  A finger is a client pixel on *)
(* one axis of an element as wide as the video plus a letterbox bar.  The    *)
(* bridge hands the classifier positions normalised to 0..1, here kept as    *)
(* the pixel over Width: a distance d of the classifier is d * Width pixels. *)
(***************************************************************************)
EXTENDS Integers

CONSTANTS
  Width,      \* rendered width of the video content, in client pixels
  Pixels,     \* client pixels the finger touches, letterbox ones included
  MaxMs       \* bound: the event clock (timeStamp)

Step == 100           \* bound: milliseconds between two events
TAP_MAX_MS == 300
TAP_MAX_SLOP_PX == 10
DOUBLE_TAP_MAX_MS == 300
DOUBLE_TAP_MAX_SLOP_PX == 40
DRAG_SLOP_PX == 8

VARIABLES
  mode,     \* "pointer" or "scroll"
  down,     \* downPoint
  last,     \* the previous sample
  dragged,
  lastTap,
  gesture,  \* the gesture of the last event: its kind, and clickCount of a tap
  clock,    \* event time
  start,    \* pixel of the last pointerdown
  reach     \* how far from it the finger has been on the video, in client pixels

vars == <<mode, down, last, dragged, lastTap, gesture, clock, start, reach>>
classifier == <<down, last, dragged, lastTap>>

NoPoint == [px |-> -1, t |-> -1]
NoGesture == [kind |-> "none", clicks |-> 0]
Abs(n) == IF n < 0 THEN -n ELSE n
Larger(m, n) == IF m < n THEN n ELSE m

(* normalizePoint: the letterbox is refused. *)
InVideo(px) == px \in 0..Width
Point(px) == [px |-> px, t |-> clock]
(* distance(a, b) > slop, on normalised coordinates *)
Beyond(a, b, slop) == Abs(b.px - a.px) > slop * Width

Reset == down' = NoPoint /\ last' = NoPoint /\ dragged' = FALSE /\ UNCHANGED lastTap
Tick == clock + Step <= MaxMs /\ clock' = clock + Step
Emit(kind, clicks) == gesture' = [kind |-> kind, clicks |-> clicks]
-----------------------------------------------------------------------------
(* onDown; a touch on the letterbox resets. *)
pointerDown(px) ==
  /\ Tick /\ start' = px /\ reach' = 0 /\ gesture' = NoGesture
  /\ IF InVideo(px)
     THEN down' = Point(px) /\ last' = Point(px) /\ dragged' = FALSE /\ UNCHANGED lastTap
     ELSE Reset
  /\ UNCHANGED mode

(* onMove: the letterbox and a finger that is not down are ignored. *)
move(px) ==
  /\ Tick /\ UNCHANGED <<mode, down, lastTap, start>>
  /\ reach' = IF InVideo(px) THEN Larger(reach, Abs(px - start)) ELSE reach
  /\ \/ (~InVideo(px) \/ down = NoPoint \/ last = NoPoint)
        /\ gesture' = NoGesture /\ UNCHANGED <<last, dragged>>
     \/ /\ InVideo(px) /\ down # NoPoint /\ last # NoPoint
        /\ \/ /\ mode = "scroll"
              /\ last' = Point(px) /\ UNCHANGED dragged
              /\ Emit(IF px = last.px THEN "none" ELSE "wheel", 0)
           \/ /\ mode = "pointer" /\ ~dragged /\ Beyond(down, Point(px), DRAG_SLOP_PX)
              /\ dragged' = TRUE /\ UNCHANGED last /\ Emit("drag-start", 0)
           \/ /\ mode = "pointer" /\ dragged
              /\ last' = Point(px) /\ UNCHANGED dragged /\ Emit("drag-move", 0)
           \/ /\ mode = "pointer" /\ ~dragged /\ ~Beyond(down, Point(px), DRAG_SLOP_PX)
              /\ last' = Point(px) /\ UNCHANGED dragged /\ Emit("none", 0)

IsTap(px) == clock - down.t <= TAP_MAX_MS /\ ~Beyond(down, Point(px), TAP_MAX_SLOP_PX)
IsDouble(px) ==
  /\ lastTap # NoPoint /\ clock - lastTap.t <= DOUBLE_TAP_MAX_MS
  /\ ~Beyond(lastTap, Point(px), DOUBLE_TAP_MAX_SLOP_PX)

(* onUp: on the letterbox the classifier never hears of it. *)
up(px) ==
  /\ Tick /\ UNCHANGED <<mode, start>>
  /\ reach' = IF InVideo(px) THEN Larger(reach, Abs(px - start)) ELSE reach
  /\ \/ ~InVideo(px) /\ gesture' = NoGesture /\ UNCHANGED classifier
     \/ /\ InVideo(px) /\ down' = NoPoint
        /\ \/ down = NoPoint /\ gesture' = NoGesture /\ UNCHANGED <<last, dragged, lastTap>>
           \/ /\ down # NoPoint /\ mode = "scroll"
              /\ last' = NoPoint /\ gesture' = NoGesture /\ UNCHANGED <<dragged, lastTap>>
           \/ /\ down # NoPoint /\ mode = "pointer" /\ dragged
              /\ dragged' = FALSE /\ Emit("drag-end", 0) /\ UNCHANGED <<last, lastTap>>
           \/ /\ down # NoPoint /\ mode = "pointer" /\ ~dragged /\ IsTap(px)
              /\ Emit("tap", IF IsDouble(px) THEN 2 ELSE 1)
              /\ lastTap' = IF IsDouble(px) THEN NoPoint ELSE Point(px)
              /\ UNCHANGED <<last, dragged>>
           \/ /\ down # NoPoint /\ mode = "pointer" /\ ~dragged /\ ~IsTap(px)
              /\ gesture' = NoGesture /\ UNCHANGED <<last, dragged, lastTap>>

(* pointercancel *)
cancel == Reset /\ gesture' = NoGesture /\ UNCHANGED <<mode, clock, start, reach>>

(* A mode change makes a new bridge, hence a new classifier. *)
NewBridge(m) ==
  /\ m # mode /\ mode' = m
  /\ down' = NoPoint /\ last' = NoPoint /\ dragged' = FALSE /\ lastTap' = NoPoint
  /\ gesture' = NoGesture /\ UNCHANGED <<clock, start, reach>>

Init ==
  /\ mode = "pointer" /\ down = NoPoint /\ last = NoPoint /\ dragged = FALSE
  /\ lastTap = NoPoint /\ gesture = NoGesture /\ clock = 0 /\ start = 0 /\ reach = 0

Next ==
  \/ \E px \in Pixels : pointerDown(px) \/ move(px) \/ up(px)
  \/ cancel
  \/ \E m \in {"pointer", "scroll"} : NewBridge(m)

Spec == Init /\ [][Next]_vars
-----------------------------------------------------------------------------
(* "tap (short, small movement) -> click", "drag (movement past the          *)
(* threshold) -> pointer moves, no click" (gesture.ts): a finger that has    *)
(* been past both thresholds, 10 pixels from where it went down, clicks      *)
(* nothing when it is lifted.                                                *)
DragNeverClicks == gesture.kind = "tap" => reach <= TAP_MAX_SLOP_PX
=============================================================================
