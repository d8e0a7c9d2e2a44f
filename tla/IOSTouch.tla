------------------------------ MODULE IOSTouch ------------------------------
(***************************************************************************)
(* Touch input on iOS: iOS_Window emulates the mouse itself and queues     *)
(* mouse and touch events in one list that updateOneFrame() executes.  The *)
(* system reports several fingers at once, and takes all of them away when *)
(* the application resigns.  The touches are the ones of g_touches; the    *)
(* queues of Window stay empty.                                            *)
(***************************************************************************)
EXTENDS WindowInput

ASSUME IOSAssumption == IsFiniteSet(Positions)

VARIABLES
    inputEvents,
    active,      \* the application has not resigned (focused)
    uiTouches,   \* fingers on the screen
    forgotten    \* history: whether iOS forgot to end touches (iOS 4)

iosVars == <<inputEvents, active, uiTouches, forgotten>>
unusedVars == <<calls, mouseEvents, touchEvents, inputMode, scroll, wheel>>

IOSInit ==
    inputEvents = <<>> /\ active = TRUE /\ uiTouches = {} /\ forgotten = FALSE

IsTouchList(e) == "touches" \in DOMAIN e
TouchList(now) == [touches |-> now]
InputEvents ==
    [type : TouchTypes, position : Positions, button : Buttons]
        \cup [touches : Seq(Positions)]

(* Events come from the run loop of the main thread, between two frames.   *)
RunLoopTurn == phase = "system" /\ active /\ Len(inputEvents) < MaxEvents

(* callTouchCallback() after the mouse events.                             *)
QueueKnown(mouse, now) ==
    inputEvents' = inputEvents \o mouse \o <<TouchList(touches)>>
Queue(mouse, now) ==
    inputEvents' = inputEvents \o mouse \o <<TouchList(now)>>

(* touchesBegan_withEvent_() with new fingers, in no particular order.     *)
NoCancelEvent(now) ==
    IF Len(now) > 1 THEN <<>> ELSE <<MouseEvent("down", Head(now), "left")>>
BeganEvents(now) ==
    IF Len(now) > 1
    THEN IF ~multiTouch /\ Len(touches) = 1
         THEN <<MouseEvent("cancel", Head(now), "left")>> ELSE <<>>
    ELSE <<MouseEvent("down", Head(now), "left")>>

TouchesBegan(new) ==
    /\ RunLoopTurn /\ new # {} /\ new \cap uiTouches = {}
    /\ uiTouches' = uiTouches \cup new
    /\ \E order \in SetToSeqs(new) :
          /\ touches' = touches \o order
          /\ multiTouch' = (multiTouch \/ Len(touches') > 1)
          /\ Queue(BeganEvents(touches'), touches')
    /\ UNCHANGED <<unusedVars, cursor, phase, held, touchView, active, forgotten>>

(* touchesEnded_withEvent_(): the gesture is over when all fingers that    *)
(* were known end.  The touches that are left stay in their order.         *)
GestureOver(gone) == Len(touches) = Cardinality(gone)

TouchesLeft(gone) ==
    \E places \in SetToSeqs({i \in 1..Len(touches) : touches[i] \notin gone}) :
        /\ \A i, j \in 1..Len(places) : i < j => places[i] < places[j]
        /\ touches' = [i \in 1..Len(places) |-> touches[places[i]]]

Ended(gone) ==
    /\ TouchesLeft(gone)
    /\ multiTouch' = (multiTouch /\ ~GestureOver(gone))
    /\ \E f \in gone :
          Queue(IF multiTouch THEN <<>> ELSE <<MouseEvent("up", f, "left")>>,
                touches')

TouchesEnded(gone) ==
    /\ RunLoopTurn /\ gone # {} /\ gone \subseteq uiTouches
    /\ uiTouches' = uiTouches \ gone
    /\ Ended(gone)
    /\ UNCHANGED <<unusedVars, cursor, phase, held, touchView, active, forgotten>>

TouchesMoved(f) ==
    /\ RunLoopTurn /\ f \in uiTouches
    /\ Queue(IF multiTouch THEN <<>> ELSE <<MouseEvent("move", f, "none")>>, touches)
    /\ UNCHANGED <<unusedVars, cursor, touches, multiTouch, phase, held, touchView,
                   active, uiTouches, forgotten>>

(* applicationWillResignActive(): touchesCancelled_withEvent_() ends the   *)
(* fingers like touchesEnded_withEvent_(), unless iOS forgets to call it.  *)
WillResignActive ==
    /\ RunLoopTurn
    /\ active' = FALSE /\ uiTouches' = {}
    /\ \/ uiTouches # {} /\ Ended(uiTouches) /\ UNCHANGED forgotten
       \/ /\ UNCHANGED <<touches, multiTouch, inputEvents>>
          /\ forgotten' = (forgotten \/ uiTouches # {})
    /\ UNCHANGED <<unusedVars, cursor, phase, held, touchView>>

(* applicationDidBecomeActive() forgets touches that were not ended.       *)
KeptTouches == touches
TouchesAfterPause == <<>>
DidBecomeActive ==
    /\ phase = "system" /\ ~active
    /\ active' = TRUE
    /\ touches' = TouchesAfterPause
    /\ multiTouch' = (multiTouch /\ touches = <<>>)
    /\ UNCHANGED <<unusedVars, cursor, phase, held, touchView, inputEvents,
                   uiTouches, forgotten>>

(* updateOneFrame() while the animation runs: stopAnimation() and          *)
(* startAnimation() follow the focus.                                      *)
UpdateOneFrame ==
    /\ phase = "system" /\ active
    /\ phase' = "mouse"
    /\ UNCHANGED <<queueVars, cursorVars, scroll, appVars, iosVars>>

ExecuteMouse(e) ==
    /\ cursor' = IF e.type = "cancel" THEN cursor ELSE e.position
    /\ held' = CASE e.type = "down" -> held \cup {e.button}
                 [] e.type \in {"up", "cancel"} -> held \ {e.button}
                 [] OTHER -> held
    /\ UNCHANGED touchView

ExecuteTouch(e) == touchView' = e.touches /\ UNCHANGED <<cursor, held>>

Execute ==
    /\ phase = "mouse" /\ inputEvents # <<>>
    /\ IF IsTouchList(Head(inputEvents))
       THEN ExecuteTouch(Head(inputEvents)) ELSE ExecuteMouse(Head(inputEvents))
    /\ inputEvents' = Tail(inputEvents)
    /\ UNCHANGED <<unusedVars, touches, multiTouch, phase, active, uiTouches,
                   forgotten>>

FrameOver ==
    /\ phase = "mouse" /\ inputEvents = <<>>
    /\ phase' = "system"
    /\ UNCHANGED <<queueVars, cursorVars, scroll, appVars, iosVars>>

IOSNext ==
    \/ \E set \in SUBSET Positions : TouchesBegan(set) \/ TouchesEnded(set)
    \/ \E f \in Positions : TouchesMoved(f)
    \/ WillResignActive \/ DidBecomeActive
    \/ UpdateOneFrame \/ Execute \/ FrameOver

-----------------------------------------------------------------------------
(* A list of touches does to the buttons as little as a move.              *)
AsMouseEvent(e) == IF IsTouchList(e) THEN MouseEvent("move", Hidden, "none") ELSE e
AsMouseEvents(events) == [i \in 1..Len(events) |-> AsMouseEvent(events[i])]

(* Every emulated press is answered by exactly one release or cancellation *)
(* although iOS reports fingers in groups (touchesBegan_withEvent_,        *)
(* touchesEnded_withEvent_).                                               *)
GroupsAnswered ==
    ~forgotten => Answered(AsMouseEvents(inputEvents), "left" \in held, SingleTouch)

(* The window knows the fingers that are on the screen, even those of a    *)
(* time before iOS forgot some, and the application knows them once the    *)
(* events of a frame are executed.                                         *)
FingersKnown ==
    /\ active => ToSet(touches) = uiTouches
    /\ inputEvents = <<>> /\ ~forgotten => touchView = touches
=============================================================================
