---------------------------- MODULE WindowInput ----------------------------
(***************************************************************************)
(* Touch and mouse input of april::Window: the list of touches, the mouse  *)
(* events emulated from a single touch, their cancellation when a second   *)
(* touch turns them into a multi-touch gesture, the event queues and their *)
(* delivery to the application once per frame (Window.cpp).                *)
(*                                                                         *)
(* The window system is whatever calls queueTouchEvent(), queueMouseEvent()*)
(* and setInputMode().  Modules AndroidTouch, OpenKODETouch and WinRTTouch *)
(* put the ones of the repository in its place.  A position is the name of *)
(* whatever is at that place: a finger or the mouse.                       *)
(***************************************************************************)
EXTENDS Integers, SequencesExt

CONSTANTS
    Positions,       \* where fingers and the mouse can be
    Hidden,          \* cursor position (-10000, -10000)
    MaxIndex,        \* bound: indices a window system reports
    MaxEvents,       \* bound: mouse events queued in one frame
    PointerCancels   \* whether the window system cancels single pointers

ASSUME InputAssumption ==
    /\ Hidden \notin Positions
    /\ MaxIndex \in Nat /\ MaxEvents \in Nat
    /\ PointerCancels \in BOOLEAN

VARIABLES
    calls,        \* queueTouchEvent() calls the window system is about to make
    touches,      \* positions of the current touches
    multiTouch,   \* multiTouchActive
    mouseEvents, touchEvents,
    inputMode, cursor,
    phase,        \* "system": between frames; "mouse", "touch": checkEvents()
    scroll,       \* cumulativeScroll
    \* what the application was told
    held,         \* mouse buttons it takes for pressed
    touchView,    \* touches it was told of last
    wheel         \* rotation of the mouse wheel it was not told of yet

queueVars  == <<calls, touches, multiTouch, mouseEvents, touchEvents>>
cursorVars == <<inputMode, cursor>>
frameVars  == <<phase, scroll>>
appVars    == <<held, touchView, wheel>>
inputVars  == <<queueVars, cursorVars, frameVars, appVars>>

Buttons    == {"left", "right", "none"}
InputModes == {"mouse", "touch", "controller"}
Deltas     == {-1, 1}

TouchTypes == {"down", "up", "move", "cancel"}
TouchCall(type, position, index) ==
    [type |-> type, position |-> position, index |-> index]
TouchCalls == [type : TouchTypes, position : Positions, index : Nat]

MouseEvent(type, position, button) ==
    [type |-> type, position |-> position, button |-> button]
MouseEvents ==
    [type : TouchTypes, position : Positions, button : Buttons]
        \cup [type : {"scroll"}, position : Int, button : {"none"}]

TypeOK ==
    /\ calls \in Seq(TouchCalls)
    /\ touches \in Seq(Positions) /\ multiTouch \in BOOLEAN
    /\ mouseEvents \in Seq(MouseEvents) /\ touchEvents \in Seq(Seq(Positions))
    /\ inputMode \in InputModes /\ cursor \in Positions \cup {Hidden}
    /\ phase \in {"system", "mouse", "touch"} /\ scroll \in Int
    /\ held \subseteq Buttons /\ touchView \in Seq(Positions) /\ wheel \in Int

Init ==
    /\ calls = <<>> /\ touches = <<>> /\ multiTouch = FALSE
    /\ mouseEvents = <<>> /\ touchEvents = <<>>
    /\ inputMode \in {"mouse", "touch"} /\ cursor \in Positions
    /\ phase = "system" /\ scroll = 0
    /\ held = {} /\ touchView = <<>> /\ wheel = 0

-----------------------------------------------------------------------------
(* queueTouchEvent().                                                      *)

(* The early returns: a DOWN event of a touch that is in the list, an UP   *)
(* or MOVE event of one that is not.  Nothing changes.                     *)
Redundant(c) ==
    \/ c.type = "down" /\ c.index < Len(touches)
    \/ c.type # "down" /\ c.index >= Len(touches)

Touched(c) ==
    CASE c.type = "down" -> Append(touches, c.position)
      [] c.type = "move" -> [touches EXCEPT ![c.index + 1] = c.position]
      [] OTHER           -> RemoveAt(touches, c.index + 1)

Call == Head(calls)

CallIgnored ==
    /\ phase = "system" /\ calls # <<>> /\ Redundant(Call)
    /\ calls' = Tail(calls)
    /\ UNCHANGED <<touches, multiTouch, mouseEvents, touchEvents>>

StillMultiTouchAnyway(now) == multiTouch
StillMultiTouch(now) == multiTouch /\ now # <<>>

(* The system gives up one touch: neither a mouse event nor a new list of  *)
(* touches is queued.                                                      *)
CallCancels ==
    /\ phase = "system" /\ calls # <<>> /\ ~Redundant(Call)
    /\ Call.type = "cancel"
    /\ touches' = Touched(Call)
    /\ multiTouch' = StillMultiTouch(touches')
    /\ calls' = Tail(calls)
    /\ UNCHANGED <<mouseEvents, touchEvents>>

(* The mouse event that is emulated for a touch event after which the      *)
(* touches are now: the event itself while there is one finger, the        *)
(* cancellation of its press when a second finger follows.                 *)
EmulatedLate(c, now) ==
    IF Len(now) > 1 THEN <<>> ELSE <<MouseEvent(c.type, c.position, "left")>>
Emulated(c, now) ==
    IF multiTouch \/ Len(now) > 1
    THEN IF ~multiTouch /\ Len(touches) = 1
         THEN <<MouseEvent("cancel", c.position, "left")>>
         ELSE <<>>
    ELSE <<MouseEvent(c.type, c.position, "left")>>

(* A gesture with several touches lasts until the last one is gone.        *)
MultiTouchWhileSeveral(now) == Len(now) > 1
MultiTouch(now) == (multiTouch \/ Len(now) > 1) /\ now # <<>>

(* A touch event replaces the one of the same frame before it.             *)
FirstSnapshot(now) == IF touchEvents = <<>> THEN <<now>> ELSE touchEvents
Snapshot(now) == <<now>>

CallQueues ==
    /\ phase = "system" /\ calls # <<>> /\ ~Redundant(Call)
    /\ Call.type # "cancel"
    /\ touches' = Touched(Call)
    /\ multiTouch' = MultiTouch(touches')
    /\ mouseEvents' = mouseEvents \o Emulated(Call, touches')
    /\ touchEvents' = Snapshot(touches')
    /\ calls' = Tail(calls)

QueueTouchEvent ==
    /\ CallIgnored \/ CallCancels \/ CallQueues
    /\ UNCHANGED <<frameVars, appVars>>

-----------------------------------------------------------------------------
(* The other calls of a window system, between two frames.                 *)

SystemTurn == phase = "system" /\ calls = <<>>

(* A message of the system makes the window system queue touch events.     *)
Report(touchCalls) ==
    /\ SystemTurn /\ Len(mouseEvents) < MaxEvents
    /\ calls' = touchCalls
    /\ UNCHANGED <<touches, multiTouch, mouseEvents, touchEvents, frameVars,
                   appVars>>

QueueMouseEvent(e) ==
    /\ SystemTurn /\ Len(mouseEvents) < MaxEvents
    /\ mouseEvents' = Append(mouseEvents, e)
    /\ UNCHANGED <<calls, touches, multiTouch, touchEvents, frameVars, held,
                   touchView>>

MouseMoves(position) ==
    /\ QueueMouseEvent(MouseEvent("move", position, "none"))
    /\ UNCHANGED wheel

MouseScrolls(delta) ==
    /\ QueueMouseEvent(MouseEvent("scroll", delta, "none"))
    /\ wheel' = wheel + delta

(* setInputMode(): the cursor is moved away when a controller takes over.  *)
SetInputMode(value) ==
    /\ inputMode' = value
    /\ cursor' = IF value = "controller" /\ inputMode # value
                 THEN Hidden ELSE cursor

-----------------------------------------------------------------------------
(* checkEvents(): what was queued is delivered, mouse events first.        *)

CheckEvents ==
    /\ SystemTurn /\ phase' = "mouse"
    /\ UNCHANGED <<queueVars, cursorVars, scroll, appVars>>

(* Consecutive moves, and consecutive scrolls, are merged into one.        *)
Merges ==
    /\ Len(mouseEvents) > 1
    /\ mouseEvents[1].type \in {"move", "scroll"}
    /\ mouseEvents[2].type = mouseEvents[1].type

CursorAt(e) == IF e.type \in {"cancel", "scroll"} THEN cursor ELSE e.position

KeptScroll(total) == total
NextScroll(total) == 0

MergeMouseEvent ==
    /\ phase = "mouse" /\ mouseEvents # <<>> /\ Merges
    /\ LET e == Head(mouseEvents) IN
          /\ cursor' = CursorAt(e)
          /\ scroll' = IF e.type = "scroll" THEN scroll + e.position ELSE scroll
    /\ mouseEvents' = Tail(mouseEvents)
    /\ UNCHANGED <<calls, touches, multiTouch, touchEvents, inputMode, phase,
                   appVars>>

(* handleMouseEvent().                                                     *)
DeliverMouseEvent ==
    /\ phase = "mouse" /\ mouseEvents # <<>> /\ ~Merges
    /\ LET e == Head(mouseEvents)
           total == IF e.type = "scroll" THEN scroll + e.position ELSE 0
       IN /\ cursor' = CursorAt(e)
          /\ scroll' = IF e.type = "scroll" THEN NextScroll(total) ELSE scroll
          /\ wheel' = wheel - total
          /\ held' = CASE e.type = "down" -> held \cup {e.button}
                       [] e.type \in {"up", "cancel"} -> held \ {e.button}
                       [] OTHER -> held
    /\ mouseEvents' = Tail(mouseEvents)
    /\ UNCHANGED <<calls, touches, multiTouch, touchEvents, inputMode, phase,
                   touchView>>

MouseEventsDone ==
    /\ phase = "mouse" /\ mouseEvents = <<>>
    /\ phase' = "touch"
    /\ UNCHANGED <<queueVars, cursorVars, scroll, appVars>>

(* handleTouchEvent().                                                     *)
DeliverTouchEvent ==
    /\ phase = "touch" /\ touchEvents # <<>>
    /\ touchView' = Head(touchEvents)
    /\ touchEvents' = Tail(touchEvents)
    /\ UNCHANGED <<calls, touches, multiTouch, mouseEvents, cursorVars,
                   frameVars, held, wheel>>

FrameEnds ==
    /\ phase = "touch" /\ touchEvents = <<>>
    /\ phase' = "system"
    /\ UNCHANGED <<queueVars, cursorVars, scroll, appVars>>

Frame ==
    \/ CheckEvents \/ MergeMouseEvent \/ DeliverMouseEvent \/ MouseEventsDone
    \/ DeliverTouchEvent \/ FrameEnds

-----------------------------------------------------------------------------
(* A window system that reports anything it may.                           *)

AnyTouch(c) ==
    /\ c.type = "cancel" => PointerCancels
    /\ Report(<<c>>)
    /\ UNCHANGED cursorVars

AnyInputMode(value) ==
    /\ SystemTurn /\ SetInputMode(value)
    /\ UNCHANGED <<queueVars, frameVars, appVars>>

System ==
    \/ \E type \in TouchTypes, p \in Positions, i \in 0..MaxIndex :
          AnyTouch(TouchCall(type, p, i))
    \/ \E p \in Positions : MouseMoves(p) /\ UNCHANGED cursorVars
    \/ \E d \in Deltas : MouseScrolls(d) /\ UNCHANGED cursorVars
    \/ \E value \in InputModes : AnyInputMode(value)

Next ==
    \/ System \/ Frame
    \/ QueueTouchEvent /\ UNCHANGED cursorVars

Spec == Init /\ [][Next]_inputVars

-----------------------------------------------------------------------------
(* A single finger that no other finger joined since it went down.         *)
SingleTouch == Len(touches) = 1 /\ ~multiTouch

(* How a mouse event changes whether the application takes the left button *)
(* for pressed.  Presses and their ends alternate, and a finger is dragged *)
(* only while it is down.                                                  *)
LeftButton(e, before, after) ==
    IF e.button # "left" THEN after = before
    ELSE CASE e.type = "down" -> ~before /\ after
           [] e.type = "move" -> before /\ after
           [] OTHER           -> before /\ ~after

(* The events lead from one state of the left button to the other.         *)
Answered(events, before, after) ==
    \E run \in [0..Len(events) -> BOOLEAN] :
        /\ run[0] = before /\ run[Len(events)] = after
        /\ \A i \in 1..Len(events) : LeftButton(events[i], run[i - 1], run[i])

(* Every press of the emulated left button is answered by exactly one      *)
(* release or cancellation, whatever fingers come and go between frames    *)
(* and whichever events the window system repeats or loses: the queued     *)
(* events lead from what the application knows to what is on the screen    *)
(* (queueTouchEvent() with multiTouchActive).                              *)
PressesAnswered == Answered(mouseEvents, "left" \in held, SingleTouch)

(* The application is told of the touches as they are, not as they were    *)
(* earlier in the frame: at most one list is queued, and it is current.    *)
TouchViewCurrent ==
    IF touchEvents = <<>> THEN touchView = touches ELSE touchEvents = <<touches>>

(* Merging the scroll events of a frame loses nothing of the rotation and  *)
(* counts nothing twice (cumulativeScroll in checkEvents()).               *)
ScrollComplete == phase # "mouse" /\ mouseEvents = <<>> => wheel = 0 /\ scroll = 0

(* A gesture of several fingers is one as soon as there are two, and never *)
(* without a finger, even if the system gives up fingers one by one:       *)
(* queueTouchEvent() must reset multiTouchActive on both ways out, or the  *)
(* next single finger would not press the mouse.                           *)
GestureHasFingers ==
    /\ Len(touches) > 1 => multiTouch
    /\ multiTouch => touches # <<>>
=============================================================================
