---------------------------- MODULE AndroidTouch ----------------------------
(***************************************************************************)
(* Touch input on Android: GLSurfaceView.onTouchEvent() turns an event of  *)
(* the system into one call per finger on the screen, in the order of the  *)
(* fingers' pointer ids, and hands them to the GL thread, which makes them *)
(* between two frames.  A position is the pointer id of the finger there.  *)
(***************************************************************************)
EXTENDS WindowInput

CONSTANT MaxRunnables   \* bound: events the GL thread has not handled yet

ASSUME AndroidAssumption == Positions \subseteq Nat /\ MaxRunnables \in Nat

VARIABLES
    pointers,    \* pointer ids of the fingers on the screen
    runnables,   \* events queued for the GL thread
    takenOver    \* history: whether the system took a gesture over

androidVars == <<pointers, runnables, takenOver>>

AndroidInit == pointers = {} /\ runnables = <<>> /\ takenOver = FALSE

(* The pointers of an event, in the order of their ids.                    *)
InOrder(ids) ==
    CHOOSE all \in SetToSeqs(ids) :
        \A i, j \in 1..Len(all) : i < j => all[i] < all[j]

(* Every pointer is reported with the type of the event, whichever of them *)
(* went down or up.                                                        *)
OnTouchEventFromOne(type, ids) ==
    LET all == InOrder(ids)
    IN  [i \in 1..Len(all) |-> TouchCall(type, all[i], i)]
OnTouchEvent(type, ids) ==
    LET all == InOrder(ids)
    IN  [i \in 1..Len(all) |-> TouchCall(type, all[i], i - 1)]

QueueEvent(runnable) ==
    /\ Len(runnables) < MaxRunnables
    /\ runnables' = Append(runnables, runnable)
    /\ UNCHANGED <<inputVars, takenOver>>

(* ACTION_DOWN, ACTION_POINTER_DOWN: a new finger gets the smallest id.    *)
ActionDown(id) ==
    /\ id \notin pointers /\ \A other \in Positions \ pointers : id <= other
    /\ pointers' = pointers \cup {id}
    /\ QueueEvent(OnTouchEvent("down", pointers'))

(* ACTION_UP, ACTION_POINTER_UP: the finger is among the event's pointers. *)
ActionUp(id) ==
    /\ id \in pointers
    /\ pointers' = pointers \ {id}
    /\ QueueEvent(OnTouchEvent("up", pointers))

ActionMove ==
    /\ pointers # {}
    /\ QueueEvent(OnTouchEvent("move", pointers))
    /\ UNCHANGED pointers

(* ACTION_CANCEL, when the system takes a gesture over, is not handled.    *)
ActionCancel ==
    /\ pointers # {} /\ pointers' = {}
    /\ takenOver' = TRUE
    /\ UNCHANGED <<inputVars, runnables>>

RunRunnable ==
    /\ runnables # <<>>
    /\ Report(Head(runnables))
    /\ runnables' = Tail(runnables)
    /\ UNCHANGED <<cursorVars, pointers, takenOver>>

(* AndroidJNI_Window::queueTouchEvent().                                   *)
QueueAndroidTouch ==
    /\ QueueTouchEvent
    /\ IF Call.type \in {"down", "up"}
       THEN SetInputMode("touch") ELSE UNCHANGED cursorVars
    /\ UNCHANGED androidVars

AndroidNext ==
    \/ \E id \in Positions : ActionDown(id) \/ ActionUp(id)
    \/ ActionMove \/ ActionCancel \/ RunRunnable \/ QueueAndroidTouch
    \/ Frame /\ UNCHANGED androidVars

-----------------------------------------------------------------------------
EventsHandled == runnables = <<>> /\ calls = <<>>

(* Although the event of one finger that goes up reports every finger as   *)
(* going up, the window never keeps a touch without a finger, and no press *)
(* outlives the fingers once the frame's events are delivered.             *)
NoTouchWithoutFinger ==
    EventsHandled /\ ~takenOver =>
        /\ Len(touches) <= Cardinality(pointers)
        /\ pointers = {} /\ mouseEvents = <<>> => "left" \notin held
=============================================================================
