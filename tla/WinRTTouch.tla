----------------------------- MODULE WinRTTouch -----------------------------
(***************************************************************************)
(* Touch and mouse input on WinRT: the system names fingers by ids that    *)
(* the XAML application maps to indices, events that come while the window *)
(* has no focus are dropped, and all touches are given up when the window  *)
(* changes (WinRT_XamlApp.cpp).                                            *)
(***************************************************************************)
EXTENDS WindowInput

CONSTANTS
    Mouse,         \* position of the mouse
    MouseButtons   \* buttons of the mouse the user presses

ASSUME WinRTAssumption ==
    Mouse \in Positions /\ MouseButtons \subseteq {"left", "right"}

VARIABLES
    pointerIds,      \* ids of the fingers, by the index they are reported with
    currentButton,   \* the mouse button that was pressed last
    focused,         \* of the window
    firstFrame,      \* firstFrameAfterActivateHack
    \* the devices
    fingers,         \* fingers on the screen
    pressed          \* the mouse button the user holds

xamlVars   == <<pointerIds, currentButton, focused, firstFrame>>
deviceVars == <<fingers, pressed>>

Fingers == Positions \ {Mouse}

WinRTInit ==
    /\ pointerIds = <<>> /\ currentButton = "none"
    /\ focused = TRUE /\ firstFrame = FALSE
    /\ fingers = {} /\ pressed = "none"

ListensAfterFirstFrame == ~firstFrame
Listens == focused /\ ~firstFrame

(* pointerIds.indexOf(id), or the size of the list.                        *)
IndexOrSize(id) ==
    IF Contains(pointerIds, id)
    THEN SelectInSeq(pointerIds, LAMBDA p : p = id) - 1
    ELSE Len(pointerIds)

(* An event of the devices while nobody listens.                           *)
Dropped == SystemTurn /\ ~Listens /\ UNCHANGED <<inputVars, xamlVars>>

(* The handlers for a finger; it changes the button of the mouse, too.     *)
OnTouchDown(f) ==
    /\ f \notin fingers /\ fingers' = fingers \cup {f}
    /\ UNCHANGED pressed
    /\ \/ Dropped
       \/ /\ Listens
          /\ currentButton' = "left"
          /\ SetInputMode("touch")
          /\ Report(<<TouchCall("down", f, IndexOrSize(f))>>)
          /\ pointerIds' = IF Contains(pointerIds, f) THEN pointerIds
                           ELSE Append(pointerIds, f)
          /\ UNCHANGED <<focused, firstFrame>>

OnTouchUp(f) ==
    /\ f \in fingers /\ fingers' = fingers \ {f}
    /\ UNCHANGED pressed
    /\ \/ Dropped
       \/ /\ Listens
          /\ currentButton' = "none"
          /\ SetInputMode("touch")
          /\ Report(<<TouchCall("up", f, IndexOrSize(f))>>)
          /\ pointerIds' = IF Contains(pointerIds, f)
                           THEN RemoveAt(pointerIds, IndexOrSize(f) + 1)
                           ELSE pointerIds
          /\ UNCHANGED <<focused, firstFrame>>

OnTouchMove(f) ==
    /\ f \in fingers /\ Listens
    /\ SetInputMode("touch")
    /\ Report(<<TouchCall("move", f, IndexOrSize(f))>>)
    /\ UNCHANGED <<xamlVars, deviceVars>>

(* The same handlers for the mouse.                                        *)
MousePressed(button) ==
    /\ pressed = "none" /\ pressed' = button
    /\ UNCHANGED fingers
    /\ \/ Dropped
       \/ /\ Listens
          /\ currentButton' = button
          /\ SetInputMode("mouse")
          /\ QueueMouseEvent(MouseEvent("down", Mouse, button))
          /\ UNCHANGED <<wheel, pointerIds, focused, firstFrame>>

MouseReleased ==
    /\ pressed # "none" /\ pressed' = "none"
    /\ UNCHANGED fingers
    /\ \/ Dropped
       \/ /\ Listens
          /\ currentButton' = "none"
          /\ SetInputMode("mouse")
          /\ QueueMouseEvent(MouseEvent("up", Mouse, currentButton))
          /\ UNCHANGED <<wheel, pointerIds, focused, firstFrame>>

(* _resetTouches(): pointer by pointer, the last one first.                *)
CancelFirstFirst ==
    [i \in 1..Len(pointerIds) |-> TouchCall("cancel", Mouse, i - 1)]
CancelAll ==
    [i \in 1..Len(pointerIds) |-> TouchCall("cancel", Mouse, Len(pointerIds) - i)]

ResetTouches ==
    /\ Report(CancelAll)
    /\ pointerIds' = <<>>
    /\ UNCHANGED <<cursorVars, currentButton, deviceVars>>

(* _handleFocusChange(); on activation input is dropped until a frame was  *)
(* rendered.                                                               *)
FocusChanges(value) ==
    /\ ResetTouches
    /\ focused' = value
    /\ firstFrame' \in {firstFrame, firstFrame \/ value}

(* Size, visibility or virtual keyboard.                                   *)
WindowChanged ==
    /\ ResetTouches
    /\ UNCHANGED <<focused, firstFrame>>

(* OnRender(): the end of the frame.                                       *)
Rendered ==
    /\ FrameEnds
    /\ firstFrame' = FALSE
    /\ UNCHANGED <<pointerIds, currentButton, focused, deviceVars>>

WinRTNext ==
    \/ \E f \in Fingers : OnTouchDown(f) \/ OnTouchUp(f) \/ OnTouchMove(f)
    \/ \E button \in MouseButtons : MousePressed(button)
    \/ MouseReleased
    \/ \E value \in BOOLEAN : FocusChanges(value)
    \/ WindowChanged \/ Rendered
    \/ QueueTouchEvent /\ UNCHANGED <<cursorVars, xamlVars, deviceVars>>
    \/ Frame /\ ~FrameEnds /\ UNCHANGED <<xamlVars, deviceVars>>

-----------------------------------------------------------------------------
(* The window has exactly the touches the XAML application has ids of, in  *)
(* the same order, however often touches are given up or fingers go up     *)
(* unheard: an index always means the finger it was computed for.          *)
IndicesAgree == calls = <<>> => touches = pointerIds

(* Nothing is touched while the window has no focus.                       *)
NoTouchWithoutFocus == ~focused /\ calls = <<>> => touches = <<>>
=============================================================================
