--------------------------- MODULE WindowSystems ---------------------------
(***************************************************************************)
(* The window systems of the repository put in the place of the one that   *)
(* may report anything (april::createWindow() creates one of them).        *)
(***************************************************************************)
EXTENDS AndroidTouch, OpenKODETouch, WinRTTouch, IOSTouch

CONSTANT Systems   \* the ones the build may use

ASSUME SystemsAssumption == Systems \subseteq {"android", "openkode", "winrt", "ios"}

VARIABLE windowSystem

winrtVars == <<xamlVars, deviceVars>>
systemVars == <<androidVars, kdTouches, winrtVars, iosVars, windowSystem>>

SystemsInit ==
    /\ Init /\ inputMode = "touch"
    /\ windowSystem \in Systems
    /\ AndroidInit /\ KodeInit /\ WinRTInit /\ IOSInit

Android ==
    /\ windowSystem = "android" /\ AndroidNext
    /\ UNCHANGED <<kdTouches, winrtVars, iosVars, windowSystem>>
OpenKODE ==
    /\ windowSystem = "openkode" /\ KodeNext
    /\ UNCHANGED <<androidVars, winrtVars, iosVars, windowSystem>>
WinRT ==
    /\ windowSystem = "winrt" /\ WinRTNext
    /\ UNCHANGED <<androidVars, kdTouches, iosVars, windowSystem>>
IOS ==
    /\ windowSystem = "ios" /\ IOSNext
    /\ UNCHANGED <<androidVars, kdTouches, winrtVars, windowSystem>>

SystemsNext == Android \/ OpenKODE \/ WinRT \/ IOS

SystemsSpec == SystemsInit /\ [][SystemsNext]_<<inputVars, systemVars>>

-----------------------------------------------------------------------------
(* What each of the systems keeps while it is the one in use.              *)

(* Android: although the event of one finger that goes up reports every    *)
(* finger as going up, no touch stays without a finger, and no press       *)
(* outlives the fingers (onTouchEvent(), Window::handleTouchInput()).      *)
AndroidKeepsFingers == windowSystem = "android" => NoTouchWithoutFinger

(* OpenKODE: although the indices of later events are off by one once a    *)
(* finger took a slot below one in use, no touch is left when the last     *)
(* finger has gone up (_getAprilTouchIndex()).                             *)
OpenKODEKeepsSlots == windowSystem = "openkode" => NoTouchWithoutSlot

(* WinRT: an index means the finger it was computed for, however often     *)
(* touches are given up or fingers go up unheard (WinRT_XamlApp.cpp).      *)
WinRTIndicesAgree == windowSystem = "winrt" => IndicesAgree

(* WinRT: nothing is touched while the window has no focus.                *)
WinRTFocusLetsGo == windowSystem = "winrt" => NoTouchWithoutFocus

(* iOS: every emulated press is answered by exactly one release or         *)
(* cancellation although fingers are reported in groups (iOS_Window.mm).   *)
IOSGroupsAnswered == windowSystem = "ios" => GroupsAnswered

(* iOS: the window knows the fingers on the screen, those of a time before *)
(* iOS forgot some included, and so does the application after a frame.    *)
IOSFingersKnown == windowSystem = "ios" => FingersKnown

-----------------------------------------------------------------------------
(* Whether the window has been told of everything.                         *)
Told == calls = <<>> /\ runnables = <<>>

(* MouseDelegate.h on onMouseCancel(): it is called when a press is        *)
(* canceled without being released.                                        *)
CancelledPressEnds ==
    Told /\ mouseEvents = <<>> /\ inputEvents = <<>> /\ Len(touches) = 0
        => "left" \notin held
=============================================================================
