----------------------------- MODULE MacWindow -----------------------------
(***************************************************************************)
(* The two threads of the library on a Mac.  The system reports to the     *)
(* main thread; frames are drawn by the thread of the display link, and by *)
(* the main thread when a view has to be redrawn.  A frame holds           *)
(* renderThreadSyncMutex from its begin to its end; whatever the main      *)
(* thread has to tell the application it queues under the mutex, but for   *)
(* the field `focused', which both threads use without it (Mac_Window.mm,  *)
(* Mac_OpenGLView.mm, Mac_CocoaWindow.mm, Mac_AppDelegate.mm).             *)
(*                                                                         *)
(* A thread that has come to the mutex and does not have it yet waits.     *)
(* The input that is queued is part of WindowInput.                        *)
(***************************************************************************)
EXTENDS Naturals, Sequences

CONSTANT MaxFocusEvents   \* bound: changes of focus queued in one frame

ASSUME MacAssumption == MaxFocusEvents \in Nat \ {0}

VARIABLES
    at,            \* where each thread is
    mutex,         \* the thread that has renderThreadSyncMutex, or "none"
    appStarted,    \* gAppStarted
    isFocused,     \* Window::focused
    queuedEvents,  \* the changes of focus that wait for a frame
    change,        \* the change of focus the main thread is at, and its caller
    focusedBeforeSleep,  \* g_WindowFocusedBeforeSleep
    quitting,      \* whether the application asked the main thread to quit
    alert,         \* whether the main thread shows a message box
    \* the system
    appActive,     \* mAppFocused
    miniaturized, asleep,
    \* the application
    toldFocus,     \* the focus it was told of last
    \* history
    reported,      \* what onFocusChanged() was called with last
    staleFocus     \* whether `focused' was used while it was not that

threadVars == <<at, mutex, appStarted, quitting, alert>>
focusVars  == <<isFocused, queuedEvents, change, focusedBeforeSleep, toldFocus,
                reported, staleFocus>>
macVars    == <<threadVars, focusVars, appActive, miniaturized, asleep>>

Threads == {"main", "link"}

MacInit ==
    /\ at = [main |-> "launching", link |-> "loop"]
    /\ mutex = "none" /\ appStarted = FALSE
    /\ isFocused = TRUE /\ queuedEvents = <<>> /\ toldFocus = TRUE
    /\ change = [value |-> TRUE, caller |-> "notification"]
    /\ focusedBeforeSleep = FALSE /\ quitting = FALSE /\ alert = FALSE
    /\ appActive = TRUE /\ miniaturized = FALSE /\ asleep = FALSE
    /\ reported = TRUE /\ staleFocus = FALSE

Goes(thread, place) == at' = [at EXCEPT ![thread] = place]

\* the main thread takes the next event; an open message box has its own loop
MainLoop == at["main"] = "loop"
-----------------------------------------------------------------------------
(* Changes of focus on the main thread.                                    *)

\* what a call of onFocusChanged(value) leaves in g_WindowFocusedBeforeSleep:
\* a loss cancels the focus on waking, after that the caller sets it
LeavesBeforeSleepUncancelled(value, caller) ==
    CASE caller = "sleep" -> TRUE [] caller = "wake" -> FALSE [] OTHER -> focusedBeforeSleep
LeavesBeforeSleep(value, caller) ==
    CASE caller = "sleep" -> TRUE
      [] caller = "wake" -> FALSE
      [] OTHER -> focusedBeforeSleep /\ value

\* onFocusChanged() up to the comparison
OnFocusChanged(value, caller) ==
    /\ Len(queuedEvents) < MaxFocusEvents
    /\ reported' = value
    /\ staleFocus' = (staleFocus \/ isFocused # reported)
    /\ change' = [value |-> value, caller |-> caller]
    /\ focusedBeforeSleep' = LeavesBeforeSleep(value, caller)
    /\ Goes("main", IF isFocused # value THEN "focus" ELSE "loop")
    /\ UNCHANGED <<isFocused, queuedEvents, toldFocus, mutex, appStarted, quitting, alert>>

\* the rest of it: the field is set, then the change is queued under the mutex
FocusIsSet ==
    /\ at["main"] = "focus"
    /\ isFocused' = change.value
    /\ Goes("main", "queue focus")
    /\ UNCHANGED <<queuedEvents, change, focusedBeforeSleep, toldFocus, reported, staleFocus,
                   mutex, appStarted, quitting, alert, appActive, miniaturized, asleep>>

QueueFocusChanged ==
    /\ at["main"] = "queue focus" /\ mutex = "none"
    /\ queuedEvents' = Append(queuedEvents, change.value)
    /\ Goes("main", "loop")
    /\ UNCHANGED <<isFocused, change, focusedBeforeSleep, toldFocus, reported, staleFocus,
                   mutex, appStarted, quitting, alert, appActive, miniaturized, asleep>>

ApplicationDidResignActive ==
    /\ MainLoop /\ appActive /\ appActive' = FALSE
    /\ OnFocusChanged(FALSE, "notification")
    /\ UNCHANGED <<miniaturized, asleep>>

\* OnAppGainedFocus(): a window in the Dock does not gain it
ApplicationDidBecomeActive ==
    /\ MainLoop /\ ~appActive /\ appActive' = TRUE
    /\ IF miniaturized THEN UNCHANGED <<threadVars, focusVars>>
                       ELSE OnFocusChanged(TRUE, "notification")
    /\ UNCHANGED <<miniaturized, asleep>>

\* the window goes to the Dock, and comes back to an active application
WindowDidMiniaturize ==
    /\ MainLoop /\ ~alert /\ ~miniaturized /\ miniaturized' = TRUE
    /\ OnFocusChanged(FALSE, "notification")
    /\ UNCHANGED <<appActive, asleep>>

WindowDidDeminiaturize ==
    /\ MainLoop /\ ~alert /\ appActive /\ miniaturized /\ miniaturized' = FALSE
    /\ OnFocusChanged(TRUE, "notification")
    /\ UNCHANGED <<appActive, asleep>>

\* receiveSleepNote: reads the field, then calls onFocusChanged()
ReceiveSleepNote ==
    /\ MainLoop /\ ~asleep /\ asleep' = TRUE /\ Len(queuedEvents) < MaxFocusEvents
    /\ staleFocus' = (staleFocus \/ isFocused # reported)
    /\ IF isFocused
       THEN /\ Goes("main", "sleep")
            /\ UNCHANGED focusedBeforeSleep
       ELSE /\ focusedBeforeSleep' = FALSE
            /\ UNCHANGED at
    /\ UNCHANGED <<isFocused, queuedEvents, change, toldFocus, reported,
                   mutex, appStarted, quitting, alert, appActive, miniaturized>>

LoseFocusToSleep ==
    /\ at["main"] = "sleep"
    /\ OnFocusChanged(FALSE, "sleep")
    /\ UNCHANGED <<appActive, miniaturized, asleep>>

ReceiveWakeNote ==
    /\ MainLoop /\ asleep /\ asleep' = FALSE
    /\ IF focusedBeforeSleep THEN OnFocusChanged(TRUE, "wake")
                             ELSE UNCHANGED <<threadVars, focusVars>>
    /\ UNCHANGED <<appActive, miniaturized>>

FocusChanges ==
    \/ ApplicationDidResignActive \/ ApplicationDidBecomeActive
    \/ WindowDidMiniaturize \/ WindowDidDeminiaturize
    \/ ReceiveSleepNote \/ LoseFocusToSleep \/ ReceiveWakeNote
    \/ FocusIsSet \/ QueueFocusChanged
-----------------------------------------------------------------------------
(* Frames, on either thread.                                               *)

Unfocused == UNCHANGED <<focusVars, appActive, miniaturized, asleep>>

\* draw up to the mutex: the display link's callback, or the main thread's drawRect
Draw(thread) ==
    /\ at[thread] = "loop" /\ Goes(thread, "draw")
    /\ UNCHANGED <<mutex, appStarted, quitting, alert>> /\ Unfocused

\* gAppStarted tested before the mutex is taken, a bug to be found
DrawsAlreadyStarted(thread) ==
    /\ at[thread] = "draw" /\ mutex = "none"
    /\ mutex' = thread /\ Goes(thread, "dispatch")
    /\ UNCHANGED <<appStarted, quitting, alert>> /\ Unfocused

FrameBegins(thread) ==
    /\ at[thread] = "draw" /\ mutex = "none"
    /\ IF appStarted THEN mutex' = thread /\ Goes(thread, "dispatch")
                     ELSE UNCHANGED mutex /\ Goes(thread, "loop")
    /\ UNCHANGED <<appStarted, quitting, alert>> /\ Unfocused

\* dispatchQueuedEvents(): handleFocusChangeEvent() with the value of the queue
DispatchQueuedEvent(thread) ==
    /\ at[thread] = "dispatch" /\ queuedEvents # <<>>
    /\ isFocused' = Head(queuedEvents) /\ toldFocus' = Head(queuedEvents)
    /\ queuedEvents' = Tail(queuedEvents)
    /\ UNCHANGED <<threadVars, change, focusedBeforeSleep, reported, staleFocus,
                   appActive, miniaturized, asleep>>

\* updateOneFrame()
UpdateOneFrame(thread) ==
    /\ at[thread] = "dispatch" /\ queuedEvents = <<>>
    /\ Goes(thread, "update")
    /\ UNCHANGED <<mutex, appStarted, quitting, alert>> /\ Unfocused

\* the application calls terminateMainLoop()
TerminateMainLoop(thread) ==
    /\ at[thread] = "update" /\ quitting' = TRUE
    /\ UNCHANGED <<at, mutex, appStarted, alert>> /\ Unfocused

\* the application calls messageBox(): the main thread is asked to show it,
\* and the frame waits for its end
ShowAlertView ==
    /\ at["link"] = "update" /\ Goes("link", "box")
    /\ UNCHANGED <<mutex, appStarted, quitting, alert>> /\ Unfocused

FrameEnds(thread) ==
    /\ at[thread] = "update" /\ mutex' = "none" /\ Goes(thread, "loop")
    /\ UNCHANGED <<appStarted, quitting, alert>> /\ Unfocused

Frames ==
    \/ \E thread \in Threads :
          \/ Draw(thread) \/ FrameBegins(thread) \/ DispatchQueuedEvent(thread)
          \/ UpdateOneFrame(thread) \/ TerminateMainLoop(thread) \/ FrameEnds(thread)
    \/ ShowAlertView
-----------------------------------------------------------------------------
(* The rest of the main thread.                                            *)

\* applicationDidFinishLaunching: after gAprilInit()
DidFinishLaunching ==
    /\ at["main"] = "launching" /\ mutex = "none"
    /\ appStarted' = TRUE /\ Goes("main", "loop")
    /\ UNCHANGED <<mutex, quitting, alert>> /\ Unfocused

\* the mouse, the keys, a change of size, the areas of the cursor: the handlers
\* of all of them take the mutex for a moment
Input ==
    /\ MainLoop /\ ~alert /\ Goes("main", "input")
    /\ UNCHANGED <<mutex, appStarted, quitting, alert>> /\ Unfocused

InputQueued ==
    /\ at["main"] = "input" /\ mutex = "none" /\ Goes("main", "loop")
    /\ UNCHANGED <<mutex, appStarted, quitting, alert>> /\ Unfocused

\* _showAlertView: a message box runs, the user dismisses it, its callback is called
AlertBegins ==
    /\ MainLoop /\ at["link"] = "box" /\ ~alert /\ alert' = TRUE
    /\ UNCHANGED <<at, mutex, appStarted, quitting>> /\ Unfocused

AlertDismissed ==
    /\ MainLoop /\ alert /\ alert' = FALSE /\ Goes("link", "update")
    /\ UNCHANGED <<mutex, appStarted, quitting>> /\ Unfocused

\* windowShouldClose and AprilApplication's terminate: the application is asked
\* under the mutex
CloseRequested ==
    /\ MainLoop /\ ~alert /\ Goes("main", "close")
    /\ UNCHANGED <<mutex, appStarted, quitting, alert>> /\ Unfocused

HandleQuitRequest ==
    /\ at["main"] = "close" /\ mutex = "none"
    /\ mutex' = "main" /\ Goes("main", "asking")
    /\ UNCHANGED <<appStarted, quitting, alert>> /\ Unfocused

\* the mutex kept when the application does not quit, a bug to be found
AnsweredWithMutex ==
    /\ at["main"] = "asking"
    /\ \/ mutex' = "none" /\ Goes("main", "terminate")
       \/ UNCHANGED mutex /\ Goes("main", "loop")
    /\ UNCHANGED <<appStarted, quitting, alert>> /\ Unfocused

QuitRequestAnswered ==
    /\ at["main"] = "asking" /\ mutex' = "none"
    /\ \E next \in {"loop", "terminate"} : Goes("main", next)
    /\ UNCHANGED <<appStarted, quitting, alert>> /\ Unfocused

\* what terminateMainLoop() left for the main thread
TerminateRequested ==
    /\ MainLoop /\ quitting /\ quitting' = FALSE /\ Goes("main", "terminate")
    /\ UNCHANGED <<mutex, appStarted, alert>> /\ Unfocused

\* applicationWillTerminate: frames are stopped, then gAprilDestroy(); the
\* process ends, and with it a thread that still waits for the mutex
ApplicationWillTerminate ==
    /\ at["main"] = "terminate" /\ mutex = "none"
    /\ appStarted' = FALSE /\ Goes("main", "destroying")
    /\ UNCHANGED <<mutex, quitting, alert>> /\ Unfocused

Destroyed ==
    /\ at["main"] = "destroying" /\ at' = [thread \in Threads |-> "exited"]
    /\ UNCHANGED <<mutex, appStarted, quitting, alert>> /\ Unfocused

MainThread ==
    \/ DidFinishLaunching \/ Input \/ InputQueued \/ AlertBegins \/ AlertDismissed
    \/ CloseRequested \/ HandleQuitRequest \/ QuitRequestAnswered
    \/ TerminateRequested \/ ApplicationWillTerminate \/ Destroyed

MacNext == FocusChanges \/ Frames \/ MainThread

MacSpec == MacInit /\ [][MacNext]_macVars
-----------------------------------------------------------------------------
MacTypeOK ==
    /\ at["main"] \in {"launching", "loop", "sleep", "focus", "queue focus", "draw", "dispatch",
                       "update", "input", "close", "asking", "terminate", "destroying", "exited"}
    /\ at["link"] \in {"loop", "draw", "dispatch", "update", "box", "exited"}
    /\ DOMAIN at = Threads
    /\ mutex \in Threads \cup {"none"} /\ appStarted \in BOOLEAN
    /\ isFocused \in BOOLEAN /\ toldFocus \in BOOLEAN
    /\ queuedEvents \in Seq(BOOLEAN) /\ Len(queuedEvents) <= MaxFocusEvents
    /\ change \in [value : BOOLEAN, caller : {"notification", "sleep", "wake"}]
    /\ focusedBeforeSleep \in BOOLEAN /\ quitting \in BOOLEAN /\ alert \in BOOLEAN
    /\ appActive \in BOOLEAN /\ miniaturized \in BOOLEAN /\ asleep \in BOOLEAN
    /\ reported \in BOOLEAN /\ staleFocus \in BOOLEAN

\* the application's code is run by one thread at a time: no frame is drawn by
\* two threads, while it answers a request, before it is initialised, or once
\* it is being destroyed (renderThreadSyncMutex and gAppStarted in draw)
OneThreadInApplication ==
    at["main"] \in {"launching", "dispatch", "update", "asking", "destroying"} =>
        at["link"] \notin {"dispatch", "update", "box"}

\* Nothing about the focus is under way.
FocusSettled == MainLoop /\ queuedEvents = <<>> /\ ~asleep

\* When everything has been told, an awake application was told last of the
\* focus it has, however activation, the Dock and sleep came mixed.  Known
\* defect: `focused' may hold the value of an older event when it is compared.
ToldOfFocus == FocusSettled /\ ~staleFocus => toldFocus = (appActive /\ ~miniaturized)

\* The threads never wait for each other, unless a frame shows a message box:
\* known defect, the frame keeps the mutex that the main thread may come to
\* wait for before it can show or end the box.
WaitsOnlyForBox == at["main"] = "exited" \/ at["link"] = "box" \/ ENABLED MacNext

\* SystemDelegate.h on onWindowFocusChanged(): the application is told whether
\* the window is focused right now.
FocusedRightNow == FocusSettled => toldFocus = (appActive /\ ~miniaturized)
=============================================================================
