-------------------------- MODULE MacWindow_proofs --------------------------
(***************************************************************************)
(* Theorems about the two threads of MacWindow, for every number of        *)
(* changes of focus that may be queued in one frame.                       *)
(***************************************************************************)
EXTENDS MacWindow, SequenceTheorems, TLAPS

(* Who has the mutex runs the application's code; before its start and     *)
(* after its end nobody has it.  A message box is open only for a frame    *)
(* that waits for it.                                                      *)
Turns ==
    /\ mutex = "link" <=> at["link"] \in {"dispatch", "update", "box"}
    /\ mutex = "main" <=> at["main"] \in {"dispatch", "update", "asking"}
    /\ appStarted <=> at["main"] \notin {"launching", "destroying", "exited"}
    /\ mutex = "none" \/ appStarted
    /\ alert => at["link"] = "box"

Deserved == appActive /\ ~miniaturized

(* What the application will have been told once the queue is empty.       *)
LastTold == IF queuedEvents = <<>> THEN toldFocus ELSE queuedEvents[Len(queuedEvents)]

(* What onFocusChanged() was told last is the focus the window should      *)
(* have, but for the one a sleep took away that waking gives back; and it  *)
(* is what the application is told, or at the latest what the main thread  *)
(* is about to queue.                                                      *)
FocusPassedOn ==
    /\ focusedBeforeSleep => asleep
    /\ at["main"] = "sleep" => asleep /\ ~focusedBeforeSleep
    /\ ~staleFocus =>
        /\ IF focusedBeforeSleep THEN ~reported /\ Deserved ELSE reported = Deserved
        /\ at["main"] = "sleep" => reported
        /\ IF at["main"] \in {"focus", "queue focus"} THEN change.value = reported
                                                      ELSE LastTold = reported

(* A change under way has its place in the queue.                          *)
QueueHasRoom ==
    at["main"] \in {"sleep", "focus", "queue focus"} => Len(queuedEvents) < MaxFocusEvents

(* Where a thread takes the mutex next, and the next step of a thread is   *)
(* possible: it neither waits for the mutex nor for a message box.         *)
TakesMutex == {"launching", "queue focus", "draw", "input", "close", "terminate"}

GoesOn(thread) ==
    /\ at[thread] \in TakesMutex => mutex = "none"
    /\ at[thread] = "sleep" => Len(queuedEvents) < MaxFocusEvents
    /\ at[thread] \notin {"box", "exited"}

(* Who has the mutex never waits, unless it shows a message box; and the   *)
(* main thread never waits while nobody has it.                            *)
HolderGoesOn ==
    /\ mutex # "none" => at[mutex] = "box" \/ GoesOn(mutex)
    /\ mutex = "none" => at["main"] = "exited" \/ GoesOn("main")

MacInv == MacTypeOK /\ Turns /\ QueueHasRoom /\ FocusPassedOn
-----------------------------------------------------------------------------
(* Where the threads are.                                                  *)

LEMMA Going ==
    ASSUME DOMAIN at = Threads, NEW thread \in Threads, NEW place, Goes(thread, place)
    PROVE  /\ DOMAIN at' = Threads
           /\ at'[thread] = place
           /\ \A other \in Threads \ {thread} : at'[other] = at[other]
BY DEF Goes

LEMMA MacTypeInit == MacInit => MacTypeOK
PROOF
<1> SUFFICES ASSUME MacInit PROVE MacTypeOK
  OBVIOUS
<1>1. queuedEvents \in Seq(BOOLEAN) /\ Len(queuedEvents) <= MaxFocusEvents
  BY EmptySeq, MacAssumption DEF MacInit
<1> QED
  BY <1>1 DEF MacInit, MacTypeOK, Threads

LEMMA TurnsInit == MacInit => Turns
BY DEF MacInit, Turns

LEMMA FocusInit == MacInit => FocusPassedOn
PROOF
<1> SUFFICES ASSUME MacInit PROVE FocusPassedOn
  OBVIOUS
<1>1. LastTold = TRUE /\ Deserved
  BY DEF MacInit, LastTold, Deserved
<1>2. at["main"] = "launching"
  BY DEF MacInit
<1> QED
  BY <1>1, <1>2 DEF MacInit, FocusPassedOn

(* Where the main thread is outside the application's code.                *)
Outside == {"loop", "sleep", "focus", "queue focus", "draw", "input", "close", "terminate"}

LEMMA TurnsKept ==
    ASSUME Turns, at["main"] \in Outside, at'["main"] \in Outside, at'["link"] = at["link"],
           UNCHANGED <<mutex, appStarted, alert>>
    PROVE  Turns'
BY DEF Turns, Outside

LEMMA FocusChangesLeaveTurns ==
    ASSUME MacTypeOK, Turns, FocusChanges
    PROVE  Turns'
PROOF
<1>1. DOMAIN at = Threads /\ "main" \in Threads /\ "link" \in Threads
  BY DEF MacTypeOK, Threads
<1>2. ASSUME NEW value, NEW caller, OnFocusChanged(value, caller), at["main"] \in Outside
      PROVE  Turns'
  <2>1. PICK place \in Outside : Goes("main", place)
    BY <1>2 DEF OnFocusChanged, Outside
  <2> QED
    BY <1>1, <1>2, <2>1, Going, TurnsKept DEF OnFocusChanged, Threads
<1>3. CASE ApplicationDidResignActive
  BY <1>2, <1>3 DEF ApplicationDidResignActive, MainLoop, Outside
<1>4. CASE ApplicationDidBecomeActive
  <2>1. CASE miniaturized
    BY <1>4, <2>1, TurnsKept DEF ApplicationDidBecomeActive, MainLoop, Outside, threadVars
  <2> QED
    BY <1>2, <1>4, <2>1 DEF ApplicationDidBecomeActive, MainLoop, Outside
<1>5. CASE WindowDidMiniaturize
  BY <1>2, <1>5 DEF WindowDidMiniaturize, MainLoop, Outside
<1>6. CASE WindowDidDeminiaturize
  BY <1>2, <1>6 DEF WindowDidDeminiaturize, MainLoop, Outside
<1>7. CASE ReceiveSleepNote
  <2>1. at'["main"] \in Outside /\ at'["link"] = at["link"]
    BY <1>1, <1>7, Going DEF ReceiveSleepNote, MainLoop, Outside, Threads
  <2> QED
    BY <1>7, <2>1, TurnsKept DEF ReceiveSleepNote, MainLoop, Outside
<1>8. CASE LoseFocusToSleep
  BY <1>2, <1>8 DEF LoseFocusToSleep, Outside
<1>9. CASE ReceiveWakeNote
  <2>1. CASE ~focusedBeforeSleep
    BY <1>9, <2>1, TurnsKept DEF ReceiveWakeNote, MainLoop, Outside, threadVars
  <2> QED
    BY <1>2, <1>9, <2>1 DEF ReceiveWakeNote, MainLoop, Outside
<1>10. CASE FocusIsSet
  BY <1>1, <1>10, Going, TurnsKept DEF FocusIsSet, Outside, Threads
<1>11. CASE QueueFocusChanged
  BY <1>1, <1>11, Going, TurnsKept DEF QueueFocusChanged, Outside, Threads
<1> QED
  BY <1>3, <1>4, <1>5, <1>6, <1>7, <1>8, <1>9, <1>10, <1>11 DEF FocusChanges

(* A frame takes the mutex at its begin and gives it back at its end.      *)
LEMMA FramesKeepTurns ==
    ASSUME MacTypeOK, Turns, Frames
    PROVE  Turns'
PROOF
<1>1. DOMAIN at = Threads /\ "main" \in Threads /\ "link" \in Threads
  BY DEF MacTypeOK, Threads
<1>2. ASSUME NEW thread \in Threads,
             \/ Draw(thread) \/ FrameBegins(thread) \/ DispatchQueuedEvent(thread)
             \/ UpdateOneFrame(thread) \/ TerminateMainLoop(thread) \/ FrameEnds(thread)
      PROVE  Turns'
  <2>1. CASE Draw(thread)
    BY <1>1, <1>2, <2>1, Going DEF Draw, Turns, Threads
  <2>2. CASE FrameBegins(thread)
    <3>1. CASE appStarted
      BY <1>1, <1>2, <2>2, <3>1, Going DEF FrameBegins, Turns, Threads
    <3>2. CASE ~appStarted
      BY <1>1, <1>2, <2>2, <3>2, Going DEF FrameBegins, Turns, Threads
    <3> QED
      BY <3>1, <3>2
  <2>3. CASE DispatchQueuedEvent(thread)
    BY <2>3 DEF DispatchQueuedEvent, Turns, threadVars
  <2>4. CASE UpdateOneFrame(thread)
    BY <1>1, <1>2, <2>4, Going DEF UpdateOneFrame, Turns, Threads
  <2>5. CASE TerminateMainLoop(thread)
    BY <2>5 DEF TerminateMainLoop, Turns
  <2>6. CASE FrameEnds(thread)
    BY <1>1, <1>2, <2>6, Going DEF FrameEnds, Turns, Threads
  <2> QED
    BY <1>2, <2>1, <2>2, <2>3, <2>4, <2>5, <2>6
<1>3. CASE ShowAlertView
  BY <1>1, <1>3, Going DEF ShowAlertView, Turns, Threads
<1> QED
  BY <1>2, <1>3 DEF Frames

LEMMA MainThreadKeepsTurns ==
    ASSUME MacTypeOK, Turns, MainThread
    PROVE  Turns'
PROOF
<1>1. DOMAIN at = Threads /\ "main" \in Threads /\ "link" \in Threads
  BY DEF MacTypeOK, Threads
<1>2. CASE DidFinishLaunching
  BY <1>1, <1>2, Going DEF DidFinishLaunching, Turns, Threads
<1>3. CASE Input
  BY <1>1, <1>3, Going, TurnsKept DEF Input, MainLoop, Outside, Threads
<1>4. CASE InputQueued
  BY <1>1, <1>4, Going, TurnsKept DEF InputQueued, Outside, Threads
<1>5. CASE AlertBegins
  BY <1>5 DEF AlertBegins, Turns
<1>6. CASE AlertDismissed
  BY <1>1, <1>6, Going DEF AlertDismissed, MainLoop, Turns, Threads
<1>7. CASE CloseRequested
  BY <1>1, <1>7, Going, TurnsKept DEF CloseRequested, MainLoop, Outside, Threads
<1>8. CASE HandleQuitRequest
  BY <1>1, <1>8, Going DEF HandleQuitRequest, Turns, Threads
<1>9. CASE QuitRequestAnswered
  BY <1>1, <1>9, Going DEF QuitRequestAnswered, Turns, Threads
<1>10. CASE TerminateRequested
  BY <1>1, <1>10, Going, TurnsKept DEF TerminateRequested, MainLoop, Outside, Threads
<1>11. CASE ApplicationWillTerminate
  BY <1>1, <1>11, Going DEF ApplicationWillTerminate, Turns, Threads
<1>12. CASE Destroyed
  BY <1>12 DEF Destroyed, Turns, Threads
<1> QED
  BY <1>2, <1>3, <1>4, <1>5, <1>6, <1>7, <1>8, <1>9, <1>10, <1>11, <1>12 DEF MainThread

-----------------------------------------------------------------------------
(* Types.                                                                  *)

QueueTypeOK == queuedEvents \in Seq(BOOLEAN) /\ Len(queuedEvents) <= MaxFocusEvents

MainPlaces == {"launching", "loop", "sleep", "focus", "queue focus", "draw", "dispatch",
               "update", "input", "close", "asking", "terminate", "destroying", "exited"}
LinkPlaces == {"loop", "draw", "dispatch", "update", "box", "exited"}
PlacesOK ==
    /\ at["main"] \in MainPlaces /\ at["link"] \in LinkPlaces /\ DOMAIN at = Threads
    /\ mutex \in Threads \cup {"none"}
FlagsOK ==
    /\ appStarted \in BOOLEAN /\ isFocused \in BOOLEAN /\ toldFocus \in BOOLEAN
    /\ change \in [value : BOOLEAN, caller : {"notification", "sleep", "wake"}]
    /\ focusedBeforeSleep \in BOOLEAN /\ quitting \in BOOLEAN /\ alert \in BOOLEAN
    /\ appActive \in BOOLEAN /\ miniaturized \in BOOLEAN /\ asleep \in BOOLEAN
    /\ reported \in BOOLEAN /\ staleFocus \in BOOLEAN

LEMMA MacTypes == MacTypeOK <=> PlacesOK /\ FlagsOK /\ QueueTypeOK
BY DEF MacTypeOK, PlacesOK, FlagsOK, QueueTypeOK, MainPlaces, LinkPlaces

LEMMA OnFocusChangedGoes ==
    ASSUME DOMAIN at = Threads, NEW value \in BOOLEAN,
           NEW caller \in {"notification", "sleep", "wake"}, OnFocusChanged(value, caller)
    PROVE  /\ DOMAIN at' = Threads /\ at'["link"] = at["link"]
           /\ at'["main"] = IF isFocused # value THEN "focus" ELSE "loop"
           /\ Len(queuedEvents) < MaxFocusEvents
           /\ UNCHANGED <<queuedEvents, toldFocus, mutex, appStarted>>
BY Going DEF OnFocusChanged, Threads

(* The main thread comes to its change of focus by onFocusChanged() only,  *)
(* which is called where none is under way.                                *)
LEMMA FocusChangesGo ==
    ASSUME MacTypeOK, FocusChanges
    PROVE  /\ DOMAIN at' = Threads /\ at'["link"] = at["link"]
           /\ UNCHANGED <<mutex, appStarted>>
           /\ at'["main"] \in {"loop", "sleep", "focus", "queue focus"}
           /\ at'["main"] = "queue focus" => at["main"] = "focus"
           /\ at'["main"] \in {"sleep", "focus"} => Len(queuedEvents) < MaxFocusEvents
           /\ UNCHANGED queuedEvents \/ QueueFocusChanged
PROOF
<1>1. DOMAIN at = Threads /\ "main" \in Threads /\ "link" \in Threads
  BY DEF MacTypeOK, Threads
<1>2. CASE ApplicationDidResignActive
  BY <1>1, <1>2, OnFocusChangedGoes DEF ApplicationDidResignActive
<1>3. CASE ApplicationDidBecomeActive
  BY <1>1, <1>3, OnFocusChangedGoes DEF ApplicationDidBecomeActive, MainLoop, threadVars, focusVars
<1>4. CASE WindowDidMiniaturize
  BY <1>1, <1>4, OnFocusChangedGoes DEF WindowDidMiniaturize
<1>5. CASE WindowDidDeminiaturize
  BY <1>1, <1>5, OnFocusChangedGoes DEF WindowDidDeminiaturize
<1>6. CASE ReceiveSleepNote
  BY <1>1, <1>6, Going DEF ReceiveSleepNote, MainLoop, Threads
<1>7. CASE LoseFocusToSleep
  BY <1>1, <1>7, OnFocusChangedGoes DEF LoseFocusToSleep
<1>8. CASE ReceiveWakeNote
  BY <1>1, <1>8, OnFocusChangedGoes DEF ReceiveWakeNote, MainLoop, threadVars, focusVars
<1>9. CASE FocusIsSet
  <2>1. Goes("main", "queue focus") /\ at["main"] = "focus"
        /\ UNCHANGED <<mutex, appStarted, queuedEvents>>
    BY <1>9 DEF FocusIsSet
  <2>2. DOMAIN at' = Threads /\ at'["main"] = "queue focus" /\ at'["link"] = at["link"]
    BY <1>1, <2>1, Going DEF Threads
  <2> QED
    BY <2>1, <2>2
<1>10. CASE QueueFocusChanged
  <2>1. Goes("main", "loop") /\ UNCHANGED <<mutex, appStarted>>
    BY <1>10 DEF QueueFocusChanged
  <2>2. DOMAIN at' = Threads /\ at'["main"] = "loop" /\ at'["link"] = at["link"]
    BY <1>1, <2>1, Going DEF Threads
  <2> QED
    BY <1>10, <2>1, <2>2
<1> QED
  BY <1>2, <1>3, <1>4, <1>5, <1>6, <1>7, <1>8, <1>9, <1>10 DEF FocusChanges

(* Frames and the rest of the main thread do not come near it.             *)
LEMMA FramesGo ==
    ASSUME MacTypeOK, Frames
    PROVE  /\ PlacesOK'
           /\ UNCHANGED at["main"] \/ {at["main"], at'["main"]} \subseteq {"loop", "draw", "dispatch", "update"}
           /\ Unfocused \/ \E thread \in Threads : DispatchQueuedEvent(thread)
PROOF
<1>1. PlacesOK /\ DOMAIN at = Threads /\ "main" \in Threads /\ "link" \in Threads
  BY MacTypes DEF PlacesOK, Threads
<1>2. ASSUME NEW thread \in Threads, NEW place \in {"loop", "draw", "dispatch", "update"},
             at[thread] \in {"loop", "draw", "dispatch", "update"}, Goes(thread, place),
             mutex' \in Threads \cup {"none"}
      PROVE  /\ PlacesOK'
             /\ UNCHANGED at["main"] \/ {at["main"], at'["main"]} \subseteq {"loop", "draw", "dispatch", "update"}
  BY <1>1, <1>2, Going DEF PlacesOK, Threads, MainPlaces, LinkPlaces
<1>3. ASSUME NEW thread \in Threads,
             \/ Draw(thread) \/ FrameBegins(thread) \/ DispatchQueuedEvent(thread)
             \/ UpdateOneFrame(thread) \/ TerminateMainLoop(thread) \/ FrameEnds(thread)
      PROVE  /\ PlacesOK'
             /\ UNCHANGED at["main"] \/ {at["main"], at'["main"]} \subseteq {"loop", "draw", "dispatch", "update"}
             /\ Unfocused \/ DispatchQueuedEvent(thread)
  <2>1. CASE Draw(thread)
    BY <1>1, <1>2, <2>1 DEF Draw, PlacesOK
  <2>2. CASE FrameBegins(thread)
    BY <1>1, <1>2, <2>2 DEF FrameBegins, PlacesOK
  <2>3. CASE DispatchQueuedEvent(thread)
    BY <1>1, <2>3 DEF DispatchQueuedEvent, PlacesOK, threadVars
  <2>4. CASE UpdateOneFrame(thread)
    BY <1>1, <1>2, <2>4 DEF UpdateOneFrame, PlacesOK
  <2>5. CASE TerminateMainLoop(thread)
    BY <1>1, <2>5 DEF TerminateMainLoop, PlacesOK
  <2>6. CASE FrameEnds(thread)
    BY <1>1, <1>2, <2>6 DEF FrameEnds, PlacesOK
  <2> QED
    BY <1>3, <2>1, <2>2, <2>3, <2>4, <2>5, <2>6
<1>4. CASE ShowAlertView
  BY <1>1, <1>4, Going DEF ShowAlertView, PlacesOK, Threads, MainPlaces, LinkPlaces
<1> QED
  BY <1>3, <1>4 DEF Frames

LEMMA MainThreadGoes ==
    ASSUME MacTypeOK, MainThread
    PROVE  /\ PlacesOK' /\ Unfocused
           /\ UNCHANGED at["main"] \/ {at["main"], at'["main"]} \cap {"sleep", "focus", "queue focus"} = {}
PROOF
<1>1. PlacesOK /\ DOMAIN at = Threads /\ "main" \in Threads /\ "link" \in Threads
  BY MacTypes DEF PlacesOK, Threads
<1>2. ASSUME NEW place \in {"loop", "input", "close", "asking", "terminate", "destroying"},
             at["main"] \in {"launching", "loop", "input", "close", "asking", "terminate"},
             Goes("main", place), mutex' \in Threads \cup {"none"}
      PROVE  /\ PlacesOK'
             /\ {at["main"], at'["main"]} \cap {"sleep", "focus", "queue focus"} = {}
  BY <1>1, <1>2, Going DEF PlacesOK, Threads, MainPlaces, LinkPlaces
<1>3. CASE DidFinishLaunching
  BY <1>1, <1>2, <1>3 DEF DidFinishLaunching, PlacesOK
<1>4. CASE Input
  BY <1>1, <1>2, <1>4 DEF Input, MainLoop, PlacesOK
<1>5. CASE InputQueued
  BY <1>1, <1>2, <1>5 DEF InputQueued, PlacesOK
<1>6. CASE AlertBegins
  BY <1>1, <1>6 DEF AlertBegins, PlacesOK
<1>7. CASE AlertDismissed
  BY <1>1, <1>7, Going DEF AlertDismissed, PlacesOK, Threads, MainPlaces, LinkPlaces
<1>8. CASE CloseRequested
  BY <1>1, <1>2, <1>8 DEF CloseRequested, MainLoop, PlacesOK
<1>9. CASE HandleQuitRequest
  BY <1>1, <1>2, <1>9 DEF HandleQuitRequest
<1>10. CASE QuitRequestAnswered
  BY <1>1, <1>2, <1>10 DEF QuitRequestAnswered
<1>11. CASE TerminateRequested
  BY <1>1, <1>2, <1>11 DEF TerminateRequested, MainLoop, PlacesOK
<1>12. CASE ApplicationWillTerminate
  BY <1>1, <1>2, <1>12 DEF ApplicationWillTerminate, PlacesOK
<1>13. CASE Destroyed
  BY <1>1, <1>13 DEF Destroyed, PlacesOK, Threads, MainPlaces, LinkPlaces
<1> QED
  BY <1>3, <1>4, <1>5, <1>6, <1>7, <1>8, <1>9, <1>10, <1>11, <1>12, <1>13 DEF MainThread

LEMMA QueueStep ==
    ASSUME MacTypeOK, QueueHasRoom, MacNext
    PROVE  QueueTypeOK' /\ QueueHasRoom'
PROOF
<1>1. QueueTypeOK /\ change.value \in BOOLEAN
  BY DEF MacTypeOK, QueueTypeOK
<1>2. CASE FocusChanges
  <2>1. CASE QueueFocusChanged
    <3>1. queuedEvents' = Append(queuedEvents, change.value) /\ at["main"] = "queue focus"
          /\ Goes("main", "loop")
      BY <2>1 DEF QueueFocusChanged
    <3>2. at'["main"] = "loop"
      BY <3>1, Going DEF MacTypeOK, Threads
    <3>3. Len(queuedEvents) < MaxFocusEvents
      BY <3>1 DEF QueueHasRoom
    <3>4. queuedEvents' \in Seq(BOOLEAN) /\ Len(queuedEvents') = Len(queuedEvents) + 1
      BY <1>1, <3>1, AppendProperties DEF QueueTypeOK
    <3>5. Len(queuedEvents) \in Nat
      BY <1>1, LenProperties DEF QueueTypeOK
    <3>6. Len(queuedEvents') <= MaxFocusEvents
      BY <3>3, <3>4, <3>5, MacAssumption
    <3> QED
      BY <3>2, <3>4, <3>6 DEF QueueTypeOK, QueueHasRoom
  <2>2. CASE UNCHANGED queuedEvents
    <3>1. QueueTypeOK'
      BY <1>1, <2>2 DEF QueueTypeOK
    <3>2. /\ at'["main"] = "queue focus" => at["main"] = "focus"
          /\ at'["main"] \in {"sleep", "focus"} => Len(queuedEvents) < MaxFocusEvents
      BY <1>2, FocusChangesGo
    <3> QED
      BY <2>2, <3>1, <3>2 DEF QueueHasRoom
  <2> QED
    BY <1>2, <2>1, <2>2, FocusChangesGo
<1>3. CASE Frames
  <2>1. UNCHANGED at["main"] \/ at'["main"] \notin {"sleep", "focus", "queue focus"}
    BY <1>3, FramesGo
  <2>2. CASE UNCHANGED queuedEvents
    BY <1>1, <2>1, <2>2 DEF QueueTypeOK, QueueHasRoom
  <2>3. CASE \E thread \in Threads : DispatchQueuedEvent(thread)
    <3>1. queuedEvents # <<>> /\ queuedEvents' = Tail(queuedEvents)
      BY <2>3 DEF DispatchQueuedEvent
    <3>2. queuedEvents' \in Seq(BOOLEAN) /\ Len(queuedEvents') = Len(queuedEvents) - 1
      BY <1>1, <3>1, HeadTailProperties DEF QueueTypeOK
    <3>3. Len(queuedEvents) \in Nat
      BY <1>1, LenProperties DEF QueueTypeOK
    <3>4. /\ Len(queuedEvents') <= MaxFocusEvents
          /\ Len(queuedEvents) < MaxFocusEvents => Len(queuedEvents') < MaxFocusEvents
      BY <1>1, <3>2, <3>3, MacAssumption DEF QueueTypeOK
    <3> QED
      BY <2>1, <3>2, <3>4 DEF QueueTypeOK, QueueHasRoom
  <2> QED
    BY <1>3, <2>2, <2>3, FramesGo DEF Unfocused, focusVars
<1>4. CASE MainThread
  <2>1. UNCHANGED at["main"] \/ at'["main"] \notin {"sleep", "focus", "queue focus"}
    BY <1>4, MainThreadGoes
  <2>2. UNCHANGED queuedEvents
    BY <1>4, MainThreadGoes DEF Unfocused, focusVars
  <2> QED
    BY <1>1, <2>1, <2>2 DEF QueueTypeOK, QueueHasRoom
<1> QED
  BY <1>2, <1>3, <1>4 DEF MacNext

LEMMA FlagsStep ==
    ASSUME MacTypeOK, MacNext
    PROVE  FlagsOK'
PROOF
<1>1. FlagsOK
  BY MacTypes
<1>2. CASE FocusChanges
  <2>1. ASSUME NEW value \in BOOLEAN, NEW caller \in {"notification", "sleep", "wake"},
               OnFocusChanged(value, caller),
               appActive' \in BOOLEAN, miniaturized' \in BOOLEAN, asleep' \in BOOLEAN
        PROVE  FlagsOK'
    <3>1. focusedBeforeSleep' \in BOOLEAN
      BY <1>1, <2>1 DEF OnFocusChanged, LeavesBeforeSleep, FlagsOK
    <3> QED
      BY <1>1, <2>1, <3>1 DEF OnFocusChanged, FlagsOK
  <2>2. CASE ApplicationDidResignActive
    BY <1>1, <2>1, <2>2 DEF ApplicationDidResignActive, FlagsOK
  <2>3. CASE ApplicationDidBecomeActive
    <3>1. CASE miniaturized
      BY <1>1, <2>3, <3>1 DEF ApplicationDidBecomeActive, FlagsOK, threadVars, focusVars
    <3> QED
      BY <1>1, <2>1, <2>3, <3>1 DEF ApplicationDidBecomeActive, FlagsOK
  <2>4. CASE WindowDidMiniaturize
    BY <1>1, <2>1, <2>4 DEF WindowDidMiniaturize, FlagsOK
  <2>5. CASE WindowDidDeminiaturize
    BY <1>1, <2>1, <2>5 DEF WindowDidDeminiaturize, FlagsOK
  <2>6. CASE ReceiveSleepNote
    BY <1>1, <2>6 DEF ReceiveSleepNote, FlagsOK
  <2>7. CASE LoseFocusToSleep
    BY <1>1, <2>1, <2>7 DEF LoseFocusToSleep, FlagsOK
  <2>8. CASE ReceiveWakeNote
    <3>1. CASE ~focusedBeforeSleep
      BY <1>1, <2>8, <3>1 DEF ReceiveWakeNote, FlagsOK, threadVars, focusVars
    <3> QED
      BY <1>1, <2>1, <2>8, <3>1 DEF ReceiveWakeNote, FlagsOK
  <2>9. CASE FocusIsSet
    <3>1. isFocused' = change.value
          /\ UNCHANGED <<toldFocus, change, focusedBeforeSleep, reported, staleFocus, appStarted,
                         quitting, alert, appActive, miniaturized, asleep>>
      BY <2>9 DEF FocusIsSet
    <3> QED
      BY <1>1, <3>1 DEF FlagsOK
  <2>10. CASE QueueFocusChanged
    <3>1. UNCHANGED <<isFocused, toldFocus, change, focusedBeforeSleep, reported, staleFocus,
                      appStarted, quitting, alert, appActive, miniaturized, asleep>>
      BY <2>10 DEF QueueFocusChanged
    <3> QED
      BY <1>1, <3>1 DEF FlagsOK
  <2> QED
    BY <1>2, <2>2, <2>3, <2>4, <2>5, <2>6, <2>7, <2>8, <2>9, <2>10 DEF FocusChanges
<1>3. CASE Frames
  <2>1. ASSUME NEW thread \in Threads, DispatchQueuedEvent(thread)
        PROVE  FlagsOK'
    <3>1. Head(queuedEvents) \in BOOLEAN
      BY <2>1, HeadTailProperties DEF DispatchQueuedEvent, MacTypeOK
    <3> QED
      BY <1>1, <2>1, <3>1 DEF DispatchQueuedEvent, FlagsOK, threadVars
  <2>2. ASSUME NEW thread \in Threads,
               \/ Draw(thread) \/ FrameBegins(thread)
               \/ UpdateOneFrame(thread) \/ TerminateMainLoop(thread) \/ FrameEnds(thread)
        PROVE  FlagsOK'
    <3>1. Unfocused /\ UNCHANGED <<appStarted, alert>>
      BY <2>2 DEF Draw, FrameBegins, UpdateOneFrame, TerminateMainLoop, FrameEnds
    <3>2. quitting' \in BOOLEAN
      BY <1>1, <2>2 DEF Draw, FrameBegins, UpdateOneFrame, TerminateMainLoop, FrameEnds, FlagsOK
    <3> QED
      BY <1>1, <3>1, <3>2 DEF Unfocused, FlagsOK, focusVars
  <2>3. CASE ShowAlertView
    BY <1>1, <2>3 DEF ShowAlertView, Unfocused, FlagsOK, focusVars
  <2> QED
    BY <1>3, <2>1, <2>2, <2>3 DEF Frames
<1>4. CASE MainThread
  <2>1. Unfocused
    BY <1>4, MainThreadGoes
  <2>2. appStarted' \in BOOLEAN /\ quitting' \in BOOLEAN /\ alert' \in BOOLEAN
    BY <1>1, <1>4 DEF MainThread, FlagsOK, DidFinishLaunching, Input, InputQueued, AlertBegins,
        AlertDismissed, CloseRequested, HandleQuitRequest, QuitRequestAnswered,
        TerminateRequested, ApplicationWillTerminate, Destroyed
  <2> QED
    BY <1>1, <2>1, <2>2 DEF Unfocused, FlagsOK, focusVars
<1> QED
  BY <1>2, <1>3, <1>4 DEF MacNext

LEMMA MacTypeStep ==
    ASSUME MacTypeOK, QueueHasRoom, MacNext
    PROVE  MacTypeOK'
PROOF
<1>1. PlacesOK'
  <2>1. CASE FocusChanges
    BY <2>1, MacTypes, FocusChangesGo DEF PlacesOK, MainPlaces
  <2>2. CASE Frames
    BY <2>2, FramesGo
  <2>3. CASE MainThread
    BY <2>3, MainThreadGoes
  <2> QED
    BY <2>1, <2>2, <2>3 DEF MacNext
<1>2. FlagsOK' /\ QueueTypeOK'
  BY FlagsStep, QueueStep
<1> QED
  BY <1>1, <1>2, PTL, MacTypes

-----------------------------------------------------------------------------
(* The focus on its way to the application.                                *)

FocusPlaces == {"sleep", "focus", "queue focus"}

LEMMA FocusKept ==
    ASSUME FocusPassedOn, UNCHANGED at["main"] \/ {at["main"], at'["main"]} \cap FocusPlaces = {},
           Unfocused
    PROVE  FocusPassedOn'
BY DEF FocusPassedOn, FocusPlaces, Unfocused, focusVars, Deserved, LastTold

(* The application is told what has waited longest; what it will have been *)
(* told stays.                                                             *)
LEMMA LastToldDispatched ==
    ASSUME MacTypeOK, NEW thread, DispatchQueuedEvent(thread)
    PROVE  LastTold' = LastTold
PROOF
<1>1. queuedEvents \in Seq(BOOLEAN) /\ queuedEvents # <<>>
      /\ queuedEvents' = Tail(queuedEvents) /\ toldFocus' = Head(queuedEvents)
  BY DEF MacTypeOK, DispatchQueuedEvent
<1>2. Tail(queuedEvents) \in Seq(BOOLEAN) /\ Len(Tail(queuedEvents)) = Len(queuedEvents) - 1
      /\ \A i \in 1..Len(Tail(queuedEvents)) : Tail(queuedEvents)[i] = queuedEvents[i + 1]
  BY <1>1, HeadTailProperties
<1>3. Len(queuedEvents) \in Nat \ {0}
  BY <1>1, EmptySeq
<1>4. CASE Tail(queuedEvents) = <<>>
  <2>1. Len(queuedEvents) = 1
    BY <1>2, <1>3, <1>4
  <2> QED
    BY <1>1, <1>4, <2>1 DEF LastTold
<1>5. CASE Tail(queuedEvents) # <<>>
  <2>1. Len(Tail(queuedEvents)) \in Nat \ {0}
    BY <1>2, <1>5, EmptySeq
  <2>2. Tail(queuedEvents)[Len(Tail(queuedEvents))] = queuedEvents[Len(queuedEvents)]
    BY <1>2, <1>3, <2>1
  <2> QED
    BY <1>1, <1>5, <2>2 DEF LastTold
<1> QED
  BY <1>4, <1>5

LEMMA LastToldQueued ==
    ASSUME MacTypeOK, QueueFocusChanged
    PROVE  LastTold' = change.value
PROOF
<1>1. queuedEvents \in Seq(BOOLEAN) /\ change.value \in BOOLEAN
      /\ queuedEvents' = Append(queuedEvents, change.value)
  BY DEF MacTypeOK, QueueFocusChanged
<1>2. LET q == Append(queuedEvents, change.value)
      IN  q # <<>> /\ q[Len(q)] = change.value
  BY <1>1, AppendProperties
<1> QED
  BY <1>1, <1>2 DEF LastTold

(* onFocusChanged() called with the focus the window should have, or with  *)
(* the loss that a sleep brings.                                           *)
LEMMA OnFocusChangedPasses ==
    ASSUME MacTypeOK, FocusPassedOn, at["main"] \in {"loop", "sleep"},
           NEW value \in BOOLEAN, NEW caller \in {"notification", "sleep", "wake"},
           OnFocusChanged(value, caller),
           focusedBeforeSleep' => asleep',
           ~staleFocus =>
             IF focusedBeforeSleep' THEN ~value /\ Deserved' ELSE value = Deserved'
    PROVE  FocusPassedOn'
PROOF
<1>1. at'["main"] = IF isFocused # value THEN "focus" ELSE "loop"
  BY OnFocusChangedGoes DEF MacTypeOK
<1>2. reported' = value /\ change' = [value |-> value, caller |-> caller]
      /\ staleFocus' = (staleFocus \/ isFocused # reported)
  BY DEF OnFocusChanged
<1>3. LastTold' = LastTold
  BY DEF OnFocusChanged, LastTold
<1>4. ~staleFocus' => ~staleFocus /\ LastTold = isFocused
  BY <1>2 DEF FocusPassedOn, MacTypeOK
<1> QED
  BY <1>1, <1>2, <1>3, <1>4 DEF FocusPassedOn

LEMMA FocusStep ==
    ASSUME MacTypeOK, FocusPassedOn, MacNext
    PROVE  FocusPassedOn'
PROOF
<1>1. DOMAIN at = Threads /\ "main" \in Threads /\ "link" \in Threads
  BY DEF MacTypeOK, Threads
<1>2. CASE FocusChanges
  <2>1. CASE ApplicationDidResignActive
    BY <2>1, OnFocusChangedPasses
    DEF ApplicationDidResignActive, MainLoop, OnFocusChanged, LeavesBeforeSleep, Deserved
  <2>2. CASE ApplicationDidBecomeActive
    <3>1. CASE miniaturized
      <4>1. UNCHANGED <<focusVars, threadVars, asleep>> /\ Deserved' = Deserved /\ MainLoop
        BY <2>2, <3>1 DEF ApplicationDidBecomeActive, Deserved
      <4>2. LastTold' = LastTold
        BY <4>1 DEF LastTold, focusVars
      <4> QED
        BY <4>1, <4>2 DEF FocusPassedOn, focusVars, threadVars
    <3>2. CASE ~miniaturized
      <4>1. focusedBeforeSleep' = focusedBeforeSleep
        BY <2>2, <3>2 DEF ApplicationDidBecomeActive, OnFocusChanged, LeavesBeforeSleep, MacTypeOK
      <4>2. MainLoop /\ ~Deserved /\ Deserved' /\ OnFocusChanged(TRUE, "notification") /\ asleep' = asleep
        BY <2>2, <3>2 DEF ApplicationDidBecomeActive, Deserved
      <4> QED
        BY <4>1, <4>2, OnFocusChangedPasses DEF MainLoop, FocusPassedOn
    <3> QED
      BY <3>1, <3>2
  <2>3. CASE WindowDidMiniaturize
    BY <2>3, OnFocusChangedPasses
    DEF WindowDidMiniaturize, MainLoop, OnFocusChanged, LeavesBeforeSleep, Deserved
  <2>4. CASE WindowDidDeminiaturize
    <3>1. focusedBeforeSleep' = focusedBeforeSleep
      BY <2>4 DEF WindowDidDeminiaturize, OnFocusChanged, LeavesBeforeSleep, MacTypeOK
    <3>2. MainLoop /\ ~Deserved /\ Deserved' /\ OnFocusChanged(TRUE, "notification") /\ asleep' = asleep
      BY <2>4 DEF WindowDidDeminiaturize, Deserved
    <3> QED
      BY <3>1, <3>2, OnFocusChangedPasses DEF MainLoop, FocusPassedOn
  <2>5. CASE ReceiveSleepNote
    <3>1. /\ at["main"] = "loop" /\ ~asleep /\ asleep' /\ ~focusedBeforeSleep
          /\ UNCHANGED <<queuedEvents, toldFocus, reported, appActive, miniaturized>>
          /\ staleFocus' = (staleFocus \/ isFocused # reported)
      BY <2>5 DEF ReceiveSleepNote, MainLoop, FocusPassedOn
    <3>2. LastTold' = LastTold /\ Deserved' = Deserved
      BY <3>1 DEF LastTold, Deserved
    <3>3. /\ ~focusedBeforeSleep'
          /\ at'["main"] \in {"loop", "sleep"} /\ (at'["main"] = "sleep" => isFocused)
      BY <1>1, <2>5, <3>1, Going DEF ReceiveSleepNote
    <3> QED
      BY <3>1, <3>2, <3>3 DEF FocusPassedOn
  <2>6. CASE LoseFocusToSleep
    <3>1. focusedBeforeSleep' /\ asleep' = asleep /\ Deserved' = Deserved /\ at["main"] = "sleep"
          /\ OnFocusChanged(FALSE, "sleep")
      BY <2>6 DEF LoseFocusToSleep, OnFocusChanged, LeavesBeforeSleep, Deserved
    <3> QED
      BY <3>1, OnFocusChangedPasses DEF FocusPassedOn
  <2>7. CASE ReceiveWakeNote
    <3>1. CASE focusedBeforeSleep
      <4>1. ~focusedBeforeSleep' /\ Deserved' = Deserved /\ MainLoop /\ OnFocusChanged(TRUE, "wake")
        BY <2>7, <3>1 DEF ReceiveWakeNote, OnFocusChanged, LeavesBeforeSleep, Deserved
      <4> QED
        BY <3>1, <4>1, OnFocusChangedPasses DEF FocusPassedOn, MainLoop
    <3>2. CASE ~focusedBeforeSleep
      <4>1. UNCHANGED <<focusVars, threadVars, appActive, miniaturized>> /\ MainLoop
        BY <2>7, <3>2 DEF ReceiveWakeNote
      <4> QED
        BY <3>2, <4>1 DEF FocusPassedOn, LastTold, Deserved, focusVars, threadVars, MainLoop
    <3> QED
      BY <3>1, <3>2
  <2>8. CASE FocusIsSet
    <3>1. /\ at["main"] = "focus" /\ Goes("main", "queue focus")
          /\ UNCHANGED <<queuedEvents, toldFocus, change, focusedBeforeSleep, reported, staleFocus,
                         appActive, miniaturized, asleep>>
      BY <2>8 DEF FocusIsSet
    <3>2. at'["main"] = "queue focus"
      BY <1>1, <3>1, Going
    <3> QED
      BY <3>1, <3>2 DEF FocusPassedOn, Deserved
  <2>9. CASE QueueFocusChanged
    <3>1. /\ at["main"] = "queue focus" /\ Goes("main", "loop")
          /\ UNCHANGED <<change, focusedBeforeSleep, reported, staleFocus,
                         appActive, miniaturized, asleep>>
      BY <2>9 DEF QueueFocusChanged
    <3>2. at'["main"] = "loop"
      BY <1>1, <3>1, Going
    <3>3. LastTold' = change.value
      BY <2>9, LastToldQueued
    <3> QED
      BY <3>1, <3>2, <3>3 DEF FocusPassedOn, Deserved
  <2> QED
    BY <1>2, <2>1, <2>2, <2>3, <2>4, <2>5, <2>6, <2>7, <2>8, <2>9 DEF FocusChanges
<1>3. CASE Frames
  <2>1. UNCHANGED at["main"] \/ {at["main"], at'["main"]} \cap FocusPlaces = {}
    BY <1>3, FramesGo DEF FocusPlaces
  <2>2. CASE Unfocused
    BY <2>1, <2>2, FocusKept
  <2>3. ASSUME NEW thread \in Threads, DispatchQueuedEvent(thread)
        PROVE  FocusPassedOn'
    <3>1. LastTold' = LastTold
      BY <2>3, LastToldDispatched
    <3>2. UNCHANGED <<at, change, focusedBeforeSleep, reported, staleFocus,
                      appActive, miniaturized, asleep>>
      BY <2>3 DEF DispatchQueuedEvent, threadVars
    <3> QED
      BY <3>1, <3>2 DEF FocusPassedOn, Deserved
  <2> QED
    BY <1>3, <2>2, <2>3, FramesGo
<1>4. CASE MainThread
  BY <1>4, MainThreadGoes, FocusKept DEF FocusPlaces
<1> QED
  BY <1>2, <1>3, <1>4 DEF MacNext

LEMMA MacInvInit == MacInit => MacInv
PROOF
<1>1. MacInit => QueueHasRoom
  BY DEF MacInit, QueueHasRoom
<1> QED
  BY <1>1, MacTypeInit, TurnsInit, FocusInit DEF MacInv

LEMMA MacInvStep == MacInv /\ [MacNext]_macVars => MacInv'
PROOF
<1>1. CASE MacNext
  <2>1. ASSUME MacInv PROVE MacTypeOK' /\ QueueHasRoom' /\ FocusPassedOn'
    BY <1>1, <2>1, MacTypeStep, QueueStep, FocusStep DEF MacInv
  <2>2. ASSUME MacInv PROVE Turns'
    BY <1>1, <2>2, FocusChangesLeaveTurns, FramesKeepTurns, MainThreadKeepsTurns DEF MacInv, MacNext
  <2> QED
    BY <2>1, <2>2 DEF MacInv
<1>2. CASE UNCHANGED macVars
  <2>1. MacTypeOK => MacTypeOK'
    <3>1. PlacesOK => PlacesOK'
      BY <1>2 DEF PlacesOK, macVars, threadVars
    <3>2. FlagsOK /\ QueueTypeOK => FlagsOK' /\ QueueTypeOK'
      BY <1>2 DEF FlagsOK, QueueTypeOK, macVars, threadVars, focusVars
    <3> QED
      BY <3>1, <3>2, MacTypes, PTL
  <2>2. Turns /\ QueueHasRoom => Turns' /\ QueueHasRoom'
    BY <1>2 DEF Turns, QueueHasRoom, macVars, threadVars, focusVars
  <2>3. FocusPassedOn => FocusPassedOn'
    BY <1>2, FocusKept DEF Unfocused, macVars, threadVars, focusVars
  <2> QED
    BY <2>1, <2>2, <2>3 DEF MacInv
<1> QED
  BY <1>1, <1>2

(* The invariant of both threads, for any number of changes of focus that  *)
(* may wait: the types, who has the mutex, and where the focus is.         *)
THEOREM MacInvariant == MacSpec => []MacInv
PROOF
<1> QED
  BY MacInvInit, MacInvStep, PTL DEF MacSpec

(* Every variable of the two threads keeps its type: no place is reached   *)
(* that the code does not have, and the queue never holds more than was    *)
(* let in (Mac_Window.mm, Mac_OpenGLView.mm).                              *)
THEOREM MacTypeCorrect == MacSpec => []MacTypeOK
PROOF
<1>1. MacInv => MacTypeOK
  BY DEF MacInv
<1> QED
  BY <1>1, MacInvariant, PTL

(* renderThreadSyncMutex and gAppStarted let one thread at a time run the  *)
(* application's code: frames of either thread, the request to quit, the   *)
(* initialisation and the destruction exclude each other.                  *)
THEOREM MacOneThread == MacSpec => []OneThreadInApplication
PROOF
<1>1. MacInv => OneThreadInApplication
  BY DEF MacInv, Turns, OneThreadInApplication
<1> QED
  BY <1>1, MacInvariant, PTL

(* However activation, the Dock and sleep came mixed, and however many     *)
(* changes wait for a frame, an awake application was told last of the     *)
(* focus it has, unless the unguarded field was used too early.            *)
THEOREM MacToldOfFocus == MacSpec => []ToldOfFocus
PROOF
<1>1. MacInv => ToldOfFocus
  BY DEF MacInv, MacTypeOK, FocusPassedOn, ToldOfFocus, FocusSettled, MainLoop, LastTold, Deserved
<1> QED
  BY <1>1, MacInvariant, PTL

(* The two threads never wait for each other, but for a message box: the   *)
(* one that has renderThreadSyncMutex waits for nothing, so that a thread  *)
(* that waits for the mutex waits for one that goes on, and with the mutex *)
(* free the main thread goes on (renderThreadSyncMutex, _showAlertView).   *)
THEOREM MacHolderGoesOn == MacSpec => []HolderGoesOn
PROOF
<1>1. MacInv => HolderGoesOn
  BY DEF MacInv, MacTypeOK, Turns, QueueHasRoom, HolderGoesOn, GoesOn, TakesMutex, Threads
<1> QED
  BY <1>1, MacInvariant, PTL
=============================================================================
