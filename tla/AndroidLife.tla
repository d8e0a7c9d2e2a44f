----------------------------- MODULE AndroidLife -----------------------------
(***************************************************************************)
(* The life of the library on Android.  The system creates, resumes,       *)
(* pauses and destroys activities on the UI thread; each activity's view   *)
(* has a GL thread that owns an EGL context, runs the calls queued for it  *)
(* and draws frames while the activity is resumed.  There is one library   *)
(* in the process, shared by every activity in it.                         *)
(*                                                                         *)
(* Android's part is modelled as it is documented: GLSurfaceView.onPause() *)
(* returns when the GL thread has let go of its context; the GL thread     *)
(* runs queued calls before anything else, paused or not; a new activity   *)
(* is resumed after the old one paused and before it is destroyed.         *)
(***************************************************************************)
EXTENDS Integers, Sequences

CONSTANTS Activities,   \* instances of Activity, created one after the other
          MaxQueue,     \* bound: calls waiting for a GL thread
          MaxContexts   \* bound: EGL contexts created

ASSUME AndroidAssumption == MaxQueue \in Nat \ {0} /\ MaxContexts \in Nat \ {0}

VARIABLES
    activity,     \* "none", "paused", "resumed", "finishing" (paused for good),
                  \* "destroying", "destroyed"
    aprilActivity, \* NativeInterface.AprilActivity, the empty set if null
    queue,        \* the calls queued for each view's GL thread
    context,      \* the EGL context of each GL thread, 0 if none
    contexts,     \* contexts created so far, their numbers
    windowFocus,  \* whether the system gave the activity's window the focus
    library,      \* "none", "alive", "destroying"
    running,      \* NativeInterface.Running
    focused,      \* Window::focused
    forcedFocus,  \* AndroidJNI_Window::forcedFocus
    textures,     \* the context the loaded textures belong to, 0 if none is loaded
    process,      \* "alive", "exited"
    known         \* history: the known defects met

androidVars == <<activity, aprilActivity, queue, context, contexts, windowFocus, library, running,
                 focused, forcedFocus, textures, process, known>>

Alive == process = "alive"
Queue(a, call) == queue' = [queue EXCEPT ![a] = Append(@, call)]
Room(a) == Len(queue[a]) < MaxQueue
Library == <<library, running, focused, forcedFocus, textures>>
-----------------------------------------------------------------------------
(* The UI thread.                                                          *)

\* onCreate(), onStart(): a new activity, while an older one may be finishing
Launch(a) ==
    /\ Alive /\ activity[a] = "none"
    /\ \A b \in Activities \ {a} : activity[b] \in {"none", "finishing", "destroying", "destroyed"}
    /\ activity' = [activity EXCEPT ![a] = "paused"]
    /\ aprilActivity' = {a}
    /\ known' = IF \E b \in Activities : activity[b] \in {"finishing", "destroying"}
                THEN known \cup {"two activities"} ELSE known
    /\ UNCHANGED <<queue, context, contexts, windowFocus, Library, process>>

\* onResume()
Resume(a) ==
    /\ Alive /\ activity[a] = "paused" /\ Room(a)
    /\ activity' = [activity EXCEPT ![a] = "resumed"]
    /\ Queue(a, "resume")
    /\ UNCHANGED <<aprilActivity, context, contexts, windowFocus, Library, process, known>>

\* onPause(): the view's, which takes the GL thread's context, then the queued call
Pause(a) ==
    /\ Alive /\ activity[a] = "resumed" /\ Room(a)
    /\ \E next \in {"paused", "finishing"} : activity' = [activity EXCEPT ![a] = next]
    /\ context' = [context EXCEPT ![a] = 0]
    /\ Queue(a, "pause")
    /\ UNCHANGED <<aprilActivity, contexts, windowFocus, Library, process, known>>

\* GLSurfaceView.onWindowFocusChanged() queues its call for the view of the
\* activity launched last; without one it throws
FocusChange(a) ==
    /\ Alive /\ activity[a] \in {"paused", "resumed", "finishing"}
    /\ windowFocus[a] \/ (activity[a] = "resumed" /\ \A b \in Activities : ~windowFocus[b])
    /\ windowFocus' = [windowFocus EXCEPT ![a] = ~@]
    /\ \/ /\ aprilActivity = {} /\ process' = "exited"
          /\ UNCHANGED queue
       \/ /\ \E b \in aprilActivity :
               Room(b) /\ Queue(b, IF windowFocus[a] THEN "focus lost" ELSE "focus gained")
          /\ UNCHANGED process
    /\ UNCHANGED <<activity, aprilActivity, context, contexts, Library, known>>

\* onDestroy(): aprilDestroy() begins, whatever the GL thread does
DestroyBegins(a) ==
    /\ Alive /\ activity[a] \in {"paused", "finishing"}
    /\ activity' = [activity EXCEPT ![a] = "destroying"]
    /\ library' = IF library = "alive" THEN "destroying" ELSE library
    /\ UNCHANGED <<aprilActivity, queue, context, contexts, windowFocus, running, focused, forcedFocus,
                   textures, process, known>>

\* the library is gone, NativeInterface.reset(), and the process exits unless
\* the activity was made not to; the view is taken down, its GL thread ends
DestroyEnds(a) ==
    /\ Alive /\ activity[a] = "destroying"
    /\ activity' = [activity EXCEPT ![a] = "destroyed"]
    /\ library' = "none" /\ running' = FALSE /\ textures' = 0
    /\ aprilActivity' = {}
    /\ queue' = [queue EXCEPT ![a] = <<>>]
    /\ windowFocus' = [windowFocus EXCEPT ![a] = FALSE]
    /\ process' \in {"alive", "exited"}
    /\ UNCHANGED <<context, contexts, focused, forcedFocus, known>>
-----------------------------------------------------------------------------
(* The GL threads.  A call into a library that is being destroyed by the   *)
(* UI thread is noted and does nothing further.                            *)

Dead(use) == /\ known' = known \cup {use}
             /\ UNCHANGED Library

\* the focus given back to every resumed activity, a bug to be found
ActivityChangeForced(active) ==
    /\ focused' = active
    /\ forcedFocus' = FALSE

\* handleActivityChangeEvent(): only a focus lost by a pause comes back
ActivityChange(active) ==
    /\ focused' = IF active THEN focused \/ forcedFocus ELSE FALSE
    /\ forcedFocus' = IF active THEN FALSE ELSE forcedFocus \/ focused

\* the defects that end with a call
Mended(call) ==
    CASE call = "pause" -> {"context lost"}
      [] call = "resume" -> {}
      [] OTHER -> {"focus assumed"}

\* textures left in a paused library, a bug to be found
RunCallKeepingTextures(a) ==
    /\ Alive /\ queue[a] # <<>>
    /\ queue' = [queue EXCEPT ![a] = Tail(@)]
    /\ IF library = "alive"
       THEN /\ IF Head(queue[a]) \in {"resume", "pause"}
               THEN ActivityChange(Head(queue[a]) = "resume")
               ELSE focused' = (Head(queue[a]) = "focus gained") /\ forcedFocus' = FALSE
            /\ UNCHANGED <<library, running, textures, known>>
       ELSE UNCHANGED <<Library, known>>
    /\ UNCHANGED <<aprilActivity, activity, context, contexts, windowFocus, process>>

\* a queued call: changes of focus, and unloadTextures() with a pause
RunCall(a) ==
    /\ Alive /\ queue[a] # <<>>
    /\ queue' = [queue EXCEPT ![a] = Tail(@)]
    /\ CASE library = "none" -> UNCHANGED <<Library, known>>
       [] library = "destroying" -> Dead("call while destroyed")
       [] library = "alive" ->
            /\ IF Head(queue[a]) \in {"resume", "pause"}
               THEN ActivityChange(Head(queue[a]) = "resume")
               ELSE focused' = (Head(queue[a]) = "focus gained") /\ forcedFocus' = FALSE
            /\ textures' = IF Head(queue[a]) = "pause" THEN 0 ELSE textures
            /\ known' = known \ Mended(Head(queue[a]))
            /\ UNCHANGED <<library, running>>
    /\ UNCHANGED <<aprilActivity, activity, context, contexts, windowFocus, process>>

\* the view not paused with its activity, a bug to be found
DrawingWhilePaused(a) ==
    /\ Alive /\ activity[a] \in {"paused", "resumed", "finishing", "destroying"} /\ queue[a] = <<>>

\* the GL thread has time for its context and its frames
Drawing(a) == Alive /\ activity[a] = "resumed" /\ queue[a] = <<>>

\* onSurfaceCreated(): init() unless NativeInterface.Running; a library that
\* lives on gets a reset(), which loads and unloads nothing
SurfaceCreated(a) ==
    /\ Drawing(a) /\ context[a] = 0 /\ contexts < MaxContexts
    /\ contexts' = contexts + 1 /\ context' = [context EXCEPT ![a] = contexts + 1]
    /\ CASE library = "destroying" -> Dead("frame while destroyed")
       [] library = "none" /\ ~running ->
            /\ library' = "alive" /\ running' = TRUE
            /\ focused' = TRUE /\ forcedFocus' = FALSE /\ textures' = 0
            /\ known' = IF windowFocus[a] THEN known ELSE known \cup {"focus assumed"}
       [] OTHER -> UNCHANGED <<Library, known>>
    /\ UNCHANGED <<aprilActivity, activity, queue, windowFocus, process>>

\* onDrawFrame(): the application loads what it draws
Frame(a) ==
    /\ Drawing(a) /\ context[a] # 0
    /\ CASE library = "destroying" -> Dead("frame while destroyed")
       [] library = "none" -> UNCHANGED <<Library, known>>
       [] library = "alive" ->
            /\ textures' = IF textures = 0 THEN context[a] ELSE textures
            /\ UNCHANGED <<library, running, focused, forcedFocus, known>>
    /\ UNCHANGED <<aprilActivity, activity, queue, context, contexts, windowFocus, process>>

\* the driver loses the context while drawing; the view makes a new one
LoseContext(a) ==
    /\ Drawing(a) /\ context[a] # 0
    /\ context' = [context EXCEPT ![a] = 0]
    /\ known' = IF textures # 0 THEN known \cup {"context lost"} ELSE known
    /\ UNCHANGED <<aprilActivity, activity, queue, contexts, windowFocus, Library, process>>

AndroidInit ==
    /\ activity = [a \in Activities |-> "none"] /\ aprilActivity = {}
    /\ queue = [a \in Activities |-> <<>>]
    /\ context = [a \in Activities |-> 0] /\ contexts = 0
    /\ windowFocus = [a \in Activities |-> FALSE]
    /\ library = "none" /\ running = FALSE /\ focused = FALSE /\ forcedFocus = FALSE
    /\ textures = 0 /\ process = "alive" /\ known = {}

AndroidNext ==
    \E a \in Activities :
        \/ Launch(a) \/ Resume(a) \/ Pause(a) \/ FocusChange(a)
        \/ DestroyBegins(a) \/ DestroyEnds(a)
        \/ RunCall(a) \/ SurfaceCreated(a) \/ Frame(a) \/ LoseContext(a)

AndroidSpec == AndroidInit /\ [][AndroidNext]_androidVars
-----------------------------------------------------------------------------
AndroidTypeOK ==
    /\ activity \in [Activities -> {"none", "paused", "resumed", "finishing", "destroying", "destroyed"}]
    /\ aprilActivity \subseteq Activities
    /\ \A a \in Activities : queue[a] \in Seq({"resume", "pause", "focus gained", "focus lost"})
    /\ context \in [Activities -> 0..MaxContexts] /\ contexts \in 0..MaxContexts
    /\ windowFocus \in [Activities -> BOOLEAN]
    /\ library \in {"none", "alive", "destroying"} /\ running \in BOOLEAN
    /\ focused \in BOOLEAN /\ forcedFocus \in BOOLEAN
    /\ textures \in 0..MaxContexts /\ process \in {"alive", "exited"}
    /\ known \subseteq {"two activities", "call while destroyed", "frame while destroyed",
                        "focus assumed", "context lost"}

\* A GL thread that may draw finds textures of its own context only: those of
\* the context dropped by a pause were unloaded by the queued call, which runs
\* before the next context is made.  Known defects: a context the driver lost
\* takes the textures with it unnoticed, and an activity launched while the
\* old one finishes may be drawing before the old one's call has run.
TexturesOfContext ==
    \A a \in Activities :
        Drawing(a) /\ context[a] # 0 /\ library = "alive" =>
            textures \in {0, context[a]} \/ known \cap {"context lost", "two activities"} # {}

\* When a GL thread has run its calls, the library's window has the focus that
\* the system gave the activity's window, however pauses, resumes and changes
\* of focus came mixed; a paused activity has none.  Known defects: focus is
\* assumed when the library starts, and two activities share one window.
FocusSettles ==
    \A a \in Activities :
        Alive /\ library = "alive" /\ queue[a] = <<>> /\ known \cap {"focus assumed", "two activities"} = {} =>
            /\ activity[a] = "resumed" /\ running => focused = windowFocus[a]
            /\ activity[a] \in {"paused", "finishing"} => ~focused

\* No frame is drawn with a library the UI thread is destroying, unless an
\* activity was launched before the old one was destroyed.  Calls still queued
\* are not kept from it: known as "call while destroyed".
NoFrameWhileDestroyed ==
    "frame while destroyed" \in known => "two activities" \in known
=============================================================================
