------------------------- MODULE WindowInput_proofs -------------------------
(***************************************************************************)
(* Theorems about WindowInput for any number of fingers and any indices a  *)
(* window system reports: the state stays within its types, a gesture has  *)
(* fingers and no rotation of the wheel is lost.  With a window system     *)
(* that does not cancel single pointers, the emulated mouse presses are    *)
(* answered and the application's list of touches is the current one.      *)
(* The second part composes the window with Android, OpenKODE and WinRT,   *)
(* in the place of the arbitrary window system: their fingers, slots and   *)
(* ids against its list of touches.  The third is iOS, whose window keeps  *)
(* the list of touches and the queue of emulated events itself.            *)
(***************************************************************************)
EXTENDS WindowSystems, SequenceTheorems, FiniteSetTheorems,
        WellFoundedInduction, TLAPS

(* No pointer is about to be cancelled.                                    *)
NoCancels == \A i \in 1..Len(calls) : calls[i].type # "cancel"

(* What every window system keeps.                                         *)
Gesture == TypeOK /\ GestureHasFingers

(* What one that cancels nothing keeps, too: what the window knows of the  *)
(* fingers decides whether the application will take the button for        *)
(* pressed once it has been told of everything that is queued.             *)
Pressing == NoCancels /\ PressesAnswered /\ TouchViewCurrent

Input == Gesture /\ Pressing

(* The cursor and the input mode, which every window system sets in its    *)
(* own way.                                                                *)
CursorOK == inputMode \in InputModes /\ cursor \in Positions \cup {Hidden}

-----------------------------------------------------------------------------
(* Sequences of mouse events.                                              *)

(* An event that leads on from where a sequence ends can be appended.      *)
LEMMA AnsweredAppend ==
    ASSUME NEW E, NEW s \in Seq(E), NEW e \in E,
           NEW before \in BOOLEAN, NEW after \in BOOLEAN, NEW next \in BOOLEAN,
           Answered(s, before, after), LeftButton(e, after, next)
    PROVE  Answered(Append(s, e), before, next)
<1>1. PICK run \in [0..Len(s) -> BOOLEAN] :
          /\ run[0] = before /\ run[Len(s)] = after
          /\ \A i \in 1..Len(s) : LeftButton(s[i], run[i - 1], run[i])
  BY DEF Answered
<1> DEFINE n == Len(s)
           t == Append(s, e)
           longer == [i \in 0..(n + 1) |-> IF i <= n THEN run[i] ELSE next]
<1>2. n \in Nat /\ Len(t) = n + 1 /\ t[n + 1] = e
  OBVIOUS
<1>3. \A i \in 1..n : t[i] = s[i]
  OBVIOUS
<1>4. longer \in [0..Len(t) -> BOOLEAN]
  BY <1>2
<1>5. longer[0] = before /\ longer[Len(t)] = next
  BY <1>1, <1>2
<1>6. ASSUME NEW i \in 1..Len(t)
      PROVE  LeftButton(t[i], longer[i - 1], longer[i])
  <2>1. CASE i \in 1..n
    <3>1. longer[i] = run[i] /\ longer[i - 1] = run[i - 1]
      BY <2>1, <1>2
    <3> QED  BY <3>1, <2>1, <1>1, <1>3
  <2>2. CASE i = n + 1
    <3>1. longer[i] = next /\ longer[i - 1] = after
      BY <2>2, <1>2, <1>1
    <3> QED  BY <3>1, <2>2, <1>2
  <2> QED  BY <2>1, <2>2, <1>2
<1> QED  BY <1>4, <1>5, <1>6 DEF Answered

(* After the first event the rest leads on from where it leads to.         *)
LEMMA AnsweredTail ==
    ASSUME NEW E, NEW s \in Seq(E), s # <<>>,
           NEW before, NEW after, Answered(s, before, after)
    PROVE  \E next \in BOOLEAN : /\ LeftButton(Head(s), before, next)
                                 /\ Answered(Tail(s), next, after)
<1>1. PICK run \in [0..Len(s) -> BOOLEAN] :
          /\ run[0] = before /\ run[Len(s)] = after
          /\ \A i \in 1..Len(s) : LeftButton(s[i], run[i - 1], run[i])
  BY DEF Answered
<1> DEFINE n == Len(s)
           t == Tail(s)
           rest == [i \in 0..(n - 1) |-> run[i + 1]]
<1>2. n \in Nat /\ n >= 1 /\ t \in Seq(E) /\ Len(t) = n - 1 /\ Head(s) = s[1]
  OBVIOUS
<1>3. \A i \in 1..(n - 1) : t[i] = s[i + 1]
  OBVIOUS
<1>4. rest \in [0..Len(t) -> BOOLEAN]
  BY <1>2
<1>5. rest[0] = run[1] /\ rest[Len(t)] = after /\ run[1] \in BOOLEAN
  BY <1>1, <1>2
<1>6. ASSUME NEW i \in 1..Len(t)
      PROVE  LeftButton(t[i], rest[i - 1], rest[i])
  <2>1. rest[i] = run[i + 1] /\ rest[i - 1] = run[i] /\ i + 1 \in 1..n
    BY <1>2
  <2>2. LeftButton(s[i + 1], run[i], run[i + 1])
    BY <2>1, <1>1, <1>2
  <2> QED  BY <2>1, <2>2, <1>2, <1>3
<1>7. Answered(t, run[1], after)
  BY <1>4, <1>5, <1>6 DEF Answered
<1>8. LeftButton(Head(s), before, run[1])
  BY <1>1, <1>2
<1> QED  BY <1>5, <1>7, <1>8

-----------------------------------------------------------------------------
(* queueTouchEvent(): one call.                                            *)

(* A list without one of its elements.                                     *)
LEMMA RemoveAtTypes ==
    ASSUME NEW S, NEW s \in Seq(S), NEW i \in 1..Len(s)
    PROVE  RemoveAt(s, i) \in Seq(S) /\ Len(RemoveAt(s, i)) = Len(s) - 1
<1> DEFINE first == SubSeq(s, 1, i - 1)
           rest == SubSeq(s, i + 1, Len(s))
<1>1. first \in Seq(S) /\ Len(first) = i - 1
  OBVIOUS
<1>2. rest \in Seq(S) /\ Len(rest) = Len(s) - i
  OBVIOUS
<1>3. RemoveAt(s, i) = first \o rest
  BY DEF RemoveAt
<1> HIDE DEF first, rest
<1>4. first \o rest \in Seq(S) /\ Len(first \o rest) = Len(first) + Len(rest)
  BY <1>1, <1>2, ConcatProperties
<1> QED  BY <1>1, <1>2, <1>3, <1>4

(* The list of touches after a call that is not ignored, by type.          *)
LEMMA TouchedTypes ==
    ASSUME TypeOK, NEW c \in TouchCalls, ~Redundant(c)
    PROVE  /\ Touched(c) \in Seq(Positions)
           /\ Len(Touched(c)) = CASE c.type = "down" -> Len(touches) + 1
                                  [] c.type = "move" -> Len(touches)
                                  [] OTHER -> Len(touches) - 1
           /\ c.type # "down" => Len(touches) > 0
<1> USE DEF TypeOK, TouchCalls, TouchTypes
<1>1. CASE c.type = "down"
  BY <1>1 DEF Touched
<1>2. CASE c.type = "move"
  BY <1>2 DEF Touched, Redundant
<1>3. CASE c.type \in {"up", "cancel"}
  <2>1. c.index + 1 \in 1..Len(touches)
    BY <1>3 DEF Redundant
  <2>2. /\ RemoveAt(touches, c.index + 1) \in Seq(Positions)
        /\ Len(RemoveAt(touches, c.index + 1)) = Len(touches) - 1
    BY <2>1, RemoveAtTypes
  <2>3. Touched(c) = RemoveAt(touches, c.index + 1)
    BY <1>3 DEF Touched
  <2>4. Len(touches) > 0
    BY <2>1
  <2> QED  BY <1>3, <2>2, <2>3, <2>4
<1> QED  BY <1>1, <1>2, <1>3

(* A mouse event emulated for a call is one of the mouse events.           *)
LEMMA EmulatedTypes ==
    ASSUME TypeOK, NEW c \in TouchCalls, NEW now \in Seq(Positions)
    PROVE  \/ Emulated(c, now) = <<>>
           \/ \E e \in MouseEvents : Emulated(c, now) = <<e>>
<1>1. MouseEvent(c.type, c.position, "left") \in MouseEvents
  BY DEF MouseEvent, MouseEvents, TouchCalls, Buttons
<1>2. MouseEvent("cancel", c.position, "left") \in MouseEvents
  BY DEF MouseEvent, MouseEvents, TouchCalls, Buttons, TouchTypes
<1> QED  BY <1>1, <1>2 DEF Emulated

(* The first call is a call, and so are the others.                        *)
LEMMA FirstCall ==
    ASSUME TypeOK, calls # <<>>
    PROVE  Call \in TouchCalls /\ Tail(calls) \in Seq(TouchCalls)
BY DEF TypeOK, Call

(* A call leaves a list of touches and only calls still to be made.        *)
LEMMA CallTouches ==
    ASSUME TypeOK, QueueTouchEvent
    PROVE  touches' \in Seq(Positions) /\ calls' \in Seq(TouchCalls)
<1>1. calls # <<>>
  BY DEF QueueTouchEvent, CallIgnored, CallCancels, CallQueues
<1>2. calls' = Tail(calls)
  BY DEF QueueTouchEvent, CallIgnored, CallCancels, CallQueues
<1>3. touches' = touches \/ (~Redundant(Call) /\ touches' = Touched(Call))
  BY DEF QueueTouchEvent, CallIgnored, CallCancels, CallQueues
<1> QED  BY <1>1, <1>2, <1>3, FirstCall, TouchedTypes DEF TypeOK

(* A call that queues leaves mouse events and lists of touches.            *)
LEMMA CallQueuesTypes ==
    ASSUME TypeOK, CallQueues
    PROVE  /\ multiTouch' \in BOOLEAN
           /\ mouseEvents' \in Seq(MouseEvents)
           /\ touchEvents' \in Seq(Seq(Positions))
<1> DEFINE now == Touched(Call)
<1>1. Call \in TouchCalls
  BY FirstCall DEF CallQueues
<1>2. now \in Seq(Positions)
  BY <1>1, TouchedTypes DEF CallQueues
<1>3. mouseEvents \o Emulated(Call, now) \in Seq(MouseEvents)
  <2>1. mouseEvents \in Seq(MouseEvents)
    BY DEF TypeOK
  <2>2. CASE Emulated(Call, now) = <<>>
    BY <2>1, <2>2
  <2>3. ASSUME NEW e \in MouseEvents, Emulated(Call, now) = <<e>>
        PROVE  mouseEvents \o Emulated(Call, now) \in Seq(MouseEvents)
    <3>1. <<e>> \in Seq(MouseEvents)
      OBVIOUS
    <3>2. mouseEvents \o <<e>> \in Seq(MouseEvents)
      BY <2>1, <3>1, ConcatProperties
    <3> QED  BY <3>2, <2>3
  <2> QED  BY <1>1, <1>2, <2>2, <2>3, EmulatedTypes
<1>4. Snapshot(now) \in Seq(Seq(Positions))
  BY <1>2 DEF Snapshot
<1>5. MultiTouch(now) \in BOOLEAN
  BY DEF TypeOK, MultiTouch
<1> QED
  BY <1>3, <1>4, <1>5 DEF CallQueues

(* A call keeps the types, whatever becomes of the cursor.                 *)
LEMMA CallTypes ==
    ASSUME TypeOK, QueueTouchEvent, CursorOK'
    PROVE  TypeOK'
<1>1. touches' \in Seq(Positions) /\ calls' \in Seq(TouchCalls)
  BY CallTouches
<1>2. /\ multiTouch' \in BOOLEAN
      /\ mouseEvents' \in Seq(MouseEvents)
      /\ touchEvents' \in Seq(Seq(Positions))
  <2>1. CASE CallIgnored
    BY <2>1 DEF CallIgnored, TypeOK
  <2>2. CASE CallCancels
    BY <2>2 DEF CallCancels, StillMultiTouch, TypeOK
  <2>3. CASE CallQueues
    BY <2>3, CallQueuesTypes
  <2> QED  BY <2>1, <2>2, <2>3 DEF QueueTouchEvent
<1>3. UNCHANGED <<frameVars, appVars>>
  BY DEF QueueTouchEvent
<1> QED  BY <1>1, <1>2, <1>3 DEF TypeOK, CursorOK, frameVars, appVars

(* Both ways out of queueTouchEvent() end a gesture with its last touch.   *)
LEMMA CallGesture ==
    ASSUME Gesture, QueueTouchEvent, CursorOK'
    PROVE  Gesture'
<1> DEFINE now == Touched(Call)
<1> USE DEF Gesture
<1>1. TypeOK'
  BY CallTypes
<1>2. CASE CallIgnored
  BY <1>1, <1>2 DEF CallIgnored, GestureHasFingers
<1>3. CASE CallCancels
  <2>1. Call \in TouchCalls /\ ~Redundant(Call) /\ Call.type = "cancel"
    BY <1>3, FirstCall DEF CallCancels
  <2>2. now \in Seq(Positions) /\ Len(now) = Len(touches) - 1
    BY <2>1, TouchedTypes
  <2>3. touches' = now /\ multiTouch' = StillMultiTouch(now)
    BY <1>3 DEF CallCancels
  <2> HIDE DEF now
  <2>4. multiTouch' <=> multiTouch /\ now # <<>>
    BY <2>3 DEF StillMultiTouch
  <2>5. Len(now) > 1 => multiTouch /\ now # <<>>
    BY <2>2 DEF GestureHasFingers, TypeOK
  <2> QED  BY <1>1, <2>3, <2>4, <2>5 DEF GestureHasFingers
<1>4. CASE CallQueues
  <2>1. Call \in TouchCalls /\ ~Redundant(Call)
    BY <1>4, FirstCall DEF CallQueues
  <2>2. now \in Seq(Positions)
    BY <2>1, TouchedTypes
  <2>3. touches' = now /\ multiTouch' = MultiTouch(now)
    BY <1>4 DEF CallQueues
  <2> HIDE DEF now
  <2>4. now # <<>> <=> Len(now) > 0
    BY <2>2
  <2>5. multiTouch' <=> (multiTouch \/ Len(now) > 1) /\ now # <<>>
    BY <2>3 DEF MultiTouch
  <2> QED  BY <1>1, <2>2, <2>3, <2>4, <2>5 DEF GestureHasFingers
<1> QED  BY <1>2, <1>3, <1>4 DEF QueueTouchEvent

-----------------------------------------------------------------------------
(* The other calls of a window system, and a frame, keep the types and the *)
(* gesture.                                                                *)

(* Any number of calls may be on their way.                                *)
LEMMA ReportGesture ==
    ASSUME Gesture, NEW cs \in Seq(TouchCalls), Report(cs), CursorOK'
    PROVE  Gesture'
<1>1. /\ calls' = cs
      /\ UNCHANGED <<touches, multiTouch, mouseEvents, touchEvents, frameVars,
                     appVars>>
  BY DEF Report
<1> QED
  BY <1>1 DEF Gesture, TypeOK, CursorOK, GestureHasFingers, frameVars, appVars

(* An event of the real mouse does not touch.                              *)
LEMMA MouseGesture ==
    ASSUME Gesture, NEW e \in MouseEvents, QueueMouseEvent(e), wheel' \in Int,
           CursorOK'
    PROVE  Gesture'
<1>1. mouseEvents' \in Seq(MouseEvents)
  BY DEF Gesture, TypeOK, QueueMouseEvent
<1>2. UNCHANGED <<calls, touches, multiTouch, touchEvents, frameVars, held,
                  touchView>>
  BY DEF QueueMouseEvent
<1> QED
  BY <1>1, <1>2 DEF Gesture, TypeOK, CursorOK, GestureHasFingers, frameVars

(* The mouse events of WindowInput's own window system.                    *)
LEMMA MovesAndScrolls ==
    /\ \A p \in Positions :
          /\ MouseEvent("move", p, "none") \in MouseEvents
          /\ MouseEvent("move", p, "none").type = "move"
          /\ MouseEvent("move", p, "none").button = "none"
    /\ \A d \in Deltas :
          /\ MouseEvent("scroll", d, "none") \in MouseEvents
          /\ MouseEvent("scroll", d, "none").type = "scroll"
          /\ MouseEvent("scroll", d, "none").position = d
          /\ MouseEvent("scroll", d, "none").button = "none"
BY DEF MouseEvent, MouseEvents, TouchTypes, Buttons, Deltas

(* One call is a list of calls.                                            *)
LEMMA OneCall ==
    ASSUME NEW type \in TouchTypes, NEW p \in Positions, NEW i \in 0..MaxIndex
    PROVE  /\ <<TouchCall(type, p, i)>> \in Seq(TouchCalls)
           /\ \A j \in 1..Len(<<TouchCall(type, p, i)>>) :
                 <<TouchCall(type, p, i)>>[j].type = type
<1> DEFINE c == TouchCall(type, p, i)
<1>1. c \in TouchCalls /\ c.type = type
  BY InputAssumption DEF TouchCall, TouchCalls
<1> HIDE DEF c
<1>2. <<c>> \in Seq(TouchCalls) /\ \A j \in 1..Len(<<c>>) : <<c>>[j].type = type
  BY <1>1
<1> QED  BY <1>2 DEF c

(* Whatever the window system reports.                                     *)
LEMMA SystemGesture ==
    ASSUME Gesture, System
    PROVE  Gesture'
<1>1. UNCHANGED cursorVars => CursorOK'
  BY DEF CursorOK, cursorVars, Gesture, TypeOK
<1>2. ASSUME NEW type \in TouchTypes, NEW p \in Positions,
             NEW i \in 0..MaxIndex, AnyTouch(TouchCall(type, p, i))
      PROVE  Gesture'
  <2>1. Report(<<TouchCall(type, p, i)>>) /\ UNCHANGED cursorVars
    BY <1>2 DEF AnyTouch
  <2> QED  BY <2>1, <1>1, OneCall, ReportGesture
<1>3. ASSUME NEW p \in Positions, MouseMoves(p), UNCHANGED cursorVars
      PROVE  Gesture'
  <2>1. QueueMouseEvent(MouseEvent("move", p, "none")) /\ wheel' \in Int
    BY <1>3 DEF MouseMoves, Gesture, TypeOK
  <2> QED  BY <2>1, <1>1, <1>3, MovesAndScrolls, MouseGesture
<1>4. ASSUME NEW d \in Deltas, MouseScrolls(d), UNCHANGED cursorVars
      PROVE  Gesture'
  <2>1. QueueMouseEvent(MouseEvent("scroll", d, "none")) /\ wheel' \in Int
    BY <1>4 DEF MouseScrolls, Gesture, TypeOK, Deltas
  <2> QED  BY <2>1, <1>1, <1>4, MovesAndScrolls, MouseGesture
<1>5. ASSUME NEW value \in InputModes, AnyInputMode(value)
      PROVE  Gesture'
  BY <1>5
  DEF AnyInputMode, SetInputMode, Gesture, TypeOK, GestureHasFingers,
      queueVars, frameVars, appVars
<1> QED  BY <1>2, <1>3, <1>4, <1>5 DEF System

(* Only touches press, drag and release.                                   *)
LEMMA MouseEventKinds ==
    ASSUME NEW e \in MouseEvents
    PROVE  /\ e.button \in Buttons
           /\ \/ e.type \in TouchTypes
              \/ e.type = "scroll" /\ e.button = "none" /\ e.position \in Int
<1>1. CASE e \in [type : TouchTypes, position : Positions, button : Buttons]
  BY <1>1
<1>2. CASE e \in [type : {"scroll"}, position : Int, button : {"none"}]
  <2>1. e.type \in {"scroll"} /\ e.button \in {"none"} /\ e.position \in Int
    BY <1>2
  <2> QED  BY <2>1 DEF Buttons
<1> QED  BY <1>1, <1>2 DEF MouseEvents

(* Where a mouse event leaves the cursor.                                  *)
LEMMA CursorTypes ==
    ASSUME TypeOK, NEW e \in MouseEvents
    PROVE  CursorAt(e) \in Positions \cup {Hidden}
BY DEF TypeOK, MouseEvents, CursorAt, TouchTypes

(* Delivering a mouse event, or merging it with the next one.              *)
LEMMA EventGesture ==
    ASSUME Gesture, MergeMouseEvent \/ DeliverMouseEvent
    PROVE  Gesture'
<1> DEFINE e == Head(mouseEvents)
           total == IF e.type = "scroll" THEN scroll + e.position ELSE 0
<1>1. mouseEvents \in Seq(MouseEvents) /\ mouseEvents # <<>>
  BY DEF Gesture, TypeOK, MergeMouseEvent, DeliverMouseEvent
<1>2. e \in MouseEvents /\ Tail(mouseEvents) \in Seq(MouseEvents)
  BY <1>1
<1>3. /\ mouseEvents' = Tail(mouseEvents) /\ cursor' = CursorAt(e)
      /\ UNCHANGED <<calls, touches, multiTouch, touchEvents, inputMode, phase,
                     touchView>>
  BY DEF MergeMouseEvent, DeliverMouseEvent, appVars
<1>4. CursorAt(e) \in Positions \cup {Hidden}
  BY <1>2, CursorTypes DEF Gesture
<1>5. /\ e.button \in Buttons
      /\ e.type \in TouchTypes \/ (e.type = "scroll" /\ e.position \in Int)
  BY <1>2, MouseEventKinds
<1>6. scroll \in Int /\ wheel \in Int /\ held \subseteq Buttons
  BY DEF Gesture, TypeOK
<1>7. total \in Int
  BY <1>5, <1>6 DEF TouchTypes
<1>8. scroll' \in Int /\ wheel' \in Int /\ held' \subseteq Buttons
  <2>1. CASE MergeMouseEvent
    BY <2>1, <1>5, <1>6 DEF MergeMouseEvent, appVars, TouchTypes
  <2>2. CASE DeliverMouseEvent
    <3>1. /\ scroll' = IF e.type = "scroll" THEN NextScroll(total) ELSE scroll
          /\ wheel' = wheel - total
          /\ held' = CASE e.type = "down" -> held \cup {e.button}
                       [] e.type \in {"up", "cancel"} -> held \ {e.button}
                       [] OTHER -> held
      BY <2>2 DEF DeliverMouseEvent
    <3> HIDE DEF total, e
    <3>2. scroll' \in Int /\ wheel' \in Int
      BY <3>1, <1>6, <1>7 DEF NextScroll
    <3>3. held' \subseteq Buttons
      BY <3>1, <1>5, <1>6
    <3> QED  BY <3>2, <3>3
  <2> QED  BY <2>1, <2>2
<1> HIDE DEF e, total
<1> QED  BY <1>2, <1>3, <1>4, <1>8 DEF Gesture, TypeOK, GestureHasFingers

(* The rest of a frame changes no touch.                                   *)
LEMMA FrameGesture ==
    ASSUME Gesture, Frame
    PROVE  Gesture'
<1>1. CASE CheckEvents \/ MouseEventsDone \/ FrameEnds
  BY <1>1
  DEF CheckEvents, MouseEventsDone, FrameEnds, queueVars, cursorVars, appVars,
      Gesture, TypeOK, GestureHasFingers
<1>2. CASE DeliverTouchEvent
  <2>1. touchEvents \in Seq(Seq(Positions)) /\ touchEvents # <<>>
    BY <1>2 DEF Gesture, TypeOK, DeliverTouchEvent
  <2>2. touchView' \in Seq(Positions) /\ touchEvents' \in Seq(Seq(Positions))
    BY <1>2, <2>1 DEF DeliverTouchEvent
  <2>3. UNCHANGED <<calls, touches, multiTouch, mouseEvents, cursorVars,
                    frameVars, held, wheel>>
    BY <1>2 DEF DeliverTouchEvent
  <2> QED
    BY <2>2, <2>3 DEF Gesture, TypeOK, GestureHasFingers, cursorVars, frameVars
<1> QED  BY <1>1, <1>2, EventGesture DEF Frame

(* Nothing is touched when the window is created.                          *)
LEMMA GestureInit == Init => Gesture
<1> SUFFICES ASSUME Init PROVE Gesture
  OBVIOUS
<1>1. /\ calls \in Seq(TouchCalls) /\ touches \in Seq(Positions)
      /\ mouseEvents \in Seq(MouseEvents) /\ touchEvents \in Seq(Seq(Positions))
      /\ touchView \in Seq(Positions)
  BY DEF Init
<1>2. inputMode \in InputModes /\ cursor \in Positions \cup {Hidden}
  BY DEF Init, InputModes
<1>3. scroll \in Int /\ wheel \in Int
  BY DEF Init
<1>4. multiTouch \in BOOLEAN /\ held \subseteq Buttons
  BY DEF Init
<1>5. phase \in {"system", "mouse", "touch"}
  BY DEF Init
<1>6. GestureHasFingers
  BY DEF Init, GestureHasFingers
<1> QED  BY <1>1, <1>2, <1>3, <1>4, <1>5, <1>6 DEF Gesture, TypeOK

(* A step that changes nothing changes nothing.                            *)
LEMMA GestureStutter == Gesture /\ UNCHANGED inputVars => Gesture'
BY DEF inputVars, queueVars, cursorVars, frameVars, appVars, Gesture, TypeOK,
       GestureHasFingers

(* The types and the gesture are inductive, with cancellations or without. *)
THEOREM GestureInvariant == Spec => []Gesture
<1>1. Gesture /\ [Next]_inputVars => Gesture'
  <2>1. Gesture /\ UNCHANGED cursorVars => CursorOK'
    BY DEF Gesture, TypeOK, CursorOK, cursorVars
  <2> QED
    BY <2>1, SystemGesture, FrameGesture, CallGesture, GestureStutter DEF Next
<1> QED  BY <1>1, GestureInit, PTL DEF Spec

(* The state stays within its types, whatever calls a window system makes: *)
(* no touch is removed from or changed in a list that does not have it.    *)
THEOREM InputTypes == Spec => []TypeOK
<1>1. Gesture => TypeOK
  BY DEF Gesture
<1> QED  BY <1>1, GestureInvariant, PTL

(* A gesture of several fingers is one as soon as there are two and never  *)
(* without a finger, even if the system gives up its fingers one by one    *)
(* (multiTouchActive in queueTouchEvent()).                                *)
THEOREM GesturesHaveFingers == Spec => []GestureHasFingers
<1>1. Gesture => GestureHasFingers
  BY DEF Gesture
<1> QED  BY <1>1, GestureInvariant, PTL

-----------------------------------------------------------------------------
(* The rotation of the mouse wheel.                                        *)

(* How a mouse event changes the rotation on its way to the application.   *)
Turned(e, before, after) ==
    IF e.type = "scroll" THEN after = before + e.position ELSE after = before

(* The events lead from one rotation to the other.                         *)
Rolled(events, before, after) ==
    \E run \in [0..Len(events) -> Int] :
        /\ run[0] = before /\ run[Len(events)] = after
        /\ \A i \in 1..Len(events) : Turned(events[i], run[i - 1], run[i])

(* The queued events lead from what was accumulated to what the user       *)
(* turned the wheel by, and something is accumulated only while the event  *)
(* it will be delivered with is the next one.                              *)
Rolling ==
    /\ Rolled(mouseEvents, scroll, wheel)
    /\ scroll # 0 => /\ phase = "mouse" /\ mouseEvents # <<>>
                     /\ Head(mouseEvents).type = "scroll"

(* An event that leads on from where a sequence ends can be appended.      *)
LEMMA RolledAppend ==
    ASSUME NEW E, NEW s \in Seq(E), NEW e \in E,
           NEW before \in Int, NEW after \in Int, NEW next \in Int,
           Rolled(s, before, after), Turned(e, after, next)
    PROVE  Rolled(Append(s, e), before, next)
<1>1. PICK run \in [0..Len(s) -> Int] :
          /\ run[0] = before /\ run[Len(s)] = after
          /\ \A i \in 1..Len(s) : Turned(s[i], run[i - 1], run[i])
  BY DEF Rolled
<1> DEFINE n == Len(s)
           t == Append(s, e)
           longer == [i \in 0..(n + 1) |-> IF i <= n THEN run[i] ELSE next]
<1>2. n \in Nat /\ Len(t) = n + 1 /\ t[n + 1] = e
  OBVIOUS
<1>3. \A i \in 1..n : t[i] = s[i]
  OBVIOUS
<1>4. longer \in [0..Len(t) -> Int]
  BY <1>2
<1>5. longer[0] = before /\ longer[Len(t)] = next
  BY <1>1, <1>2
<1>6. ASSUME NEW i \in 1..Len(t)
      PROVE  Turned(t[i], longer[i - 1], longer[i])
  <2>1. CASE i \in 1..n
    <3>1. longer[i] = run[i] /\ longer[i - 1] = run[i - 1]
      BY <2>1, <1>2
    <3> QED  BY <3>1, <2>1, <1>1, <1>3
  <2>2. CASE i = n + 1
    <3>1. longer[i] = next /\ longer[i - 1] = after
      BY <2>2, <1>2, <1>1
    <3> QED  BY <3>1, <2>2, <1>2
  <2> QED  BY <2>1, <2>2, <1>2
<1> QED  BY <1>4, <1>5, <1>6 DEF Rolled

(* After the first event the rest leads on from where it leads to, and     *)
(* from any amount less to that amount less.                               *)
LEMMA RolledTail ==
    ASSUME NEW s \in Seq(MouseEvents), s # <<>>, NEW less \in Int,
           NEW before, NEW after, Rolled(s, before, after)
    PROVE  \E next \in Int : /\ Turned(Head(s), before, next)
                             /\ Rolled(Tail(s), next - less, after - less)
<1>1. PICK run \in [0..Len(s) -> Int] :
          /\ run[0] = before /\ run[Len(s)] = after
          /\ \A i \in 1..Len(s) : Turned(s[i], run[i - 1], run[i])
  BY DEF Rolled
<1> DEFINE n == Len(s)
           t == Tail(s)
           rest == [i \in 0..(n - 1) |-> run[i + 1] - less]
<1>2. /\ n \in Nat /\ n >= 1 /\ t \in Seq(MouseEvents) /\ Len(t) = n - 1
      /\ Head(s) = s[1]
  OBVIOUS
<1>3. \A i \in 1..(n - 1) : t[i] = s[i + 1]
  OBVIOUS
<1>4. \A i \in 0..n : run[i] \in Int
  OBVIOUS
<1>5. rest \in [0..Len(t) -> Int]
  BY <1>2, <1>4
<1>6. /\ rest[0] = run[1] - less /\ rest[Len(t)] = after - less
      /\ run[1] \in Int
  BY <1>1, <1>2, <1>4
<1>7. ASSUME NEW i \in 1..Len(t)
      PROVE  Turned(t[i], rest[i - 1], rest[i])
  <2>1. /\ rest[i] = run[i + 1] - less /\ rest[i - 1] = run[i] - less
        /\ i + 1 \in 1..n
    BY <1>2
  <2>2. Turned(s[i + 1], run[i], run[i + 1])
    BY <2>1, <1>1, <1>2
  <2>3. t[i] = s[i + 1]
    BY <1>2, <1>3
  <2>4. run[i] \in Int /\ run[i + 1] \in Int
    BY <2>1, <1>2, <1>4
  <2>5. CASE t[i].type = "scroll"
    <3>1. run[i + 1] = run[i] + t[i].position
      BY <2>5, <2>2, <2>3 DEF Turned
    <3>2. t[i].position \in Int
      <4>1. t[i] \in MouseEvents
        BY <1>2
      <4> QED  BY <4>1, <2>5, MouseEventKinds DEF TouchTypes
    <3> HIDE DEF rest, t
    <3>3. rest[i] = rest[i - 1] + t[i].position
      BY <3>1, <3>2, <2>1, <2>4
    <3> QED  BY <3>3, <2>5 DEF Turned
  <2>6. CASE t[i].type # "scroll"
    BY <2>6, <2>1, <2>2, <2>3 DEF Turned
  <2> QED  BY <2>5, <2>6
<1>8. Rolled(t, run[1] - less, after - less)
  BY <1>5, <1>6, <1>7 DEF Rolled
<1>9. Turned(Head(s), before, run[1])
  BY <1>1, <1>2
<1> QED  BY <1>6, <1>8, <1>9

(* No call of a finger turns the wheel.                                    *)
LEMMA CallRolls ==
    ASSUME Gesture, Rolling, QueueTouchEvent
    PROVE  Rolling'
<1>1. UNCHANGED <<phase, scroll, wheel>> /\ phase = "system" /\ scroll = 0
  BY DEF QueueTouchEvent, CallIgnored, CallCancels, CallQueues, frameVars,
         appVars, Rolling
<1>2. Rolled(mouseEvents, scroll, wheel) /\ mouseEvents \in Seq(MouseEvents)
  BY DEF Rolling, Gesture, TypeOK
<1>3. CASE CallIgnored \/ CallCancels
  BY <1>1, <1>3 DEF CallIgnored, CallCancels, Rolling
<1>4. CASE CallQueues
  <2> DEFINE now == Touched(Call)
  <2>1. Call \in TouchCalls /\ now \in Seq(Positions)
    BY <1>4, FirstCall, TouchedTypes DEF CallQueues, Gesture
  <2>2. mouseEvents' = mouseEvents \o Emulated(Call, now)
    BY <1>4 DEF CallQueues
  <2>3. CASE Emulated(Call, now) = <<>>
    BY <1>1, <1>2, <2>2, <2>3 DEF Rolling
  <2>4. ASSUME NEW e \in MouseEvents, Emulated(Call, now) = <<e>>
        PROVE  Rolling'
    <3>1. e.type # "scroll"
      <4>1. e.type \in {Call.type, "cancel"}
        BY <2>4 DEF Emulated, MouseEvent
      <4> QED  BY <2>1, <4>1 DEF TouchCalls, TouchTypes
    <3>2. mouseEvents' = Append(mouseEvents, e)
      BY <2>2, <2>4, <1>2
    <3>3. Turned(e, wheel, wheel)
      BY <3>1 DEF Turned
    <3>4. scroll \in Int /\ wheel \in Int
      BY DEF Gesture, TypeOK
    <3>5. Rolled(Append(mouseEvents, e), scroll, wheel)
      BY <1>2, <3>3, <3>4, RolledAppend
    <3> QED  BY <1>1, <3>2, <3>5 DEF Rolling
  <2> QED  BY <2>1, <2>3, <2>4, EmulatedTypes DEF Gesture
<1> QED  BY <1>3, <1>4 DEF QueueTouchEvent

(* The mouse turns the wheel by what its event says.                       *)
LEMMA MouseRolls ==
    ASSUME Gesture, Rolling, NEW e \in MouseEvents, QueueMouseEvent(e),
           wheel' \in Int, Turned(e, wheel, wheel')
    PROVE  Rolling'
<1>1. mouseEvents \in Seq(MouseEvents) /\ mouseEvents' = Append(mouseEvents, e)
  BY DEF Gesture, TypeOK, QueueMouseEvent
<1>2. scroll = 0 /\ scroll' = 0
  BY DEF QueueMouseEvent, SystemTurn, frameVars, Rolling
<1>3. Rolled(mouseEvents, 0, wheel) /\ wheel \in Int
  BY <1>2 DEF Rolling, Gesture, TypeOK
<1>4. Rolled(Append(mouseEvents, e), 0, wheel')
  BY <1>1, <1>3, RolledAppend
<1> QED  BY <1>1, <1>2, <1>4 DEF Rolling

(* Whatever the window system reports.                                     *)
LEMMA SystemRolls ==
    ASSUME Gesture, Rolling, System
    PROVE  Rolling'
<1>1. ASSUME NEW type \in TouchTypes, NEW p \in Positions,
             NEW i \in 0..MaxIndex, AnyTouch(TouchCall(type, p, i))
      PROVE  Rolling'
  BY <1>1 DEF AnyTouch, Report, Rolling, frameVars, appVars
<1>2. ASSUME NEW p \in Positions, MouseMoves(p)
      PROVE  Rolling'
  <2>1. /\ QueueMouseEvent(MouseEvent("move", p, "none"))
        /\ wheel' = wheel /\ wheel' \in Int
    BY <1>2 DEF MouseMoves, Gesture, TypeOK
  <2>2. /\ MouseEvent("move", p, "none") \in MouseEvents
        /\ Turned(MouseEvent("move", p, "none"), wheel, wheel')
    BY <2>1, MovesAndScrolls DEF Turned
  <2> QED  BY <2>1, <2>2, MouseRolls
<1>3. ASSUME NEW d \in Deltas, MouseScrolls(d)
      PROVE  Rolling'
  <2>1. /\ QueueMouseEvent(MouseEvent("scroll", d, "none"))
        /\ wheel' = wheel + d /\ wheel' \in Int
    BY <1>3 DEF MouseScrolls, Gesture, TypeOK, Deltas
  <2>2. /\ MouseEvent("scroll", d, "none") \in MouseEvents
        /\ Turned(MouseEvent("scroll", d, "none"), wheel, wheel')
    BY <2>1, MovesAndScrolls DEF Turned
  <2> QED  BY <2>1, <2>2, MouseRolls
<1>4. ASSUME NEW value \in InputModes, AnyInputMode(value)
      PROVE  Rolling'
  BY <1>4 DEF AnyInputMode, Rolling, queueVars, frameVars, appVars
<1> QED  BY <1>1, <1>2, <1>3, <1>4 DEF System

(* A merged scroll event is accumulated, and the next event is one, too.   *)
LEMMA MergeRolls ==
    ASSUME Gesture, Rolling, MergeMouseEvent
    PROVE  Rolling'
<1> DEFINE e == Head(mouseEvents)
<1>1. /\ mouseEvents \in Seq(MouseEvents) /\ mouseEvents # <<>>
      /\ Len(mouseEvents) > 1 /\ e.type \in {"move", "scroll"}
      /\ Head(Tail(mouseEvents)).type = e.type /\ Tail(mouseEvents) # <<>>
  <2>1. /\ mouseEvents \in Seq(MouseEvents) /\ Len(mouseEvents) > 1
        /\ mouseEvents[1].type \in {"move", "scroll"}
        /\ mouseEvents[2].type = mouseEvents[1].type
    BY DEF Gesture, TypeOK, MergeMouseEvent, Merges
  <2>2. /\ Head(mouseEvents) = mouseEvents[1] /\ Len(Tail(mouseEvents)) > 0
        /\ Head(Tail(mouseEvents)) = mouseEvents[2]
    BY <2>1
  <2>3. mouseEvents # <<>> /\ Tail(mouseEvents) # <<>>
    <3>1. Len(<<>>) = 0
      OBVIOUS
    <3>2. Len(mouseEvents) # 0 /\ Len(Tail(mouseEvents)) # 0
      BY <2>1, <2>2
    <3> QED  BY <3>1, <3>2, Zenon
  <2>4. Head(Tail(mouseEvents)).type = e.type
    BY <2>1, <2>2, Zenon
  <2>5. e.type \in {"move", "scroll"}
    BY <2>1, <2>2, Zenon
  <2> QED  BY <2>1, <2>3, <2>4, <2>5
<1>2. /\ mouseEvents' = Tail(mouseEvents) /\ phase' = "mouse" /\ wheel' = wheel
      /\ scroll' = IF e.type = "scroll" THEN scroll + e.position ELSE scroll
  BY DEF MergeMouseEvent, appVars
<1>3. Rolled(mouseEvents, scroll, wheel) /\ scroll \in Int /\ wheel \in Int
  BY DEF Rolling, Gesture, TypeOK
<1>4. PICK next \in Int : /\ Turned(e, scroll, next)
                          /\ Rolled(Tail(mouseEvents), next - 0, wheel - 0)
  <2>1. 0 \in Int
    OBVIOUS
  <2> QED  BY <1>1, <1>3, <2>1, RolledTail
<1>5. scroll # 0 => e.type = "scroll"
  BY DEF Rolling
<1> HIDE DEF e
<1>6. next = scroll'
  BY <1>2, <1>4 DEF Turned
<1>7. next - 0 = next /\ wheel - 0 = wheel
  BY <1>3
<1>8. Rolled(mouseEvents', scroll', wheel')
  BY <1>2, <1>4, <1>6, <1>7
<1>9. scroll' # 0 => Head(mouseEvents').type = "scroll"
  BY <1>1, <1>2, <1>5
<1> QED  BY <1>1, <1>2, <1>8, <1>9 DEF Rolling

(* A delivered scroll event takes what was accumulated along.              *)
LEMMA DeliverRolls ==
    ASSUME Gesture, Rolling, DeliverMouseEvent
    PROVE  Rolling'
<1> DEFINE e == Head(mouseEvents)
           total == IF e.type = "scroll" THEN scroll + e.position ELSE 0
<1>1. mouseEvents \in Seq(MouseEvents) /\ mouseEvents # <<>>
  BY DEF Gesture, TypeOK, DeliverMouseEvent
<1>2. /\ mouseEvents' = Tail(mouseEvents)
      /\ scroll' = IF e.type = "scroll" THEN NextScroll(total) ELSE scroll
      /\ wheel' = wheel - total
  BY DEF DeliverMouseEvent
<1>3. Rolled(mouseEvents, scroll, wheel) /\ scroll \in Int /\ wheel \in Int
  BY DEF Rolling, Gesture, TypeOK
<1>4. total \in Int
  <2>1. e \in MouseEvents
    BY <1>1
  <2>2. e.type = "scroll" => e.position \in Int
    BY <2>1, MouseEventKinds DEF TouchTypes
  <2> QED  BY <2>2, <1>3
<1>5. PICK next \in Int :
          /\ Turned(e, scroll, next)
          /\ Rolled(Tail(mouseEvents), next - total, wheel - total)
  <2> HIDE DEF total
  <2> QED  BY <1>1, <1>3, <1>4, RolledTail
<1>6. scroll # 0 => e.type = "scroll"
  BY DEF Rolling
<1> HIDE DEF e
<1>7. scroll' = 0 /\ next - total = 0
  <2>1. CASE e.type = "scroll"
    BY <2>1, <1>2, <1>5 DEF NextScroll, Turned
  <2>2. CASE e.type # "scroll"
    BY <2>2, <1>2, <1>5, <1>6 DEF Turned
  <2> QED  BY <2>1, <2>2
<1> HIDE DEF total
<1> QED  BY <1>2, <1>5, <1>7 DEF Rolling

(* A frame delivers the mouse events before anything else.                 *)
LEMMA FrameRolls ==
    ASSUME Gesture, Rolling, Frame
    PROVE  Rolling'
<1>1. CASE CheckEvents
  BY <1>1 DEF CheckEvents, SystemTurn, queueVars, appVars, Rolling
<1>2. CASE MouseEventsDone \/ FrameEnds
  <2>1. /\ scroll = 0
        /\ UNCHANGED <<mouseEvents, scroll, wheel>>
    BY <1>2 DEF MouseEventsDone, FrameEnds, queueVars, appVars, Rolling
  <2> QED  BY <2>1 DEF Rolling
<1>3. CASE DeliverTouchEvent
  BY <1>3 DEF DeliverTouchEvent, frameVars, Rolling
<1> QED  BY <1>1, <1>2, <1>3, MergeRolls, DeliverRolls DEF Frame

(* Nothing is turned when the window is created.                           *)
LEMMA RollingInit == Init => Rolling
<1> SUFFICES ASSUME Init PROVE Rolling
  OBVIOUS
<1> DEFINE run == [i \in 0..Len(mouseEvents) |-> 0]
<1>1. mouseEvents = <<>> /\ Len(mouseEvents) = 0 /\ scroll = 0 /\ wheel = 0
  BY DEF Init
<1>2. /\ run \in [0..Len(mouseEvents) -> Int]
      /\ run[0] = 0 /\ run[Len(mouseEvents)] = 0
      /\ \A i \in 1..Len(mouseEvents) : Turned(mouseEvents[i], run[i - 1], run[i])
  BY <1>1
<1>3. Rolled(mouseEvents, 0, 0)
  BY <1>2 DEF Rolled
<1> QED  BY <1>1, <1>3 DEF Rolling

(* What is accumulated and what is queued is the rotation the application  *)
(* was not told of, beside the types.                                      *)
THEOREM RollingInvariant == Spec => [](Gesture /\ Rolling)
<1>1. Gesture /\ Rolling /\ [Next]_inputVars => Rolling'
  <2>1. Rolling /\ UNCHANGED inputVars => Rolling'
    BY DEF Rolling, inputVars, queueVars, frameVars, appVars
  <2> QED
    BY <2>1, SystemRolls, FrameRolls, CallRolls DEF Next
<1> QED  BY <1>1, RollingInit, GestureInvariant, PTL DEF Spec

(* Merging the scroll events of a frame loses nothing of the rotation and  *)
(* counts nothing twice, however many there are and whatever events come   *)
(* between them (cumulativeScroll in checkEvents()).                       *)
THEOREM ScrollsCounted == Spec => []ScrollComplete
<1>1. ASSUME Gesture, Rolling PROVE ScrollComplete
  <2> SUFFICES ASSUME phase # "mouse", mouseEvents = <<>>
               PROVE  wheel = 0 /\ scroll = 0
    BY DEF ScrollComplete
  <2>1. scroll = 0
    BY <1>1 DEF Rolling
  <2>2. Len(mouseEvents) = 0
    OBVIOUS
  <2>3. PICK run \in [0..Len(mouseEvents) -> Int] :
            run[0] = scroll /\ run[Len(mouseEvents)] = wheel
    BY <1>1 DEF Rolling, Rolled
  <2> QED  BY <2>1, <2>2, <2>3
<1> QED  BY <1>1, RollingInvariant, PTL

-----------------------------------------------------------------------------
(* The emulated mouse and the touches the application is told of, with a   *)
(* window system that cancels nothing.                                     *)

(* The first call is no cancellation, and neither is one of the others.    *)
LEMMA FirstNoCancel ==
    ASSUME Gesture, Pressing, calls # <<>>
    PROVE  /\ Call \in TouchCalls /\ Call.type \in {"down", "up", "move"}
           /\ calls' = Tail(calls) => NoCancels'
<1>1. calls \in Seq(TouchCalls) /\ Len(calls) \in Nat /\ Len(calls) >= 1
  BY DEF Gesture, TypeOK
<1>2. Call = calls[1] /\ Call \in TouchCalls
  BY <1>1 DEF Call
<1>3. /\ Len(Tail(calls)) = Len(calls) - 1
      /\ \A i \in 1..Len(Tail(calls)) : Tail(calls)[i] = calls[i + 1]
  BY <1>1
<1>4. Call.type # "cancel"
  BY <1>1, <1>2 DEF Pressing, NoCancels
<1>5. calls' = Tail(calls) => NoCancels'
  BY <1>1, <1>3 DEF Pressing, NoCancels
<1> QED  BY <1>2, <1>4, <1>5 DEF TouchCalls, TouchTypes

(* What is queued for a call leads from the touches before it to those     *)
(* after it.                                                               *)
LEMMA CallQueuesPresses ==
    ASSUME Gesture, Pressing, CallQueues, UNCHANGED appVars
    PROVE  PressesAnswered'
<1> DEFINE now == Touched(Call)
           size == Len(touches)
           h == "left" \in held
<1>1. /\ Call \in TouchCalls /\ Call.type \in {"down", "up", "move"}
      /\ ~Redundant(Call)
  BY FirstNoCancel DEF CallQueues
<1>2. /\ now \in Seq(Positions) /\ size \in Nat /\ Len(now) \in Nat
      /\ Call.type = "down" => Len(now) = size + 1
      /\ Call.type = "move" => Len(now) = size /\ size > 0
      /\ Call.type = "up" => Len(now) = size - 1 /\ size > 0
  BY <1>1, TouchedTypes DEF Gesture, TypeOK
<1>3. /\ touches' = now /\ multiTouch' = MultiTouch(now)
      /\ mouseEvents' = mouseEvents \o Emulated(Call, now)
      /\ ("left" \in held') = h
  BY DEF CallQueues, appVars
<1>4. mouseEvents \in Seq(MouseEvents) /\ multiTouch \in BOOLEAN
  BY DEF Gesture, TypeOK
<1>5. Answered(mouseEvents, h, SingleTouch)
  BY DEF Pressing, PressesAnswered
<1>6. SingleTouch' <=> Len(now) = 1 /\ ~MultiTouch(now)
  BY <1>3 DEF SingleTouch
<1>7. now = <<>> <=> Len(now) = 0
  BY <1>2
<1>8. SingleTouch <=> size = 1 /\ ~multiTouch
  BY DEF SingleTouch
<1>9. (size > 1 => multiTouch) /\ (multiTouch => size > 0)
  BY <1>2 DEF Gesture, GestureHasFingers, TypeOK
<1>10. \A e \in MouseEvents : Emulated(Call, now) = <<e>> =>
          mouseEvents' = Append(mouseEvents, e)
  BY <1>3, <1>4
<1>11. Emulated(Call, now) = <<>> => mouseEvents' = mouseEvents
  BY <1>3, <1>4
<1> HIDE DEF now, size, h
<1>12. CASE multiTouch
  <2>1. Emulated(Call, now) = <<>>
    BY <1>12 DEF Emulated
  <2>2. ~SingleTouch /\ ~SingleTouch'
    <3>1. Len(now) = 1 => now # <<>>
      BY <1>7
    <3> QED  BY <1>12, <1>6, <1>8, <3>1, Zenon DEF MultiTouch
  <2>3. SingleTouch' = SingleTouch
    BY <2>2 DEF SingleTouch
  <2> QED  BY <2>1, <2>3, <1>3, <1>5, <1>11 DEF PressesAnswered, h
<1>13. CASE ~multiTouch /\ Len(now) > 1
  <2> DEFINE e == MouseEvent("cancel", Call.position, "left")
  <2>1. size = 1 /\ SingleTouch
    BY <1>13, <1>1, <1>2, <1>8, <1>9
  <2>2. ~SingleTouch'
    BY <1>13, <1>2, <1>6, <1>7 DEF MultiTouch
  <2>3. Emulated(Call, now) = <<e>>
    BY <1>13, <2>1 DEF Emulated, size
  <2>4. e \in MouseEvents
    BY <1>1 DEF MouseEvent, MouseEvents, TouchCalls, Buttons, TouchTypes
  <2>5. LeftButton(e, TRUE, FALSE)
    BY DEF LeftButton, MouseEvent
  <2>6. Answered(Append(mouseEvents, e), h, FALSE)
    <3>1. Answered(mouseEvents, h, TRUE)
      BY <1>5, <2>1
    <3>2. h \in BOOLEAN
      BY DEF h
    <3> HIDE DEF e
    <3> QED  BY <3>1, <3>2, <2>4, <2>5, <1>4, AnsweredAppend
  <2>7. mouseEvents' = Append(mouseEvents, e)
    BY <2>3, <2>4, <1>10
  <2>8. Answered(mouseEvents', "left" \in held', SingleTouch')
    <3>1. SingleTouch' = FALSE
      BY <2>2 DEF SingleTouch
    <3> QED  BY <3>1, <2>6, <2>7, <1>3
  <2> QED  BY <2>8 DEF PressesAnswered
<1>14. CASE ~multiTouch /\ ~(Len(now) > 1)
  <2> DEFINE e == MouseEvent(Call.type, Call.position, "left")
  <2>1. Emulated(Call, now) = <<e>>
    BY <1>14 DEF Emulated
  <2>2. e \in MouseEvents
    BY <1>1 DEF MouseEvent, MouseEvents, TouchCalls, Buttons
  <2>3. (SingleTouch' <=> Len(now) = 1) /\ (SingleTouch <=> size = 1)
    BY <1>14, <1>6, <1>8 DEF MultiTouch
  <2>4. LeftButton(e, SingleTouch, SingleTouch')
    <3>1. e.button = "left" /\ e.type = Call.type
      BY DEF MouseEvent
    <3>2. /\ Call.type = "down" => size = 0 /\ Len(now) = 1
          /\ Call.type = "move" => size = 1 /\ Len(now) = 1
          /\ Call.type = "up" => size = 1 /\ Len(now) = 0
      <4>1. Len(now) <= 1
        BY <1>14, <1>2
      <4>2. size <= 1
        BY <1>14, <1>2, <1>9 DEF size
      <4>3. Call.type = "down" => size = 0 /\ Len(now) = 1
        BY <4>1, <1>2
      <4>4. Call.type = "move" => size = 1 /\ Len(now) = 1
        BY <4>2, <1>2
      <4>5. Call.type = "up" => size = 1 /\ Len(now) = 0
        BY <4>2, <1>2
      <4> QED  BY <4>3, <4>4, <4>5
    <3> HIDE DEF e
    <3>3. CASE e.type = "down"
      BY <3>1, <3>2, <3>3, <2>3 DEF LeftButton
    <3>4. CASE e.type = "move"
      BY <3>1, <3>2, <3>4, <2>3 DEF LeftButton
    <3>5. CASE e.type = "up"
      BY <3>1, <3>2, <3>5, <2>3 DEF LeftButton
    <3> QED  BY <3>1, <3>3, <3>4, <3>5, <1>1
  <2>5. Answered(Append(mouseEvents, e), h, SingleTouch')
    <3>1. h \in BOOLEAN /\ SingleTouch \in BOOLEAN /\ SingleTouch' \in BOOLEAN
      BY DEF h, SingleTouch
    <3> HIDE DEF e
    <3> QED  BY <3>1, <2>2, <2>4, <1>4, <1>5, AnsweredAppend
  <2> QED  BY <2>1, <2>2, <2>5, <1>3, <1>10 DEF PressesAnswered
<1> QED  BY <1>12, <1>13, <1>14

(* Every call keeps what is said of presses and of the touches.            *)
LEMMA CallPresses ==
    ASSUME Gesture, Pressing, QueueTouchEvent
    PROVE  Pressing'
<1>1. UNCHANGED <<frameVars, appVars>>
  BY DEF QueueTouchEvent
<1>2. NoCancels'
  BY FirstNoCancel DEF QueueTouchEvent, CallIgnored, CallCancels, CallQueues
<1>3. CASE CallIgnored
  <2>1. UNCHANGED <<touches, multiTouch, mouseEvents, touchEvents>>
    BY <1>3 DEF CallIgnored
  <2> QED
    BY <2>1, <1>1, <1>2
    DEF appVars, Pressing, PressesAnswered, SingleTouch, TouchViewCurrent
<1>4. CASE CallCancels
  BY <1>4, FirstNoCancel DEF CallCancels
<1>5. CASE CallQueues
  <2>1. TouchViewCurrent'
    BY <1>5 DEF CallQueues, Snapshot, TouchViewCurrent
  <2>2. PressesAnswered'
    BY <1>1, <1>5, CallQueuesPresses
  <2> QED  BY <1>2, <2>1, <2>2 DEF Pressing
<1> QED  BY <1>3, <1>4, <1>5 DEF QueueTouchEvent

(* Any number of calls that are no cancellations may be on their way.      *)
LEMMA ReportPresses ==
    ASSUME Pressing, NEW cs, Report(cs),
           \A i \in 1..Len(cs) : cs[i].type # "cancel"
    PROVE  Pressing'
<1>1. /\ calls' = cs
      /\ UNCHANGED <<touches, multiTouch, mouseEvents, touchEvents, frameVars,
                     appVars>>
  BY DEF Report
<1> QED
  BY <1>1
  DEF Pressing, NoCancels, PressesAnswered, SingleTouch, TouchViewCurrent, appVars

(* An event of the real mouse does not press the emulated button.          *)
LEMMA MousePresses ==
    ASSUME Gesture, Pressing, NEW e \in MouseEvents, e.button = "none",
           QueueMouseEvent(e)
    PROVE  Pressing'
<1>1. mouseEvents \in Seq(MouseEvents) /\ mouseEvents' = Append(mouseEvents, e)
  BY DEF Gesture, TypeOK, QueueMouseEvent
<1>2. UNCHANGED <<calls, touches, multiTouch, touchEvents, frameVars, held,
                  touchView>>
  BY DEF QueueMouseEvent
<1>3. PressesAnswered'
  <2> DEFINE h == "left" \in held
             t == SingleTouch
  <2>1. h \in BOOLEAN /\ t \in BOOLEAN
    BY DEF SingleTouch
  <2>2. Answered(mouseEvents, h, t)
    BY DEF Pressing, PressesAnswered
  <2>3. LeftButton(e, t, t)
    BY DEF LeftButton
  <2> HIDE DEF h, t
  <2>4. Answered(Append(mouseEvents, e), h, t)
    BY <1>1, <2>1, <2>2, <2>3, AnsweredAppend
  <2> USE DEF h, t
  <2>5. ("left" \in held') = h /\ SingleTouch' = t
    BY <1>2 DEF SingleTouch
  <2> QED  BY <1>1, <2>4, <2>5 DEF PressesAnswered
<1>4. NoCancels' /\ TouchViewCurrent'
  BY <1>2 DEF Pressing, NoCancels, TouchViewCurrent
<1> QED  BY <1>3, <1>4 DEF Pressing

(* Whatever the window system reports.                                     *)
LEMMA SystemPresses ==
    ASSUME Gesture, Pressing, ~PointerCancels, System
    PROVE  Pressing'
<1>1. ASSUME NEW type \in TouchTypes, NEW p \in Positions,
             NEW i \in 0..MaxIndex, AnyTouch(TouchCall(type, p, i))
      PROVE  Pressing'
  <2>1. type # "cancel" /\ Report(<<TouchCall(type, p, i)>>)
    BY <1>1 DEF AnyTouch, TouchCall
  <2> QED  BY <2>1, OneCall, ReportPresses
<1>2. ASSUME NEW p \in Positions, MouseMoves(p)
      PROVE  Pressing'
  BY <1>2, MovesAndScrolls, MousePresses DEF MouseMoves
<1>3. ASSUME NEW d \in Deltas, MouseScrolls(d)
      PROVE  Pressing'
  BY <1>3, MovesAndScrolls, MousePresses DEF MouseScrolls
<1>4. ASSUME NEW value \in InputModes, AnyInputMode(value)
      PROVE  Pressing'
  BY <1>4
  DEF AnyInputMode, Pressing, NoCancels, PressesAnswered, SingleTouch,
      TouchViewCurrent, queueVars, appVars
<1> QED  BY <1>1, <1>2, <1>3, <1>4 DEF System

(* The first mouse event leads from what the application knows to what the *)
(* rest leads on from.                                                     *)
LEMMA FirstMouseEvent ==
    ASSUME Gesture, Pressing, mouseEvents # <<>>
    PROVE  /\ Head(mouseEvents) \in MouseEvents
           /\ \E next \in BOOLEAN :
                 /\ LeftButton(Head(mouseEvents), "left" \in held, next)
                 /\ Answered(Tail(mouseEvents), next, SingleTouch)
<1>1. /\ mouseEvents \in Seq(MouseEvents)
      /\ Answered(mouseEvents, "left" \in held, SingleTouch)
  BY DEF Gesture, TypeOK, Pressing, PressesAnswered
<1>2. Head(mouseEvents) \in MouseEvents
  BY <1>1
<1> QED  BY <1>1, <1>2, AnsweredTail

(* A merged event, a move or a scroll, leaves the buttons as they are.     *)
LEMMA MergePresses ==
    ASSUME Gesture, Pressing, MergeMouseEvent
    PROVE  Pressing'
<1> DEFINE e == Head(mouseEvents)
<1>1. e \in MouseEvents /\ e.type \in {"move", "scroll"}
  BY FirstMouseEvent DEF MergeMouseEvent, Merges
<1>2. PICK next \in BOOLEAN : /\ LeftButton(e, "left" \in held, next)
                              /\ Answered(Tail(mouseEvents), next, SingleTouch)
  BY FirstMouseEvent DEF MergeMouseEvent
<1>3. /\ mouseEvents' = Tail(mouseEvents)
      /\ UNCHANGED <<calls, touches, multiTouch, touchEvents, inputMode, phase,
                     appVars>>
  BY DEF MergeMouseEvent
<1>4. next = ("left" \in held)
  <2>1. e.button # "left" \/ e.type = "move"
    BY <1>1, MouseEventKinds DEF TouchTypes
  <2>2. CASE e.button # "left"
    BY <2>2, <1>2 DEF LeftButton
  <2>3. CASE e.button = "left" /\ e.type = "move"
    BY <2>3, <1>2 DEF LeftButton
  <2> QED  BY <2>1, <2>2, <2>3
<1>5. PressesAnswered'
  BY <1>2, <1>3, <1>4 DEF PressesAnswered, SingleTouch, appVars
<1> QED
  BY <1>3, <1>5 DEF Pressing, NoCancels, TouchViewCurrent, appVars

(* A delivered event presses or releases the button the application sees.  *)
LEMMA DeliverPresses ==
    ASSUME Gesture, Pressing, DeliverMouseEvent
    PROVE  Pressing'
<1> DEFINE e == Head(mouseEvents)
<1>1. e \in MouseEvents
  BY FirstMouseEvent DEF DeliverMouseEvent
<1>2. PICK next \in BOOLEAN : /\ LeftButton(e, "left" \in held, next)
                              /\ Answered(Tail(mouseEvents), next, SingleTouch)
  BY FirstMouseEvent DEF DeliverMouseEvent
<1>3. /\ mouseEvents' = Tail(mouseEvents)
      /\ UNCHANGED <<calls, touches, multiTouch, touchEvents, inputMode, phase,
                     touchView>>
      /\ held' = CASE e.type = "down" -> held \cup {e.button}
                   [] e.type \in {"up", "cancel"} -> held \ {e.button}
                   [] OTHER -> held
  BY DEF DeliverMouseEvent
<1>4. e.type \in TouchTypes \/ (e.type = "scroll" /\ e.button = "none")
  BY <1>1, MouseEventKinds
<1> HIDE DEF e
<1>5. next <=> "left" \in held'
  <2>1. CASE e.button # "left"
    <3>1. next = ("left" \in held)
      BY <2>1, <1>2 DEF LeftButton
    <3> QED  BY <2>1, <3>1, <1>3
  <2>2. CASE e.button = "left"
    <3>1. e.type \in TouchTypes
      BY <2>2, <1>4
    <3>2. CASE e.type = "down"
      BY <2>2, <3>2, <1>2, <1>3 DEF LeftButton
    <3>3. CASE e.type = "move"
      BY <2>2, <3>3, <1>2, <1>3 DEF LeftButton
    <3>4. CASE e.type \in {"up", "cancel"}
      BY <2>2, <3>4, <1>2, <1>3 DEF LeftButton
    <3> QED  BY <3>1, <3>2, <3>3, <3>4 DEF TouchTypes
  <2> QED  BY <2>1, <2>2
<1>6. PressesAnswered'
  <2>1. ("left" \in held') = next /\ SingleTouch' = SingleTouch
    BY <1>3, <1>5 DEF SingleTouch
  <2> QED  BY <1>2, <1>3, <2>1 DEF PressesAnswered
<1> QED
  BY <1>3, <1>6 DEF Pressing, NoCancels, TouchViewCurrent

(* The last list of touches is the one the application keeps.              *)
LEMMA DeliverTouchPresses ==
    ASSUME Pressing, DeliverTouchEvent
    PROVE  Pressing'
<1>1. touchEvents = <<touches>>
  BY DEF Pressing, TouchViewCurrent, DeliverTouchEvent
<1>2. touchEvents' = <<>> /\ touchView' = touches
  BY <1>1 DEF DeliverTouchEvent
<1>3. UNCHANGED <<calls, touches, multiTouch, mouseEvents, held>>
  BY DEF DeliverTouchEvent
<1> QED
  BY <1>2, <1>3
  DEF Pressing, NoCancels, PressesAnswered, SingleTouch, TouchViewCurrent

(* The rest of a frame only passes the turn on.                            *)
LEMMA FramePresses ==
    ASSUME Gesture, Pressing, Frame
    PROVE  Pressing'
<1>1. CASE CheckEvents \/ MouseEventsDone \/ FrameEnds
  BY <1>1
  DEF CheckEvents, MouseEventsDone, FrameEnds, queueVars, appVars,
      Pressing, NoCancels, PressesAnswered, SingleTouch, TouchViewCurrent
<1> QED  BY <1>1, MergePresses, DeliverPresses, DeliverTouchPresses DEF Frame

(* Nothing is pressed and nothing is queued when the window is created.    *)
LEMMA PressingInit == Init => Pressing
<1> SUFFICES ASSUME Init PROVE Pressing
  OBVIOUS
<1>1. NoCancels /\ TouchViewCurrent
  BY DEF Init, NoCancels, TouchViewCurrent
<1>2. PressesAnswered
  <2> DEFINE run == [i \in 0..Len(mouseEvents) |-> FALSE]
  <2>1. mouseEvents = <<>> /\ Len(mouseEvents) = 0 /\ held = {}
    BY DEF Init
  <2>2. SingleTouch = FALSE /\ ("left" \in held) = FALSE
    BY <2>1 DEF Init, SingleTouch
  <2>3. /\ run \in [0..Len(mouseEvents) -> BOOLEAN]
        /\ run[0] = FALSE /\ run[Len(mouseEvents)] = FALSE
        /\ \A i \in 1..Len(mouseEvents) :
              LeftButton(mouseEvents[i], run[i - 1], run[i])
    BY <2>1
  <2>4. Answered(mouseEvents, FALSE, FALSE)
    BY <2>3 DEF Answered
  <2> QED  BY <2>2, <2>4 DEF PressesAnswered
<1> QED  BY <1>1, <1>2 DEF Pressing

(* A step that changes nothing changes nothing.                            *)
LEMMA PressingStutter == Pressing /\ UNCHANGED <<queueVars, appVars>> => Pressing'
BY DEF queueVars, appVars, Pressing, NoCancels, PressesAnswered, SingleTouch,
       TouchViewCurrent

(* The properties with the types and the absence of cancellations on their *)
(* way are inductive.                                                      *)
THEOREM InputInvariant == ~PointerCancels => (Spec => []Input)
<1> SUFFICES ASSUME ~PointerCancels PROVE Spec => []Input
  OBVIOUS
<1>1. Gesture /\ Pressing /\ [Next]_inputVars => Pressing'
  <2>1. UNCHANGED inputVars => UNCHANGED <<queueVars, appVars>>
    BY DEF inputVars
  <2> QED
    BY <2>1, SystemPresses, FramePresses, CallPresses, PressingStutter DEF Next
<1> QED  BY <1>1, PressingInit, GestureInvariant, PTL DEF Spec, Input

(* With every window system that does not cancel single pointers, every    *)
(* press emulated for a finger is answered by exactly one release or       *)
(* cancellation (queueTouchEvent() with multiTouchActive).                 *)
THEOREM EveryPressAnswered == ~PointerCancels => (Spec => []PressesAnswered)
<1> SUFFICES ASSUME ~PointerCancels PROVE Spec => []PressesAnswered
  OBVIOUS
<1>1. Input => PressesAnswered
  BY DEF Input, Pressing
<1> QED  BY <1>1, InputInvariant, PTL

(* ... and the list of touches the application is about to be told of, or  *)
(* was told of last, is the one of the window (queueTouchEvent(),          *)
(* checkEvents()).                                                         *)
THEOREM ToldOfCurrentTouches == ~PointerCancels => (Spec => []TouchViewCurrent)
<1> SUFFICES ASSUME ~PointerCancels PROVE Spec => []TouchViewCurrent
  OBVIOUS
<1>1. Input => TouchViewCurrent
  BY DEF Input, Pressing
<1> QED  BY <1>1, InputInvariant, PTL

-----------------------------------------------------------------------------
(* Sets of numbers and their order.                                        *)

(* A set of natural numbers has a smallest one.                            *)
LEMMA Smallest ==
    ASSUME NEW T \in SUBSET Nat, T # {}
    PROVE  \E x \in T : \A y \in T : x <= y
<1>1. PICK x \in T : \A y \in T : ~(<<y, x>> \in OpToRel(<, Nat))
  BY NatLessThanWellFounded, WFMin
<1>2. \A y \in T : ~(y < x)
  <2> TAKE y \in T
  <2>1. <<y, x>> \in OpToRel(<, Nat) <=> y < x
    BY SMT DEF OpToRel
  <2> QED  BY <1>1, <2>1, Zenon
<1> QED  BY <1>2, SMT

(* The sequence has the numbers of the set, in ascending order.            *)
Ascending(all, ids) ==
    /\ all \in [1..Cardinality(ids) -> ids]
    /\ \A i, j \in 1..Cardinality(ids) : i < j => all[i] < all[j]

(* A number smaller than all others goes first.                            *)
LEMMA AscendingFirst ==
    ASSUME NEW ids \in SUBSET Nat, IsFiniteSet(ids), NEW least \in ids,
           \A id \in ids : least <= id,
           NEW all, Ascending(all, ids \ {least})
    PROVE  \E more : Ascending(more, ids)
<1> DEFINE n == Cardinality(ids)
           rest == ids \ {least}
           more == [i \in 1..n |-> IF i = 1 THEN least ELSE all[i - 1]]
<1>1. n \in Nat /\ n >= 1 /\ Cardinality(rest) = n - 1
  <2>1. n \in Nat
    BY FS_CardinalityType
  <2>2. IsFiniteSet(rest) /\ Cardinality(rest) = n - 1
    BY FS_RemoveElement
  <2>3. Cardinality(rest) \in Nat
    BY <2>2, FS_CardinalityType
  <2> HIDE DEF n, rest
  <2> QED  BY <2>1, <2>2, <2>3
<1>2. \A i \in 1..(n - 1) : all[i] \in rest
  BY <1>1 DEF Ascending
<1>3. \A i, j \in 1..(n - 1) : i < j => all[i] < all[j]
  BY <1>1 DEF Ascending
<1> HIDE DEF n
<1>4. more \in [1..n -> ids]
  BY <1>1, <1>2
<1>5. ASSUME NEW i \in 1..n, NEW j \in 1..n, i < j
      PROVE  more[i] < more[j]
  <2>1. j - 1 \in 1..(n - 1) /\ more[j] = all[j - 1]
    BY <1>1, <1>5
  <2>2. all[j - 1] \in rest
    BY <1>2, <2>1
  <2>3. CASE i = 1
    <3>1. more[i] = least
      BY <2>3
    <3>2. least <= all[j - 1] /\ least # all[j - 1]
      BY <2>2
    <3>3. least \in Nat /\ all[j - 1] \in Nat
      BY <2>2
    <3> HIDE DEF more
    <3> QED  BY <2>1, <3>1, <3>2, <3>3
  <2>4. CASE i # 1
    <3>1. i - 1 \in 1..(n - 1) /\ more[i] = all[i - 1] /\ i - 1 < j - 1
      BY <1>1, <1>5, <2>4
    <3>2. all[i - 1] < all[j - 1]
      BY <1>3, <2>1, <3>1
    <3> HIDE DEF more
    <3> QED  BY <2>1, <3>1, <3>2
  <2> QED  BY <2>3, <2>4
<1>6. Ascending(more, ids)
  BY <1>4, <1>5 DEF Ascending, n
<1> QED  BY <1>6

(* Every finite set of natural numbers can be put in order: a smallest one *)
(* that cannot would have a least element, and the rest could.             *)
LEMMA CanBeOrdered ==
    ASSUME NEW ids \in SUBSET Nat, IsFiniteSet(ids)
    PROVE  \E all : Ascending(all, ids)
<1> DEFINE Fails(set) == IsFiniteSet(set) /\ ~(\E all : Ascending(all, set))
           T == {n \in Nat : \E set \in SUBSET Nat : Fails(set) /\ Cardinality(set) = n}
<1> SUFFICES ASSUME Fails(ids) PROVE FALSE
  OBVIOUS
<1>1. Cardinality(ids) \in T
  BY FS_CardinalityType
<1>2. PICK n \in T : \A m \in T : n <= m
  <2> HIDE DEF Fails
  <2>1. T \in SUBSET Nat /\ T # {}
    BY <1>1
  <2> HIDE DEF T
  <2> QED  BY <2>1, Smallest
<1>3. PICK set \in SUBSET Nat : Fails(set) /\ Cardinality(set) = n
  <2> HIDE DEF Fails
  <2> QED  BY <1>2
<1>4. set # {}
  <2> SUFFICES ASSUME set = {} PROVE FALSE
    OBVIOUS
  <2>1. Cardinality(set) = 0
    BY FS_EmptySet
  <2>2. Ascending([i \in 1..0 |-> 0], set)
    BY <2>1 DEF Ascending
  <2> QED  BY <1>3, <2>2
<1>5. PICK least \in set : \A id \in set : least <= id
  BY <1>4, Smallest
<1>6. IsFiniteSet(set \ {least}) /\ Cardinality(set \ {least}) = n - 1
  BY <1>3, FS_RemoveElement
<1>7. n \in Nat /\ n - 1 \in Nat
  BY <1>3, <1>6, FS_CardinalityType
<1>8. ~Fails(set \ {least})
  <2> SUFFICES ASSUME Fails(set \ {least}) PROVE FALSE
    OBVIOUS
  <2> HIDE DEF Fails
  <2>1. n - 1 \in T
    BY <1>6, <1>7
  <2> HIDE DEF T
  <2> QED  BY <1>2, <1>7, <2>1
<1>9. PICK all : Ascending(all, set \ {least})
  BY <1>6, <1>8
<1> QED  BY <1>3, <1>5, <1>9, AscendingFirst

-----------------------------------------------------------------------------
(* Android.                                                                *)

(* The pointers of an event, each of them once.                            *)
LEMMA InOrderTypes ==
    ASSUME NEW ids \in SUBSET Positions
    PROVE  /\ IsFiniteSet(ids) /\ Cardinality(ids) \in Nat
           /\ InOrder(ids) \in [1..Cardinality(ids) -> ids]
<1>1. IsFiniteSet(ids) /\ Cardinality(ids) \in Nat
  BY IOSAssumption, FS_Subset, FS_CardinalityType
<1>2. ids \in SUBSET Nat
  BY AndroidAssumption
<1>3. PICK order : Ascending(order, ids)
  BY <1>1, <1>2, CanBeOrdered
<1> DEFINE n == Cardinality(ids)
<1>4. /\ order \in [1..n -> ids] /\ Len(order) = n
      /\ \A i, j \in 1..n : i < j => order[i] < order[j]
  BY <1>1, <1>3 DEF Ascending
<1>5. \A i, j \in 1..n : i # j => order[i] # order[j]
  <2> TAKE i, j \in 1..n
  <2>1. order[i] \in Nat /\ order[j] \in Nat
    BY <1>2, <1>4
  <2>2. (i < j => order[i] < order[j]) /\ (j < i => order[j] < order[i])
    BY <1>4
  <2> QED  BY <1>1, <2>1, <2>2
<1>6. order \in SetToSeqs(ids)
  BY <1>4, <1>5 DEF SetToSeqs
<1>7. InOrder(ids) \in SetToSeqs(ids)
  BY <1>4, <1>6 DEF InOrder
<1> QED  BY <1>1, <1>7 DEF SetToSeqs

(* One call for every pointer, with the type of the event.                 *)
LEMMA OnTouchEventTypes ==
    ASSUME NEW type \in TouchTypes, NEW ids \in SUBSET Positions
    PROVE  /\ OnTouchEvent(type, ids) \in Seq(TouchCalls)
           /\ Len(OnTouchEvent(type, ids)) = Cardinality(ids)
           /\ \A i \in 1..Cardinality(ids) :
                 /\ OnTouchEvent(type, ids)[i].type = type
                 /\ OnTouchEvent(type, ids)[i].index = i - 1
<1> DEFINE n == Cardinality(ids)
           all == InOrder(ids)
           cs == [i \in 1..Len(all) |-> TouchCall(type, all[i], i - 1)]
<1>1. n \in Nat /\ all \in [1..n -> Positions]
  BY InOrderTypes
<1> HIDE DEF n, all
<1>2. Len(all) = n
  BY <1>1
<1>3. \A i \in 1..n : TouchCall(type, all[i], i - 1) \in TouchCalls
  BY <1>1 DEF TouchCall, TouchCalls
<1>4. cs \in Seq(TouchCalls) /\ Len(cs) = n
  BY <1>1, <1>2, <1>3
<1>5. \A i \in 1..n : cs[i].type = type /\ cs[i].index = i - 1
  BY <1>2 DEF TouchCall
<1>6. OnTouchEvent(type, ids) = cs
  BY DEF OnTouchEvent, all
<1> HIDE DEF cs
<1> QED  BY <1>4, <1>5, <1>6 DEF n

(* An event that was queued when there were before fingers leaves after.   *)
Changes(cs, before, after) ==
    \/ /\ Len(cs) = after /\ after = before + 1
       /\ \A i \in 1..Len(cs) : cs[i].type = "down" /\ cs[i].index = i - 1
    \/ /\ Len(cs) = before /\ before = after + 1
       /\ \A i \in 1..Len(cs) : cs[i].type = "up" /\ cs[i].index = i - 1
    \/ after = before /\ \A i \in 1..Len(cs) : cs[i].type = "move"

(* When the calls are made at most n touches are left.                     *)
Leaves(cs, n) ==
    \/ /\ Len(touches) <= n
       /\ \A i \in 1..Len(cs) : cs[i].type = "down" => cs[i].index < n
    \/ /\ Len(touches) <= n + 1 /\ cs # <<>> /\ Head(cs).index = 0
       /\ \A i \in 1..Len(cs) : cs[i].type = "up"

(* The events the GL thread has not handled lead from the touches of the   *)
(* window to the fingers on the screen.                                    *)
CountsFingers ==
    \E run \in [0..Len(runnables) -> Nat] :
        /\ run[Len(runnables)] = Cardinality(pointers)
        /\ Leaves(calls, run[0])
        /\ \A i \in 1..Len(runnables) : Changes(runnables[i], run[i - 1], run[i])

NoneCancels == \A i \in 1..Len(runnables) :
                  \A j \in 1..Len(runnables[i]) : runnables[i][j].type # "cancel"

AndroidInv ==
    /\ Input
    /\ pointers \in SUBSET Positions /\ runnables \in Seq(Seq(TouchCalls))
    /\ NoneCancels
    /\ takenOver \in BOOLEAN /\ (~takenOver => CountsFingers)

(* An event is queued for the GL thread.                                   *)
LEMMA QueueEventKeeps ==
    ASSUME AndroidInv, NEW cs \in Seq(TouchCalls), QueueEvent(cs),
           \A i \in 1..Len(cs) : cs[i].type # "cancel",
           pointers' \in SUBSET Positions,
           Changes(cs, Cardinality(pointers), Cardinality(pointers'))
    PROVE  AndroidInv'
<1>1. UNCHANGED <<inputVars, takenOver>> /\ runnables' = Append(runnables, cs)
  BY DEF QueueEvent
<1>2. Input'
  BY <1>1, GestureStutter, PressingStutter DEF AndroidInv, Input, inputVars
<1>3. /\ runnables \in Seq(Seq(TouchCalls)) /\ runnables' \in Seq(Seq(TouchCalls))
      /\ Len(runnables) \in Nat
      /\ Len(runnables') = Len(runnables) + 1
      /\ \A i \in 1..Len(runnables) : runnables'[i] = runnables[i]
      /\ runnables'[Len(runnables) + 1] = cs
  BY <1>1 DEF AndroidInv
<1>4. NoneCancels'
  <2> SUFFICES ASSUME NEW i \in 1..Len(runnables')
               PROVE  \A j \in 1..Len(runnables'[i]) : runnables'[i][j].type # "cancel"
    BY DEF NoneCancels
  <2>1. CASE i \in 1..Len(runnables)
    BY <1>3, <2>1 DEF AndroidInv, NoneCancels
  <2>2. CASE i = Len(runnables) + 1
    BY <1>3, <2>2
  <2> QED  BY <1>3, <2>1, <2>2
<1>5. ASSUME ~takenOver PROVE CountsFingers'
  <2> DEFINE n == Len(runnables)
             now == Cardinality(pointers')
  <2>1. PICK run \in [0..n -> Nat] :
            /\ run[n] = Cardinality(pointers)
            /\ Leaves(calls, run[0])
            /\ \A i \in 1..n : Changes(runnables[i], run[i - 1], run[i])
    BY <1>5 DEF AndroidInv, CountsFingers
  <2>2. now \in Nat
    BY InOrderTypes
  <2>3. n \in Nat /\ Len(runnables') = n + 1
    BY <1>3
  <2> HIDE DEF n, now
  <2>4. PICK longer \in [0..(n + 1) -> Nat] :
            longer = [i \in 0..(n + 1) |-> IF i <= n THEN run[i] ELSE now]
    <3>1. [i \in 0..(n + 1) |-> IF i <= n THEN run[i] ELSE now] \in [0..(n + 1) -> Nat]
      BY <2>1, <2>2, <2>3
    <3> QED  BY <3>1, Zenon
  <2>5. longer[0] = run[0] /\ longer[n + 1] = now
    BY <2>3, <2>4
  <2>6. Leaves(calls, run[0])'
    <3>1. UNCHANGED <<calls, touches>>
      BY <1>1 DEF inputVars, queueVars
    <3> QED  BY <2>1, <3>1 DEF Leaves
  <2>7. ASSUME NEW i \in 1..(n + 1)
        PROVE  Changes(runnables'[i], longer[i - 1], longer[i])
    <3>1. CASE i \in 1..n
      <4>1. longer[i] = run[i] /\ longer[i - 1] = run[i - 1]
        BY <3>1, <2>3, <2>4
      <4> QED  BY <3>1, <4>1, <2>1, <1>3 DEF n
    <3>2. CASE i = n + 1
      <4>1. longer[i] = now /\ longer[i - 1] = Cardinality(pointers)
        BY <3>2, <2>1, <2>3, <2>4
      <4> QED  BY <3>2, <4>1, <1>3 DEF n, now
    <3> QED  BY <3>1, <3>2, <2>3
  <2>8. Leaves(calls, longer[0])'
    BY <2>5, <2>6 DEF Leaves
  <2>9. /\ longer \in [0..Len(runnables') -> Nat]
        /\ longer[Len(runnables')] = Cardinality(pointers')
        /\ \A i \in 1..Len(runnables') : Changes(runnables'[i], longer[i - 1], longer[i])
    BY <2>3, <2>5, <2>7 DEF now
  <2> QED  BY <2>8, <2>9 DEF CountsFingers, Leaves
<1> QED  BY <1>1, <1>2, <1>3, <1>4, <1>5 DEF AndroidInv

(* A finger goes down or up, or fingers move.                              *)
LEMMA AndroidEvents ==
    ASSUME AndroidInv, NEW id \in Positions, ActionDown(id) \/ ActionUp(id) \/ ActionMove
    PROVE  AndroidInv'
<1>1. pointers \in SUBSET Positions /\ IsFiniteSet(pointers)
  BY InOrderTypes DEF AndroidInv
<1>2. Cardinality(pointers) \in Nat
  BY <1>1, FS_CardinalityType
<1>3. CASE ActionDown(id)
  <2> DEFINE now == pointers \cup {id}
  <2>1. /\ id \notin pointers /\ pointers' = now
        /\ QueueEvent(OnTouchEvent("down", now))
    BY <1>3 DEF ActionDown
  <2>2. now \in SUBSET Positions
    BY <1>1
  <2>3. Cardinality(now) = Cardinality(pointers) + 1
    BY <1>1, <2>1, FS_AddElement
  <2> HIDE DEF now
  <2> DEFINE cs == OnTouchEvent("down", now)
  <2>4. /\ cs \in Seq(TouchCalls) /\ Len(cs) = Cardinality(now)
        /\ \A i \in 1..Cardinality(now) : cs[i].type = "down" /\ cs[i].index = i - 1
    BY <2>2, OnTouchEventTypes DEF TouchTypes
  <2>5. QueueEvent(cs)
    BY <2>1
  <2> HIDE DEF cs
  <2>6. Changes(cs, Cardinality(pointers), Cardinality(now))
    BY <2>3, <2>4 DEF Changes
  <2> QED  BY <2>1, <2>2, <2>4, <2>5, <2>6, QueueEventKeeps
<1>4. CASE ActionUp(id)
  <2> DEFINE cs == OnTouchEvent("up", pointers)
  <2>1. /\ id \in pointers /\ pointers' = pointers \ {id} /\ QueueEvent(cs)
    BY <1>4 DEF ActionUp
  <2>2. pointers' \in SUBSET Positions
    BY <1>1, <2>1
  <2>3. Cardinality(pointers') = Cardinality(pointers) - 1
    BY <1>1, <2>1, FS_RemoveElement
  <2>4. /\ cs \in Seq(TouchCalls) /\ Len(cs) = Cardinality(pointers)
        /\ \A i \in 1..Cardinality(pointers) :
              cs[i].type = "up" /\ cs[i].index = i - 1
    BY <1>1, OnTouchEventTypes DEF TouchTypes
  <2> HIDE DEF cs
  <2>5. Cardinality(pointers) = Cardinality(pointers') + 1
    BY <1>2, <2>3
  <2>6. Changes(cs, Cardinality(pointers), Cardinality(pointers'))
    BY <2>4, <2>5 DEF Changes
  <2> QED  BY <2>1, <2>2, <2>4, <2>6, QueueEventKeeps
<1>5. CASE ActionMove
  <2> DEFINE cs == OnTouchEvent("move", pointers)
  <2>1. pointers' = pointers /\ QueueEvent(cs)
    BY <1>5 DEF ActionMove
  <2>2. /\ cs \in Seq(TouchCalls) /\ Len(cs) = Cardinality(pointers)
        /\ \A i \in 1..Cardinality(pointers) : cs[i].type = "move"
    BY <1>1, OnTouchEventTypes DEF TouchTypes
  <2> HIDE DEF cs
  <2>3. Changes(cs, Cardinality(pointers), Cardinality(pointers'))
    BY <2>1, <2>2 DEF Changes
  <2> QED  BY <1>1, <2>1, <2>2, <2>3, QueueEventKeeps
<1> QED  BY <1>3, <1>4, <1>5

(* The GL thread starts on the first event: the touches are at most the    *)
(* fingers there were then, and its calls leave those there were after it. *)
LEMMA RunRunnableKeeps ==
    ASSUME AndroidInv, RunRunnable
    PROVE  AndroidInv'
<1> DEFINE cs == Head(runnables)
<1>1. /\ runnables # <<>> /\ runnables \in Seq(Seq(TouchCalls))
      /\ Report(cs) /\ runnables' = Tail(runnables)
      /\ UNCHANGED <<cursorVars, pointers, takenOver>>
  BY DEF RunRunnable, AndroidInv
<1>2. /\ Len(runnables) \in Nat /\ Len(runnables) >= 1
      /\ cs = runnables[1] /\ cs \in Seq(TouchCalls)
      /\ runnables' \in Seq(Seq(TouchCalls))
      /\ Len(runnables') = Len(runnables) - 1
      /\ \A i \in 1..Len(runnables') : runnables'[i] = runnables[i + 1]
  BY <1>1
<1>3. \A j \in 1..Len(cs) : cs[j].type # "cancel"
  <2>1. 1 \in 1..Len(runnables)
    BY <1>2
  <2>2. \A j \in 1..Len(runnables[1]) : runnables[1][j].type # "cancel"
    BY <2>1 DEF AndroidInv, NoneCancels
  <2> QED  BY <1>2, <2>2
<1> HIDE DEF cs
<1>4. Input'
  <2>1. CursorOK'
    BY <1>1 DEF AndroidInv, Input, Gesture, TypeOK, CursorOK, cursorVars
  <2> QED
    BY <1>1, <1>2, <1>3, <2>1, ReportGesture, ReportPresses DEF AndroidInv, Input
<1>5. NoneCancels'
  <2> SUFFICES ASSUME NEW i \in 1..Len(runnables')
               PROVE  \A j \in 1..Len(runnables'[i]) : runnables'[i][j].type # "cancel"
    BY DEF NoneCancels
  <2>1. runnables'[i] = runnables[i + 1] /\ i + 1 \in 1..Len(runnables)
    BY <1>2
  <2> QED  BY <2>1 DEF AndroidInv, NoneCancels
<1>6. ASSUME ~takenOver PROVE CountsFingers'
  <2>1. PICK run \in [0..Len(runnables) -> Nat] :
            /\ run[Len(runnables)] = Cardinality(pointers)
            /\ Leaves(calls, run[0])
            /\ \A i \in 1..Len(runnables) : Changes(runnables[i], run[i - 1], run[i])
    BY <1>6 DEF AndroidInv, CountsFingers
  <2> DEFINE n == Len(runnables')
  <2>2. n \in Nat /\ Len(runnables) = n + 1
    BY <1>2
  <2>3. n = Len(runnables')
    OBVIOUS
  <2> HIDE DEF n
  <2>4. PICK rest \in [0..n -> Nat] : \A i \in 0..n : rest[i] = run[i + 1]
    <3>1. [i \in 0..n |-> run[i + 1]] \in [0..n -> Nat]
      BY <2>1, <2>2
    <3>2. \A i \in 0..n : [j \in 0..n |-> run[j + 1]][i] = run[i + 1]
      OBVIOUS
    <3> QED  BY <3>1, <3>2, Zenon
  <2>5. rest[0] = run[1] /\ rest[n] = Cardinality(pointers')
    BY <1>1, <2>1, <2>2, <2>4
  <2>6. \A i \in 1..n : Changes(runnables'[i], rest[i - 1], rest[i])
    <3> TAKE i \in 1..n
    <3>1. /\ rest[i] = run[i + 1] /\ rest[i - 1] = run[i]
          /\ i + 1 \in 1..Len(runnables)
      BY <2>2, <2>4
    <3>2. Changes(runnables[i + 1], run[i], run[i + 1])
      BY <2>1, <2>2, <3>1
    <3>3. runnables'[i] = runnables[i + 1]
      BY <1>2, <2>3
    <3> QED  BY <3>1, <3>2, <3>3
  <2>7. Leaves(calls, rest[0])'
    <3>1. calls = <<>> /\ calls' = cs /\ touches' = touches
      BY <1>1 DEF Report, SystemTurn
    <3>2. Len(touches) <= run[0]
      BY <2>1, <3>1 DEF Leaves
    <3>3. Changes(cs, run[0], run[1])
      BY <1>2, <2>1, <2>2
    <3>4. run[0] \in Nat /\ run[1] \in Nat /\ Len(touches) \in Nat
      BY <2>1, <2>2 DEF AndroidInv, Input, Gesture, TypeOK
    <3>5. CASE /\ Len(cs) = run[1] /\ run[1] = run[0] + 1
               /\ \A i \in 1..Len(cs) : cs[i].type = "down" /\ cs[i].index = i - 1
      <4>1. Len(touches) <= run[1] /\ \A i \in 1..Len(cs) : cs[i].index < run[1]
        BY <3>2, <3>4, <3>5
      <4> QED  BY <2>5, <3>1, <4>1 DEF Leaves
    <3>6. CASE /\ Len(cs) = run[0] /\ run[0] = run[1] + 1
               /\ \A i \in 1..Len(cs) : cs[i].type = "up" /\ cs[i].index = i - 1
      <4>1. Len(touches) <= run[1] + 1 /\ Len(cs) >= 1
        BY <3>2, <3>4, <3>6
      <4>2. cs # <<>> /\ Head(cs) = cs[1] /\ cs[1].index = 0
        BY <1>2, <3>6, <4>1
      <4> QED  BY <2>5, <3>1, <3>6, <4>1, <4>2 DEF Leaves
    <3>7. CASE run[1] = run[0] /\ \A i \in 1..Len(cs) : cs[i].type = "move"
      BY <2>5, <3>1, <3>2, <3>7 DEF Leaves
    <3> QED  BY <3>3, <3>5, <3>6, <3>7 DEF Changes
  <2>8. /\ rest \in [0..Len(runnables') -> Nat]
        /\ rest[Len(runnables')] = Cardinality(pointers')
        /\ \A i \in 1..Len(runnables') : Changes(runnables'[i], rest[i - 1], rest[i])
    BY <2>3, <2>5, <2>6
  <2> QED  BY <2>7, <2>8 DEF CountsFingers, Leaves
<1> QED  BY <1>1, <1>2, <1>4, <1>5, <1>6 DEF AndroidInv

(* What a call does to the number of touches.                              *)
LEMMA CallCounts ==
    ASSUME TypeOK, QueueTouchEvent
    PROVE  /\ calls # <<>> /\ Call \in TouchCalls /\ calls' = Tail(calls)
           /\ Len(touches') \in Nat /\ Len(touches) \in Nat
           /\ \/ Redundant(Call) /\ touches' = touches
              \/ /\ ~Redundant(Call) /\ touches' = Touched(Call)
                 /\ Call.type = "down" => Len(touches') = Len(touches) + 1
                 /\ Call.type = "move" => Len(touches') = Len(touches)
                 /\ Call.type \in {"up", "cancel"} => Len(touches') = Len(touches) - 1
<1>1. calls # <<>> /\ calls' = Tail(calls)
  BY DEF QueueTouchEvent, CallIgnored, CallCancels, CallQueues
<1>2. Call \in TouchCalls
  BY <1>1, FirstCall
<1>3. \/ Redundant(Call) /\ touches' = touches
      \/ ~Redundant(Call) /\ touches' = Touched(Call)
  BY DEF QueueTouchEvent, CallIgnored, CallCancels, CallQueues
<1>4. Len(touches') \in Nat /\ Len(touches) \in Nat
  BY CallTouches DEF TypeOK
<1>5. ~Redundant(Call) =>
        /\ Call.type = "down" => Len(Touched(Call)) = Len(touches) + 1
        /\ Call.type = "move" => Len(Touched(Call)) = Len(touches)
        /\ Call.type \in {"up", "cancel"} => Len(Touched(Call)) = Len(touches) - 1
  BY <1>2, TouchedTypes
<1> QED  BY <1>1, <1>2, <1>3, <1>4, <1>5

(* A call leaves what it and the ones after it were to leave.              *)
LEMMA CallLeaves ==
    ASSUME TypeOK, QueueTouchEvent, NEW n \in Nat, Leaves(calls, n)
    PROVE  Leaves(calls, n)'
<1> DEFINE c == Call
           cs == Tail(calls)
<1>1. /\ c \in TouchCalls /\ calls' = cs
      /\ Len(touches') \in Nat /\ Len(touches) \in Nat
      /\ \/ Redundant(c) /\ touches' = touches
         \/ /\ ~Redundant(c)
            /\ c.type = "down" => Len(touches') = Len(touches) + 1
            /\ c.type = "move" => Len(touches') = Len(touches)
            /\ c.type \in {"up", "cancel"} => Len(touches') = Len(touches) - 1
  BY CallCounts
<1>2. calls # <<>> /\ calls \in Seq(TouchCalls)
  BY CallCounts DEF TypeOK
<1>3. /\ Len(calls) \in Nat /\ Len(calls) >= 1 /\ c = calls[1]
      /\ Len(cs) = Len(calls) - 1
      /\ \A i \in 1..Len(cs) : cs[i] = calls[i + 1]
  BY <1>2 DEF Call
<1>4. c.index \in Nat /\ c.type \in {"down", "up", "move", "cancel"}
  BY <1>1 DEF TouchCalls, TouchTypes
<1> HIDE DEF c, cs
<1>5. CASE /\ Len(touches) <= n
           /\ \A i \in 1..Len(calls) : calls[i].type = "down" => calls[i].index < n
  <2>1. \A i \in 1..Len(cs) : cs[i].type = "down" => cs[i].index < n
    BY <1>3, <1>5
  <2>2. c.type = "down" => c.index < n
    BY <1>3, <1>5
  <2>3. Len(touches') <= n
    BY <1>1, <1>4, <1>5, <2>2 DEF Redundant
  <2> QED  BY <1>1, <2>1, <2>3 DEF Leaves
<1>6. CASE /\ Len(touches) <= n + 1 /\ Head(calls).index = 0
           /\ \A i \in 1..Len(calls) : calls[i].type = "up"
  <2>1. c.type = "up" /\ c.index = 0
    BY <1>2, <1>3, <1>6
  <2>2. Len(touches') <= n
    BY <1>1, <1>6, <2>1 DEF Redundant
  <2>3. \A i \in 1..Len(cs) : cs[i].type = "up"
    BY <1>3, <1>6
  <2> QED  BY <1>1, <2>2, <2>3 DEF Leaves
<1> QED  BY <1>5, <1>6 DEF Leaves

(* A call is made by the GL thread.                                        *)
LEMMA QueueAndroidTouchKeeps ==
    ASSUME AndroidInv, QueueAndroidTouch
    PROVE  AndroidInv'
<1>1. QueueTouchEvent /\ UNCHANGED androidVars
  BY DEF QueueAndroidTouch
<1>2. CursorOK'
  BY DEF QueueAndroidTouch, SetInputMode, InputModes, cursorVars, CursorOK,
         AndroidInv, Input, Gesture, TypeOK
<1>3. Input'
  BY <1>1, <1>2, CallGesture, CallPresses DEF AndroidInv, Input
<1>4. ASSUME ~takenOver PROVE CountsFingers'
  <2>1. PICK run \in [0..Len(runnables) -> Nat] :
            /\ run[Len(runnables)] = Cardinality(pointers)
            /\ Leaves(calls, run[0])
            /\ \A i \in 1..Len(runnables) : Changes(runnables[i], run[i - 1], run[i])
    BY <1>4 DEF AndroidInv, CountsFingers
  <2>2. PICK n \in Nat : n = run[0]
    BY DEF AndroidInv
  <2>3. Leaves(calls, n)'
    BY <1>1, <2>1, <2>2, CallLeaves DEF AndroidInv, Input, Gesture
  <2>4. Leaves(calls, run[0])'
    BY <2>2, <2>3 DEF Leaves
  <2>5. /\ run \in [0..Len(runnables') -> Nat]
        /\ run[Len(runnables')] = Cardinality(pointers')
        /\ \A i \in 1..Len(runnables') : Changes(runnables'[i], run[i - 1], run[i])
    BY <1>1, <2>1 DEF androidVars
  <2> QED  BY <2>4, <2>5 DEF CountsFingers, Leaves
<1> QED  BY <1>1, <1>3, <1>4 DEF AndroidInv, NoneCancels, androidVars

(* A frame makes no calls.                                                 *)
LEMMA FrameCalls == Frame => UNCHANGED <<calls, touches>>
BY DEF Frame, CheckEvents, MergeMouseEvent, DeliverMouseEvent, MouseEventsDone,
       DeliverTouchEvent, FrameEnds, queueVars

(* Every step of Android keeps the invariant.                              *)
LEMMA AndroidKeeps ==
    ASSUME AndroidInv, AndroidNext
    PROVE  AndroidInv'
<1>1. ASSUME ActionCancel PROVE AndroidInv'
  <2>1. Input'
    BY <1>1, GestureStutter, PressingStutter
    DEF ActionCancel, AndroidInv, Input, inputVars
  <2> QED  BY <1>1, <2>1 DEF ActionCancel, AndroidInv, NoneCancels
<1>2. ASSUME Frame, UNCHANGED androidVars PROVE AndroidInv'
  <2>1. Input'
    BY <1>2, FrameGesture, FramePresses DEF AndroidInv, Input
  <2>2. UNCHANGED <<calls, touches, pointers, runnables, takenOver>>
    BY <1>2, FrameCalls DEF androidVars
  <2> QED
    BY <2>1, <2>2 DEF AndroidInv, NoneCancels, CountsFingers, Leaves
<1>3. ASSUME ActionMove PROVE AndroidInv'
  BY <1>3, WinRTAssumption, AndroidEvents
<1> QED
  BY <1>1, <1>2, <1>3, AndroidEvents, RunRunnableKeeps, QueueAndroidTouchKeeps
  DEF AndroidNext

(* When every event is handled, the touches are at most the fingers.       *)
LEMMA AndroidKeepsCount == AndroidInv => NoTouchWithoutFinger
<1> SUFFICES ASSUME AndroidInv, runnables = <<>>, calls = <<>>, ~takenOver
             PROVE  /\ Len(touches) <= Cardinality(pointers)
                    /\ pointers = {} /\ mouseEvents = <<>> => "left" \notin held
  BY DEF NoTouchWithoutFinger, EventsHandled
<1>1. Len(touches) <= Cardinality(pointers)
  <2>1. Len(runnables) = 0
    OBVIOUS
  <2>2. PICK run \in [0..0 -> Nat] : /\ run[0] = Cardinality(pointers)
                                     /\ Leaves(calls, run[0])
    BY <2>1 DEF AndroidInv, CountsFingers
  <2> QED  BY <2>2 DEF Leaves
<1>2. ASSUME pointers = {}, mouseEvents = <<>> PROVE "left" \notin held
  <2>1. Len(touches) = 0
    <3>1. Len(touches) \in Nat
      BY DEF AndroidInv, Input, Gesture, TypeOK
    <3> QED  BY <1>1, <1>2, <3>1, FS_EmptySet
  <2>2. ~SingleTouch
    BY <2>1 DEF SingleTouch
  <2>3. Len(mouseEvents) = 0
    BY <1>2
  <2>4. PICK run \in [0..0 -> BOOLEAN] : /\ run[0] = ("left" \in held)
                                         /\ run[0] = SingleTouch
    BY <2>3 DEF AndroidInv, Input, Pressing, PressesAnswered, Answered
  <2> QED  BY <2>2, <2>4
<1> QED  BY <1>1, <1>2

-----------------------------------------------------------------------------
(* OpenKODE.                                                               *)

(* The touches are at most the slots in use once the call on its way was   *)
(* made; a finger that goes up has an index that is not too large.         *)
CountsSlots ==
    LET used == Cardinality(kdTouches) IN
    \/ calls = <<>> /\ Len(touches) <= used
    \/ /\ Len(calls) = 1
       /\ \/ Call.type = "down" /\ Len(touches) + 1 <= used
          \/ Call.type = "move" /\ Len(touches) <= used
          \/ /\ Call.type = "up" /\ Len(touches) <= used + 1
             /\ Len(touches) > used => Call.index < Len(touches)

KodeInv ==
    /\ Input
    /\ kdTouches \in SUBSET Positions /\ CountsSlots

(* The index of a slot in use is below the number of slots in use.         *)
LEMMA TouchIndexBounds ==
    ASSUME NEW used \in SUBSET Positions, NEW slot \in used
    PROVE  /\ Cardinality(used) \in Nat
           /\ TouchIndex(used, slot) \in Nat
           /\ TouchIndex(used, slot) < Cardinality(used)
<1> DEFINE below == {j \in used : j <= slot}
<1>1. IsFiniteSet(used) /\ Cardinality(used) \in Nat
  BY IOSAssumption, FS_Subset, FS_CardinalityType
<1>2. /\ IsFiniteSet(below) /\ Cardinality(below) \in Nat
      /\ Cardinality(below) <= Cardinality(used)
  BY <1>1, FS_Subset, FS_CardinalityType
<1>3. slot \in below
  BY AndroidAssumption
<1> HIDE DEF below
<1>4. Cardinality(below) # 0
  BY <1>2, <1>3, FS_EmptySet
<1>5. TouchIndex(used, slot) = Cardinality(below) - 1
  BY DEF TouchIndex, below
<1> QED  BY <1>1, <1>2, <1>4, <1>5

(* A finger is reported with the index of its slot.                        *)
LEMMA PointerKeeps ==
    ASSUME KodeInv, NEW type \in {"down", "up", "move"},
           NEW used \in SUBSET Positions, NEW slot \in used,
           Pointer(type, used, slot)
    PROVE  /\ Input' /\ calls = <<>> /\ touches' = touches
           /\ Len(calls') = 1 /\ Call'.type = type
           /\ Call'.index = TouchIndex(used, slot)
<1> DEFINE index == TouchIndex(used, slot)
           c == TouchCall(type, slot, index)
<1>1. index \in Nat /\ slot \in Positions
  BY TouchIndexBounds
<1>2. index >= 0
  BY <1>1
<1>3. Report(<<c>>)
  BY <1>2 DEF Pointer
<1> HIDE DEF index
<1>4. /\ c \in TouchCalls /\ c.type = type /\ c.index = index
  BY <1>1 DEF TouchCall, TouchCalls, TouchTypes
<1> HIDE DEF c
<1>5. <<c>> \in Seq(TouchCalls) /\ \A i \in 1..Len(<<c>>) : <<c>>[i].type # "cancel"
  BY <1>4
<1>6. CursorOK'
  BY <1>1 DEF Pointer, CursorOK, InputModes, KodeInv, Input, Gesture, TypeOK
<1>7. Input'
  BY <1>3, <1>5, <1>6, ReportGesture, ReportPresses DEF KodeInv, Input
<1>8. calls = <<>> /\ touches' = touches /\ calls' = <<c>>
  BY <1>3 DEF Report, SystemTurn
<1>9. Len(calls') = 1 /\ Call' = c
  BY <1>8 DEF Call
<1> QED  BY <1>4, <1>7, <1>8, <1>9 DEF index

(* Every step of OpenKODE keeps the invariant.                             *)
LEMMA KodeKeeps ==
    ASSUME KodeInv, KodeNext
    PROVE  KodeInv'
<1>1. /\ kdTouches \in SUBSET Positions /\ Cardinality(kdTouches) \in Nat
      /\ IsFiniteSet(kdTouches) /\ Len(touches) \in Nat
  BY IOSAssumption, FS_Subset, FS_CardinalityType
  DEF KodeInv, Input, Gesture, TypeOK
<1>2. calls = <<>> => Len(touches) <= Cardinality(kdTouches)
  <2>1. Len(<<>>) = 0
    OBVIOUS
  <2> QED  BY <2>1 DEF KodeInv, CountsSlots
<1>3. ASSUME NEW slot \in Positions, SelectDown(slot) PROVE KodeInv'
  <2>1. /\ slot \notin kdTouches /\ kdTouches' = kdTouches \cup {slot}
        /\ Pointer("down", kdTouches', slot)
    BY <1>3 DEF SelectDown
  <2>2. kdTouches' \in SUBSET Positions /\ slot \in kdTouches'
    BY <1>1, <2>1
  <2>3. Cardinality(kdTouches') = Cardinality(kdTouches) + 1
    BY <1>1, <2>1, FS_AddElement
  <2>4. /\ Input' /\ calls = <<>> /\ touches' = touches
        /\ Len(calls') = 1 /\ Call'.type = "down"
    BY <2>1, <2>2, PointerKeeps
  <2>5. Len(touches') + 1 <= Cardinality(kdTouches')
    BY <1>1, <1>2, <2>3, <2>4
  <2> QED  BY <2>2, <2>4, <2>5 DEF KodeInv, CountsSlots
<1>4. ASSUME NEW slot \in Positions, SelectUp(slot) PROVE KodeInv'
  <2>1. /\ slot \in kdTouches /\ kdTouches' = kdTouches \ {slot}
        /\ Pointer("up", kdTouches, slot)
    BY <1>4 DEF SelectUp
  <2>2. Cardinality(kdTouches') = Cardinality(kdTouches) - 1
    BY <1>1, <2>1, FS_RemoveElement
  <2>3. /\ Input' /\ calls = <<>> /\ touches' = touches
        /\ Len(calls') = 1 /\ Call'.type = "up"
        /\ Call'.index = TouchIndex(kdTouches, slot)
    BY <1>1, <2>1, PointerKeeps
  <2>4. /\ TouchIndex(kdTouches, slot) \in Nat
        /\ TouchIndex(kdTouches, slot) < Cardinality(kdTouches)
    BY <1>1, <2>1, TouchIndexBounds
  <2>5. /\ Len(touches') <= Cardinality(kdTouches') + 1
        /\ Len(touches') > Cardinality(kdTouches') => Call'.index < Len(touches')
    BY <1>1, <1>2, <2>2, <2>3, <2>4
  <2>6. kdTouches' \in SUBSET Positions
    BY <1>1, <2>1
  <2> QED  BY <2>3, <2>5, <2>6 DEF KodeInv, CountsSlots
<1>5. ASSUME NEW slot \in Positions, PointerMoves(slot) PROVE KodeInv'
  <2>1. /\ slot \in kdTouches /\ kdTouches' = kdTouches
        /\ Pointer("move", kdTouches, slot)
    BY <1>5 DEF PointerMoves
  <2>2. /\ Input' /\ calls = <<>> /\ touches' = touches
        /\ Len(calls') = 1 /\ Call'.type = "move"
    BY <1>1, <2>1, PointerKeeps
  <2> QED  BY <1>1, <1>2, <2>1, <2>2 DEF KodeInv, CountsSlots
<1>6. ASSUME QueueTouchEvent, UNCHANGED <<cursorVars, kdTouches>> PROVE KodeInv'
  <2>1. Input'
    <3>1. CursorOK'
      BY <1>6 DEF CursorOK, cursorVars, KodeInv, Input, Gesture, TypeOK
    <3> QED  BY <1>6, <3>1, CallGesture, CallPresses DEF KodeInv, Input
  <2>2. /\ calls # <<>> /\ Call \in TouchCalls /\ calls' = Tail(calls)
        /\ Len(touches') \in Nat
        /\ \/ Redundant(Call) /\ touches' = touches
           \/ /\ ~Redundant(Call)
              /\ Call.type = "down" => Len(touches') = Len(touches) + 1
              /\ Call.type = "move" => Len(touches') = Len(touches)
              /\ Call.type \in {"up", "cancel"} => Len(touches') = Len(touches) - 1
    BY <1>6, CallCounts DEF KodeInv, Input, Gesture
  <2>3. calls' = <<>>
    <3>1. Len(calls) = 1 /\ calls \in Seq(TouchCalls)
      BY <2>2 DEF KodeInv, CountsSlots, Input, Gesture, TypeOK
    <3> QED  BY <2>2, <3>1
  <2>4. Call.index \in Nat
    BY <2>2 DEF TouchCalls
  <2>5. Len(touches') <= Cardinality(kdTouches)
    <3>1. CASE Call.type = "down" /\ Len(touches) + 1 <= Cardinality(kdTouches)
      BY <1>1, <2>2, <3>1
    <3>2. CASE Call.type = "move" /\ Len(touches) <= Cardinality(kdTouches)
      BY <1>1, <2>2, <3>2
    <3>3. CASE /\ Call.type = "up" /\ Len(touches) <= Cardinality(kdTouches) + 1
               /\ Len(touches) > Cardinality(kdTouches) => Call.index < Len(touches)
      BY <1>1, <2>2, <2>4, <3>3 DEF Redundant
    <3> QED  BY <2>2, <3>1, <3>2, <3>3 DEF KodeInv, CountsSlots
  <2> QED  BY <1>1, <1>6, <2>1, <2>3, <2>5 DEF KodeInv, CountsSlots
<1>7. ASSUME Frame, UNCHANGED kdTouches PROVE KodeInv'
  <2>1. Input' /\ UNCHANGED <<calls, touches>>
    BY <1>7, FrameGesture, FramePresses, FrameCalls DEF KodeInv, Input
  <2> QED  BY <1>7, <2>1 DEF KodeInv, CountsSlots, Call
<1> QED  BY <1>3, <1>4, <1>5, <1>6, <1>7 DEF KodeNext

(* Without a call on its way, no touch is without a slot.                  *)
LEMMA KodeKeepsCount == KodeInv => NoTouchWithoutSlot
<1>1. Len(<<>>) = 0
  OBVIOUS
<1> QED  BY <1>1 DEF KodeInv, CountsSlots, NoTouchWithoutSlot

-----------------------------------------------------------------------------
(* WinRT.                                                                  *)

(* The calls on their way make the touches the pointers that have ids: one *)
(* call for a finger, or the cancellations of all of them.                 *)
Converges ==
    \/ calls = <<>> /\ touches = pointerIds
    \/ /\ Len(calls) = 1 /\ Call.type # "cancel"
       /\ Redundant(Call) => pointerIds = touches
       /\ ~Redundant(Call) => pointerIds = Touched(Call)
    \/ /\ pointerIds = <<>> /\ Len(calls) = Len(touches)
       /\ \A i \in 1..Len(calls) :
             calls[i].type = "cancel" /\ calls[i].index = Len(touches) - i

WinRTInv ==
    /\ Gesture /\ Converges
    /\ pointerIds \in Seq(Positions) /\ currentButton \in Buttons
    /\ focused \in BOOLEAN /\ (~focused => pointerIds = <<>>)

(* Where a finger is in the list of ids.                                   *)
LEMMA IndexOfPointer ==
    ASSUME pointerIds \in Seq(Positions), NEW f
    PROVE  /\ IndexOrSize(f) \in Nat
           /\ Contains(pointerIds, f) =>
                 /\ IndexOrSize(f) + 1 \in 1..Len(pointerIds)
                 /\ pointerIds[IndexOrSize(f) + 1] = f
           /\ ~Contains(pointerIds, f) => IndexOrSize(f) = Len(pointerIds)
<1> DEFINE I == {i \in 1..Len(pointerIds) : pointerIds[i] = f}
<1>1. Len(pointerIds) \in Nat
  OBVIOUS
<1>2. CASE ~Contains(pointerIds, f)
  BY <1>1, <1>2 DEF IndexOrSize
<1>3. CASE Contains(pointerIds, f)
  <2>1. I # {} /\ I \in SUBSET Nat
    BY <1>1, <1>3 DEF Contains
  <2>2. IndexOrSize(f) = Min(I) - 1
    BY <1>3, <2>1 DEF IndexOrSize, SelectInSeq
  <2>3. \A i \in I : i \in 1..Len(pointerIds) /\ pointerIds[i] = f
    OBVIOUS
  <2> HIDE DEF I
  <2>4. Min(I) \in I
    <3>1. \E x \in I : \A y \in I : x <= y
      BY <2>1, Smallest
    <3> QED  BY <3>1, Zenon DEF Min
  <2>5. Min(I) \in 1..Len(pointerIds) /\ pointerIds[Min(I)] = f
    BY <2>3, <2>4
  <2>6. IndexOrSize(f) + 1 = Min(I) /\ IndexOrSize(f) \in Nat
    BY <1>1, <2>2, <2>5
  <2> QED  BY <1>3, <2>5, <2>6
<1> QED  BY <1>2, <1>3

(* Nothing happens to the list of ids while the calls stay as they are.    *)
LEMMA ConvergesStays == Converges /\ UNCHANGED <<calls, touches, pointerIds>> => Converges'
BY DEF Converges, Call, Redundant, Touched

(* Without a call on its way, the touches are the pointers.                *)
LEMMA Converged ==
    ASSUME WinRTInv, calls = <<>>
    PROVE  touches = pointerIds
<1>1. Len(calls) = 0 /\ touches \in Seq(Positions)
  BY DEF WinRTInv, Gesture, TypeOK
<1>2. Len(touches) = 0 => touches = <<>>
  BY <1>1
<1> QED  BY <1>1, <1>2 DEF WinRTInv, Converges

(* A finger is reported with its place in the list of ids.                 *)
LEMMA ReportFinger ==
    ASSUME WinRTInv, NEW type \in {"down", "up", "move"}, NEW f \in Positions,
           Report(<<TouchCall(type, f, IndexOrSize(f))>>), CursorOK'
    PROVE  /\ Gesture' /\ touches = pointerIds /\ touches' = pointerIds
           /\ Len(calls') = 1 /\ Call'.type = type /\ Call'.position = f
           /\ Call'.index = IndexOrSize(f)
<1> DEFINE c == TouchCall(type, f, IndexOrSize(f))
<1>1. IndexOrSize(f) \in Nat
  BY IndexOfPointer DEF WinRTInv
<1>2. /\ c \in TouchCalls /\ c.type = type /\ c.position = f
      /\ c.index = IndexOrSize(f)
  BY <1>1 DEF TouchCall, TouchCalls, TouchTypes
<1>3. Report(<<c>>)
  OBVIOUS
<1> HIDE DEF c
<1>4. <<c>> \in Seq(TouchCalls)
  BY <1>2
<1>5. Gesture'
  BY <1>3, <1>4, ReportGesture DEF WinRTInv
<1>6. calls = <<>> /\ calls' = <<c>> /\ touches' = touches
  BY <1>3 DEF Report, SystemTurn
<1>7. Len(calls') = 1 /\ Call' = c
  BY <1>6 DEF Call
<1>8. touches = pointerIds
  BY <1>6, Converged
<1> QED  BY <1>2, <1>5, <1>6, <1>7, <1>8

(* An event that nobody listens to changes no call, touch or id.           *)
LEMMA DroppedKeeps ==
    ASSUME WinRTInv, Dropped
    PROVE  WinRTInv'
<1>1. UNCHANGED <<inputVars, xamlVars>>
  BY DEF Dropped
<1>2. Gesture'
  BY <1>1, GestureStutter DEF WinRTInv
<1>3. Converges'
  BY <1>1, ConvergesStays DEF WinRTInv, inputVars, queueVars, xamlVars
<1> QED  BY <1>1, <1>2, <1>3 DEF WinRTInv, xamlVars

(* The modes that a window system sets leave a cursor and a mode.          *)
LEMMA ModeTypes ==
    ASSUME Gesture, NEW value \in {"touch", "mouse"}, SetInputMode(value)
    PROVE  CursorOK'
BY DEF SetInputMode, CursorOK, InputModes, Gesture, TypeOK

(* A finger goes down: it gets an id unless it still has one.              *)
LEMMA TouchDownKeeps ==
    ASSUME WinRTInv, NEW f \in Fingers, OnTouchDown(f)
    PROVE  WinRTInv'
<1>1. CASE Listens /\ Report(<<TouchCall("down", f, IndexOrSize(f))>>)
  <2>1. /\ currentButton' = "left" /\ SetInputMode("touch")
        /\ pointerIds' = IF Contains(pointerIds, f) THEN pointerIds
                         ELSE Append(pointerIds, f)
        /\ UNCHANGED <<focused, firstFrame>>
    BY <1>1 DEF OnTouchDown, Dropped
  <2>2. CursorOK' /\ f \in Positions
    BY <2>1, ModeTypes DEF WinRTInv, Fingers
  <2>3. /\ Gesture' /\ touches = pointerIds /\ touches' = pointerIds
        /\ Len(calls') = 1 /\ Call'.type = "down" /\ Call'.position = f
        /\ Call'.index = IndexOrSize(f)
    BY <1>1, <2>2, ReportFinger
  <2>4. /\ IndexOrSize(f) \in Nat
        /\ Contains(pointerIds, f) => IndexOrSize(f) + 1 \in 1..Len(pointerIds)
        /\ ~Contains(pointerIds, f) => IndexOrSize(f) = Len(pointerIds)
    BY IndexOfPointer DEF WinRTInv
  <2>5. pointerIds \in Seq(Positions) /\ Len(pointerIds) \in Nat
    BY DEF WinRTInv
  <2>6. Converges'
    <3>1. CASE Contains(pointerIds, f)
      <4>1. Redundant(Call)'
        BY <2>3, <2>4, <2>5, <3>1 DEF Redundant
      <4> QED  BY <2>1, <2>3, <3>1, <4>1 DEF Converges
    <3>2. CASE ~Contains(pointerIds, f)
      <4>1. ~Redundant(Call)'
        BY <2>3, <2>4, <2>5, <3>2 DEF Redundant
      <4>2. Touched(Call)' = Append(pointerIds, f)
        BY <2>3 DEF Touched
      <4> QED  BY <2>1, <2>3, <3>2, <4>1, <4>2 DEF Converges
    <3> QED  BY <3>1, <3>2
  <2>7. pointerIds' \in Seq(Positions)
    BY <2>1, <2>2, <2>5
  <2> QED
    BY <1>1, <2>1, <2>3, <2>6, <2>7 DEF WinRTInv, Buttons, Listens
<1> QED  BY <1>1, DroppedKeeps DEF OnTouchDown

(* A finger goes up: its id goes with its touch.                           *)
LEMMA TouchUpKeeps ==
    ASSUME WinRTInv, NEW f \in Fingers, OnTouchUp(f)
    PROVE  WinRTInv'
<1>1. CASE Listens /\ Report(<<TouchCall("up", f, IndexOrSize(f))>>)
  <2>1. /\ currentButton' = "none" /\ SetInputMode("touch")
        /\ pointerIds' = IF Contains(pointerIds, f)
                         THEN RemoveAt(pointerIds, IndexOrSize(f) + 1)
                         ELSE pointerIds
        /\ UNCHANGED <<focused, firstFrame>>
    BY <1>1 DEF OnTouchUp, Dropped
  <2>2. CursorOK' /\ f \in Positions
    BY <2>1, ModeTypes DEF WinRTInv, Fingers
  <2>3. /\ Gesture' /\ touches = pointerIds /\ touches' = pointerIds
        /\ Len(calls') = 1 /\ Call'.type = "up"
        /\ Call'.index = IndexOrSize(f)
    BY <1>1, <2>2, ReportFinger
  <2>4. /\ IndexOrSize(f) \in Nat
        /\ Contains(pointerIds, f) => IndexOrSize(f) + 1 \in 1..Len(pointerIds)
        /\ ~Contains(pointerIds, f) => IndexOrSize(f) = Len(pointerIds)
    BY IndexOfPointer DEF WinRTInv
  <2>5. pointerIds \in Seq(Positions) /\ Len(pointerIds) \in Nat
    BY DEF WinRTInv
  <2>6. Converges'
    <3>1. CASE ~Contains(pointerIds, f)
      <4>1. Redundant(Call)'
        BY <2>3, <2>4, <2>5, <3>1 DEF Redundant
      <4> QED  BY <2>1, <2>3, <3>1, <4>1 DEF Converges
    <3>2. CASE Contains(pointerIds, f)
      <4>1. ~Redundant(Call)'
        BY <2>3, <2>4, <2>5, <3>2 DEF Redundant
      <4>2. Touched(Call)' = RemoveAt(pointerIds, IndexOrSize(f) + 1)
        BY <2>3 DEF Touched
      <4> QED  BY <2>1, <2>3, <3>2, <4>1, <4>2 DEF Converges
    <3> QED  BY <3>1, <3>2
  <2>7. pointerIds' \in Seq(Positions)
    BY <2>1, <2>4, <2>5, RemoveAtTypes
  <2> QED
    BY <1>1, <2>1, <2>3, <2>6, <2>7 DEF WinRTInv, Buttons, Listens
<1> QED  BY <1>1, DroppedKeeps DEF OnTouchUp

(* A finger moves: its touch is where it was.                              *)
LEMMA TouchMoveKeeps ==
    ASSUME WinRTInv, NEW f \in Fingers, OnTouchMove(f)
    PROVE  WinRTInv'
<1>1. /\ SetInputMode("touch") /\ UNCHANGED <<xamlVars, deviceVars>>
      /\ Report(<<TouchCall("move", f, IndexOrSize(f))>>)
  BY DEF OnTouchMove
<1>2. CursorOK' /\ f \in Positions
  BY <1>1, ModeTypes DEF WinRTInv, Fingers
<1>3. /\ Gesture' /\ touches = pointerIds /\ touches' = pointerIds
      /\ Len(calls') = 1 /\ Call'.type = "move" /\ Call'.position = f
      /\ Call'.index = IndexOrSize(f)
  BY <1>1, <1>2, ReportFinger
<1>4. /\ IndexOrSize(f) \in Nat
      /\ Contains(pointerIds, f) =>
            /\ IndexOrSize(f) + 1 \in 1..Len(pointerIds)
            /\ pointerIds[IndexOrSize(f) + 1] = f
      /\ ~Contains(pointerIds, f) => IndexOrSize(f) = Len(pointerIds)
  BY IndexOfPointer DEF WinRTInv
<1>5. pointerIds \in Seq(Positions) /\ Len(pointerIds) \in Nat
  BY DEF WinRTInv
<1>6. pointerIds' = pointerIds
  BY <1>1 DEF xamlVars
<1>7. Converges'
  <2>1. CASE ~Contains(pointerIds, f)
    <3>1. Redundant(Call)'
      BY <1>3, <1>4, <1>5, <2>1 DEF Redundant
    <3> QED  BY <1>3, <1>6, <3>1 DEF Converges
  <2>2. CASE Contains(pointerIds, f)
    <3>1. ~Redundant(Call)'
      BY <1>3, <1>4, <1>5, <2>2 DEF Redundant
    <3>2. Touched(Call)' = [pointerIds EXCEPT ![IndexOrSize(f) + 1] = f]
      BY <1>3 DEF Touched
    <3>3. [pointerIds EXCEPT ![IndexOrSize(f) + 1] = f] = pointerIds
      BY <1>4, <1>5, <2>2
    <3> QED  BY <1>3, <1>6, <3>1, <3>2, <3>3 DEF Converges
  <2> QED  BY <2>1, <2>2
<1> QED  BY <1>1, <1>3, <1>7 DEF WinRTInv, xamlVars

(* The mouse touches nothing.                                              *)
LEMMA MouseKeeps ==
    ASSUME WinRTInv, NEW e \in MouseEvents, QueueMouseEvent(e), UNCHANGED wheel,
           CursorOK', UNCHANGED <<pointerIds, focused>>, currentButton' \in Buttons
    PROVE  WinRTInv'
<1>1. wheel' \in Int
  BY DEF WinRTInv, Gesture, TypeOK
<1>2. Gesture'
  BY <1>1, MouseGesture DEF WinRTInv
<1>3. Converges'
  BY ConvergesStays DEF WinRTInv, QueueMouseEvent
<1> QED  BY <1>2, <1>3 DEF WinRTInv

(* All touches are given up, and all ids with them.                        *)
LEMMA ResetTouchesKeeps ==
    ASSUME WinRTInv, ResetTouches, focused' \in BOOLEAN
    PROVE  WinRTInv'
<1> DEFINE n == Len(pointerIds)
<1>1. n \in Nat
  BY DEF WinRTInv
<1>2. /\ Report(CancelAll) /\ pointerIds' = <<>>
      /\ UNCHANGED <<cursorVars, currentButton, deviceVars>>
  BY DEF ResetTouches
<1>3. CancelAll = [i \in 1..n |-> TouchCall("cancel", Mouse, n - i)]
  BY DEF CancelAll
<1> HIDE DEF n
<1>4. \A i \in 1..n : /\ TouchCall("cancel", Mouse, n - i) \in TouchCalls
                      /\ TouchCall("cancel", Mouse, n - i).type = "cancel"
                      /\ TouchCall("cancel", Mouse, n - i).index = n - i
  BY <1>1, WinRTAssumption DEF TouchCall, TouchCalls, TouchTypes
<1>5. CancelAll \in Seq(TouchCalls) /\ Len(CancelAll) = n
  BY <1>1, <1>3, <1>4
<1>6. \A i \in 1..n : CancelAll[i].type = "cancel" /\ CancelAll[i].index = n - i
  BY <1>3, <1>4
<1>7. CursorOK'
  BY <1>2 DEF CursorOK, cursorVars, WinRTInv, Gesture, TypeOK
<1>8. Gesture'
  BY <1>2, <1>5, <1>7, ReportGesture DEF WinRTInv
<1>9. calls = <<>> /\ calls' = CancelAll /\ touches' = touches
  BY <1>2 DEF Report, SystemTurn
<1>10. Len(touches') = n
  BY <1>9, Converged DEF n
<1>11. Converges'
  BY <1>2, <1>5, <1>6, <1>9, <1>10 DEF Converges
<1>12. pointerIds' \in Seq(Positions)
  BY <1>2
<1> QED  BY <1>2, <1>8, <1>11, <1>12 DEF WinRTInv

(* A call brings the touches nearer to the pointers.                       *)
LEMMA CallConverges ==
    ASSUME WinRTInv, QueueTouchEvent, UNCHANGED <<cursorVars, xamlVars>>
    PROVE  WinRTInv'
<1>1. Gesture'
  <2>1. CursorOK'
    BY DEF CursorOK, cursorVars, WinRTInv, Gesture, TypeOK
  <2> QED  BY <2>1, CallGesture DEF WinRTInv
<1>2. /\ calls # <<>> /\ Call \in TouchCalls /\ calls' = Tail(calls)
      /\ Len(touches') \in Nat /\ Len(touches) \in Nat
      /\ \/ Redundant(Call) /\ touches' = touches
         \/ /\ ~Redundant(Call) /\ touches' = Touched(Call)
            /\ Call.type \in {"up", "cancel"} => Len(touches') = Len(touches) - 1
  BY CallCounts DEF WinRTInv, Gesture
<1>3. calls \in Seq(TouchCalls) /\ Len(calls) \in Nat /\ Len(calls) >= 1
  BY <1>2 DEF WinRTInv, Gesture, TypeOK
<1>4. pointerIds' = pointerIds
  BY DEF xamlVars
<1>5. CASE /\ Len(calls) = 1
           /\ Redundant(Call) => pointerIds = touches
           /\ ~Redundant(Call) => pointerIds = Touched(Call)
  <2>1. calls' = <<>>
    BY <1>2, <1>3, <1>5
  <2>2. touches' = pointerIds'
    BY <1>2, <1>4, <1>5, Zenon
  <2> QED  BY <1>1, <2>1, <2>2 DEF Converges, WinRTInv, xamlVars
<1>6. CASE /\ pointerIds = <<>> /\ Len(calls) = Len(touches)
           /\ \A i \in 1..Len(calls) :
                 calls[i].type = "cancel" /\ calls[i].index = Len(touches) - i
  <2>1. /\ Len(calls') = Len(calls) - 1 /\ Call = calls[1]
        /\ \A i \in 1..Len(calls') : calls'[i] = calls[i + 1]
    BY <1>2, <1>3 DEF Call
  <2>2. Call.type = "cancel" /\ Call.index = Len(touches) - 1
    BY <1>3, <1>6, <2>1
  <2>3. Len(touches') = Len(touches) - 1
    BY <1>2, <2>2 DEF Redundant
  <2>4. \A i \in 1..Len(calls') :
            calls'[i].type = "cancel" /\ calls'[i].index = Len(touches') - i
    <3> TAKE i \in 1..Len(calls')
    <3>1. calls'[i] = calls[i + 1] /\ i + 1 \in 1..Len(calls)
      BY <1>3, <2>1
    <3>2. calls[i + 1].type = "cancel" /\ calls[i + 1].index = Len(touches) - (i + 1)
      BY <1>6, <3>1
    <3>3. Len(touches) - (i + 1) = Len(touches') - i
      BY <1>2, <1>3, <2>1, <2>3
    <3> QED  BY <3>1, <3>2, <3>3
  <2>5. Len(calls') = Len(touches')
    BY <1>6, <2>1, <2>3
  <2> QED  BY <1>1, <1>4, <1>6, <2>4, <2>5 DEF Converges, WinRTInv, xamlVars
<1> QED  BY <1>2, <1>5, <1>6 DEF WinRTInv, Converges

(* Every step of WinRT keeps the invariant.                                *)
LEMMA WinRTKeeps ==
    ASSUME WinRTInv, WinRTNext
    PROVE  WinRTInv'
<1>1. ASSUME NEW button \in MouseButtons, MousePressed(button) PROVE WinRTInv'
  <2> DEFINE e == MouseEvent("down", Mouse, button)
  <2>1. button \in Buttons /\ e \in MouseEvents
    BY WinRTAssumption DEF Buttons, MouseEvent, MouseEvents, TouchTypes
  <2> HIDE DEF e
  <2>2. CASE Dropped
    BY <2>2, DroppedKeeps
  <2>3. CASE ~Dropped
    <3>1. /\ currentButton' = button /\ SetInputMode("mouse")
          /\ QueueMouseEvent(e) /\ UNCHANGED <<wheel, pointerIds, focused>>
      BY <1>1, <2>3 DEF MousePressed, e
    <3>2. CursorOK'
      BY <3>1, ModeTypes DEF WinRTInv
    <3> QED  BY <2>1, <3>1, <3>2, MouseKeeps
  <2> QED  BY <2>2, <2>3
<1>2. ASSUME MouseReleased PROVE WinRTInv'
  <2> DEFINE e == MouseEvent("up", Mouse, currentButton)
  <2>1. e \in MouseEvents
    BY WinRTAssumption DEF WinRTInv, Buttons, MouseEvent, MouseEvents, TouchTypes
  <2> HIDE DEF e
  <2>2. CASE Dropped
    BY <2>2, DroppedKeeps
  <2>3. CASE ~Dropped
    <3>1. /\ currentButton' = "none" /\ SetInputMode("mouse")
          /\ QueueMouseEvent(e) /\ UNCHANGED <<wheel, pointerIds, focused>>
      BY <1>2, <2>3 DEF MouseReleased, e
    <3>2. CursorOK' /\ currentButton' \in Buttons
      BY <3>1, ModeTypes DEF WinRTInv, Buttons
    <3> QED  BY <2>1, <3>1, <3>2, MouseKeeps
  <2> QED  BY <2>2, <2>3
<1>3. ASSUME NEW value \in BOOLEAN, FocusChanges(value) PROVE WinRTInv'
  BY <1>3, ResetTouchesKeeps DEF FocusChanges
<1>4. ASSUME WindowChanged PROVE WinRTInv'
  BY <1>4, ResetTouchesKeeps DEF WindowChanged, WinRTInv
<1>5. ASSUME Frame, UNCHANGED <<pointerIds, currentButton, focused>> PROVE WinRTInv'
  <2>1. Gesture' /\ UNCHANGED <<calls, touches>>
    BY <1>5, FrameGesture, FrameCalls DEF WinRTInv
  <2>2. Converges'
    BY <1>5, <2>1, ConvergesStays DEF WinRTInv
  <2> QED  BY <1>5, <2>1, <2>2 DEF WinRTInv
<1>6. ASSUME Rendered PROVE WinRTInv'
  BY <1>5, <1>6 DEF Rendered, Frame
<1>7. ASSUME Frame, UNCHANGED <<xamlVars, deviceVars>> PROVE WinRTInv'
  BY <1>5, <1>7 DEF xamlVars
<1> QED
  BY <1>1, <1>2, <1>3, <1>4, <1>6, <1>7, TouchDownKeeps, TouchUpKeeps,
     TouchMoveKeeps, CallConverges DEF WinRTNext

-----------------------------------------------------------------------------
(* iOS.                                                                    *)

(* A finger is in the list of touches once, and the list has the fingers  *)
(* on the screen.                                                          *)
Once(list, known) ==
    /\ ToSet(list) = known
    /\ \A i, j \in 1..Len(list) : list[i] = list[j] => i = j

(* The last thing queued is the list of touches as it is.                  *)
ListQueued ==
    ~forgotten =>
        IF inputEvents = <<>> THEN touchView = touches
        ELSE inputEvents[Len(inputEvents)] = TouchList(touches)

(* While the application is active the list has the fingers on the screen. *)
(* The touches of one that has resigned were ended, or iOS forgot them.    *)
IOSInv ==
    /\ Gesture
    /\ inputEvents \in Seq(InputEvents) /\ uiTouches \in SUBSET Positions
    /\ active \in BOOLEAN /\ forgotten \in BOOLEAN
    /\ active => Once(touches, uiTouches)
    /\ ~active => uiTouches = {} /\ (~forgotten => touches = <<>>)
    /\ ListQueued /\ GroupsAnswered

(* As many places as fingers, each of another one, have all of them.       *)
LEMMA PlacesCover ==
    ASSUME NEW S, IsFiniteSet(S), NEW order \in SetToSeqs(S)
    PROVE  /\ order \in Seq(S) /\ Len(order) = Cardinality(S) /\ Once(order, S)
           /\ Cardinality(S) \in Nat
<1> DEFINE n == Cardinality(S)
<1>1. n \in Nat
  BY FS_CardinalityType
<1>2. order \in [1..n -> S] /\ \A i, j \in 1..n : i # j => order[i] # order[j]
  BY DEF SetToSeqs
<1> HIDE DEF n
<1>3. order \in Seq(S) /\ Len(order) = n /\ DOMAIN order = 1..n
  BY <1>1, <1>2
<1>4. order \in Injection(1..n, S)
  BY <1>2 DEF Injection, IsInjective
<1>5. Cardinality(1..n) = n
  <2>1. Cardinality(1..n) = IF 1 > n THEN 0 ELSE n - 1 + 1
    BY <1>1, FS_Interval
  <2> QED  BY <1>1, <2>1
<1>6. order \in Surjection(1..n, S)
  BY <1>4, <1>5, FS_Injection DEF n
<1>7. \A x \in S : \E i \in 1..n : order[i] = x
  BY <1>6 DEF Surjection
<1>8. ToSet(order) = S
  BY <1>2, <1>3, <1>7 DEF ToSet
<1>9. \A i, j \in 1..n : order[i] = order[j] => i = j
  BY <1>2
<1> QED  BY <1>1, <1>3, <1>8, <1>9 DEF Once, n

(* A list that has each finger once is as long as there are fingers.       *)
LEMMA OnceCounts ==
    ASSUME NEW S, NEW list \in Seq(S), NEW known \in SUBSET S, Once(list, known),
           IsFiniteSet(known)
    PROVE  Len(list) = Cardinality(known)
<1> DEFINE n == Len(list)
<1>1. n \in Nat /\ list \in [1..n -> known] /\ \A x \in known : \E i \in 1..n : list[i] = x
  <2>1. n \in Nat /\ DOMAIN list = 1..n /\ \A i \in 1..n : list[i] \in ToSet(list)
    BY DEF ToSet
  <2>2. \A x \in known : \E i \in 1..n : list[i] = x
    BY <2>1 DEF Once, ToSet
  <2>3. list = [i \in 1..n |-> list[i]]
    OBVIOUS
  <2> HIDE DEF n
  <2>4. ToSet(list) = known
    BY DEF Once
  <2>5. list \in [1..n -> known]
    BY <2>1, <2>3, <2>4
  <2> QED  BY <2>1, <2>2, <2>5
<1>2. \A i, j \in 1..n : list[i] = list[j] => i = j
  BY DEF Once
<1> HIDE DEF n
<1>3. list \in Injection(1..n, known) /\ list \in Surjection(1..n, known)
  BY <1>1, <1>2 DEF Injection, IsInjective, Surjection
<1>4. Cardinality(1..n) = Cardinality(known)
  BY <1>3, FS_Injection
<1>5. Cardinality(1..n) = IF 1 > n THEN 0 ELSE n - 1 + 1
  BY <1>1, FS_Interval
<1> QED  BY <1>1, <1>4, <1>5 DEF n

(* New fingers are added to the end of the list.                           *)
LEMMA OnceAdded ==
    ASSUME NEW S, NEW list \in Seq(S), NEW known \in SUBSET S, Once(list, known),
           NEW new \in SUBSET S, new \cap known = {}, NEW order \in Seq(new), Once(order, new)
    PROVE  /\ list \o order \in Seq(S) /\ Once(list \o order, known \cup new)
           /\ Len(list \o order) = Len(list) + Len(order)
<1> DEFINE n == Len(list)
           m == Len(order)
           both == list \o order
<1>1. n \in Nat /\ m \in Nat /\ order \in Seq(S)
  BY SeqMonotonic
<1>2. /\ both \in Seq(S) /\ Len(both) = n + m
      /\ \A i \in 1..(n + m) : both[i] = IF i <= n THEN list[i] ELSE order[i - n]
  BY <1>1
<1>3. \A i \in 1..n : list[i] \in known
  BY DEF Once, ToSet
<1>4. \A i \in 1..m : order[i] \in new
  OBVIOUS
<1>5. \A i \in 1..n, j \in 1..m : list[i] # order[j]
  BY <1>3, <1>4
<1>6. /\ \A i, j \in 1..n : list[i] = list[j] => i = j
      /\ \A i, j \in 1..m : order[i] = order[j] => i = j
  BY DEF Once
<1>7. \A x \in known : \E i \in 1..n : list[i] = x
  BY DEF Once, ToSet
<1>8. \A x \in new : \E i \in 1..m : order[i] = x
  BY DEF Once, ToSet
<1> HIDE DEF n, m, both
<1>9. ASSUME NEW i \in 1..(n + m), NEW j \in 1..(n + m), both[i] = both[j]
      PROVE  i = j
  <2>1. CASE i <= n /\ j <= n
    <3>1. i \in 1..n /\ j \in 1..n
      BY <1>1, <2>1
    <3> QED  BY <1>2, <1>6, <1>9, <2>1, <3>1
  <2>2. CASE i > n /\ j > n
    <3>1. i - n \in 1..m /\ j - n \in 1..m
      BY <1>1, <2>2
    <3>2. both[i] = order[i - n] /\ both[j] = order[j - n]
      BY <1>1, <1>2, <2>2
    <3>3. i - n = j - n
      BY <1>6, <1>9, <3>1, <3>2
    <3> QED  BY <1>1, <3>3
  <2>3. CASE i <= n /\ j > n
    <3>1. i \in 1..n /\ j - n \in 1..m
      BY <1>1, <2>3
    <3>2. both[i] = list[i] /\ both[j] = order[j - n]
      BY <1>1, <1>2, <2>3
    <3> QED  BY <1>5, <1>9, <3>1, <3>2
  <2>4. CASE i > n /\ j <= n
    <3>1. j \in 1..n /\ i - n \in 1..m
      BY <1>1, <2>4
    <3>2. both[j] = list[j] /\ both[i] = order[i - n]
      BY <1>1, <1>2, <2>4
    <3> QED  BY <1>5, <1>9, <3>1, <3>2
  <2> QED  BY <1>1, <2>1, <2>2, <2>3, <2>4
<1>10. ASSUME NEW x \in known
       PROVE  \E i \in 1..(n + m) : both[i] = x
  <2>1. PICK i \in 1..n : list[i] = x
    BY <1>7
  <2>2. i \in 1..(n + m) /\ both[i] = x
    BY <1>1, <1>2, <2>1
  <2> QED  BY <2>2
<1>11. ASSUME NEW x \in new
       PROVE  \E i \in 1..(n + m) : both[i] = x
  <2>1. PICK i \in 1..m : order[i] = x
    BY <1>8
  <2>2. i + n \in 1..(n + m) /\ ~(i + n <= n) /\ (i + n) - n = i
    BY <1>1
  <2>3. both[i + n] = x
    BY <1>2, <2>1, <2>2
  <2> QED  BY <2>2, <2>3
<1>12. ASSUME NEW i \in 1..(n + m)
       PROVE  both[i] \in known \cup new
  <2>1. i <= n => i \in 1..n
    BY <1>1
  <2>2. ~(i <= n) => i - n \in 1..m
    BY <1>1
  <2> QED  BY <1>2, <1>3, <1>4, <2>1, <2>2
<1>13. DOMAIN both = 1..(n + m)
  BY <1>2
<1>14. ToSet(both) = known \cup new
  BY <1>10, <1>11, <1>12, <1>13 DEF ToSet
<1>15. Once(both, known \cup new)
  BY <1>2, <1>9, <1>14 DEF Once
<1> QED  BY <1>2, <1>15 DEF both, n, m

-----------------------------------------------------------------------------
(* The events an iOS_Window queues.                                        *)

ButtonEvents == [type : TouchTypes, position : Positions, button : Buttons]

(* What AnsweredAppend and AnsweredTail are told of an event.              *)
AnyButtons == {AsMouseEvent(e) : e \in InputEvents}

LEMMA ListEvent ==
    ASSUME NEW now \in Seq(Positions)
    PROVE  /\ TouchList(now) \in InputEvents /\ IsTouchList(TouchList(now))
           /\ TouchList(now).touches = now
           /\ \A before, after : LeftButton(AsMouseEvent(TouchList(now)), before, after)
                                     <=> after = before
<1>1. TouchList(now) \in InputEvents /\ IsTouchList(TouchList(now)) /\ TouchList(now).touches = now
  BY DEF TouchList, InputEvents, IsTouchList
<1>2. AsMouseEvent(TouchList(now)).button = "none"
  BY <1>1 DEF AsMouseEvent, MouseEvent
<1> QED  BY <1>1, <1>2 DEF LeftButton

LEMMA ButtonEvent ==
    ASSUME NEW e \in ButtonEvents
    PROVE  e \in InputEvents /\ ~IsTouchList(e) /\ AsMouseEvent(e) = e
<1>1. e \in InputEvents /\ ~IsTouchList(e)
  BY DEF ButtonEvents, InputEvents, IsTouchList
<1> QED  BY <1>1 DEF AsMouseEvent

LEMMA InputEventKinds ==
    ASSUME NEW e \in InputEvents
    PROVE  /\ ~IsTouchList(e) => e \in ButtonEvents
           /\ IsTouchList(e) => /\ e.touches \in Seq(Positions)
                                /\ \A before, after : LeftButton(AsMouseEvent(e), before, after)
                                                          <=> after = before
<1>1. CASE e \in ButtonEvents
  BY <1>1, ButtonEvent
<1>2. CASE e \in [touches : Seq(Positions)]
  <2>1. e = TouchList(e.touches) /\ e.touches \in Seq(Positions)
    BY <1>2 DEF TouchList
  <2>2. IsTouchList(e)
    BY <2>1, ListEvent
  <2> QED  BY <2>1, <2>2, ListEvent
<1> QED  BY <1>1, <1>2 DEF InputEvents, ButtonEvents

LEMMA AsMouseAppend ==
    ASSUME NEW s \in Seq(InputEvents), NEW e \in InputEvents
    PROVE  /\ AsMouseEvents(s) \in Seq(AnyButtons) /\ AsMouseEvent(e) \in AnyButtons
           /\ AsMouseEvents(Append(s, e)) = Append(AsMouseEvents(s), AsMouseEvent(e))
<1> DEFINE n == Len(s)
           t == Append(s, e)
<1>1. n \in Nat /\ \A i \in 1..n : s[i] \in InputEvents
  OBVIOUS
<1>2. AsMouseEvents(s) = [i \in 1..n |-> AsMouseEvent(s[i])]
  BY DEF AsMouseEvents
<1>3. \A d \in InputEvents : AsMouseEvent(d) \in AnyButtons
  BY Zenon DEF AnyButtons
<1>4. AsMouseEvents(s) \in Seq(AnyButtons) /\ Len(AsMouseEvents(s)) = n
  BY <1>1, <1>2, <1>3
<1>5. Len(t) = n + 1 /\ t[n + 1] = e /\ \A i \in 1..n : t[i] = s[i]
  OBVIOUS
<1>6. AsMouseEvents(t) = [i \in 1..(n + 1) |-> AsMouseEvent(t[i])]
  BY <1>5 DEF AsMouseEvents
<1> HIDE DEF n, t
<1>7. /\ Len(Append(AsMouseEvents(s), AsMouseEvent(e))) = n + 1
      /\ Append(AsMouseEvents(s), AsMouseEvent(e)) \in Seq(AnyButtons)
      /\ \A i \in 1..(n + 1) :
            Append(AsMouseEvents(s), AsMouseEvent(e))[i] =
                IF i <= n THEN AsMouseEvents(s)[i] ELSE AsMouseEvent(e)
  BY <1>1, <1>3, <1>4
<1>8. Append(AsMouseEvents(s), AsMouseEvent(e)) =
          [i \in 1..(n + 1) |-> IF i <= n THEN AsMouseEvents(s)[i] ELSE AsMouseEvent(e)]
  <2> DEFINE more == Append(AsMouseEvents(s), AsMouseEvent(e))
  <2>1. /\ more \in Seq(AnyButtons) /\ Len(more) = n + 1
        /\ \A i \in 1..(n + 1) :
              more[i] = IF i <= n THEN AsMouseEvents(s)[i] ELSE AsMouseEvent(e)
    BY <1>7
  <2> HIDE DEF more
  <2>2. more = [i \in 1..(n + 1) |-> more[i]]
    BY <2>1
  <2> QED  BY <2>1, <2>2 DEF more
<1>9. \A i \in 1..(n + 1) :
          AsMouseEvent(t[i]) = IF i <= n THEN AsMouseEvents(s)[i] ELSE AsMouseEvent(e)
  BY <1>1, <1>2, <1>5
<1> QED  BY <1>3, <1>4, <1>6, <1>8, <1>9 DEF t

LEMMA AsMouseTail ==
    ASSUME NEW s \in Seq(InputEvents), s # <<>>
    PROVE  /\ AsMouseEvents(s) \in Seq(AnyButtons) /\ AsMouseEvents(s) # <<>>
           /\ Head(s) \in InputEvents /\ Tail(s) \in Seq(InputEvents)
           /\ Head(AsMouseEvents(s)) = AsMouseEvent(Head(s))
           /\ Tail(AsMouseEvents(s)) = AsMouseEvents(Tail(s))
<1> DEFINE n == Len(s)
           t == Tail(s)
           m == AsMouseEvents(s)
<1>1. n \in Nat /\ n >= 1 /\ \A i \in 1..n : s[i] \in InputEvents
  OBVIOUS
<1>2. m = [i \in 1..n |-> AsMouseEvent(s[i])]
  BY DEF AsMouseEvents
<1>3. \A d \in InputEvents : AsMouseEvent(d) \in AnyButtons
  BY Zenon DEF AnyButtons
<1>4. /\ Head(s) = s[1] /\ Head(s) \in InputEvents /\ t \in Seq(InputEvents)
      /\ Len(t) = n - 1 /\ \A i \in 1..(n - 1) : t[i] = s[i + 1]
  BY <1>1
<1>5. AsMouseEvents(t) = [i \in 1..(n - 1) |-> AsMouseEvent(t[i])]
  BY <1>4 DEF AsMouseEvents
<1> HIDE DEF n, t, m
<1>6. m \in Seq(AnyButtons) /\ Len(m) = n /\ m # <<>>
  BY <1>1, <1>2, <1>3
<1>7. Head(m) = m[1] /\ m[1] = AsMouseEvent(s[1])
  BY <1>1, <1>2, <1>6
<1>8. Tail(m) = [i \in 1..(n - 1) |-> m[i + 1]]
  <2> DEFINE rest == Tail(m)
  <2>1. rest \in Seq(AnyButtons) /\ Len(rest) = n - 1 /\ \A i \in 1..(n - 1) : rest[i] = m[i + 1]
    BY <1>1, <1>6
  <2> HIDE DEF rest
  <2>2. rest = [i \in 1..(n - 1) |-> rest[i]]
    BY <2>1
  <2> QED  BY <2>1, <2>2 DEF rest
<1>9. \A i \in 1..(n - 1) : m[i + 1] = AsMouseEvent(t[i])
  BY <1>1, <1>2, <1>4
<1> QED  BY <1>4, <1>5, <1>6, <1>7, <1>8, <1>9 DEF m, t

(* What is queued ends with the list of touches, and leads on from where   *)
(* the events before it lead to.                                           *)
LEMMA QueueAnswers ==
    ASSUME inputEvents \in Seq(InputEvents), NEW now \in Seq(Positions), NEW mouse,
           NEW before \in BOOLEAN, NEW after \in BOOLEAN, NEW next \in BOOLEAN,
           \/ mouse = <<>> /\ next = after
           \/ \E e \in ButtonEvents : mouse = <<e>> /\ LeftButton(e, after, next),
           Queue(mouse, now)
    PROVE  /\ inputEvents' \in Seq(InputEvents) /\ inputEvents' # <<>>
           /\ inputEvents'[Len(inputEvents')] = TouchList(now)
           /\ Answered(AsMouseEvents(inputEvents), before, after)
                 => Answered(AsMouseEvents(inputEvents'), before, next)
<1> DEFINE list == TouchList(now)
<1>1. list \in InputEvents
  BY ListEvent
<1>2. \A s \in Seq(InputEvents) :
          /\ Append(s, list) \in Seq(InputEvents) /\ Append(s, list) # <<>>
          /\ Append(s, list)[Len(Append(s, list))] = list
          /\ Answered(AsMouseEvents(s), before, next)
                => Answered(AsMouseEvents(Append(s, list)), before, next)
  <2> TAKE s \in Seq(InputEvents)
  <2>1. LeftButton(AsMouseEvent(list), next, next)
    BY ListEvent
  <2> HIDE DEF list
  <2>2. Append(s, list) \in Seq(InputEvents) /\ Append(s, list) # <<>>
        /\ Append(s, list)[Len(Append(s, list))] = list
    BY <1>1
  <2>3. ASSUME Answered(AsMouseEvents(s), before, next)
        PROVE  Answered(AsMouseEvents(Append(s, list)), before, next)
    <3>1. /\ AsMouseEvents(s) \in Seq(AnyButtons) /\ AsMouseEvent(list) \in AnyButtons
          /\ AsMouseEvents(Append(s, list)) = Append(AsMouseEvents(s), AsMouseEvent(list))
      BY <1>1, AsMouseAppend
    <3>2. Answered(Append(AsMouseEvents(s), AsMouseEvent(list)), before, next)
      BY <2>1, <2>3, <3>1, AnsweredAppend, Zenon
    <3> QED  BY <3>1, <3>2
  <2> QED  BY <2>2, <2>3
<1>3. CASE mouse = <<>> /\ next = after
  <2>1. inputEvents' = Append(inputEvents, list)
    BY <1>1, <1>3 DEF Queue
  <2> HIDE DEF list
  <2> QED  BY <1>2, <1>3, <2>1 DEF list
<1>4. ASSUME NEW e \in ButtonEvents, mouse = <<e>>, LeftButton(e, after, next)
      PROVE  /\ inputEvents' \in Seq(InputEvents) /\ inputEvents' # <<>>
             /\ inputEvents'[Len(inputEvents')] = list
             /\ Answered(AsMouseEvents(inputEvents), before, after)
                   => Answered(AsMouseEvents(inputEvents'), before, next)
  <2>1. e \in InputEvents /\ AsMouseEvent(e) = e
    BY <1>4, ButtonEvent
  <2> HIDE DEF list
  <2>2. Append(inputEvents, e) \in Seq(InputEvents)
    BY <2>1
  <2>3. inputEvents' = Append(Append(inputEvents, e), list)
    <3>1. inputEvents' = inputEvents \o <<e>> \o <<list>>
      BY <1>4 DEF Queue, list
    <3> QED  BY <1>1, <2>1, <3>1
  <2>4. ASSUME Answered(AsMouseEvents(inputEvents), before, after)
        PROVE  Answered(AsMouseEvents(Append(inputEvents, e)), before, next)
    <3>1. /\ AsMouseEvents(inputEvents) \in Seq(AnyButtons) /\ e \in AnyButtons
          /\ AsMouseEvents(Append(inputEvents, e)) = Append(AsMouseEvents(inputEvents), e)
      BY <2>1, AsMouseAppend
    <3>2. Answered(Append(AsMouseEvents(inputEvents), e), before, next)
      BY <1>4, <2>4, <3>1, AnsweredAppend, Zenon
    <3> QED  BY <3>1, <3>2
  <2> QED  BY <1>2, <2>2, <2>3, <2>4
<1> QED  BY <1>3, <1>4

-----------------------------------------------------------------------------
(* The handlers of iOS_Window.                                             *)

(* The list has no finger, and one finger or more.                         *)
LEMMA NoFingers ==
    ASSUME Once(touches, uiTouches), uiTouches \in SUBSET Positions, touches \in Seq(Positions)
    PROVE  /\ IsFiniteSet(uiTouches) /\ Cardinality(uiTouches) \in Nat
           /\ Len(touches) = Cardinality(uiTouches) /\ Len(touches) \in Nat
           /\ touches = <<>> <=> uiTouches = {}
<1>1. IsFiniteSet(uiTouches) /\ Cardinality(uiTouches) \in Nat
  BY IOSAssumption, FS_Subset, FS_CardinalityType
<1>2. Len(touches) = Cardinality(uiTouches)
  BY <1>1, OnceCounts
<1>3. touches = <<>> <=> Len(touches) = 0
  BY EmptySeq
<1>4. uiTouches = {} <=> Cardinality(uiTouches) = 0
  BY <1>1, FS_EmptySet
<1> QED  BY <1>1, <1>2, <1>3, <1>4

(* Nothing but the queue, the list and the fingers changes.                *)
LEMMA IOSTypes ==
    ASSUME TypeOK, touches' \in Seq(Positions), multiTouch' \in BOOLEAN,
           UNCHANGED <<unusedVars, cursor, phase, held, touchView>>
    PROVE  TypeOK'
  BY DEF TypeOK, unusedVars

(* New fingers: a press of the first one alone, its cancellation when      *)
(* others follow.                                                          *)
LEMMA TouchesBeganKeeps ==
    ASSUME IOSInv, NEW new \in SUBSET Positions, TouchesBegan(new)
    PROVE  IOSInv'
<1>1. /\ active /\ new # {} /\ new \cap uiTouches = {} /\ uiTouches' = uiTouches \cup new
      /\ active' = active /\ forgotten' = forgotten /\ held' = held /\ touchView' = touchView
      /\ UNCHANGED <<unusedVars, cursor, phase, held, touchView>>
  BY DEF TouchesBegan, RunLoopTurn
<1>2. PICK order \in SetToSeqs(new) :
          /\ touches' = touches \o order
          /\ multiTouch' = (multiTouch \/ Len(touches') > 1)
          /\ Queue(BeganEvents(touches'), touches')
  BY Zenon DEF TouchesBegan
<1>3. /\ touches \in Seq(Positions) /\ multiTouch \in BOOLEAN /\ TypeOK
      /\ uiTouches \in SUBSET Positions /\ inputEvents \in Seq(InputEvents)
      /\ (Len(touches) > 1 => multiTouch) /\ (multiTouch => touches # <<>>)
      /\ Once(touches, uiTouches)
  BY <1>1 DEF IOSInv, Gesture, TypeOK, GestureHasFingers
<1>4. IsFiniteSet(new)
  BY IOSAssumption, FS_Subset
<1>5. /\ order \in Seq(new) /\ Len(order) \in Nat /\ Len(order) >= 1 /\ Once(order, new)
  <2>1. Cardinality(new) # 0
    BY <1>1, <1>4, FS_EmptySet
  <2> QED  BY <1>4, <2>1, PlacesCover
<1>6. /\ touches' \in Seq(Positions) /\ Once(touches', uiTouches')
      /\ Len(touches') = Len(touches) + Len(order)
  BY <1>1, <1>2, <1>3, <1>5, OnceAdded
<1>7. Len(touches) \in Nat /\ (touches = <<>> <=> Len(touches) = 0)
  BY <1>3, EmptySeq
<1>8. Len(touches') \in Nat /\ Len(touches') >= 1 /\ touches' # <<>>
      /\ Head(touches') \in Positions
  BY <1>5, <1>6, <1>7
<1>9. Gesture'
  <2>1. multiTouch' \in BOOLEAN
    BY <1>2, <1>3
  <2>2. TypeOK'
    BY <1>1, <1>3, <1>6, <2>1, IOSTypes
  <2>3. GestureHasFingers'
    BY <1>2, <1>8 DEF GestureHasFingers
  <2> QED  BY <2>2, <2>3 DEF Gesture
<1> DEFINE mouse == BeganEvents(touches')
           before == "left" \in held
           after == SingleTouch
           next == SingleTouch'
<1>10. before \in BOOLEAN /\ after \in BOOLEAN /\ next \in BOOLEAN
  BY DEF SingleTouch
<1>11. \/ mouse = <<>> /\ next = after
       \/ \E e \in ButtonEvents : mouse = <<e>> /\ LeftButton(e, after, next)
  <2>1. next <=> Len(touches') = 1 /\ ~multiTouch'
    BY DEF SingleTouch
  <2>2. after <=> Len(touches) = 1 /\ ~multiTouch
    BY DEF SingleTouch
  <2> DEFINE down == MouseEvent("down", Head(touches'), "left")
             cancel == MouseEvent("cancel", Head(touches'), "left")
  <2>3. down \in ButtonEvents /\ cancel \in ButtonEvents
    BY <1>8 DEF MouseEvent, ButtonEvents, TouchTypes, Buttons
  <2>4. LeftButton(down, FALSE, TRUE) /\ LeftButton(cancel, TRUE, FALSE)
    BY DEF LeftButton, MouseEvent
  <2> HIDE DEF down, cancel, next, after
  <2>5. CASE Len(touches') > 1 /\ ~multiTouch /\ Len(touches) = 1
    <3>1. mouse = <<cancel>>
      BY <2>5 DEF BeganEvents, cancel
    <3>2. after = TRUE /\ next = FALSE
      BY <1>2, <2>1, <2>2, <2>5, <1>10 DEF next, after
    <3> QED  BY <2>3, <2>4, <3>1, <3>2
  <2>6. CASE Len(touches') > 1 /\ ~(~multiTouch /\ Len(touches) = 1)
    <3>1. mouse = <<>>
      BY <2>6 DEF BeganEvents
    <3>2. after = FALSE /\ next = FALSE
      BY <1>2, <2>1, <2>2, <2>6, <1>10 DEF next, after
    <3> QED  BY <3>1, <3>2
  <2>7. CASE ~(Len(touches') > 1)
    <3>1. mouse = <<down>>
      BY <2>7 DEF BeganEvents, down
    <3>2. Len(touches') = 1 /\ Len(touches) = 0 /\ ~multiTouch
      BY <1>3, <1>5, <1>6, <1>7, <1>8, <2>7
    <3>3. after = FALSE /\ next = TRUE
      BY <1>2, <2>1, <2>2, <3>2, <1>10 DEF next, after
    <3> QED  BY <2>3, <2>4, <3>1, <3>3
  <2> QED  BY <2>5, <2>6, <2>7
<1>12. /\ inputEvents' \in Seq(InputEvents) /\ inputEvents' # <<>>
       /\ inputEvents'[Len(inputEvents')] = TouchList(touches')
       /\ Answered(AsMouseEvents(inputEvents), before, after)
             => Answered(AsMouseEvents(inputEvents'), before, next)
  <2> HIDE DEF mouse, before, after, next
  <2> QED  BY <1>2, <1>3, <1>6, <1>10, <1>11, QueueAnswers, Zenon DEF mouse
<1>13. GroupsAnswered'
  BY <1>1, <1>12 DEF IOSInv, GroupsAnswered
<1>14. ListQueued'
  BY <1>12 DEF ListQueued
<1> QED  BY <1>1, <1>6, <1>9, <1>12, <1>13, <1>14 DEF IOSInv

(* The touches that are left are those of the fingers that are left.       *)
LEMMA TouchesLeftOnce ==
    ASSUME touches \in Seq(Positions), Once(touches, uiTouches), NEW gone, TouchesLeft(gone)
    PROVE  touches' \in Seq(Positions) /\ Once(touches', uiTouches \ gone)
<1> DEFINE P == {i \in 1..Len(touches) : touches[i] \notin gone}
<1>1. PICK places \in SetToSeqs(P) :
          touches' = [i \in 1..Len(places) |-> touches[places[i]]]
  BY Zenon DEF TouchesLeft
<1>2. Len(touches) \in Nat
  OBVIOUS
<1>3. IsFiniteSet(P)
  <2>1. IsFiniteSet(1..Len(touches))
    BY <1>2, FS_Interval
  <2> QED  BY <2>1, FS_Subset
<1>4. places \in Seq(P) /\ Once(places, P) /\ Len(places) \in Nat
  <2> HIDE DEF P
  <2> QED  BY <1>1, <1>3, PlacesCover
<1> DEFINE n == Len(places)
<1>5. \A i \in 1..n : /\ places[i] \in 1..Len(touches) /\ touches[places[i]] \in Positions
                      /\ touches[places[i]] \notin gone
  <2> TAKE i \in 1..n
  <2>1. places[i] \in P
    BY <1>4
  <2> QED  BY <2>1
<1>6. touches' \in Seq(Positions) /\ Len(touches') = n /\ DOMAIN touches' = 1..n
  BY <1>1, <1>4, <1>5
<1>7. \A i \in 1..n : touches'[i] = touches[places[i]]
  BY <1>1
<1>8. \A i, j \in 1..n : touches'[i] = touches'[j] => i = j
  BY <1>4, <1>5, <1>7 DEF Once
<1>9. ASSUME NEW x \in uiTouches \ gone
      PROVE  \E i \in 1..n : touches'[i] = x
  <2>1. PICK k \in 1..Len(touches) : touches[k] = x
    BY DEF Once, ToSet
  <2>2. k \in P
    BY <2>1
  <2>3. PICK i \in 1..n : places[i] = k
    <3> HIDE DEF P
    <3>1. ToSet(places) = P /\ DOMAIN places = 1..n
      BY <1>4 DEF Once
    <3> QED  BY <2>2, <3>1 DEF ToSet
  <2> QED  BY <1>7, <2>1, <2>3
<1>10. ASSUME NEW i \in 1..n
       PROVE  touches'[i] \in uiTouches \ gone
  <2>1. touches[places[i]] \in uiTouches
    BY <1>5 DEF Once, ToSet
  <2> QED  BY <1>5, <1>7, <2>1
<1>11. ToSet(touches') = uiTouches \ gone
  BY <1>6, <1>9, <1>10 DEF ToSet
<1> QED  BY <1>6, <1>8, <1>11 DEF Once

(* Fingers end together: the gesture with the last of them, and a single   *)
(* one releases the button.                                                *)
LEMMA EndedKeeps ==
    ASSUME IOSInv, active, NEW gone \in SUBSET uiTouches, gone # {}, Ended(gone),
           uiTouches' = uiTouches \ gone, UNCHANGED <<forgotten, held, touchView>>
    PROVE  /\ touches' \in Seq(Positions) /\ Once(touches', uiTouches')
           /\ multiTouch' \in BOOLEAN /\ GestureHasFingers'
           /\ inputEvents' \in Seq(InputEvents) /\ ListQueued' /\ GroupsAnswered'
<1>1. /\ touches \in Seq(Positions) /\ multiTouch \in BOOLEAN
      /\ uiTouches \in SUBSET Positions /\ inputEvents \in Seq(InputEvents)
      /\ (Len(touches) > 1 => multiTouch) /\ Once(touches, uiTouches)
  BY DEF IOSInv, Gesture, TypeOK, GestureHasFingers
<1>2. /\ IsFiniteSet(uiTouches) /\ Len(touches) = Cardinality(uiTouches) /\ Len(touches) \in Nat
  BY <1>1, NoFingers
<1>3. /\ TouchesLeft(gone) /\ multiTouch' = (multiTouch /\ ~GestureOver(gone))
  BY DEF Ended
<1>4. PICK f \in gone :
          Queue(IF multiTouch THEN <<>> ELSE <<MouseEvent("up", f, "left")>>, touches')
  BY Zenon DEF Ended
<1>5. touches' \in Seq(Positions) /\ Once(touches', uiTouches')
  BY <1>1, <1>3, TouchesLeftOnce
<1>6. /\ IsFiniteSet(gone) /\ Cardinality(gone) <= Len(touches) /\ Cardinality(gone) \in Nat
      /\ Cardinality(gone) # 0 /\ (Cardinality(gone) = Len(touches) <=> gone = uiTouches)
  <2>1. /\ IsFiniteSet(gone) /\ Cardinality(gone) <= Len(touches) /\ Cardinality(gone) \in Nat
        /\ (Cardinality(gone) = Len(touches) => gone = uiTouches)
    BY <1>2, FS_Subset, FS_CardinalityType
  <2>2. Cardinality(gone) # 0
    BY <2>1, FS_EmptySet
  <2> QED  BY <1>2, <2>1, <2>2
<1>7. /\ IsFiniteSet(uiTouches') /\ Len(touches') = Cardinality(uiTouches')
      /\ Cardinality(uiTouches') = Len(touches) - Cardinality(gone)
  <2>1. IsFiniteSet(uiTouches') /\ uiTouches' \in SUBSET Positions
    BY <1>1, <1>2, FS_Subset
  <2>2. Len(touches') = Cardinality(uiTouches')
    BY <1>5, <2>1, OnceCounts
  <2>3. uiTouches \cap gone = gone
    OBVIOUS
  <2>4. Cardinality(uiTouches \ gone) = Cardinality(uiTouches) - Cardinality(uiTouches \cap gone)
    BY <1>2, FS_Difference
  <2>5. Cardinality(uiTouches') = Len(touches) - Cardinality(gone)
    BY <1>2, <2>3, <2>4
  <2> QED  BY <2>1, <2>2, <2>5
<1>8. touches' = <<>> <=> Len(touches') = 0
  BY <1>5, EmptySeq
<1>9. GestureOver(gone) <=> touches' = <<>>
  BY <1>2, <1>6, <1>7, <1>8 DEF GestureOver
<1>10. Len(touches') \in Nat /\ Len(touches') < Len(touches)
  BY <1>2, <1>6, <1>7
<1>11. GestureHasFingers' /\ multiTouch' \in BOOLEAN
  <2>1. Len(touches') > 1 => multiTouch'
    BY <1>1, <1>2, <1>3, <1>8, <1>9, <1>10
  <2> QED  BY <1>1, <1>3, <1>9, <2>1 DEF GestureHasFingers
<1> DEFINE mouse == IF multiTouch THEN <<>> ELSE <<MouseEvent("up", f, "left")>>
           before == "left" \in held
           after == SingleTouch
           next == SingleTouch'
<1>12. before \in BOOLEAN /\ after \in BOOLEAN /\ next \in BOOLEAN
  BY DEF SingleTouch
<1>13. \/ mouse = <<>> /\ next = after
       \/ \E e \in ButtonEvents : mouse = <<e>> /\ LeftButton(e, after, next)
  <2>1. next <=> Len(touches') = 1 /\ ~multiTouch'
    BY DEF SingleTouch
  <2>2. after <=> Len(touches) = 1 /\ ~multiTouch
    BY DEF SingleTouch
  <2> DEFINE up == MouseEvent("up", f, "left")
  <2>3. up \in ButtonEvents /\ LeftButton(up, TRUE, FALSE)
    BY <1>1 DEF MouseEvent, ButtonEvents, TouchTypes, Buttons, LeftButton
  <2> HIDE DEF up, next, after
  <2>4. CASE multiTouch
    <3>1. next = FALSE /\ after = FALSE
      BY <1>3, <1>8, <1>9, <2>1, <2>2, <2>4, <1>12
    <3> QED  BY <2>4, <3>1
  <2>5. CASE ~multiTouch
    <3>1. Len(touches) = 1 /\ Len(touches') = 0
      BY <1>1, <1>2, <1>6, <1>7, <1>10, <2>5
    <3>2. next = FALSE /\ after = TRUE
      BY <2>1, <2>2, <2>5, <3>1, <1>12
    <3>3. mouse = <<up>>
      BY <2>5 DEF up
    <3> QED  BY <2>3, <3>2, <3>3
  <2> QED  BY <1>1, <2>4, <2>5
<1>14. /\ inputEvents' \in Seq(InputEvents) /\ inputEvents' # <<>>
       /\ inputEvents'[Len(inputEvents')] = TouchList(touches')
       /\ Answered(AsMouseEvents(inputEvents), before, after)
             => Answered(AsMouseEvents(inputEvents'), before, next)
  <2>1. Queue(mouse, touches')
    BY <1>4
  <2> HIDE DEF mouse, before, after, next
  <2> QED  BY <2>1, <1>1, <1>5, <1>12, <1>13, QueueAnswers, Zenon
<1>15. GroupsAnswered'
  BY <1>14 DEF IOSInv, GroupsAnswered
<1>16. ListQueued'
  BY <1>14 DEF ListQueued
<1> QED  BY <1>5, <1>11, <1>14, <1>15, <1>16

LEMMA TouchesEndedKeeps ==
    ASSUME IOSInv, NEW gone \in SUBSET Positions, TouchesEnded(gone)
    PROVE  IOSInv'
<1>1. /\ active /\ gone # {} /\ gone \in SUBSET uiTouches /\ uiTouches' = uiTouches \ gone
      /\ Ended(gone) /\ active' = active /\ forgotten' = forgotten
      /\ UNCHANGED <<unusedVars, cursor, phase, held, touchView>>
  BY DEF TouchesEnded, RunLoopTurn
<1>2. /\ touches' \in Seq(Positions) /\ Once(touches', uiTouches')
      /\ multiTouch' \in BOOLEAN /\ GestureHasFingers'
      /\ inputEvents' \in Seq(InputEvents) /\ ListQueued' /\ GroupsAnswered'
  BY <1>1, EndedKeeps
<1>3. TypeOK /\ uiTouches \in SUBSET Positions /\ active \in BOOLEAN /\ forgotten \in BOOLEAN
  BY DEF IOSInv, Gesture
<1>4. TypeOK'
  BY <1>1, <1>2, <1>3, IOSTypes
<1> QED  BY <1>1, <1>2, <1>3, <1>4 DEF IOSInv, Gesture

(* A finger moves: the button stays as it is.                              *)
LEMMA TouchesMovedKeeps ==
    ASSUME IOSInv, NEW f \in Positions, TouchesMoved(f)
    PROVE  IOSInv'
<1>1. /\ active /\ UNCHANGED <<touches, multiTouch, active, uiTouches, forgotten, held, touchView>>
      /\ UNCHANGED <<unusedVars, cursor, phase, held, touchView>>
      /\ Queue(IF multiTouch THEN <<>> ELSE <<MouseEvent("move", f, "none")>>, touches)
  BY DEF TouchesMoved, RunLoopTurn
<1>2. /\ touches \in Seq(Positions) /\ inputEvents \in Seq(InputEvents) /\ TypeOK
      /\ multiTouch \in BOOLEAN
  BY DEF IOSInv, Gesture, TypeOK
<1> DEFINE mouse == IF multiTouch THEN <<>> ELSE <<MouseEvent("move", f, "none")>>
           before == "left" \in held
           after == SingleTouch
<1>3. before \in BOOLEAN /\ after \in BOOLEAN
  BY DEF SingleTouch
<1>4. \/ mouse = <<>>
      \/ \E e \in ButtonEvents : mouse = <<e>> /\ LeftButton(e, after, after)
  <2> DEFINE move == MouseEvent("move", f, "none")
  <2>1. move \in ButtonEvents /\ LeftButton(move, after, after)
    BY DEF MouseEvent, ButtonEvents, TouchTypes, Buttons, LeftButton
  <2> HIDE DEF move
  <2>2. mouse = <<>> \/ mouse = <<move>>
    BY DEF move
  <2> QED  BY <2>1, <2>2
<1>5. /\ inputEvents' \in Seq(InputEvents) /\ inputEvents' # <<>>
      /\ inputEvents'[Len(inputEvents')] = TouchList(touches)
      /\ Answered(AsMouseEvents(inputEvents), before, after)
            => Answered(AsMouseEvents(inputEvents'), before, after)
  <2>1. Queue(mouse, touches)
    BY <1>1
  <2> HIDE DEF mouse, before, after
  <2> QED  BY <2>1, <1>2, <1>3, <1>4, QueueAnswers, Zenon
<1>6. SingleTouch' = SingleTouch
  BY <1>1 DEF SingleTouch
<1>7. GroupsAnswered'
  BY <1>1, <1>5, <1>6 DEF IOSInv, GroupsAnswered
<1>8. ListQueued'
  BY <1>1, <1>5 DEF ListQueued
<1>9. TypeOK'
  BY <1>1, <1>2, IOSTypes
<1>10. GestureHasFingers'
  BY <1>1 DEF IOSInv, Gesture, GestureHasFingers
<1> QED  BY <1>1, <1>5, <1>7, <1>8, <1>9, <1>10 DEF IOSInv, Gesture

(* The application resigns: its touches end together, or are forgotten.    *)
LEMMA WillResignActiveKeeps ==
    ASSUME IOSInv, WillResignActive
    PROVE  IOSInv'
<1>1. /\ active /\ active' = FALSE /\ uiTouches' = {}
      /\ UNCHANGED <<unusedVars, cursor, phase, held, touchView>>
  BY DEF WillResignActive, RunLoopTurn
<1>2. /\ touches \in Seq(Positions) /\ multiTouch \in BOOLEAN /\ TypeOK
      /\ uiTouches \in SUBSET Positions /\ inputEvents \in Seq(InputEvents)
      /\ forgotten \in BOOLEAN /\ Once(touches, uiTouches)
      /\ GestureHasFingers /\ ListQueued /\ GroupsAnswered
  BY <1>1 DEF IOSInv, Gesture, TypeOK
<1>3. CASE uiTouches # {} /\ Ended(uiTouches) /\ UNCHANGED forgotten
  <2>1. uiTouches' = uiTouches \ uiTouches /\ held' = held /\ touchView' = touchView
    BY <1>1
  <2>2. /\ touches' \in Seq(Positions) /\ Once(touches', uiTouches')
        /\ multiTouch' \in BOOLEAN /\ GestureHasFingers'
        /\ inputEvents' \in Seq(InputEvents) /\ ListQueued' /\ GroupsAnswered'
    <3>1. uiTouches \in SUBSET uiTouches
      OBVIOUS
    <3> QED  BY <1>1, <1>3, <2>1, <3>1, EndedKeeps
  <2>3. touches' = <<>>
    <3>1. \A i \in 1..Len(touches') : touches'[i] \in {}
      BY <1>1, <2>2 DEF Once, ToSet
    <3> QED  BY <2>2, <3>1
  <2>4. TypeOK'
    BY <1>1, <1>2, <2>2, IOSTypes
  <2> QED  BY <1>1, <1>2, <1>3, <2>2, <2>3, <2>4 DEF IOSInv, Gesture
<1>4. CASE /\ UNCHANGED <<touches, multiTouch, inputEvents>>
           /\ forgotten' = (forgotten \/ uiTouches # {})
  <2>1. TypeOK' /\ GestureHasFingers'
    BY <1>1, <1>2, <1>4, IOSTypes DEF GestureHasFingers
  <2>2. ~forgotten' => ~forgotten /\ touches' = <<>>
    BY <1>2, <1>4, NoFingers
  <2>3. ListQueued'
    BY <1>1, <1>2, <1>4, <2>2 DEF ListQueued
  <2>4. GroupsAnswered'
    <3>1. SingleTouch' = SingleTouch
      BY <1>4 DEF SingleTouch
    <3> QED  BY <1>1, <1>2, <1>4, <2>2, <3>1 DEF GroupsAnswered
  <2> QED  BY <1>1, <1>2, <1>4, <2>1, <2>2, <2>3, <2>4 DEF IOSInv, Gesture
<1> QED  BY <1>3, <1>4 DEF WillResignActive

(* It comes back: what it knew of the touches before is void.              *)
LEMMA DidBecomeActiveKeeps ==
    ASSUME IOSInv, DidBecomeActive
    PROVE  IOSInv'
<1>1. /\ ~active /\ active' = TRUE /\ touches' = <<>>
      /\ multiTouch' = (multiTouch /\ touches = <<>>)
      /\ UNCHANGED <<unusedVars, cursor, phase, held, touchView>>
      /\ UNCHANGED <<inputEvents, uiTouches, forgotten>>
  BY DEF DidBecomeActive, TouchesAfterPause
<1>2. /\ TypeOK /\ multiTouch \in BOOLEAN /\ (multiTouch => touches # <<>>)
      /\ uiTouches = {} /\ (~forgotten => touches = <<>>)
      /\ inputEvents \in Seq(InputEvents) /\ forgotten \in BOOLEAN
      /\ ListQueued /\ GroupsAnswered
  BY <1>1 DEF IOSInv, Gesture, TypeOK, GestureHasFingers
<1>3. multiTouch' = FALSE /\ touches' \in Seq(Positions) /\ Len(touches') = 0
  <2>1. <<>> \in Seq(Positions) /\ Len(<<>>) = 0
    OBVIOUS
  <2>2. ~(multiTouch /\ touches = <<>>)
    BY <1>2
  <2> QED  BY <1>1, <2>1, <2>2
<1>4. TypeOK'
  BY <1>1, <1>2, <1>3, IOSTypes
<1>5. GestureHasFingers'
  BY <1>1, <1>3 DEF GestureHasFingers
<1>6. Once(touches', uiTouches')
  BY <1>1, <1>2, <1>3 DEF Once, ToSet
<1>7. ListQueued'
  BY <1>1, <1>2 DEF ListQueued
<1>8. GroupsAnswered'
  <2>1. ~forgotten => SingleTouch' = SingleTouch
    BY <1>1, <1>2, <1>3 DEF SingleTouch
  <2> QED  BY <1>1, <1>2, <2>1 DEF GroupsAnswered
<1> QED  BY <1>1, <1>2, <1>4, <1>5, <1>6, <1>7, <1>8 DEF IOSInv, Gesture

(* An executed event presses or releases the button the application sees,  *)
(* or tells it of the touches: the last of them of the ones there are.     *)
LEMMA ExecuteKeeps ==
    ASSUME IOSInv, Execute
    PROVE  IOSInv'
<1> DEFINE e == Head(inputEvents)
           rest == Tail(inputEvents)
<1>1. /\ inputEvents # <<>> /\ inputEvents' = rest
      /\ UNCHANGED <<unusedVars, touches, multiTouch, phase, active, uiTouches, forgotten>>
      /\ IF IsTouchList(e) THEN ExecuteTouch(e) ELSE ExecuteMouse(e)
  BY DEF Execute
<1>2. /\ TypeOK /\ GestureHasFingers /\ inputEvents \in Seq(InputEvents)
      /\ ListQueued /\ GroupsAnswered
  BY DEF IOSInv, Gesture
<1>3. /\ e \in InputEvents /\ rest \in Seq(InputEvents)
      /\ Head(AsMouseEvents(inputEvents)) = AsMouseEvent(e)
      /\ Tail(AsMouseEvents(inputEvents)) = AsMouseEvents(rest)
      /\ AsMouseEvents(inputEvents) \in Seq(AnyButtons)
      /\ AsMouseEvents(inputEvents) # <<>>
  BY <1>1, <1>2, AsMouseTail
<1>4. /\ rest = <<>> => inputEvents[Len(inputEvents)] = e
      /\ rest # <<>> => rest[Len(rest)] = inputEvents[Len(inputEvents)]
  <2> DEFINE n == Len(inputEvents)
  <2>1. /\ n \in Nat /\ n >= 1 /\ Len(rest) = n - 1 /\ e = inputEvents[1]
        /\ \A i \in 1..(n - 1) : rest[i] = inputEvents[i + 1]
    BY <1>1, <1>2
  <2>2. rest = <<>> <=> Len(rest) = 0
    BY <1>3, EmptySeq
  <2> HIDE DEF n, e, rest
  <2>3. rest # <<>> => n - 1 \in 1..(n - 1) /\ (n - 1) + 1 = n
    BY <2>1, <2>2
  <2>4. rest = <<>> => n = 1
    BY <2>1, <2>2
  <2> QED  BY <2>1, <2>3, <2>4 DEF n
<1> HIDE DEF e, rest
<1>5. /\ IsTouchList(e) => /\ e.touches \in Seq(Positions)
                           /\ \A before, after : LeftButton(AsMouseEvent(e), before, after)
                                                     <=> after = before
      /\ ~IsTouchList(e) => e \in ButtonEvents /\ AsMouseEvent(e) = e
  BY <1>3, InputEventKinds, ButtonEvent
<1>6. ListQueued'
  <2> SUFFICES ASSUME ~forgotten'
               PROVE  IF rest = <<>> THEN touchView' = touches'
                      ELSE rest[Len(rest)] = TouchList(touches')
    BY <1>1 DEF ListQueued
  <2>1. inputEvents[Len(inputEvents)] = TouchList(touches) /\ touches' = touches
    BY <1>1, <1>2 DEF ListQueued
  <2>2. CASE rest = <<>>
    <3>1. e = TouchList(touches)
      BY <1>4, <2>1, <2>2
    <3>2. touches \in Seq(Positions)
      BY <1>2 DEF TypeOK
    <3>3. IsTouchList(e) /\ e.touches = touches
      BY <3>1, <3>2, ListEvent
    <3> QED  BY <1>1, <2>1, <2>2, <3>3 DEF ExecuteTouch
  <2>3. CASE rest # <<>>
    BY <1>4, <2>1, <2>3
  <2> QED  BY <2>2, <2>3
<1>7. /\ touchView' \in Seq(Positions) /\ cursor' \in Positions \cup {Hidden}
      /\ held' \subseteq Buttons
  <2>1. CASE IsTouchList(e)
    BY <1>1, <1>2, <1>5, <2>1 DEF ExecuteTouch, TypeOK
  <2>2. CASE ~IsTouchList(e)
    <3>1. e.position \in Positions /\ e.button \in Buttons
      BY <1>5, <2>2 DEF ButtonEvents
    <3>2. ExecuteMouse(e)
      BY <1>1, <2>2
    <3> QED  BY <1>2, <3>1, <3>2 DEF ExecuteMouse, TypeOK
  <2> QED  BY <2>1, <2>2
<1>8. GroupsAnswered'
  <2> SUFFICES ASSUME ~forgotten
               PROVE  Answered(AsMouseEvents(rest), "left" \in held', SingleTouch)
    <3>1. SingleTouch' = SingleTouch
      BY <1>1 DEF SingleTouch
    <3> QED  BY <1>1, <3>1 DEF GroupsAnswered
  <2>1. Answered(AsMouseEvents(inputEvents), "left" \in held, SingleTouch)
    BY <1>2 DEF GroupsAnswered
  <2>2. PICK next \in BOOLEAN : /\ LeftButton(AsMouseEvent(e), "left" \in held, next)
                                /\ Answered(AsMouseEvents(rest), next, SingleTouch)
    BY <1>3, <2>1, AnsweredTail
  <2>3. next <=> "left" \in held'
    <3>1. CASE IsTouchList(e)
      BY <1>1, <1>5, <2>2, <3>1 DEF ExecuteTouch
    <3>2. CASE ~IsTouchList(e)
      <4>1. /\ e.type \in TouchTypes /\ LeftButton(e, "left" \in held, next)
            /\ held' = CASE e.type = "down" -> held \cup {e.button}
                         [] e.type \in {"up", "cancel"} -> held \ {e.button}
                         [] OTHER -> held
        BY <1>1, <1>5, <2>2, <3>2 DEF ButtonEvents, ExecuteMouse
      <4>2. CASE e.button # "left"
        <5>1. next = ("left" \in held)
          BY <4>1, <4>2 DEF LeftButton
        <5> QED  BY <4>1, <4>2, <5>1
      <4>3. CASE e.button = "left"
        <5>1. CASE e.type = "down"
          BY <4>1, <4>3, <5>1 DEF LeftButton
        <5>2. CASE e.type = "move"
          BY <4>1, <4>3, <5>2 DEF LeftButton
        <5>3. CASE e.type \in {"up", "cancel"}
          BY <4>1, <4>3, <5>3 DEF LeftButton
        <5> QED  BY <4>1, <5>1, <5>2, <5>3 DEF TouchTypes
      <4> QED  BY <4>2, <4>3
    <3> QED  BY <3>1, <3>2
  <2>4. next = ("left" \in held')
    BY <2>3
  <2> QED  BY <2>2, <2>4
<1>9. TypeOK'
  BY <1>1, <1>2, <1>7 DEF TypeOK, unusedVars
<1>10. GestureHasFingers'
  BY <1>1, <1>2 DEF GestureHasFingers
<1> QED  BY <1>1, <1>3, <1>6, <1>8, <1>9, <1>10 DEF IOSInv, Gesture, rest

(* A frame begins or ends.                                                 *)
LEMMA PhaseKeeps ==
    ASSUME IOSInv, UNCHANGED <<queueVars, cursorVars, scroll, appVars, iosVars>>,
           phase' \in {"system", "mouse"}
    PROVE  IOSInv'
<1>1. /\ UNCHANGED <<touches, multiTouch, held, touchView, inputEvents, active,
                     uiTouches, forgotten>>
  BY DEF queueVars, appVars, iosVars
<1>2. TypeOK'
  BY DEF IOSInv, Gesture, TypeOK, queueVars, cursorVars, appVars
<1>3. SingleTouch' = SingleTouch
  BY <1>1 DEF SingleTouch
<1> QED
  BY <1>1, <1>2, <1>3
  DEF IOSInv, Gesture, GestureHasFingers, ListQueued, GroupsAnswered

LEMMA IOSKeeps ==
    ASSUME IOSInv, IOSNext
    PROVE  IOSInv'
<1>1. ASSUME UpdateOneFrame \/ FrameOver PROVE IOSInv'
  BY <1>1, PhaseKeeps DEF UpdateOneFrame, FrameOver
<1> QED
  BY <1>1, TouchesBeganKeeps, TouchesEndedKeeps, TouchesMovedKeeps,
     WillResignActiveKeeps, DidBecomeActiveKeeps, ExecuteKeeps DEF IOSNext

(* What is known of the fingers follows.                                   *)
LEMMA IOSKnows == IOSInv => FingersKnown
BY DEF IOSInv, Once, ListQueued, FingersKnown

LEMMA IOSStart == Init /\ IOSInit => IOSInv
<1> SUFFICES ASSUME Init, IOSInit PROVE IOSInv
  OBVIOUS
<1>1. /\ Gesture /\ touches = <<>> /\ Len(touches) = 0 /\ held = {} /\ touchView = <<>>
      /\ inputEvents = <<>> /\ active = TRUE /\ uiTouches = {} /\ forgotten = FALSE
  BY GestureInit DEF Init, IOSInit
<1>2. Once(touches, uiTouches)
  BY <1>1 DEF Once, ToSet
<1>3. GroupsAnswered
  <2> DEFINE none == AsMouseEvents(inputEvents)
  <2>1. Len(none) = 0
    BY <1>1 DEF AsMouseEvents
  <2>2. ("left" \in held) = FALSE /\ SingleTouch = FALSE
    BY <1>1 DEF SingleTouch
  <2> DEFINE run == [i \in 0..0 |-> FALSE]
  <2>3. run \in [0..0 -> BOOLEAN] /\ run[0] = FALSE
    OBVIOUS
  <2> HIDE DEF none, run
  <2>4. Answered(none, FALSE, FALSE)
    BY <2>1, <2>3 DEF Answered
  <2> QED  BY <2>2, <2>4 DEF GroupsAnswered, none
<1>4. ListQueued /\ inputEvents \in Seq(InputEvents)
  <2>1. <<>> \in Seq(InputEvents)
    OBVIOUS
  <2> QED  BY <1>1, <2>1 DEF ListQueued
<1> QED  BY <1>1, <1>2, <1>3, <1>4 DEF IOSInv

LEMMA IOSStutter == IOSInv /\ UNCHANGED <<inputVars, iosVars>> => IOSInv'
<1> SUFFICES ASSUME IOSInv, UNCHANGED <<inputVars, iosVars>> PROVE IOSInv'
  OBVIOUS
<1>1. UNCHANGED <<touches, multiTouch, held, touchView, inputEvents, active,
                  uiTouches, forgotten>>
  BY DEF inputVars, queueVars, appVars, iosVars
<1>2. Gesture'
  BY GestureStutter DEF IOSInv
<1>3. SingleTouch' = SingleTouch
  BY <1>1 DEF SingleTouch
<1> QED  BY <1>1, <1>2, <1>3 DEF IOSInv, ListQueued, GroupsAnswered

-----------------------------------------------------------------------------
(* The window system of the build.                                         *)

(* Each of the systems keeps its invariant while it is the one in use.     *)
SystemsInv ==
    /\ windowSystem \in Systems
    /\ windowSystem = "android" => AndroidInv
    /\ windowSystem = "openkode" => KodeInv
    /\ windowSystem = "winrt" => WinRTInv
    /\ windowSystem = "ios" => IOSInv

LEMMA SystemsStart == SystemsInit => SystemsInv
<1> SUFFICES ASSUME SystemsInit PROVE SystemsInv
  OBVIOUS
<1>1. Input
  BY GestureInit, PressingInit DEF SystemsInit, Input
<1>2. calls = <<>> /\ touches = <<>> /\ Len(touches) = 0
  BY DEF SystemsInit, Init
<1>3. AndroidInv
  <2>1. pointers = {} /\ runnables = <<>> /\ takenOver = FALSE
    BY DEF SystemsInit, AndroidInit
  <2>2. Len(runnables) = 0 /\ Cardinality(pointers) = 0
    BY <2>1, FS_EmptySet
  <2>3. Leaves(calls, 0)
    BY <1>2 DEF Leaves
  <2>4. CountsFingers
    <3>1. /\ [i \in 0..0 |-> 0] \in [0..0 -> Nat] /\ [i \in 0..0 |-> 0][0] = 0
      OBVIOUS
    <3>2. PICK run \in [0..0 -> Nat] : run[0] = 0
      BY <3>1, Zenon
    <3>3. /\ run \in [0..Len(runnables) -> Nat]
          /\ run[Len(runnables)] = Cardinality(pointers)
          /\ Leaves(calls, run[0])
          /\ \A i \in 1..Len(runnables) : Changes(runnables[i], run[i - 1], run[i])
      BY <2>2, <2>3, <3>2
    <3> QED  BY <3>3 DEF CountsFingers
  <2>5. NoneCancels /\ runnables \in Seq(Seq(TouchCalls))
    BY <2>1, <2>2 DEF NoneCancels
  <2> QED  BY <1>1, <2>1, <2>4, <2>5 DEF AndroidInv
<1>4. KodeInv
  <2>1. kdTouches = {} /\ Cardinality(kdTouches) = 0
    BY FS_EmptySet DEF SystemsInit, KodeInit
  <2> QED  BY <1>1, <1>2, <2>1 DEF KodeInv, CountsSlots
<1>5. WinRTInv
  <2>1. pointerIds = <<>> /\ currentButton = "none" /\ focused = TRUE
    BY DEF SystemsInit, WinRTInit
  <2>2. pointerIds \in Seq(Positions)
    BY <2>1
  <2> QED  BY <1>1, <1>2, <2>1, <2>2 DEF WinRTInv, Converges, Input, Buttons
<1>6. IOSInv
  BY IOSStart DEF SystemsInit
<1> QED  BY <1>3, <1>4, <1>5, <1>6 DEF SystemsInv, SystemsInit

LEMMA SystemsStutter ==
    SystemsInv /\ UNCHANGED <<inputVars, systemVars>> => SystemsInv'
<1> SUFFICES ASSUME SystemsInv, UNCHANGED <<inputVars, systemVars>> PROVE SystemsInv'
  OBVIOUS
<1>1. windowSystem' = windowSystem
  BY DEF systemVars
<1>2. AndroidInv => AndroidInv'
  <2>1. Input => Input'
    BY GestureStutter, PressingStutter DEF Input, inputVars
  <2>2. UNCHANGED <<calls, touches, pointers, runnables, takenOver>>
    BY DEF inputVars, queueVars, systemVars, androidVars
  <2> QED
    BY <2>1, <2>2 DEF AndroidInv, NoneCancels, CountsFingers, Leaves
<1>3. KodeInv => KodeInv'
  <2>1. Input => Input'
    BY GestureStutter, PressingStutter DEF Input, inputVars
  <2>2. UNCHANGED <<calls, touches, kdTouches>>
    BY DEF inputVars, queueVars, systemVars
  <2> QED  BY <2>1, <2>2 DEF KodeInv, CountsSlots, Call
<1>4. WinRTInv => WinRTInv'
  <2>1. UNCHANGED <<calls, touches, pointerIds, currentButton, focused>>
    BY DEF inputVars, queueVars, systemVars, winrtVars, xamlVars
  <2> QED  BY <2>1, GestureStutter, ConvergesStays DEF WinRTInv
<1>5. IOSInv => IOSInv'
  BY IOSStutter DEF systemVars
<1> QED  BY <1>1, <1>2, <1>3, <1>4, <1>5 DEF SystemsInv

(* The invariants of the systems hold together: the variables of the ones  *)
(* that are not in use stay as they are.                                   *)
THEOREM SystemsInvariant == SystemsSpec => []SystemsInv
<1>1. SystemsInv /\ SystemsNext => SystemsInv'
  <2> SUFFICES ASSUME SystemsInv, SystemsNext PROVE SystemsInv'
    OBVIOUS
  <2>1. CASE Android
    BY <2>1, AndroidKeeps DEF Android, SystemsInv
  <2>2. CASE OpenKODE
    BY <2>2, KodeKeeps DEF OpenKODE, SystemsInv
  <2>3. CASE WinRT
    BY <2>3, WinRTKeeps DEF WinRT, SystemsInv
  <2>4. CASE IOS
    BY <2>4, IOSKeeps DEF IOS, SystemsInv
  <2> QED  BY <2>1, <2>2, <2>3, <2>4 DEF SystemsNext
<1> QED  BY <1>1, SystemsStart, SystemsStutter, PTL DEF SystemsSpec

(* Android: for any number of fingers, and any number of events that wait  *)
(* for the GL thread, no touch stays without a finger and no press         *)
(* outlives the fingers, although every finger is reported as going down   *)
(* or up with the one that does (onTouchEvent()).                          *)
THEOREM AndroidFingersKept == SystemsSpec => []AndroidKeepsFingers
<1>1. SystemsInv => AndroidKeepsFingers
  BY AndroidKeepsCount DEF SystemsInv, AndroidKeepsFingers
<1> QED  BY <1>1, SystemsInvariant, PTL

(* OpenKODE: for any number of slots, no touch is left when the last       *)
(* finger has gone up, although indices can be off (_getAprilTouchIndex()).*)
THEOREM OpenKODESlotsKept == SystemsSpec => []OpenKODEKeepsSlots
<1>1. SystemsInv => OpenKODEKeepsSlots
  BY KodeKeepsCount DEF SystemsInv, OpenKODEKeepsSlots
<1> QED  BY <1>1, SystemsInvariant, PTL

(* WinRT: for any number of fingers, an index means the finger it was      *)
(* computed for, however often touches are given up or events are dropped  *)
(* (WinRT_XamlApp.cpp).                                                    *)
THEOREM WinRTIndicesKept == SystemsSpec => []WinRTIndicesAgree
<1>1. SystemsInv => WinRTIndicesAgree
  BY Converged DEF SystemsInv, WinRTIndicesAgree, IndicesAgree
<1> QED  BY <1>1, SystemsInvariant, PTL

(* WinRT: nothing is touched while the window has no focus                 *)
(* (_handleFocusChange(), _resetTouches()).                                *)
THEOREM WinRTLetsGo == SystemsSpec => []WinRTFocusLetsGo
<1>1. WinRTInv => NoTouchWithoutFocus
  BY Converged DEF WinRTInv, NoTouchWithoutFocus
<1>2. SystemsInv => WinRTFocusLetsGo
  BY <1>1 DEF SystemsInv, WinRTFocusLetsGo
<1> QED  BY <1>2, SystemsInvariant, PTL

(* iOS: however many fingers go down, up or are taken away together, every *)
(* emulated press is answered by exactly one release or cancellation,      *)
(* unless iOS forgot to end a touch (touchesBegan_withEvent_(),            *)
(* touchesEnded_withEvent_(), applicationWillResignActive()).              *)
THEOREM IOSGroupsKept == SystemsSpec => []IOSGroupsAnswered
<1>1. SystemsInv => IOSGroupsAnswered
  BY DEF SystemsInv, IOSInv, IOSGroupsAnswered
<1> QED  BY <1>1, SystemsInvariant, PTL

(* iOS: for any number of fingers the window knows those on the screen,    *)
(* even after iOS forgot some, and an executed queue has told them to the  *)
(* application (applicationDidBecomeActive(), updateOneFrame()).           *)
THEOREM IOSFingersKept == SystemsSpec => []IOSFingersKnown
<1>1. SystemsInv => IOSFingersKnown
  BY IOSKnows DEF SystemsInv, IOSFingersKnown
<1> QED  BY <1>1, SystemsInvariant, PTL

(* A gesture of several fingers is one exactly as long as it has fingers   *)
(* with each of the systems: those that call queueTouchEvent(), WinRT and  *)
(* its cancellations included, and iOS, which keeps the gesture itself.    *)
THEOREM SystemsGestures == SystemsSpec => []GestureHasFingers
<1>1. SystemsInv => GestureHasFingers
  BY SystemsAssumption
  DEF SystemsInv, AndroidInv, KodeInv, WinRTInv, IOSInv, Input, Gesture
<1> QED  BY <1>1, SystemsInvariant, PTL

(* Android and OpenKODE cancel nothing, so that every emulated press is    *)
(* answered and the application knows the current touches, whatever else   *)
(* their indices do.                                                       *)
THEOREM CancelFreeSystems ==
    SystemsSpec =>
        [](windowSystem \in {"android", "openkode"} => PressesAnswered /\ TouchViewCurrent)
<1>1. SystemsInv =>
          (windowSystem \in {"android", "openkode"} => PressesAnswered /\ TouchViewCurrent)
  BY DEF SystemsInv, AndroidInv, KodeInv, Input, Pressing
<1> QED  BY <1>1, SystemsInvariant, PTL
=============================================================================
