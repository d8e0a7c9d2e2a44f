--------------------------- MODULE OpenKODETouch ---------------------------
(***************************************************************************)
(* Touch input on OpenKODE: every finger has a slot of the touch device,   *)
(* and its index among the touches is the number of lower slots in use.  A *)
(* position is the slot of the finger there.                               *)
(***************************************************************************)
EXTENDS WindowInput

ASSUME SlotsAssumption == Positions \subseteq Nat

VARIABLE kdTouches   \* slots in use (KD_INPUT_POINTER_SELECT)

KodeInit == kdTouches = {}

(* _getAprilTouchIndex().                                                  *)
TouchIndexFromOne(used, slot) == Cardinality({j \in used : j <= slot})
TouchIndex(used, slot) == Cardinality({j \in used : j <= slot}) - 1

(* _processEvent(): the mode is set with every event, and the cursor       *)
(* follows the first slot without waiting for the frame.                   *)
Pointer(type, used, slot) ==
    /\ LET index == TouchIndex(used, slot) IN
       Report(IF index >= 0 THEN <<TouchCall(type, slot, index)>> ELSE <<>>)
    /\ inputMode' = "touch"
    /\ cursor' = IF slot = 0 THEN slot ELSE cursor

SelectDown(slot) ==
    /\ slot \notin kdTouches
    /\ kdTouches' = kdTouches \cup {slot}
    /\ Pointer("down", kdTouches', slot)

SelectUp(slot) ==
    /\ slot \in kdTouches
    /\ kdTouches' = kdTouches \ {slot}
    /\ Pointer("up", kdTouches, slot)

PointerMoves(slot) ==
    /\ slot \in kdTouches
    /\ Pointer("move", kdTouches, slot)
    /\ UNCHANGED kdTouches

KodeNext ==
    \/ \E slot \in Positions :
          SelectDown(slot) \/ SelectUp(slot) \/ PointerMoves(slot)
    \/ QueueTouchEvent /\ UNCHANGED <<cursorVars, kdTouches>>
    \/ Frame /\ UNCHANGED kdTouches

-----------------------------------------------------------------------------
(* Although a finger that goes down in a slot below one in use is not      *)
(* added to the touches, and the indices of later events are off by one    *)
(* from then on, no touch is left when the last finger has gone up.        *)
NoTouchWithoutSlot ==
    calls = <<>> => Len(touches) <= Cardinality(kdTouches)
=============================================================================
