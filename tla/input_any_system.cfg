\* Any sequence of touch, move, scroll and mode calls without pointer cancels.
CONSTANTS

    Positions = {p1, p2}
    Hidden = Hidden
    MaxIndex = 2
    MaxEvents = 3
    PointerCancels = FALSE
SPECIFICATION Spec
INVARIANTS
    PressesAnswered TouchViewCurrent ScrollComplete
SYMMETRY PositionSymmetry
