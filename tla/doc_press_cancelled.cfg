\* Two fingers and the mouse on WinRT.
CONSTANTS
    Positions = {0, 1, 2}
    Hidden = 1000
    MaxIndex = 2
    MaxEvents = 3
    PointerCancels = TRUE
    MaxRunnables = 2
    Mouse = 2
    MouseButtons = {"right"}
    Systems = {"winrt"}
SPECIFICATION SystemsSpec
INVARIANT CancelledPressEnds
