\* Three fingers on Android, OpenKODE and iOS, two and the mouse on WinRT.
CONSTANTS
    Positions = {0, 1, 2}
    Hidden = 1000
    MaxIndex = 2
    MaxEvents = 3
    PointerCancels = TRUE
    MaxRunnables = 2
    Mouse = 2
    MouseButtons = {"right"}
    Systems = {"android", "openkode", "winrt", "ios"}
SPECIFICATION SystemsSpec
INVARIANTS
    GestureHasFingers
    AndroidKeepsFingers OpenKODEKeepsSlots WinRTIndicesAgree WinRTFocusLetsGo
    IOSGroupsAnswered IOSFingersKnown
