\* Two textures, one of them on a larger surface, as many names; two activities.
CONSTANTS
    Textures = {"t", "u"}
    Names <- MCNames
    Scaled = {"t"}
    Kinds = {"modelview", "projection"}
    Arrays = {"textureCoordinates", "color"}
    Parameters = {"blend", "depth"}
    Matrices = {"I", "A"}
    Identity = "I"
    NoTexture = "none"
    Targets = {"t", "u"}
    Views = {"v", "w"}
    OtherMatrices = {"I", "A"}
    WholeTarget = "whole"
    NoTarget = "none"
    Activities = {"a", "b"}
    MaxQueue = 3
    MaxContexts = 3
    MaxFocusEvents = 3
SPECIFICATION DeviceSpec
INVARIANTS
    TypeOK
    CacheAgrees
    DeviceAsAsked ResetsHoldNothing
    TexturesOfContext FocusSettles NoFrameWhileDestroyed
    OneThreadInApplication ToldOfFocus MacWaitsOnlyForBox
PROPERTY DrawsAsRequested
\* A process exits, a device may end the program, threads of a Mac may wait for
\* each other when a message box is shown.
CHECK_DEADLOCK FALSE
