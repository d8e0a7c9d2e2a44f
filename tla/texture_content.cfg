\* Three pixels: a range may be inside, at either end, all of them or stick out.
CONSTANTS
    Width = 3
    Colors = {"red", "blue"}
    FilePixel = "file"
    Clear = "clear"
    Unknown = "unknown"
    NoData = NoData
    RenderSystems = {"gl", "dx9", "dx11"}
    Types = {"managed", "immutable", "volatile"}
SPECIFICATION Spec
INVARIANTS ShownIsContent ContentSurvives DirtyWhileLocked
