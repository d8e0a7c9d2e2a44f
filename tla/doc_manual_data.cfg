\* Textures created from data on DirectX 11.
CONSTANTS
    Width = 3
    Colors = {"red", "blue"}
    FilePixel = "file"
    Clear = "clear"
    Unknown = "unknown"
    NoData = NoData
    RenderSystems = {"dx11"}
    Types = {"managed", "immutable", "volatile"}
SPECIFICATION Spec
INVARIANT ManualDataCopied
