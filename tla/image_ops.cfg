SPECIFICATION Spec
CONSTANTS
  Width = 3
  Height = 2
  ImageFormats = {"RGBA", "ARGB", "BGRX", "XBGR", "RGB", "BGR", "ALPHA", "GRAYSCALE"}
  SourceWidth = 3
  SourceHeight = 2
  SourceFormats = {"RGBX", "ABGR", "RGB", "ALPHA", "GRAYSCALE"}
  Content <- MCContent
  SourceBytes <- MCSourceBytes
  Colors <- MCColors
  Spots <- MCSpots
  Extents = {0, 1, 2, 3}
  Copies <- MCCopies
  Stretches <- MCStretches
  Alphas = {0, 100, 255}
  MaxCalls = 1
INVARIANTS
  PaintsAsked
  StaysInside
CHECK_DEADLOCK FALSE
