SPECIFICATION Spec
CONSTANTS
  TERM_WIDTH = 3
  TERM_HEIGHT = 3
  GlyphRows = 3
  SCANLINE_WIDTH_BYTES = 6
  SCANLINE_OFFSET_BYTES = 1
  font <- TwoGlyphs
  Newline = 10
  Strings <- SomeStrings
  Garbage = {7}
INVARIANT PictureOfPage
PROPERTY ImplementsTextScreen
