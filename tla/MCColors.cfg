SPECIFICATION ColorsSpec
CONSTANTS
  Palette <- MCPalette
  Whites = {0, 255}
  Temperatures <- MCTemperatures
  Ratios <- MCRatios
  BlackBody <- MCBlackBody
INVARIANTS ConvertsAsSetUp ColorsSurvive
