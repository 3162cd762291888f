SPECIFICATION Spec
CONSTANTS
  Sizes <- MCSizes
  Desktop <- MCDesktop
  minimumDimension = 2
  Regions <- MCRegions
  Lengths <- MCLengths
  Coordinates <- MCCoordinates
  NoRegion = NoRegion
  NoSize = NoSize
  MaxActs = 6
PROPERTIES
  RatioRemembered
  PictureStaysInside
CHECK_DEADLOCK FALSE
