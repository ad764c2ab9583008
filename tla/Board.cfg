SPECIFICATION BoundedSpec
CONSTANTS
  None = None
  p1 = p1
  p2 = p2
  p3 = p3
  c1 = c1
  x1 = x1
  x2 = x2
  MaxHistory = 2
  Preset = {p1, p2, p3}
  Seeded = {p1, p2}
  Card = {c1}
  MaxClicks = 3
  Asset <- TwoAssets
  Hospital <- OneHospital
  Substation <- OneSubstation
  Shapes <- TwoShapes
CHECK_DEADLOCK FALSE
INVARIANTS
  TypeOK
  MapMatchesTimeline
  PauseReachesEveryTimer
  SavedIsOfTheRerun
  NarrationIsOfItsPreset
  PanelsTellOneMoment
PROPERTIES
  NoRunComesBack
  LoadingStaysBacked
  BaselineIsKept
  DemoComesToRest
  PlayingKeepsTimer
