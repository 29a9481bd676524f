SPECIFICATION MCSpec
CONSTANTS
  Apps = {"a", "b"}
  Screen = 3
  MinSize = 2
  Corner = 1
  Monitors <- MCMonitors
  FirstRect <- MCFirstRect
  Stretch = FALSE
INVARIANTS
  WindowsInside
  DesktopIsKept
  DevicesAreSound
PROPERTY FinalsAreKept
