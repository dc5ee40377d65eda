\* Two builds, one edit, one kill or lost image.
SPECIFICATION BuildSpec
CONSTANTS
  None = None
  Names = {"a", "b"}
  BaseName = "base"
  Trees <- TheTrees
  UserIgnores <- TheIgnores
  Header <- TheHeader
  Requests <- TheRequests
  Etags = {1, 2}
  CodeFiles <- TheCode
  LargeFiles <- TheLarge
  NonModel = {}
  Longer <- TheLonger
  MaxBuilds = 2
  MaxEdits = 1
  MaxFaults = 1
INVARIANTS
  UserPatternsSurvive
  BuildCleansUp
  LeftoversAreTrue
  LabelsDescribeImage
PROPERTIES
  CodeLayerHonoursIgnore
CHECK_DEADLOCK FALSE
