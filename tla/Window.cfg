SPECIFICATION Spec
CONSTANTS
  XDim = 8
  YDim = 2
  Extra = 4
  Speed = 1
  Rooms = {"hall", "yard"}
  Width <- MCWidth
  Height <- MCHeight
  Objects = {"board", "jetpack"}
  ImgWidth <- MCImgWidth
  ImgHeight <- MCImgHeight
  Transparent = 64
  File <- MCFile
  Spots <- MCSpots
  Fence = 4
INVARIANTS
  FencesHold
  UpToDate
PROPERTIES
  Whole
