CONSTANTS
  mysqli = mysqli
  curl = curl
  v1 = v1
  v2 = v2
  Names <- MCNames
  Versions <- MCVersions
  First = v1
  None = None
  Template <- MCTemplate
  Missing = Missing
  Empty = Empty
  Garbled = Garbled
  Values <- MCValues
  Slots = {1, 2, 3}
  Calls = {1, 2}
  MaxClicks = 4
SPECIFICATION Spec
INVARIANTS
  TypeOK
  ChoicesKept
  PopupTrue
  VersionKept
CHECK_DEADLOCK FALSE
