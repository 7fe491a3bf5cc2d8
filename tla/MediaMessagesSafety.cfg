CONSTANTS
  Contents <- OneContent
  TextNames <- OneText
  OtherNames <- OneOther
  Urls <- OneUrl
  MaxTracks = 2
  MaxImages = 1
  MaxItems = 1
  None = None
SPECIFICATION Spec
CHECK_DEADLOCK FALSE
INVARIANTS
  OwnMediaComeBack
  OnlyTextIsSentAsText
PROPERTIES
  OwnMediaAreReadable
