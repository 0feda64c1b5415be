\* Names of every length around the largest count, datasets cut at every byte.
SPECIFICATION Spec
CONSTANTS
  CountCap = 4
  HDR = 12
  MaxPkt = 8
  Names <- LocalNames
  Natives <- DeviceNames
  Texts <- Strings
  Strays <- Bytes
  Ends <- Cuts
  MaxElems = 2
INVARIANTS
  TypeOK
  IntactFieldsAreRight
  NameSurvives
  ShownIsText
  PropListEnds
\* The dataset has been read.
CHECK_DEADLOCK FALSE
