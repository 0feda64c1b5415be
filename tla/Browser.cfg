\* Two sessions, two clicks or keys of the user at any moment, Escape and the path.
SPECIFICATION FairSpec
CONSTANTS
  Storages = {"sd", "nand"}
  Dirs = {"a", "b"}
  Files = {"f"}
  Parent <- Tree
  Bad = {"b"}
  Null = Null
  Nil = Nil
  MaxClicks = 2
  MaxSessions = 2
  MaxHandlers = 1
INVARIANTS
  TypeOK
  PanelShowsItsPath
  PathIsOfTheTree
  RowsAreTheFiles
PROPERTIES
  DeletesAreOnScreen
  PageCatchesUp
