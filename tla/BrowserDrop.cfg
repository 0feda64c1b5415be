\* A drop on a table that has been built twice.
SPECIFICATION Spec
CONSTANTS
  Storages = {"sd", "nand"}
  Dirs = {"a", "b"}
  Files = {"f"}
  Parent <- Tree
  Bad = {"b"}
  Null = Null
  Nil = Nil
  MaxClicks = 2
  MaxSessions = 2
  MaxHandlers = 2
PROPERTIES
  OneDropOneUpload
