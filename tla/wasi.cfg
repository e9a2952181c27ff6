\* The WASI calls, one after the other, with every step failing or not.
CONSTANTS
  Root = "base"
  Outside <- MCOutside
  FileSystems <- MCFileSystems
  Paths <- MCPaths
  MaxDirs = 3
  MaxPaths = 2
  MaxExpansions = 3
  MaxChanges = 2
  Subscriptions <- MCSubscriptions
  DirSize = 3
  EntrySize = 2
  Rooms <- MCRooms
SPECIFICATION Spec
INVARIANTS Owned RightExercised ErrorReported PollAnswers ListingInOrder Inside
PROPERTIES RefinesResolution CallReturns
CHECK_DEADLOCK FALSE
