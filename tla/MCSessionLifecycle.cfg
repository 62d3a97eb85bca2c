\* Two processes of different programs, a linked path, two sessions of two
\* turns in all, arcs of two sessions.
SPECIFICATION Spec
CONSTANTS
  new = new
  old = old
  Procs = {new, old}
  NoProc = NoProc
  Db = Db
  Alias = Alias
  Dangling = FALSE
  Given <- MCGiven
  Build <- MCBuild
  MaxBuild = 2
  MaxTurns = 2
  MaxSessions = 2
  Threshold = 2
INVARIANTS TypeOK LockSound SchemaSound ClosedWhole ArcsAccount CheckpointsHonest
PROPERTIES StaysSettled CloseEnds
