SPECIFICATION Spec
CONSTANTS
  Env <- MCEnv
  NoVar = NoVar
  Urls <- MCUrls
  Default <- MCDefault
  NoConfig = NoConfig
  Controllers = {"c1", "c2"}
  Documents <- MCDocuments
  Gone = Gone
  MaxEdits = 2
  MaxStarts = 2
PROPERTIES
  ChangesApplied
  PollersEnd
\* The watcher may stay stopped.
CHECK_DEADLOCK FALSE
