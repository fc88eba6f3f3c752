SPECIFICATION CSpec
CONSTANTS
  Calls = {d1, d2}
  NoCall = NoCall
  Ids = {i1, i2}
  NoId = NoId
  Conns = {c1, c2}
  NoConn = NoConn
  Forwards = {f1, f2}
  Tokens = {1}
  NoToken = NoToken
  NoTool = NoTool
  Schemas <- NotebookSchemas
  Blank = Blank
  Code = Code
  Shapes <- AnswerShapes
  Inside <- NestedIn
SYMMETRY Symmetry
INVARIANTS
  OneCallAtATime ErrorMeansNotRun VerifiedCellRun CompletedRan
  NoCrossTalk NothingLeftBehind
  PlanIsExact NothingNeedless LookupExact CountExact NoGuessedCell
PROPERTIES ProgressReachesCaller ImplementsUnassign
CHECK_DEADLOCK FALSE
