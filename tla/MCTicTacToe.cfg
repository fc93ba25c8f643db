\* One request, a game and the root, and players elsewhere.
SPECIFICATION FairSpec
CONSTANTS
  t1 = t1
  Threads = {t1}
  Paths <- ThePaths
  Verbs = {"GET", "POST", "PATCH", "DELETE", "OPTIONS", "TRACE"}
  Cells <- TheCells
  Rows <- TheRows
  Games = {"a"}
  Failures = {"Unavailable"}
INVARIANTS
  AnswerTellsTheWrite
  ViewIsOfTheGame
PROPERTIES
  EveryRequestEnds
