\* A command line client and one that leaves when it likes, batches of two,
\* a second for the checker and one for the preview against limits of three.
CONSTANTS
  cli = cli
  other = other
  Client = {cli, other}
  Patient = {cli}
  Mode = "http"
  BatchMax = 2
  CheckTime = 1
  FetchTime = 1
  WriteTimeout = 3
  Grace = 3
  Patience = 3
SPECIFICATION FairSpec
INVARIANTS TypeOK SinglesAnswered LostOnlyWhenLate AnswerExact
PROPERTY Exits
\* The program stops.
CHECK_DEADLOCK FALSE
