SPECIFICATION FairSpec
CONSTANTS
  MaxCalls = 4
  QueueLimit = 2
  MaxCommands = 2
INVARIANTS TypeOK OutcomeIsTrue RunsOnce ChallengeKept UnknownIsKept
PROPERTIES IssuesOnce BusyReleased
CHECK_DEADLOCK FALSE
