SPECIFICATION FairTabSpec
CONSTANTS
  Required = {"requests"}
  Optional = {"notifications"}
  MaxRevision = 2
  MaxVersion = 1
  MaxPages = 3
  NoAnswer = NoAnswer
  Transactions = {t1}
  NoTransaction = NoTransaction
INVARIANTS TabTypeOK NothingWithoutAuthority SelectionSentOnce
PROPERTIES ContextNeverBack LeavesLoading WaitingEnds
CHECK_DEADLOCK FALSE
