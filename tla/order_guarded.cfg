SPECIFICATION FairSpec
CONSTANTS
  Workers = {"web", "staff", "cron"}
  OpsOf <- Guarded
  Crowding = TRUE
  Methods = {"card", "cash"}
  Starts = {"placed", "scheduled"}
  PayWindow = 3
  MaxAge = 2
INVARIANTS
  TypeOK
  CapturedMoneyAccounted
  CancelledMoneyReturned
  EscalationReversible
PROPERTIES
  TerminalIsFinal
  RefundNotErased
  PaidOrderAnswered
CHECK_DEADLOCK FALSE
