SPECIFICATION Spec
CONSTANTS
  list = list
  create = create
  Rules = {list, create}
  Pattern <- OnePattern
  Scope <- UserThenToken
  Keyer <- TenantFirst
  Limit <- Limits
  Window <- Windows
  Clients = {1, 2}
  Cred <- Creds
  Milli = 2
  Second = 2
  FailOpen = FALSE
  MaxTime = 6
  MaxCount = 2
CHECK_DEADLOCK FALSE
INVARIANTS TwiceInAnyInterval DecidedByOwnRequests RetryCoversWindow
