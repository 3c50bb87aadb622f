CONSTANTS
  minter = minter
  alice = alice
  zero = zero
  sub = sub
  noMemo = noMemo
  None = None
  NoSubaccount = None
  DefaultSubaccount = zero
  Subaccount = {zero, sub}
  Principal = {minter, alice}
  TrimmedMemo = TrimmedMemo
  Memo <- MCMemo
  Account <- WrittenAccount
  KeyOf <- MCKeyOf
  MaxTokens = 8
  InitArgs <- MCInitArgs
  Request <- MCRequest
  Transaction <- MCTransaction
  Order <- MCOrder
  OtherRequest <- MCOtherRequest
  ClockError <- MCClockError
  LastOrder = 1
  TransactionWindow = 1
  PermittedDrift = 1
  Second = 1
  MaxTransactionsInWindow = 2
  MaxTransactionsToPurge = 1
  MaxNumberOfAccounts = 1
  AccountsOverflowTrimQuantity = 1
  StartTime = 1
  MaxNow = 5
  MaxTimeStamp = 8
  MaxBlocks = 20
SPECIFICATION ClientSpec
INVARIANT PaidMeansItsBlock
PROPERTIES SettledForGood EveryOrderSettles
CHECK_DEADLOCK FALSE
