CONSTANTS
  alice = alice
  alice0 = alice0
  noMemo = noMemo
  None = None
  TrimmedMemo = TrimmedMemo
  Memo = {noMemo, TrimmedMemo}
  Account = {alice, alice0}
  KeyOf <- MCKeyOf
  MaxTokens = 3
  Transaction <- MCTransaction
  TransactionWindow = 2
  PermittedDrift = 1
  Second = 1
  MaxTransactionsInWindow = 100
  MaxTransactionsToPurge = 1
  MaxNumberOfAccounts = 10
  AccountsOverflowTrimQuantity = 2
  StartTime = 1
  MaxNow = 9
  MaxTimeStamp = 14
  MaxBlocks = 3
SPECIFICATION Spec
INVARIANTS NoDoubleExecution RememberedWhileAcceptable TablesAgree OnlyCallersTrap
PROPERTIES NoGrowthWhileStale NeverForgets
