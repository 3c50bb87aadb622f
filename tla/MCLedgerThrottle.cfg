CONSTANTS
  alice = alice
  CallerMemo = {m1, m2, m3, m4, m5}
  CreatedAt = {6}
  None = None
  TrimmedMemo = TrimmedMemo
  Memo <- MCMemo
  Account = {alice}
  KeyOf <- MCKeyOf
  MaxTokens = 1
  Transaction <- MCTransaction
  TransactionWindow = 4
  PermittedDrift = 4
  Second = 2
  MaxTransactionsInWindow = 4
  MaxTransactionsToPurge = 2
  MaxNumberOfAccounts = 10
  AccountsOverflowTrimQuantity = 2
  StartTime = 2
  MaxNow = 9
  MaxTimeStamp = 19
  MaxBlocks = 5
SYMMETRY MCSymmetry
SPECIFICATION Spec
INVARIANTS ThrottledShare ThrottledOnlyWhenBusy
