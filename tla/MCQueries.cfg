CONSTANTS
  alice = alice
  bob = bob
  carol = carol
  noMemo = noMemo
  None = None
  TrimmedMemo = TrimmedMemo
  Memo = {noMemo, TrimmedMemo}
  Account = {alice, bob, carol}
  KeyOf <- MCKeyOf
  MaxTokens = 12
  Transaction <- MCTransaction
  TransactionWindow = 2
  PermittedDrift = 1
  Second = 1
  MaxTransactionsInWindow = 100
  MaxTransactionsToPurge = 2
  MaxNumberOfAccounts = 1
  AccountsOverflowTrimQuantity = 1
  StartTime = 1
  MaxNow = 2
  MaxTimeStamp = 14
  MaxBlocks = 5
  Usize = 8
  U64 = 64
  PageSize = 2
SPECIFICATION QuerySpec
INVARIANTS AuditorAgrees AuditorNeverRefused AnswersTheRange
