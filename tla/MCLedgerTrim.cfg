CONSTANTS
  alice = alice
  bob = bob
  carol = carol
  dan = dan
  noMemo = noMemo
  None = None
  TrimmedMemo = TrimmedMemo
  Memo = {noMemo, TrimmedMemo}
  Account = {alice, bob, carol, dan}
  KeyOf <- MCKeyOf
  MaxTokens = 12
  Transaction <- MCTransaction
  TransactionWindow = 2
  PermittedDrift = 1
  Second = 1
  MaxTransactionsInWindow = 100
  MaxTransactionsToPurge = 2
  MaxNumberOfAccounts = 1
  AccountsOverflowTrimQuantity = 2
  StartTime = 1
  MaxNow = 2
  MaxTimeStamp = 14
  MaxBlocks = 7
SPECIFICATION Spec
INVARIANTS TypeOK BalancesMatchChain Conservation ChainLinked StoreBounded AnswersNameTheirBlock OnlyCallersTrap
PROPERTY TrimsThePoorest
