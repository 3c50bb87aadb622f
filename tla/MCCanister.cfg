CONSTANTS
  minter = minter
  alice = alice
  zero = zero
  sub = sub
  noMemo = noMemo
  None = None
  NoSubaccount = None
  DefaultSubaccount = zero
  Subaccount = {zero, sub}
  Principal = {minter, alice}
  TrimmedMemo = TrimmedMemo
  Memo <- MCMemo
  Account <- WrittenAccount
  KeyOf <- MCKeyOf
  MaxTokens = 8
  InitArgs <- MCInitArgs
  Request <- MCRequest
  Transaction <- MCTransaction
  TransactionWindow = 2
  PermittedDrift = 1
  Second = 1
  MaxTransactionsInWindow = 10
  MaxTransactionsToPurge = 2
  MaxNumberOfAccounts = 2
  AccountsOverflowTrimQuantity = 1
  StartTime = 1
  MaxNow = 5
  MaxTimeStamp = 11
  MaxBlocks = 4
SPECIFICATION CanisterSpec
INVARIANT OncePerRequest
PROPERTIES IsALedger RepeatsAreRecognised PaysWhatWasAgreed MintingBalanceNeverGrows SmallBurnsDrain InstalledInFull
CHECK_DEADLOCK FALSE
