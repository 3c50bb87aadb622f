CONSTANTS
  Account = {a1, a2, a3, a4, a5}
  KeyOf <- MCKeyOf
  MaxTokens = 3
  Stores <- MCStores
  AccountsOverflowTrimQuantity = 2
SPECIFICATION LoopSpec
INVARIANT SelectsThePoorest
CHECK_DEADLOCK FALSE
