CONSTANTS
  alice = alice
  alice0 = alice0
  bob = bob
  carol = carol
  Account = {alice, alice0, bob, carol}
  KeyOf <- MCKeyOf
  MaxTokens = 4
SPECIFICATION Spec
INVARIANTS TypeOK Conservation NoZeroEntry OneEntryPerAccount NoOverflow
PROPERTY ImplementsBank
