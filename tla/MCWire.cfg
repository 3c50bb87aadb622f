CONSTANTS
  None = None
  NoSubaccount = None
  Principal <- MCPrincipal
  Subaccount <- MCSubaccount
  DefaultSubaccount <- MCDefault
  Account <- WrittenAccount
  KeyOf <- MCKeyOf
  MaxTokens = 8
  Byte = {0, 1, 2, 3}
  SubaccountLength = 1
  MaxPrincipalLength = 2
  MaxMemoLength = 2
  Radix = 2
  Utf8 <- MCUtf8
  Block <- MCBlock
SPECIFICATION WireSpec
INVARIANTS DigestIdentifies BlockDigestIdentifies AlwaysHashable DecodesBack
