SPECIFICATION Spec
CONSTANTS
  PowersOfTwo = {1, 2, 4, 8, 16}
  MaxTxs = 9
  Heights <- MCHeights
  Nonces <- MCNonces
  Prefix <- MCPrefix
  Rest <- MCRest
  Suffix <- MCSuffix
  ExtraNonce2 <- MCNonce2
INVARIANTS
  BranchGivesRoot
