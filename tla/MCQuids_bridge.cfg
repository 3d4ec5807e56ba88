CONSTANTS
  Chains = {c1, c2}
  Accounts = {alice, bob}
  Zero = zero
  Signatures = {s1, s2, forged}
  Valid = {s1, s2}
  Amounts = {1}
  MaxTransfers = 2
SPECIFICATION Spec
INVARIANTS MintedAtMostOnce RefusedOnlyIfMinted BridgeConserves
PROPERTY SupplyGrowsBySignature
SYMMETRY Symmetry
