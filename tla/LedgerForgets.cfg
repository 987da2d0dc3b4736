SPECIFICATION Spec
CONSTANTS
  Mints = {m1, m2}
  Wallet = wallet
  MaxItems = 3
  Transactions <- MCTransactions
  MaxChain = 2
INVARIANT CompleteMeansWhole
SYMMETRY Symmetry
