SPECIFICATION Spec
CONSTANTS
  Mints = {m1, m2}
  Wallet = wallet
  MaxItems = 3
  Transactions <- MCTransactions
  MaxChain = 3
INVARIANTS
  TypeOK
  FilesAreOfMovements
  LossWasReported
PROPERTY RowsAreKept
SYMMETRY Symmetry
