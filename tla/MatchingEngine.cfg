\* Limit orders, market orders and cancellations on a small book.
CONSTANTS
  Ids <- MCIds
  MaxPrice = 1
  MaxQty = 2
  Nil = Nil
SPECIFICATION MCSpec
INVARIANTS BookConsistent SnapshotMatchesLedger
PROPERTIES ImplementsPriceTimeBook EventCompletes
