SPECIFICATION Spec
SYMMETRY Symmetry
CONSTANTS
  Item = {i1}
  NoItem = NoItem
  Loan = {l1, l2}
  NoLoan = NoLoan
  Caller = {c1, c2}
  MaxAttempts = 3
  MaxQuantity = 2
  MaxRows = 3
INVARIANTS
  TypeOK
  LedgerIsTheStock
  StockIsConserved
  LoansAddUp
  OutstandingIsReturnable
