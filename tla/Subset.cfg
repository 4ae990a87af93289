SPECIFICATION Spec
CONSTANTS
  customers = customers
  orders = orders
  products = products
  None = None
  Tables = {customers, orders, products}
  Root = customers
  Requests <- MCRequests
  Ids = {i1, i2}
  MaxDepth = 5
  MaxRows = 3
  MaxRuns = 2
INVARIANTS
  QueriesAreTheSubset
PROPERTIES
  NothingDangles
SYMMETRY Symmetry
\* The runs are bounded.
CHECK_DEADLOCK FALSE
