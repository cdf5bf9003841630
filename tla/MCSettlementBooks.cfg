\* Two invoices, two payments, two notes, no bank accounts.
SPECIFICATION Spec
CONSTANTS
  i1 = i1  i2 = i2  p1 = p1  p2 = p2  p3 = p3  n1 = n1  n2 = n2  gw = gw  cash = cash
  Invoices = {i1, i2}
  Purchases = {}
  Payments = {p1, p2}
  SupplierPaid = {}
  Notes = {n1, n2}
  Accounts = {}
  Gateways = {}
  SettlesInto <- NoGateway
  Fee = 1
  Amounts = {1, 2}
  Discounts = {0, 1}
  TaxAmounts = {0}
  Totals = {2, 3}
  NoInvoice = NoInvoice
  NoAccount = NoAccount
  Uses = {}
SYMMETRY Symmetry
CONSTRAINT NotesOfOneInvoice
INVARIANTS
  TypeOK
  PaidMatchesAllocations
  PaymentStatus
PROPERTIES
  PaymentsFit
CHECK_DEADLOCK FALSE
