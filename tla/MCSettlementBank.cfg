\* A sale invoice and a purchase bill, a customer's and a supplier's payment,
\* a gateway that settles into a cash account.
SPECIFICATION Spec
CONSTANTS
  i1 = i1  i2 = i2  p1 = p1  p2 = p2  p3 = p3  n1 = n1  n2 = n2  gw = gw  cash = cash
  Invoices = {i1, i2}
  Purchases = {i2}
  Payments = {p1, p2}
  SupplierPaid = {p2}
  Notes = {}
  Accounts = {gw, cash}
  Gateways = {gw}
  SettlesInto <- GatewayToCash
  Fee = 1
  Amounts = {2}
  Discounts = {0}
  TaxAmounts = {0, 1}
  Totals = {3}
  NoInvoice = NoInvoice
  NoAccount = NoAccount
  Uses = {}
INVARIANTS
  BankPosting
  BalanceReconciles
PROPERTIES
  DepositedTaxIsFrozen
CHECK_DEADLOCK FALSE
