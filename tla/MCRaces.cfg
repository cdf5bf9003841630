SPECIFICATION FairSpec
CONSTANTS
    i1 = i1  p1 = p1  p2 = p2  p3 = p3  p4 = p4  p5 = p5  n1 = n1  n2 = n2  gw = gw  cash = cash
    c1 = c1  c2 = c2  c3 = c3
    Invoices = {i1}  Purchases = {}  Payments = {p1, p2, p3, p4, p5}  SupplierPaid = {p2}
    Notes = {n1, n2}  Accounts = {cash, gw}  Gateways = {gw}  SettlesInto <- GatewayToCash
    AccountOrder <- CashFirst  Fee = 1  Amounts = {1, 2}  Discounts = {0}  TaxAmounts = {0}
    Totals = {2, 3, 4}  NoInvoice = NoInvoice  NoAccount = NoAccount  Uses = {"onlineWhenSettled"}
    Clients = {c1, c2, c3}  NoClient = NoClient  Scenarios <- AtomicScenarios
INVARIANTS TypeOK
PROPERTIES EachCommitIsOneHandler EveryRequestEnds
CHECK_DEADLOCK FALSE
