\* A gateway and two accounts it may settle into, an expense, a payment, one entry by hand.
SPECIFICATION Spec
CONSTANTS
    cash = cash  bank = bank
    Accounts = {gw, cash, bank}  Gateways = {gw}  Opened = {gw}
    Expenses = {x1}  Payments = {p1}  Entries = {e1}
    Amounts = {1, 2}  Taxes = {0, 1}  Fees = {1}  Openings = {1}
    NoAccount = NoAccount  Uses = {}
SYMMETRY Symmetric
CONSTRAINT HandOrExpense
INVARIANTS TypeOK  BalanceReconciles
CHECK_DEADLOCK FALSE
