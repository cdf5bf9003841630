SPECIFICATION Spec
CONSTANTS
    Total = 2  Links = {l1, l2}  Tabs = {t1}  Staff = {s1, s2}
    Cash = {1}  MaxCrashes = 1  Uses = {}
SYMMETRY Symmetric
INVARIANTS TypeOK SaleUndoneOnce MoneyAnswered NotPayable
CHECK_DEADLOCK FALSE
