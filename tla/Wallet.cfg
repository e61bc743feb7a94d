SPECIFICATION Spec
CONSTANTS
    w1 = w1  w2 = w2
    k1 = k1  o1 = o1
    Workers = {w1, w2}
    Users = {alice, bob}
    NoUser = nobody
    Codes = {k1}
    Orders = {o1}
    NoVoucher = none
    Worth <- Amounts
    Dialects = {"sqlite", "postgres"}
    Balances = {0}
    MaxAdjust = 1
SYMMETRY WorkerSymmetry
INVARIANT TypeOK
INVARIANT CodeCreditedOnce
INVARIANT BalanceHoldsTheVouchers
PROPERTY RedemptionIsAtomic
