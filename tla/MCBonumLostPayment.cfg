SPECIFICATION FairSpec
CONSTANTS
    i1 = i1
    i2 = i2
    t1 = t1
    t2 = t2
    t3 = t3
    t4 = t4
    Handler = {h1}
    Invoice = {i1}
    Txn = {t1}
    Webhook <- OnePayment
    Free = Free
    Other = Other
    None = None
    MaxCrash = 0
    MaxFailure = 0
    MaxLapse = 0
PROPERTIES
    PaymentIsCredited
