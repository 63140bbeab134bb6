\* Two requests reserve, for the same order or customer or not.
CONSTANTS
    r1 = r1
    r2 = r2
    r3 = r3
    o1 = o1
    o2 = o2
    o3 = o3
    ann = ann
    bob = bob
    NoOne = NoOne
    NoLimit = NoLimit
    Requests = {r1, r2}
    Orders = {o1, o2, o3}
    Customers = {ann, bob}
    CustomerOf <- MCCustomerOf
    Limits = {1, 2}
SPECIFICATION FairSpec
INVARIANTS TypeOK
PROPERTIES TermsHonoured KeepsPromise RequestsAnswered
