SPECIFICATION FairSpec
CONSTANTS
    r1 = r1
    r2 = r2
    Request = {r1, r2}
    Limit = 1
 
PROPERTIES OneResponse PromiseSpec CallReturns
