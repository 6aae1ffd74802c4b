CONSTANTS
    n1 = n1  n2 = n2  h1 = h1  h2 = h2  i1 = i1  i2 = i2
    NoLink = NoLink
    Names = {n1, n2}
    Hosts = {h1, h2}
    IPs = {i1, i2}
    HelloAt <- MCHelloAt
    MaxChanges = 4
SPECIFICATION Spec
CHECK_DEADLOCK FALSE
INVARIANT TypeOK
PROPERTY EventuallyConnected
