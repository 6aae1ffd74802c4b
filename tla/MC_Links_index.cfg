CONSTANTS
    n1 = n1  n2 = n2
    h1 = h1  h2 = h2  h3 = h3
    i1 = i1  i2 = i2  i3 = i3
    a0 = a0  a1 = a1  d0 = d0  d1 = d1
    Nil = Nil
    Names <- MCNames
    Hosts = {h1, h2, h3}
    IPs = {i1, i2}
    Access = {a0, a1}
    ZeroAccess = a0
    DNS = {d0}
    ZeroDNS = d0
SPECIFICATION Spec
SYMMETRY Symmetry
INVARIANT ConvergedIndexComplete
