CONSTANTS
    n1 = n1  n2 = n2  g1 = g1  g2 = g2
    c1 = c1  c2 = c2  p = p  e1 = e1  e2 = e2  e3 = e3
    Dev = Dev  None = None
    Names <- MCNames
    Nodes <- MCNodes
    Addr <- MCAddr
    ServiceNets <- MCService
    EgressNets <- MCEgress
    ClusterIP <- MCClusterIP
    ClusterNet <- MCClusterNet
SPECIFICATION Spec
INVARIANT TypeOK
INVARIANT EgressRoutedToItsLink
