CONSTANTS
    n1 = n1  n2 = n2  c1 = c1  c2 = c2  s1 = s1  s2 = s2  x = x
    None = None  NoRange = NoRange
    Names <- MCNames
    Addr <- MCAddr
    LinkIP <- MCLinkIP
    IngressLists <- MCIngress
SPECIFICATION Spec
INVARIANT TypeOK
INVARIANT AllowListMarkMatchesSpec
