CONSTANTS
    Panic = Panic  None = None
    Bytes = {0, 1, 127, 128, 255}
    PrefixLens = {0, 7, 8, 9, 24, 31, 32}
    Offsets = {0, 1, 10, 256}
    Lengths = {0, 1, 255, 256, 16999, 17000, 17001, 65535, 65536}
    Types = {0, 1, 255}
    BufferSize = 17000
    CIDRTexts = {"10.1.0.5/24", "10.1.0.7/24", "10.1.1.1/16"}
    ParsedCIDR <- MCParsedCIDR
    LinkNames = {"a", "b"}
    ExplicitDNSIP = ExplicitDNSIP
    CLUSTER_DNS_IP = 10
    PortNames = {"wireguard", "bridge", "metrics"}
    AddrTexts = {"10.0.0.1", "bad"}
SPECIFICATION Spec
INVARIANT FrameRoundTrip
INVARIANT SubIPIsOffset
INVARIANT CIDRNetIsNetwork
INVARIANT ServedAsSpecified
INVARIANT EndpointsOfPortedSubsets
