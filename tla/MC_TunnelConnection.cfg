CONSTANTS
    self = self  peer = peer  other = other  svcA = svcA  svcB = svcB  ext = ext
    w1 = w1  w2 = w2
    Zero = Zero  NoLink = NoLink  NoOne = NoOne  None = None  NoRange = NoRange  Short = Short  Pending = Pending  HsError = HsError
    Addr <- MCAddr
    Self <- self
    MeshNet <- MCMeshNet
    LocalNets <- MCLocal
    Links <- MCLinks
    HelloCidrs <- MCHelloCidrs
    Packets <- MCPackets
    Writers = {w1, w2}
    MaxIn = 3
    MaxOut = 1
SPECIFICATION Spec
CHECK_DEADLOCK FALSE
INVARIANT TypeOK
INVARIANT OutboundFramed
INVARIANT DeliveredInOrder
PROPERTY EndsAfterPeerEnd
