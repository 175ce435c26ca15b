CONSTANTS
  ExtTs = 4
  TsMod = 8
  MinChunk = 2
  BufSize = 4
  SeqLimit = 1000
  Cids = {2, 3, 4}
  FourBytes <- MCFourBytes
  Kinds <- MCKinds
  SrvKinds <- MCSrvKinds
  MaxIn = 3
  MaxOut = 2
  NetCap = 22
  Styles = {"every", "first"}
SPECIFICATION Spec
 
PROPERTIES PeerToServer ServerToPeer
CHECK_DEADLOCK FALSE
