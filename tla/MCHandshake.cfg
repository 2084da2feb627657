SPECIFICATION FairSpec
CONSTANTS
  Udp = "udp"  Plain = {"udp"}  Password = {"password"}  Cert = {"cert"}
  ServerMiddleware = {"keep", "fail"}
  ClientMiddleware = {"keep", "creds", "fail", "remove"}
  Lingering = {"client"}  BufferSize = 128  MaxRequired = 1  MaxEager = 2
INVARIANTS TypeOK Agreement Authenticated CredentialsOnRequest FailureExplained NothingLostInDowngrade
PROPERTIES HandshakeEnds NoHalfOpen
CHECK_DEADLOCK FALSE
