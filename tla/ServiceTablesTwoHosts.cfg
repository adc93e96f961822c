CONSTANTS
  c1 = c1  c2 = c2  n1 = n1  n2 = n2  ip1 = ip1  ip2 = ip2
  NoIp = NoIp  NoName = NoName  NoEntry = NoEntry  NoFd = NoFd
  Conns = {c1, c2}
  Ips = {ip1, ip2}
  Ports = {0, 7}
  MaxRequests = 3
  Names = {n1, n2}
  NameRank <- MCRank
  IpOf <- TwoIps
  NamesOf <- TwoNames
  Announce <- ZeroAndPort
  Ops <- TableOps
  Occurs <- EqualNames
SPECIFICATION Spec
CHECK_DEADLOCK FALSE
INVARIANTS RegisteredIsKnown OnlyOwnerUnlists
PROPERTY ActiveRefined
