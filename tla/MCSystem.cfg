CONSTANTS
  Null = Null
  u1 = u1
  u2 = u2
  p1 = p1
  p2 = p2
  Users = {u1, u2}
  Payments = {p1, p2}
  Payer <- MCPayer
  Bodies <- MCBodies
  Subs = {s1, s2}
  Callers = {h1}
  Days = 1
  Prompt = FALSE
  MaxTime = 1
  MaxGrants = 1
  Events = {"crash"}
  Clients = {r1}
  Servers = {n1}
  Keys = {k1}
  MaxAbandoned = 2
  Nobody = Nobody
  NoKey = NoKey
  c1 = c1
  AddressBits = 3
  Ips <- MCIps
  Subnet <- MCSubnet
  ServerAddress = 1
  DeviceLimit = 1
  MaxPeers = 1
  Country <- OneCountry
  AllowedCountries = {}
  Faults = {}
  PeerEvents = {"timeout", "panelCrash", "expire", "serverDeleted"}
  MaxEnds = 1
SPECIFICATION FairSystemSpec
CHECK_DEADLOCK FALSE
INVARIANT
  ServiceIsPaidFor
PROPERTIES
  RequestsEnd
  RemovalCompletes
