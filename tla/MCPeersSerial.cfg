CONSTANTS
  Clients = {r1}
  Servers = {s1, s2}
  Users = {u1}
  Keys = {k1, k2, k3}
  MaxAbandoned = 0
  Nobody = Nobody
  NoKey = NoKey
  Null = Null
  c1 = c1
  c2 = c2
  AddressBits = 3
  Ips <- MCIps
  Subnet <- MCSubnet
  ServerAddress = 1
  DeviceLimit = 3
  MaxPeers = 2
  Country <- OneCountry
  AllowedCountries = {}
  Faults = {"lostCall", "wgSetFails", "saveFails"}
  Events = {"expire", "serverDown", "serverDeleted", "adminDelete"}
SPECIFICATION Spec
CHECK_DEADLOCK FALSE
SYMMETRY KeySymmetry
INVARIANTS
  ActivePeersRouted
  InsertAccepted
