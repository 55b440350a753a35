CONSTANTS
  Clients = {r1, r2}
  Servers = {s1}
  Users = {u1}
  Keys = {k1, k2}
  MaxAbandoned = 1
  Nobody = Nobody
  NoKey = NoKey
  Null = Null
  c1 = c1
  c2 = c2
  AddressBits = 3
  Ips <- MCIps
  Subnet <- MCSubnet
  ServerAddress = 1
  DeviceLimit = 1
  MaxPeers = 2
  Country <- OneCountry
  AllowedCountries = {}
  Faults = {"lostCall", "wgSetFails", "saveFails", "wgRestart", "reinstall"}
  Events = {"timeout", "panelCrash"}
SPECIFICATION Spec
CHECK_DEADLOCK FALSE
SYMMETRY Symmetry
INVARIANTS
  RecreateStoresFirst
  RouteMatchesRow
  AddressHeldIffActive
PROPERTY
  KeepsLedger
