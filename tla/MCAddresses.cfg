CONSTANTS
  Clients = {r1, r2}
  Servers = {s1}
  Users = {u1}
  Keys = {k1, k2, k3, k4}
  MaxAbandoned = 1
  Nobody = Nobody
  NoKey = NoKey
  Null = Null
  c1 = c1
  c2 = c2
  AddressBits = 3
  Ips <- MCIps
  Subnet <- MCSubnet
  ServerAddress = 1
  DeviceLimit = 1
  MaxPeers = 2
  Country <- OneCountry
  AllowedCountries = {}
  Faults = {}
  Events = {}
  Pools <- MCPools
  Reserved <- MCReserved
  WidestRoute = 4
SPECIFICATION AddressesSpec
CHECK_DEADLOCK FALSE
SYMMETRY Symmetry
INVARIANTS
  DeviceLimitExcess
  RevokedOffNode
  LoopCorrect
  CapacityExact
  AggregateMinimal
  ExcludeExact
