SPECIFICATION GatewayFairSpec
CONSTANTS
  Request = {r1}
  Half = 128
  Second = 7
  DefaultTtl = 3
  MaxTtl = 12
  MaxRequests = 2
INVARIANTS
  UrlLifetime
PROPERTIES
  SignalEndsGateway
CHECK_DEADLOCK FALSE
