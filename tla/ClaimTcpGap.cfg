SPECIFICATION Spec
CONSTANTS
  Modulus = 12
  GuestIsn = 10
  ProxyIsn = 10
  GuestBytes = 3
  HostBytes = 2
  MaxSegment = 2
  QueueLimit = 3
  MaxLosses = 1
CHECK_DEADLOCK FALSE
INVARIANT GapsNotAcknowledged
