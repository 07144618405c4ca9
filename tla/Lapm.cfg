SPECIFICATION Spec
CONSTANTS
  Modulus = 3
  MaxWindow = 2
  FirstWindow = 2
  GuestWindow = 2
  PppUnits = 3
  GuestUnits = 3
  SerialLimit = 2
  WireLimit = 2
  MaxLosses = 1
  MaxSetups = 2
INVARIANTS TypeOK Resendable
PROPERTIES UpLink DownLink UnitsReachPpp UnitsReachGuest
CHECK_DEADLOCK FALSE
