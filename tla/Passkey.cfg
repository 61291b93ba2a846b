SPECIFICATION PasskeySpec
CONSTANTS
  d1 = d1
  d2 = d2
  p1 = p1
  p2 = p2
  p3 = p3
  Devices <- MCDevices
  Procs <- MCProcs
  DeviceOf <- MCDeviceOf
  Free = Free
  MaxCounter = 3
  Budget = 3
SYMMETRY MCSymmetry
INVARIANT CountersAreReserved
PROPERTY SignedInOrder
CHECK_DEADLOCK FALSE
