SPECIFICATION FairSpec
CONSTANTS
  Datagrams <- MCDatagrams
  MaxVelocity <- MCMaxVelocity
  NoTwist = NoTwist
  NaN = NaN
  NoSetpoint = NoSetpoint
  CtrlTimeoutMs = 1
  DefaultControlTimeoutMs = 2
  HeartbeatMs = 2
  Wrap = 8
  RosConvention = TRUE
  MaxTime = 6
PROPERTIES
  ImplementsWatchdog
  ExpiredEventuallyNull
  SetpointsKeepFlowing
CHECK_DEADLOCK TRUE
