SPECIFICATION Spec
CONSTANTS
  Datagrams <- MCDatagrams
  MaxVelocity <- MCMaxVelocity
  NoTwist = NoTwist
  NaN = NaN
  NoSetpoint = NoSetpoint
  CtrlTimeoutMs = 2
  DefaultControlTimeoutMs = 2
  HeartbeatMs = 2
  Wrap = 8
  RosConvention = TRUE
  MaxTime = 4
PROPERTY
  LiveTwistIsUsed
CHECK_DEADLOCK TRUE
