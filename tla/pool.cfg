SPECIFICATION Spec
CONSTANTS
  Threads = {t1, t2, t3}
  MinConnections = 3
  NoConn = NoConn
INVARIANTS NoSharedLease ReleaseNeverThrows OneLeft
PROPERTY SomeoneServed
CHECK_DEADLOCK FALSE
