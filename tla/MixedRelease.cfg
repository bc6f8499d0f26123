SPECIFICATION ReleaseSpec
CONSTANTS
  Releases = {"1.0.0", "1.1.0"}
  MaxDamage = 0
INVARIANT AcceptedIsOfOneVersion
CHECK_DEADLOCK FALSE
