SPECIFICATION Spec
CONSTANTS
  Conn = {"c1", "c2", "c3"}
  Workers = 2
  Timeout = 1
  MaxReads = 2
PROPERTY
  SilentPeersTimeOut
