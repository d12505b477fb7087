SPECIFICATION FairSpec
CONSTANTS
  None = None
  Listener = {"80", "443", "8080"}
  Tls = {"443"}
  Service <- MCService
  Secret = {"s1"}
  Version = {1, 2}
  Host <- MCHost
  Domains <- MCDomains
  CertOf <- MCCertOf
  AclId = {1, 2, 3, 4, 5}
  UserAcl = {1, 2}
  Entry = {"e1", "e2"}
  Config <- MCConfigs
  Start <- Base
  Reused = {"8080"}
  Upload = {3}
  Refused = {9}
  MaxFaults = 1
  MaxEdits = 2
INVARIANTS
  QuietInSync
  DeletesUnused
PROPERTIES
  WantedCertsStay
  AclNeverLifted
  UserListenersKept
  Converges
CHECK_DEADLOCK FALSE
