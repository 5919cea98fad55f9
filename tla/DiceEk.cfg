\* Two devices, two firmwares, one policy with roots that share their KeyIDs, damaged
\* EK certificates.
CONSTANTS
  d1 = d1
  d2 = d2
  f1 = f1
  f2 = f2
  s1 = s1
  s2 = s2
  TopByte = 1
  AllPolicies = FALSE
  MayDamage = {"ek"}
  EKKinds = {TRUE, FALSE}
  Device <- MCDevice
  Firmware <- MCFirmware
  Scribe <- MCScribe
  Prefix4 <- MCPrefix4
  DeviceKey <- MCDeviceKey
  AliasKey <- MCAliasKey
  EKKey <- MCEKKey
  PayloadKey <- MCPayloadKey
  RWKey <- MCRWKey
  ScribeOf <- MCScribeOf
  HWID <- MCHWID
  HWCat <- MCHWCat
  BootloaderTag <- MCBootloaderTag
  HashesFirmware <- MCHashesFirmware
  FWHash <- MCFWHash
  CodeKeyInfo <- MCCodeKeyInfo
  FWEpoch <- MCFWEpoch
  FWMajorVersion <- MCFWMajorVersion
  Policies <- CollidingPolicies
  DamagedHeader <- MCDamagedHeader
  DamagedKey <- MCDamagedKey
  DamagedHash <- MCDamagedHash
SPECIFICATION Spec
INVARIANTS
  KeptRootDecides
  EkAuthentic
  EkKindDecided
PROPERTY ImplementsAttestation
