\* The payload signing key has a y coordinate whose top byte is zero.
CONSTANTS
  d1 = d1
  d2 = d2
  f1 = f1
  f2 = f2
  s1 = s1
  s2 = s2
  TopByte = 0
  AllPolicies = FALSE
  MayDamage = {}
  EKKinds = {}
  Device <- MCDevice
  Firmware <- MCFirmware
  Scribe <- MCScribe
  Prefix4 <- MCPrefix4
  DeviceKey <- MCDeviceKey
  AliasKey <- MCAliasKey
  EKKey <- MCEKKey
  PayloadKey <- MCPayloadKey
  RWKey <- MCRWKey
  ScribeOf <- MCScribeOf
  HWID <- MCHWID
  HWCat <- MCHWCat
  BootloaderTag <- MCBootloaderTag
  HashesFirmware <- MCHashesFirmware
  FWHash <- MCFWHash
  CodeKeyInfo <- MCCodeKeyInfo
  FWEpoch <- MCFWEpoch
  FWMajorVersion <- MCFWMajorVersion
  Policies <- MCPolicies
  DamagedHeader <- MCDamagedHeader
  DamagedKey <- MCDamagedKey
  DamagedHash <- MCDamagedHash
SPECIFICATION Spec
INVARIANT GenuineChainAccepted
