\* Two devices, two firmwares, three policies, at most one damaged part.
CONSTANTS
  d1 = d1
  d2 = d2
  f1 = f1
  f2 = f2
  s1 = s1
  s2 = s2
  TopByte = 1
  AllPolicies = TRUE
  MayDamage = {"chain"}
  EKKinds = {}
  Device <- MCDevice
  Firmware <- MCFirmware
  Scribe <- MCScribe
  Prefix4 <- MCPrefix4
  DeviceKey <- MCDeviceKey
  AliasKey <- MCAliasKey
  EKKey <- MCEKKey
  PayloadKey <- MCPayloadKey
  RWKey <- MCRWKey
  ScribeOf <- MCScribeOf
  HWID <- MCHWID
  HWCat <- MCHWCat
  BootloaderTag <- MCBootloaderTag
  HashesFirmware <- MCHashesFirmware
  FWHash <- MCFWHash
  CodeKeyInfo <- MCCodeKeyInfo
  FWEpoch <- MCFWEpoch
  FWMajorVersion <- MCFWMajorVersion
  Policies <- MCPolicies
  DamagedHeader <- MCDamagedHeader
  DamagedKey <- MCDamagedKey
  DamagedHash <- MCDamagedHash
SPECIFICATION Spec
INVARIANTS
  IInv
  ChainAuthentic
  GenuineChainAccepted
  FaultLocated
