-------------------------- MODULE DiceCertificates --------------------------
(***************************************************************************)
(* The certificates of a Titan DICE chain, the checks the validator makes  *)
(* of them, in the order it makes them, and the certificates a genuine     *)
(* device holds (titan/dice/titandice: structures.go, templates.go,        *)
(* dice_certificate_validator.go).                                         *)
(*                                                                         *)
(* A certificate is a record of its header, its key or hash, and its       *)
(* signature; the constant fields of a header are its "const".  A          *)
(* signature records the key that made it, the message it covers and       *)
(* whether its bytes still form a signature: it verifies under that key,   *)
(* over that message, only (ECDSA is taken to be unforgeable; the two      *)
(* forms (r, s) and (r, n-s) of a signature are one value here).           *)
(***************************************************************************)
EXTENDS TitanKeys

CONSTANTS
  Device, Firmware, Scribe,
  DeviceKey,        \* DeviceID key of a device
  AliasKey,         \* alias key of a device running a firmware
  EKKey,            \* EK and FEK of a device running a firmware (TRUE: the FEK)
  PayloadKey,       \* key a Scribe signs DeviceID certificates with
  RWKey,            \* key a Scribe signs DeviceIDScribe certificates with
  ScribeOf,         \* the Scribe that provisioned a device
  HWID, HWCat, BootloaderTag,          \* of a device, fused or built in
  HashesFirmware,   \* does the device's bootloader put a firmware hash in?
  FWHash, CodeKeyInfo, FWEpoch, FWMajorVersion    \* of a firmware

\* No two devices share a DeviceID key, no two boots an alias key: the keys are
\* derived from a device's own secret and the measurement of its firmware.
ASSUME KeysAssumption ==
  /\ \A d, e \in Device : DeviceKey[d] = DeviceKey[e] => d = e
  /\ \A p, q \in Device \X Firmware : AliasKey[p] = AliasKey[q] => p = q

\* Keys are pairs of coordinates, as many bytes as a certificate has for them.
ASSUME KeysAreKeys ==
  /\ \A d \in Device : /\ IsKey(DeviceKey[d])
                      /\ IsKey(PayloadKey[ScribeOf[d]]) /\ IsKey(RWKey[ScribeOf[d]])
  /\ \A d \in Device, f \in Firmware :
       IsKey(AliasKey[<<d, f>>]) /\ \A limited \in BOOLEAN : IsKey(EKKey[<<d, f, limited>>])

------------------------------------------------------------------------------
(* Constants of the headers (constants.go, the validator's lines 64-73).   *)

EHTNone == 0
EHTFirmwareHash == 2

AkcConst == [SignatureVersion |-> 1, SignaturePurpose |-> 11, KeyType |-> 6, KeyOp |-> 0,
             KeyAlg |-> 0, Reserved0 |-> 0, PubKeySize |-> 64, Reserved1 |-> 0]
AkcConstOrder == <<"SignatureVersion", "SignaturePurpose", "KeyType", "KeyOp",
                   "KeyAlg", "Reserved0", "PubKeySize", "Reserved1">>

DidcConst == [SignatureVersion |-> 1, SignaturePurpose |-> 9, KeyType |-> 5, KeyOp |-> 0,
              KeyAlg |-> 0, ExtensionHeaderType |-> EHTNone, SignedDataSize |-> 128]
DidcConstOrder == <<"SignatureVersion", "SignaturePurpose", "KeyType", "KeyOp",
                    "KeyAlg", "ExtensionHeaderType", "SignedDataSize">>

EkConst == [SignatureVersion |-> 1, SignaturePurpose |-> 1, ExtensionHeaderType |-> EHTNone,
            KeyType |-> 8, KeyOp |-> 0, KeyAlg |-> 0, Reserved0 |-> 0,
            PubKeySize |-> 64, Reserved1 |-> 0]
EkConstOrder == <<"SignatureVersion", "SignaturePurpose", "ExtensionHeaderType", "KeyType",
                  "KeyOp", "KeyAlg", "Reserved0", "PubKeySize", "Reserved1">>

TitanScribeType      == 33328   \* 0x8230
SelfSignedScribeType == 61679   \* 0xf0ef

------------------------------------------------------------------------------
(* Signatures and the messages they cover.                                 *)

Sign(key, msg) == [key |-> key, msg |-> msg, intact |-> TRUE]

VerifyECDSATitan(key, msg, sig) == sig.intact /\ sig.key = key /\ sig.msg = msg

SHA256(msg) == [digest |-> msg]

\* Thirty-two zero bytes, the firmware hash of a certificate without one.
ZeroHash == [digest |-> << >>]

\* No device has the hardware ID 0, which the validator takes for a corruption of
\* the flash (lines 213-219), and no firmware hashes to zeros.
ASSUME FleetAssumption ==
  /\ \A d \in Device : HWID[d] # 0
  /\ \A f \in Firmware : FWHash[f] # ZeroHash

\* The firmware hash is covered only when the header announces it.
serializeAliasKeyCertificate(akc) ==
  IF akc.header.ExtensionHeaderType = EHTFirmwareHash
  THEN <<akc.header, akc.pub, akc.fwHash>>
  ELSE <<akc.header, akc.pub>>

serializeDeviceIDCertificate(didc) == <<didc.header, didc.key>>

serializeDeviceIDScribeCertificate(didsc) == <<didsc.certHash, didsc.scribeRWKey>>

serializeEKCertificate(ekc) == <<ekc.header, ekc.pub>>

------------------------------------------------------------------------------
(* TPM templates and qualified names (templates.go).                       *)

ekAttributes == {"FixedTPM", "FixedParent", "SensitiveDataOrigin", "Restricted",
                 "SignEncrypt", "NoDA", "UserWithAuth"}
fekAttributes == ekAttributes \cup {"STClear", "FirmwareLimited"}

Template(limited, pub) ==
  [attributes |-> IF limited THEN fekAttributes ELSE ekAttributes, unique |-> pub]

computePrimaryQualifiedName(hierarchy, template) ==
  SHA256(<<hierarchy, SHA256(template)>>)

QualifiedName(limited, pub) ==
  computePrimaryQualifiedName(IF limited THEN "FWEndorsement" ELSE "Endorsement",
                              Template(limited, pub))

------------------------------------------------------------------------------
(* The certificates.                                                       *)

AkcShape(c)   == c = [header |-> c.header, pub |-> c.pub, fwHash |-> c.fwHash, sig |-> c.sig]
DidcShape(c)  == c = [header |-> c.header, key |-> c.key, sig |-> c.sig]
DidscShape(c) == c = [certHash |-> c.certHash, scribeRWKey |-> c.scribeRWKey, sig |-> c.sig]
EkShape(c)    == c = [header |-> c.header, pub |-> c.pub, sig |-> c.sig]

------------------------------------------------------------------------------
(* Checks.  A list of checks is run in order and the first that fails      *)
(* gives the error; the code returns at that point, so a check may rely on *)
(* the earlier ones only under an implication.  OK is Go's nil error.      *)

OK == << >>

Check(holds, cert, field) == [holds |-> holds, cert |-> cert, field |-> field]

AllHold(checks) == \A i \in DOMAIN checks : checks[i].holds

FirstError(checks) ==
  IF AllHold(checks) THEN OK
  ELSE LET first == CHOOSE i \in DOMAIN checks :
                      /\ ~checks[i].holds
                      /\ \A j \in 1 .. i - 1 : checks[j].holds
       IN  <<checks[first].cert, checks[first].field>>

\* if err != nil { return err }, then the rest of the function
OrElse(err, rest) == IF err # OK THEN err ELSE rest

ConstError(cert, order, want, got) ==
  FirstError([i \in DOMAIN order |-> Check(got[order[i]] = want[order[i]], cert, order[i])])

------------------------------------------------------------------------------
(* The chain: an alias key certificate, a DeviceID certificate and a       *)
(* DeviceIDScribe certificate.  "scribes" is the trusted map from KeyIDs.  *)

\* Mutants of AkcChecks: the firmware hash is not compared with what the header
\* announces; a firmware hash is required of every generation.
AkcChecksNoHashType(akc, didc, rwkis) ==
  << Check(akc.header.SignKeyInfo \in rwkis, "AKC", "CertValidity"),
     Check(didc.header.HWID = akc.header.HWID, "AKC", "HWID"),
     Check(didc.header.HWCat = akc.header.HWCat, "AKC", "HWCat"),
     Check(didc.header.BootloaderTag = akc.header.BootloaderTag, "AKC", "BootloaderTag"),
     Check(ComputeKeyInfoTitan(didc.key) = akc.header.KeyInfo, "AKC", "KeyInfo"),
     Check(VerifyECDSATitan(didc.key, serializeAliasKeyCertificate(akc), akc.sig),
           "AKC", "Signature") >>
AkcChecksHashRequired(akc, didc, rwkis) ==
  <<Check(akc.header.ExtensionHeaderType = EHTFirmwareHash, "AKC", "ExtensionHeaderType")>>
    \o AkcChecksNoHashType(akc, didc, rwkis)

AkcChecks(akc, didc, rwkis) ==
  << Check(akc.header.ExtensionHeaderType
             = (IF akc.fwHash # ZeroHash THEN EHTFirmwareHash ELSE EHTNone),
           "AKC", "ExtensionHeaderType"),
     Check(akc.header.SignKeyInfo \in rwkis, "AKC", "CertValidity"),
     IF didc.header.HWID = 0   \* possible flash corruption
     THEN Check(didc.header.HWID = akc.header.HWID, "DIDC", "HWID0")
     ELSE Check(didc.header.HWID = akc.header.HWID, "AKC", "HWID"),
     Check(didc.header.HWCat = akc.header.HWCat, "AKC", "HWCat"),
     Check(didc.header.BootloaderTag = akc.header.BootloaderTag, "AKC", "BootloaderTag"),
     Check(ComputeKeyInfoTitan(didc.key) = akc.header.KeyInfo, "AKC", "KeyInfo"),
     Check(VerifyECDSATitan(didc.key, serializeAliasKeyCertificate(akc), akc.sig),
           "AKC", "Signature") >>

validateAliasKeyCertificate(akc, didc, rwkis) ==
  OrElse(ConstError("AKC", AkcConstOrder, AkcConst, akc.header.const),
         FirstError(AkcChecks(akc, didc, rwkis)))

DidcChecks(didc, scribes) ==
  LET id == didc.header.ScribeKeyID
  IN  << Check(id \in DOMAIN scribes, "DIDC", "ScribeKeyID"),
         Check(Prefix4(id) = didc.header.KeyInfo, "DIDC", "ScribeKeyInfo"),
         Check(id \in DOMAIN scribes => scribes[id].type = SelfSignedScribeType,
               "DIDC", "ScribeType"),
         Check(id \in DOMAIN scribes =>
                 VerifyECDSATitan(scribes[id].subject,
                                  serializeDeviceIDCertificate(didc), didc.sig),
               "DIDC", "Signature") >>

validateDeviceIDCertificate(didc, scribes) ==
  OrElse(ConstError("DIDC", DidcConstOrder, DidcConst, didc.header.const),
         FirstError(DidcChecks(didc, scribes)))

\* Mutant of DidscChecks: the signature is verified with the key in the certificate
\* rather than with that of the root found under its KeyID.
DidscChecksOwnKey(didsc, didc, scribes) ==
  LET id == ComputeKeyIDECDSA(didsc.scribeRWKey)
  IN  << Check(SHA256(serializeDeviceIDCertificate(didc)) = didsc.certHash,
               "DIDSC", "CertHash"),
         Check(id \in DOMAIN scribes, "DIDSC", "ScribeKey"),
         Check(id \in DOMAIN scribes => scribes[id].type = TitanScribeType,
               "DIDSC", "ScribeType"),
         Check(VerifyECDSATitan(didsc.scribeRWKey,
                                serializeDeviceIDScribeCertificate(didsc), didsc.sig),
               "DIDSC", "Signature") >>

DidscChecks(didsc, didc, scribes) ==
  LET id == ComputeKeyIDECDSA(didsc.scribeRWKey)
  IN  << Check(SHA256(serializeDeviceIDCertificate(didc)) = didsc.certHash,
               "DIDSC", "CertHash"),
         Check(id \in DOMAIN scribes, "DIDSC", "ScribeKey"),
         Check(id \in DOMAIN scribes => scribes[id].type = TitanScribeType,
               "DIDSC", "ScribeType"),
         Check(id \in DOMAIN scribes =>
                 VerifyECDSATitan(scribes[id].subject,
                                  serializeDeviceIDScribeCertificate(didsc), didsc.sig),
               "DIDSC", "Signature") >>

validateDeviceIDScribeCertificate(didsc, didc, scribes) ==
  FirstError(DidscChecks(didsc, didc, scribes))

\* Mutants of ValidateScribeCertificateChain: the alias key certificate comes last;
\* the DeviceIDScribe certificate is not validated.
ValidateDidcFirst(chain, scribes, rwkis) ==
  OrElse(validateDeviceIDCertificate(chain.didc, scribes),
         OrElse(validateDeviceIDScribeCertificate(chain.didsc, chain.didc, scribes),
                validateAliasKeyCertificate(chain.akc, chain.didc, rwkis)))
ValidateWithoutDidsc(chain, scribes, rwkis) ==
  OrElse(validateAliasKeyCertificate(chain.akc, chain.didc, rwkis),
         validateDeviceIDCertificate(chain.didc, scribes))

ValidateScribeCertificateChain(chain, scribes, rwkis) ==
  OrElse(validateAliasKeyCertificate(chain.akc, chain.didc, rwkis),
         OrElse(validateDeviceIDCertificate(chain.didc, scribes),
                validateDeviceIDScribeCertificate(chain.didsc, chain.didc, scribes)))

------------------------------------------------------------------------------
(* The EK certificate, checked against the alias key certificate the       *)
(* caller names and the kind of key the caller expects.                    *)

\* Mutants of EkChecks: the qualified name is not compared with the template's;
\* the signature is not verified; an FEK must have a version that is not 0.
EkChecksNoName(ekc, akc, limited) ==
  << Check(akc.header.HWID = ekc.header.HWID, "EK", "HWID"),
     Check(akc.header.FWEpoch = ekc.header.FWEpoch, "EK", "FirmwareEpoch"),
     Check(VerifyECDSATitan(akc.pub, serializeEKCertificate(ekc), ekc.sig),
           "EK", "Signature"),
     Check(ekc.header.FWMajorVersion = (IF limited THEN akc.header.FWMajorVersion ELSE 0),
           "EK", "FirmwareMajorVersion") >>
EkChecksNoSignature(ekc, akc, limited) ==
  << Check(akc.header.HWID = ekc.header.HWID, "EK", "HWID"),
     Check(akc.header.FWEpoch = ekc.header.FWEpoch, "EK", "FirmwareEpoch"),
     Check(ekc.header.FWMajorVersion = (IF limited THEN akc.header.FWMajorVersion ELSE 0),
           "EK", "FirmwareMajorVersion"),
     Check(ekc.header.QualifiedName = QualifiedName(limited, ekc.pub), "EK", "Template") >>
EkChecksVersioned(ekc, akc, limited) ==
  EkChecksNoName(ekc, akc, limited)
    \o <<Check(limited = (ekc.header.FWMajorVersion # 0), "EK", "FirmwareMajorVersion")>>

EkChecks(ekc, akc, limited) ==
  << Check(akc.header.HWCat = ekc.header.HWCat, "EK", "HWCat"),
     Check(akc.header.HWID = ekc.header.HWID, "EK", "HWID"),
     Check(akc.header.BootloaderTag = ekc.header.BootloaderTag, "EK", "BootloaderTag"),
     Check(akc.header.FWEpoch = ekc.header.FWEpoch, "EK", "FirmwareEpoch"),
     Check(VerifyECDSATitan(akc.pub, serializeEKCertificate(ekc), ekc.sig),
           "EK", "Signature"),
     IF limited
     THEN Check(akc.header.FWMajorVersion = ekc.header.FWMajorVersion,
                "EK", "FirmwareMajorVersionMismatch")
     ELSE Check(ekc.header.FWMajorVersion = 0, "EK", "FirmwareMajorVersionNonZero"),
     Check(ekc.header.QualifiedName = QualifiedName(limited, ekc.pub), "EK", "Template") >>

NoTemplate == [attributes |-> {}]

ValidateEKCertificate(ekc, akc, limited) ==
  LET err == OrElse(ConstError("EK", EkConstOrder, EkConst, ekc.header.const),
                    FirstError(EkChecks(ekc, akc, limited)))
  IN  [err |-> err,
       template |-> IF err = OK THEN Template(limited, ekc.pub) ELSE NoTemplate]

------------------------------------------------------------------------------
(* Certificates of a genuine device: Scribe signs its DeviceID at          *)
(* manufacture, its bootloader certifies the alias key of the firmware it  *)
(* measured, and the firmware certifies its EK and FEK (dice/README.md).   *)

AkcHeader(d, f) ==
  [const |-> AkcConst,
   ExtensionHeaderType |-> IF HashesFirmware[d] THEN EHTFirmwareHash ELSE EHTNone,
   KeyInfo |-> ComputeKeyInfoTitan(DeviceKey[d]),
   SignKeyInfo |-> CodeKeyInfo[f], Validity |-> 0,
   HWID |-> HWID[d], HWCat |-> HWCat[d], BootloaderTag |-> BootloaderTag[d],
   FWEpoch |-> FWEpoch[f], FWMajorVersion |-> FWMajorVersion[f]]

AkcFWHash(d, f) == IF HashesFirmware[d] THEN FWHash[f] ELSE ZeroHash

Akc(d, f) ==
  LET body == [header |-> AkcHeader(d, f), pub |-> AliasKey[<<d, f>>], fwHash |-> AkcFWHash(d, f)]
  IN  [header |-> body.header, pub |-> body.pub, fwHash |-> body.fwHash,
       sig |-> Sign(DeviceKey[d], serializeAliasKeyCertificate(body))]

\* Scribe writes the KeyID the documents define, over whole coordinates.
DidcHeader(d) ==
  LET id == DocumentedKeyID(PayloadKey[ScribeOf[d]])
  IN  [const |-> DidcConst, KeyInfo |-> Prefix4(id), CertValidity |-> 0,
       ScribeKeyID |-> id, HWID |-> HWID[d], HWCat |-> HWCat[d],
       BootloaderTag |-> BootloaderTag[d]]

Didc(d) ==
  [header |-> DidcHeader(d), key |-> DeviceKey[d],
   sig |-> Sign(PayloadKey[ScribeOf[d]], <<DidcHeader(d), DeviceKey[d]>>)]

Didsc(d) ==
  LET hash == SHA256(serializeDeviceIDCertificate(Didc(d)))
      key  == RWKey[ScribeOf[d]]
  IN  [certHash |-> hash, scribeRWKey |-> key, sig |-> Sign(key, <<hash, key>>)]

Chain(d, f) == [akc |-> Akc(d, f), didc |-> Didc(d), didsc |-> Didsc(d)]

EkHeader(d, f, limited) ==
  [const |-> EkConst, KeyInfo |-> ComputeKeyInfoTitan(AliasKey[<<d, f>>]),
   CertValidity |-> ComputeKeyInfoTitan(EKKey[<<d, f, limited>>]),
   HWID |-> HWID[d], HWCat |-> HWCat[d], BootloaderTag |-> BootloaderTag[d],
   FWEpoch |-> FWEpoch[f], FWMajorVersion |-> IF limited THEN FWMajorVersion[f] ELSE 0,
   RWHash |-> FWHash[f], QualifiedName |-> QualifiedName(limited, EKKey[<<d, f, limited>>])]

Ekc(d, f, limited) ==
  [header |-> EkHeader(d, f, limited), pub |-> EKKey[<<d, f, limited>>],
   sig |-> Sign(AliasKey[<<d, f>>], <<EkHeader(d, f, limited), EKKey[<<d, f, limited>>]>>)]

\* Signatures do not appear from nowhere: those that verify were made for these.
IsIssued(sig) ==
  \/ \E d \in Device, f \in Firmware :
       sig = Akc(d, f).sig \/ \E limited \in BOOLEAN : sig = Ekc(d, f, limited).sig
  \/ \E d \in Device : sig \in {Didc(d).sig, Didsc(d).sig}

\* A circumstance under which genuine certificates are accepted, which the code
\* does not check and this module does not assume: the keys that sign DeviceID
\* certificates, which name them by their KeyID, have no zero top byte
\* (key_utils.go:56 drops it; DiceShortKey.cfg is the other case).
WholeKeys == \A d \in Device : WholeKey(PayloadKey[ScribeOf[d]])

\* The two roots that stand for a Scribe.
PayloadCert(s) == [type |-> SelfSignedScribeType, subject |-> PayloadKey[s]]
RWCert(s)      == [type |-> TitanScribeType, subject |-> RWKey[s]]

=============================================================================
