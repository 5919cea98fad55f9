---------------------- MODULE DiceCertificates_proofs ----------------------
(***************************************************************************)
(* When the KeyID that the code computes is the one the documents define,  *)
(* and what the validator's functions on certificates accept, whose it     *)
(* then is, and what they blame: for every key, every certificate and      *)
(* every trusted map, in whatever run of the program they are called.      *)
(***************************************************************************)
EXTENDS DiceCertificates, SequenceTheorems, WellFoundedInduction, TLAPS

\* A set of naturals has a least element.
LEMMA LeastNatural ==
  ASSUME NEW T, T \subseteq Nat, T # {}
  PROVE  \E n \in T : \A m \in T : n <= m
<1>1. \E n \in T : \A m \in T : ~(<<m, n>> \in OpToRel(<, Nat))
  BY NatLessThanWellFounded, WFMin
<1>2. PICK n \in T : \A m \in T : ~(<<m, n>> \in OpToRel(<, Nat))
  BY <1>1
<1>3. ASSUME NEW m \in T PROVE n <= m
  <2>1. m \in Nat /\ n \in Nat
    OBVIOUS
  <2>2. ~(m < n)
    BY <1>2, <2>1 DEF OpToRel
  <2> QED BY <2>1, <2>2
<1> QED BY <1>3

\* What is left of a coordinate without its zero top bytes: none is lost when
\* the top byte is not zero, and one is when it is.
LEMMA SignificantBytes ==
  ASSUME NEW coord \in Seq(Byte)
  PROVE  /\ Significant(coord) \in Seq(Byte)
         /\ Len(Significant(coord)) <= Len(coord)
         /\ FullWidth(coord) => Significant(coord) = coord
         /\ Len(coord) > 0 /\ ~FullWidth(coord) => Len(Significant(coord)) < Len(coord)
<1> DEFINE zerosFrom(n) == \A i \in (n + 1) .. Len(coord) : coord[i] = 0
           ends(n) == (n > 0 => coord[n] # 0) /\ zerosFrom(n)
<1>1. Len(coord) \in Nat
  OBVIOUS
<1>2. \E n \in 0 .. Len(coord) : ends(n)
  <2> DEFINE T == {n \in 0 .. Len(coord) : zerosFrom(n)}
  <2>1. Len(coord) \in T
    BY <1>1
  <2>2. \E n \in T : \A m \in T : n <= m
    <3>1. T \subseteq Nat /\ T # {}
      BY <1>1, <2>1
    <3> HIDE DEF T
    <3> QED BY <3>1, LeastNatural
  <2>3. PICK n \in T : \A m \in T : n <= m
    BY <2>2
  <2>4. n \in 0 .. Len(coord) /\ zerosFrom(n)
    OBVIOUS
  <2>5. ASSUME n > 0 PROVE coord[n] # 0
    <3> SUFFICES ASSUME coord[n] = 0 PROVE FALSE
      OBVIOUS
    <3>1. n - 1 \in 0 .. Len(coord) /\ zerosFrom(n - 1)
      BY <1>1, <2>4, <2>5
    <3>2. n <= n - 1
      BY <2>3, <3>1
    <3> QED BY <2>4, <3>2
  <2> QED BY <2>4, <2>5
<1> DEFINE last == CHOOSE n \in 0 .. Len(coord) : ends(n)
<1>3. last \in 0 .. Len(coord) /\ ends(last)
  BY <1>2
<1>4. Significant(coord) = SubSeq(coord, 1, last)
  BY DEF Significant
<1> HIDE DEF last
<1>5. Significant(coord) \in Seq(Byte) /\ Len(Significant(coord)) = last
  BY <1>1, <1>3, <1>4
<1>6. FullWidth(coord) => last = Len(coord)
  BY <1>1, <1>3 DEF FullWidth
<1>7. last = Len(coord) => Significant(coord) = coord
  BY <1>1, <1>4
<1>8. Len(coord) > 0 /\ ~FullWidth(coord) => last < Len(coord)
  BY <1>1, <1>3 DEF FullWidth
<1> QED BY <1>1, <1>3, <1>5, <1>6, <1>7, <1>8

\* ComputeKeyIDECDSA gives a key the KeyID that structures.go documents exactly
\* when neither coordinate has a zero top byte (key_utils.go:56).
THEOREM KeyIDAsDocumented ==
  ASSUME NEW key, IsCoordinate(key.x), IsCoordinate(key.y)
  PROVE  ComputeKeyIDECDSA(key) = DocumentedKeyID(key) <=> WholeKey(key)
<1>1. /\ key.x \in Seq(Byte) /\ Len(key.x) > 0
      /\ key.y \in Seq(Byte) /\ Len(key.y) > 0
  BY DEF IsCoordinate
<1>2. ASSUME WholeKey(key) PROVE ComputeKeyIDECDSA(key) = DocumentedKeyID(key)
  BY <1>1, <1>2, SignificantBytes DEF WholeKey, ComputeKeyIDECDSA, DocumentedKeyID
<1>3. ASSUME ~WholeKey(key) PROVE ComputeKeyIDECDSA(key) # DocumentedKeyID(key)
  <2> DEFINE x == Significant(key.x)
             y == Significant(key.y)
  <2>1. /\ x \in Seq(Byte) /\ Len(x) <= Len(key.x)
        /\ y \in Seq(Byte) /\ Len(y) <= Len(key.y)
    BY <1>1, SignificantBytes
  <2>2. Len(x) < Len(key.x) \/ Len(y) < Len(key.y)
    BY <1>1, <1>3, SignificantBytes DEF WholeKey
  <2> HIDE DEF x, y
  <2>3. /\ Len(x \o y) = Len(x) + Len(y)
        /\ Len(key.x \o key.y) = Len(key.x) + Len(key.y)
    BY <1>1, <2>1, ConcatProperties
  <2>4. /\ Len(x) \in Nat /\ Len(key.x) \in Nat
        /\ Len(y) \in Nat /\ Len(key.y) \in Nat
    BY <1>1, <2>1, LenProperties
  <2>5. Len(x) + Len(y) # Len(key.x) + Len(key.y)
    <3>1. \A a, b, c, d \in Nat : a <= b /\ c <= d /\ (a < b \/ c < d) => a + c # b + d
      OBVIOUS
    <3> QED BY <2>1, <2>2, <2>4, <3>1, Zenon
  <2>6. x \o y # key.x \o key.y
    BY <2>3, <2>5
  <2> QED BY <2>6 DEF ComputeKeyIDECDSA, DocumentedKeyID, KeyIDOf, x, y
<1> QED BY <1>2, <1>3

------------------------------------------------------------------------------
(* What acceptance by each function amounts to.                            *)

\* A list of checks gives no error exactly when all of them hold.
LEMMA FirstErrorOK ==
  ASSUME NEW checks
  PROVE  FirstError(checks) = OK <=> AllHold(checks)
BY DEF FirstError, OK

\* Of a list with a check that fails, the error is that of the first one.
LEMMA FirstErrorFirst ==
  ASSUME NEW n \in Nat, NEW checks, DOMAIN checks = 1 .. n, ~AllHold(checks)
  PROVE  \E i \in 1 .. n :
           /\ ~checks[i].holds
           /\ \A j \in 1 .. i - 1 : checks[j].holds
           /\ FirstError(checks) = <<checks[i].cert, checks[i].field>>
<1> DEFINE failing == {i \in 1 .. n : ~checks[i].holds}
           isFirst(i) == ~checks[i].holds /\ \A j \in 1 .. i - 1 : checks[j].holds
           first == CHOOSE i \in DOMAIN checks : isFirst(i)
<1>1. \E i \in DOMAIN checks : isFirst(i)
  <2>1. failing \subseteq Nat /\ failing # {}
    BY DEF AllHold
  <2>2. \E i \in failing : \A j \in failing : i <= j
    <3> HIDE DEF failing
    <3> QED BY <2>1, LeastNatural
  <2>3. PICK i \in failing : \A j \in failing : i <= j
    BY <2>2
  <2>4. ASSUME NEW j \in 1 .. i - 1 PROVE checks[j].holds
    <3>1. j \in 1 .. n /\ ~(i <= j)
      OBVIOUS
    <3> QED BY <2>3, <3>1
  <2> QED BY <2>4
<1>2. first \in DOMAIN checks /\ isFirst(first)
  BY <1>1
<1>3. FirstError(checks) = <<checks[first].cert, checks[first].field>>
  BY DEF FirstError
<1> HIDE DEF first
<1> QED BY <1>2, <1>3

\* Two functions called one after the other give no error when neither does.
LEMMA OrElseOK ==
  ASSUME NEW err, NEW rest
  PROVE  OrElse(err, rest) = OK <=> err = OK /\ rest = OK
BY DEF OrElse

\* The second of two functions called in turn is reached when the first gives
\* no error.
LEMMA OrElseEither ==
  ASSUME NEW err, NEW rest
  PROVE  /\ err # OK => OrElse(err, rest) = err
         /\ err = OK => OrElse(err, rest) = rest
BY DEF OrElse

\* A signature records the key that made it and the message it covers.
LEMMA SignedBy ==
  ASSUME NEW key, NEW msg
  PROVE  Sign(key, msg).key = key /\ Sign(key, msg).msg = msg
BY DEF Sign

\* What validateAliasKeyCertificate has established when it gives no error.
LEMMA AkcAccepted ==
  ASSUME NEW akc, NEW didc, NEW rwkis,
         validateAliasKeyCertificate(akc, didc, rwkis) = OK
  PROVE  /\ akc.header.ExtensionHeaderType
              = IF akc.fwHash # ZeroHash THEN EHTFirmwareHash ELSE EHTNone
         /\ akc.header.SignKeyInfo \in rwkis
         /\ VerifyECDSATitan(didc.key, serializeAliasKeyCertificate(akc), akc.sig)
<1> DEFINE checks == AkcChecks(akc, didc, rwkis)
<1>1. AllHold(checks)
  BY FirstErrorOK, OrElseOK DEF validateAliasKeyCertificate
<1>2. checks[1].holds /\ checks[2].holds /\ checks[7].holds
  BY <1>1 DEF AllHold, AkcChecks
<1> QED BY <1>2 DEF AkcChecks, Check

\* What validateDeviceIDCertificate has established when it gives no error.
LEMMA DidcAccepted ==
  ASSUME NEW didc, NEW trusted,
         validateDeviceIDCertificate(didc, trusted) = OK
  PROVE  \E id \in DOMAIN trusted :
           /\ trusted[id].type = SelfSignedScribeType
           /\ VerifyECDSATitan(trusted[id].subject,
                               serializeDeviceIDCertificate(didc), didc.sig)
<1> DEFINE checks == DidcChecks(didc, trusted)
<1>1. AllHold(checks)
  BY FirstErrorOK, OrElseOK DEF validateDeviceIDCertificate
<1>2. checks[1].holds /\ checks[3].holds /\ checks[4].holds
  BY <1>1 DEF AllHold, DidcChecks
<1> QED BY <1>2 DEF DidcChecks, Check

\* What validateDeviceIDScribeCertificate has established when it gives no error.
LEMMA DidscAccepted ==
  ASSUME NEW didsc, NEW didc, NEW trusted,
         validateDeviceIDScribeCertificate(didsc, didc, trusted) = OK
  PROVE  /\ didsc.certHash = SHA256(serializeDeviceIDCertificate(didc))
         /\ \E id \in DOMAIN trusted :
              /\ trusted[id].type = TitanScribeType
              /\ VerifyECDSATitan(trusted[id].subject,
                                  serializeDeviceIDScribeCertificate(didsc), didsc.sig)
<1> DEFINE checks == DidscChecks(didsc, didc, trusted)
<1>1. AllHold(checks)
  BY FirstErrorOK DEF validateDeviceIDScribeCertificate
<1>2. checks[1].holds /\ checks[2].holds /\ checks[3].holds /\ checks[4].holds
  BY <1>1 DEF AllHold, DidscChecks
<1> QED BY <1>2 DEF DidscChecks, Check

\* What ValidateEKCertificate has established when it gives no error.
LEMMA EkAccepted ==
  ASSUME NEW ekc, NEW akc, NEW limited,
         ValidateEKCertificate(ekc, akc, limited).err = OK
  PROVE  /\ VerifyECDSATitan(akc.pub, serializeEKCertificate(ekc), ekc.sig)
         /\ ekc.header.QualifiedName = QualifiedName(limited, ekc.pub)
         /\ ValidateEKCertificate(ekc, akc, limited).template = Template(limited, ekc.pub)
<1> DEFINE checks == EkChecks(ekc, akc, limited)
<1>1. AllHold(checks)
  BY FirstErrorOK, OrElseOK DEF ValidateEKCertificate
<1>2. checks[5].holds /\ checks[7].holds
  BY <1>1 DEF AllHold, EkChecks
<1>3. ValidateEKCertificate(ekc, akc, limited).template = Template(limited, ekc.pub)
  BY DEF ValidateEKCertificate
<1> QED BY <1>2, <1>3 DEF EkChecks, Check

\* A chain is accepted when each of its certificates is.
LEMMA ChainAccepted ==
  ASSUME NEW c, NEW trusted, NEW rwkis,
         ValidateScribeCertificateChain(c, trusted, rwkis) = OK
  PROVE  /\ validateAliasKeyCertificate(c.akc, c.didc, rwkis) = OK
         /\ validateDeviceIDCertificate(c.didc, trusted) = OK
         /\ validateDeviceIDScribeCertificate(c.didsc, c.didc, trusted) = OK
BY OrElseOK DEF ValidateScribeCertificateChain

------------------------------------------------------------------------------
(* Whose an accepted certificate is: its intact signature is one that was  *)
(* issued for a certificate of its kind, which fixes what its message      *)
(* covers.                                                                 *)

\* An accepted DeviceID certificate is that of the device whose signature it has.
LEMMA AuthenticDidc ==
  ASSUME NEW D, NEW didc, NEW trusted,
         DidcShape(didc), didc.sig.intact => \E d \in D : didc.sig = Didc(d).sig,
         validateDeviceIDCertificate(didc, trusted) = OK
  PROVE  \E d \in D : /\ didc = Didc(d)
                      /\ \E id \in DOMAIN trusted :
                           /\ trusted[id].type = SelfSignedScribeType
                           /\ trusted[id].subject = PayloadKey[ScribeOf[d]]
<1>1. PICK id \in DOMAIN trusted :
        /\ trusted[id].type = SelfSignedScribeType
        /\ VerifyECDSATitan(trusted[id].subject, serializeDeviceIDCertificate(didc), didc.sig)
  BY DidcAccepted
<1>2. PICK d \in D : didc.sig = Didc(d).sig
  BY <1>1 DEF VerifyECDSATitan
<1>3. /\ trusted[id].subject = PayloadKey[ScribeOf[d]]
      /\ <<didc.header, didc.key>> = <<DidcHeader(d), DeviceKey[d]>>
  BY <1>1, <1>2 DEF VerifyECDSATitan, serializeDeviceIDCertificate, Didc, Sign
<1>4. didc.header = DidcHeader(d) /\ didc.key = DeviceKey[d]
  BY <1>3
<1>5. Didc(d) = [header |-> DidcHeader(d), key |-> DeviceKey[d], sig |-> Didc(d).sig]
  BY DEF Didc
<1>6. didc = Didc(d)
  BY <1>2, <1>4, <1>5 DEF DidcShape
<1> QED BY <1>1, <1>3, <1>6

\* An alias key certificate accepted next to that of a device is one of a boot of
\* this device, with the firmware hash its header announces.
LEMMA AuthenticAkc ==
  ASSUME NEW B, B \subseteq Device \X Firmware, NEW d \in Device, NEW akc, NEW rwkis,
         AkcShape(akc), akc.sig.intact => \E df \in B : akc.sig = Akc(df[1], df[2]).sig,
         validateAliasKeyCertificate(akc, Didc(d), rwkis) = OK
  PROVE  \E df \in B : /\ df[1] = d
                       /\ akc = Akc(df[1], df[2])
                       /\ CodeKeyInfo[df[2]] \in rwkis
<1>1. /\ akc.header.ExtensionHeaderType
           = IF akc.fwHash # ZeroHash THEN EHTFirmwareHash ELSE EHTNone
      /\ akc.header.SignKeyInfo \in rwkis
      /\ VerifyECDSATitan(Didc(d).key, serializeAliasKeyCertificate(akc), akc.sig)
  BY AkcAccepted
<1>2. PICK df \in B : akc.sig = Akc(df[1], df[2]).sig
  BY <1>1 DEF VerifyECDSATitan
<1> DEFINE body == [header |-> AkcHeader(df[1], df[2]), pub |-> AliasKey[<<df[1], df[2]>>],
                    fwHash |-> AkcFWHash(df[1], df[2])]
<1>3. Akc(df[1], df[2]).sig = Sign(DeviceKey[df[1]], serializeAliasKeyCertificate(body))
  BY DEF Akc
<1>4. /\ DeviceKey[df[1]] = DeviceKey[d]
      /\ serializeAliasKeyCertificate(akc) = serializeAliasKeyCertificate(body)
  <2>1. Didc(d).key = DeviceKey[d]
    BY DEF Didc
  <2> HIDE DEF body
  <2>2. akc.sig.key = DeviceKey[df[1]] /\ akc.sig.msg = serializeAliasKeyCertificate(body)
    BY <1>2, <1>3 DEF Sign
  <2> QED BY <1>1, <2>1, <2>2 DEF VerifyECDSATitan
<1>5. df[1] \in Device /\ df[1] = d
  BY <1>4, KeysAssumption
<1>6. akc.header = body.header /\ akc.pub = body.pub
  BY <1>4 DEF serializeAliasKeyCertificate
<1>7. akc.fwHash = body.fwHash
  <2>1. body.header.ExtensionHeaderType
          = IF HashesFirmware[df[1]] THEN EHTFirmwareHash ELSE EHTNone
    BY DEF AkcHeader
  <2>2. CASE akc.fwHash # ZeroHash
    BY <1>1, <1>4, <1>6, <2>2 DEF serializeAliasKeyCertificate
  <2>3. CASE akc.fwHash = ZeroHash
    <3>1. ~HashesFirmware[df[1]]
      <4> HIDE DEF body
      <4> QED BY <1>1, <1>6, <2>1, <2>3 DEF EHTFirmwareHash, EHTNone
    <3> QED BY <2>3, <3>1 DEF AkcFWHash
  <2> QED BY <2>2, <2>3
<1>8. akc = Akc(df[1], df[2])
  <2>1. Akc(df[1], df[2]) = [header |-> body.header, pub |-> body.pub,
                             fwHash |-> body.fwHash, sig |-> Akc(df[1], df[2]).sig]
    BY DEF Akc
  <2> HIDE DEF body
  <2> QED BY <1>2, <1>6, <1>7, <2>1 DEF AkcShape
<1>9. CodeKeyInfo[df[2]] \in rwkis
  <2>1. body.header.SignKeyInfo = CodeKeyInfo[df[2]]
    BY DEF AkcHeader
  <2> HIDE DEF body
  <2> QED BY <1>1, <1>6, <2>1
<1> QED BY <1>5, <1>8, <1>9

\* A DeviceIDScribe certificate accepted next to the DeviceID certificate of a
\* device is the one of this device: it names no other.
LEMMA AuthenticDidsc ==
  ASSUME NEW D, D \subseteq Device, NEW d \in Device, NEW didsc, NEW trusted,
         DidscShape(didsc), didsc.sig.intact => \E e \in D : didsc.sig = Didsc(e).sig,
         validateDeviceIDScribeCertificate(didsc, Didc(d), trusted) = OK
  PROVE  /\ didsc = Didsc(d)
         /\ \E id \in DOMAIN trusted : /\ trusted[id].type = TitanScribeType
                                       /\ trusted[id].subject = RWKey[ScribeOf[d]]
<1>1. /\ didsc.certHash = SHA256(serializeDeviceIDCertificate(Didc(d)))
      /\ \E id \in DOMAIN trusted :
           /\ trusted[id].type = TitanScribeType
           /\ VerifyECDSATitan(trusted[id].subject,
                               serializeDeviceIDScribeCertificate(didsc), didsc.sig)
  BY DidscAccepted
<1>2. PICK id \in DOMAIN trusted :
        /\ trusted[id].type = TitanScribeType
        /\ VerifyECDSATitan(trusted[id].subject,
                            serializeDeviceIDScribeCertificate(didsc), didsc.sig)
  BY <1>1
<1>3. PICK e \in D : didsc.sig = Didsc(e).sig
  BY <1>2 DEF VerifyECDSATitan
<1>4. /\ trusted[id].subject = RWKey[ScribeOf[e]]
      /\ <<didsc.certHash, didsc.scribeRWKey>>
           = <<SHA256(serializeDeviceIDCertificate(Didc(e))), RWKey[ScribeOf[e]]>>
  BY <1>2, <1>3 DEF VerifyECDSATitan, serializeDeviceIDScribeCertificate, Didsc, Sign
<1>5. e = d
  <2>1. SHA256(serializeDeviceIDCertificate(Didc(d)))
          = SHA256(serializeDeviceIDCertificate(Didc(e)))
    BY <1>1, <1>4
  <2>2. serializeDeviceIDCertificate(Didc(d)) = serializeDeviceIDCertificate(Didc(e))
    BY <2>1 DEF SHA256
  <2>3. DeviceKey[d] = DeviceKey[e]
    BY <2>2 DEF serializeDeviceIDCertificate, Didc
  <2> QED BY <2>3, KeysAssumption
<1>6. didsc = Didsc(d)
  <2>1. Didsc(d) = [certHash |-> SHA256(serializeDeviceIDCertificate(Didc(d))),
                    scribeRWKey |-> RWKey[ScribeOf[d]], sig |-> Didsc(d).sig]
    BY DEF Didsc
  <2>2. didsc.scribeRWKey = RWKey[ScribeOf[d]]
    BY <1>4, <1>5
  <2> QED BY <1>1, <1>3, <1>5, <2>1, <2>2 DEF DidscShape
<1> QED BY <1>2, <1>4, <1>5, <1>6

------------------------------------------------------------------------------
(* A signature made for one kind of certificate is accepted on no other:   *)
(* the signature purpose, which every function compares first, is covered  *)
(* by the message, and a DeviceIDScribe certificate has no header.         *)

\* Header constants that give no error are as wanted.
LEMMA ConstantsAccepted ==
  ASSUME NEW cert, NEW order, NEW want, NEW got,
         ConstError(cert, order, want, got) = OK,
         NEW i \in DOMAIN order
  PROVE  got[order[i]] = want[order[i]]
<1> DEFINE checks == [j \in DOMAIN order |-> Check(got[order[j]] = want[order[j]], cert, order[j])]
<1>1. AllHold(checks)
  BY FirstErrorOK DEF ConstError
<1>2. checks[i].holds
  BY <1>1 DEF AllHold
<1> QED BY <1>2 DEF Check

\* The headers certificates are issued with have these purposes.
LEMMA Purposes ==
  ASSUME NEW d, NEW f, NEW l
  PROVE  /\ AkcHeader(d, f).const.SignaturePurpose = 11 /\ "const" \in DOMAIN AkcHeader(d, f)
         /\ DidcHeader(d).const.SignaturePurpose = 9 /\ "const" \in DOMAIN DidcHeader(d)
         /\ EkHeader(d, f, l).const.SignaturePurpose = 1
         /\ "const" \in DOMAIN EkHeader(d, f, l)
BY DEF AkcHeader, DidcHeader, EkHeader, AkcConst, DidcConst, EkConst

\* What the messages of issued signatures start with: a header, or a hash.
LEMMA IssuedMessages ==
  ASSUME NEW d, NEW f, NEW l
  PROVE  /\ Akc(d, f).sig.msg[1] = AkcHeader(d, f)
         /\ Didc(d).sig.msg[1] = DidcHeader(d)
         /\ Didsc(d).sig.msg[1] = SHA256(serializeDeviceIDCertificate(Didc(d)))
         /\ Ekc(d, f, l).sig.msg[1] = EkHeader(d, f, l)
<1>1. Akc(d, f).sig.msg[1] = AkcHeader(d, f)
  BY DEF Akc, Sign, serializeAliasKeyCertificate
<1>2. Didc(d).sig.msg[1] = DidcHeader(d) /\ Ekc(d, f, l).sig.msg[1] = EkHeader(d, f, l)
  BY DEF Didc, Ekc, Sign
<1>3. Didsc(d).sig.msg[1] = SHA256(serializeDeviceIDCertificate(Didc(d)))
  BY DEF Didsc, Sign
<1> QED BY <1>1, <1>2, <1>3

\* A hash is no header.
LEMMA HashHasNoConstants ==
  ASSUME NEW msg
  PROVE  "const" \notin DOMAIN SHA256(msg)
BY DEF SHA256

\* An accepted alias key certificate has the signature of one.
LEMMA AkcSignature ==
  ASSUME NEW akc, NEW didc, NEW rwkis,
         validateAliasKeyCertificate(akc, didc, rwkis) = OK,
         "const" \in DOMAIN akc.header, IsIssued(akc.sig)
  PROVE  \E df \in Device \X Firmware : akc.sig = Akc(df[1], df[2]).sig
<1>1. akc.header.const.SignaturePurpose = 11
  <2>1. ConstError("AKC", AkcConstOrder, AkcConst, akc.header.const) = OK
    BY OrElseOK DEF validateAliasKeyCertificate
  <2>2. 2 \in DOMAIN AkcConstOrder /\ AkcConstOrder[2] = "SignaturePurpose"
    BY DEF AkcConstOrder
  <2> QED BY <2>1, <2>2, ConstantsAccepted DEF AkcConst
<1>2. akc.sig.msg[1] = akc.header
  <2>1. akc.sig.msg = serializeAliasKeyCertificate(akc)
    BY AkcAccepted DEF VerifyECDSATitan
  <2>2. serializeAliasKeyCertificate(akc)[1] = akc.header
    BY DEF serializeAliasKeyCertificate
  <2> QED BY <2>1, <2>2
<1>3. ASSUME NEW d, NEW f, NEW l PROVE akc.sig # Ekc(d, f, l).sig /\ akc.sig # Didc(d).sig
  BY <1>1, <1>2, IssuedMessages, Purposes
<1>4. ASSUME NEW d PROVE akc.sig # Didsc(d).sig
  BY <1>2, IssuedMessages, HashHasNoConstants
<1>5. PICK d \in Device, f \in Firmware : akc.sig = Akc(d, f).sig
  BY <1>3, <1>4 DEF IsIssued
<1>6. <<d, f>> \in Device \X Firmware /\ <<d, f>>[1] = d /\ <<d, f>>[2] = f
  OBVIOUS
<1> QED BY <1>5, <1>6

\* An accepted DeviceID certificate has the signature of one.
LEMMA DidcSignature ==
  ASSUME NEW didc, NEW trusted, validateDeviceIDCertificate(didc, trusted) = OK,
         "const" \in DOMAIN didc.header, IsIssued(didc.sig)
  PROVE  \E d \in Device : didc.sig = Didc(d).sig
<1>1. didc.header.const.SignaturePurpose = 9
  <2>1. ConstError("DIDC", DidcConstOrder, DidcConst, didc.header.const) = OK
    BY OrElseOK DEF validateDeviceIDCertificate
  <2>2. 2 \in DOMAIN DidcConstOrder /\ DidcConstOrder[2] = "SignaturePurpose"
    BY DEF DidcConstOrder
  <2> QED BY <2>1, <2>2, ConstantsAccepted DEF DidcConst
<1>2. didc.sig.msg[1] = didc.header
  BY DidcAccepted DEF VerifyECDSATitan, serializeDeviceIDCertificate
<1>3. ASSUME NEW d, NEW f, NEW l PROVE didc.sig # Ekc(d, f, l).sig /\ didc.sig # Akc(d, f).sig
  BY <1>1, <1>2, IssuedMessages, Purposes
<1>4. ASSUME NEW d PROVE didc.sig # Didsc(d).sig
  BY <1>2, IssuedMessages, HashHasNoConstants
<1> QED BY <1>3, <1>4 DEF IsIssued

\* An accepted DeviceIDScribe certificate has the signature of one.
LEMMA DidscSignature ==
  ASSUME NEW didsc, NEW didc, NEW trusted,
         validateDeviceIDScribeCertificate(didsc, didc, trusted) = OK, IsIssued(didsc.sig)
  PROVE  \E d \in Device : didsc.sig = Didsc(d).sig
<1>1. didsc.sig.msg[1] = didsc.certHash
  BY DidscAccepted DEF VerifyECDSATitan, serializeDeviceIDScribeCertificate
<1>2. "const" \notin DOMAIN didsc.certHash
  BY DidscAccepted, HashHasNoConstants
<1>3. ASSUME NEW d, NEW f, NEW l
      PROVE  didsc.sig # Ekc(d, f, l).sig /\ didsc.sig # Akc(d, f).sig /\ didsc.sig # Didc(d).sig
  BY <1>1, <1>2, IssuedMessages, Purposes
<1> QED BY <1>3 DEF IsIssued

------------------------------------------------------------------------------
(* What is genuine is accepted.                                            *)

\* Header constants that are all as wanted give no error.
LEMMA ConstantsRight ==
  ASSUME NEW cert, NEW order, NEW want
  PROVE  ConstError(cert, order, want, want) = OK
<1> DEFINE checks == [i \in DOMAIN order |-> Check(want[order[i]] = want[order[i]], cert, order[i])]
<1>1. AllHold(checks)
  BY DEF AllHold, Check
<1> QED BY <1>1, FirstErrorOK DEF ConstError

\* The hierarchy in a qualified name tells an FEK's from an EK's.
LEMMA KindInName ==
  ASSUME NEW l \in BOOLEAN, NEW m \in BOOLEAN, NEW k, NEW p,
         QualifiedName(l, k) = QualifiedName(m, p)
  PROVE  l = m
<1>1. (IF l THEN "FWEndorsement" ELSE "Endorsement")
        = (IF m THEN "FWEndorsement" ELSE "Endorsement")
  BY DEF QualifiedName, computePrimaryQualifiedName, SHA256
<1> QED BY <1>1

\* A device's EK certificate of the kind the caller expects is accepted.
LEMMA GenuineEkAccepted ==
  ASSUME NEW d, NEW f, NEW l
  PROVE  ValidateEKCertificate(Ekc(d, f, l), Akc(d, f), l).err = OK
<1> DEFINE ekc == Ekc(d, f, l)
           akc == Akc(d, f)
<1>1. ekc.header = EkHeader(d, f, l) /\ ekc.pub = EKKey[<<d, f, l>>]
  BY DEF Ekc
<1>2. akc.header = AkcHeader(d, f) /\ akc.pub = AliasKey[<<d, f>>]
  BY DEF Akc
<1>3. VerifyECDSATitan(akc.pub, serializeEKCertificate(ekc), ekc.sig)
  BY DEF VerifyECDSATitan, serializeEKCertificate, Ekc, Akc, Sign
<1> HIDE DEF ekc, akc
<1>4. ConstError("EK", EkConstOrder, EkConst, ekc.header.const) = OK
  BY <1>1, ConstantsRight DEF EkHeader
<1>5. /\ akc.header.HWCat = ekc.header.HWCat
      /\ akc.header.HWID = ekc.header.HWID
      /\ akc.header.BootloaderTag = ekc.header.BootloaderTag
      /\ akc.header.FWEpoch = ekc.header.FWEpoch
      /\ l => akc.header.FWMajorVersion = ekc.header.FWMajorVersion
      /\ ~l => ekc.header.FWMajorVersion = 0
      /\ ekc.header.QualifiedName = QualifiedName(l, ekc.pub)
  BY <1>1, <1>2 DEF EkHeader, AkcHeader
<1>6. AllHold(EkChecks(ekc, akc, l))
  <2> DEFINE checks == EkChecks(ekc, akc, l)
  <2>1. DOMAIN checks = 1 .. 7
    BY DEF EkChecks
  <2>2. /\ checks[1].holds /\ checks[2].holds /\ checks[3].holds /\ checks[4].holds
        /\ checks[5].holds /\ checks[7].holds
    BY <1>3, <1>5 DEF EkChecks, Check
  <2>3. checks[6].holds
    BY <1>5 DEF EkChecks, Check
  <2> QED BY <2>1, <2>2, <2>3 DEF AllHold
<1>7. FirstError(EkChecks(ekc, akc, l)) = OK
  BY <1>6, FirstErrorOK
<1> QED BY <1>4, <1>7, OrElseOK DEF ValidateEKCertificate, ekc, akc

\* And one of the other kind is refused.
LEMMA OtherEkRefused ==
  ASSUME NEW d, NEW f, NEW l \in BOOLEAN, NEW m \in BOOLEAN,
         ValidateEKCertificate(Ekc(d, f, l), Akc(d, f), m).err = OK
  PROVE  m = l
<1> DEFINE ekc == Ekc(d, f, l)
<1>1. ekc.header.QualifiedName = QualifiedName(m, ekc.pub)
  BY EkAccepted
<1>2. ekc.header.QualifiedName = QualifiedName(l, ekc.pub)
  BY DEF Ekc, EkHeader
<1> QED BY <1>1, <1>2, KindInName

\* A genuine alias key certificate passes its checks against the DeviceID
\* certificate of its device, whether it holds a firmware hash or not.
LEMMA GenuineAkcAccepted ==
  ASSUME NEW d, NEW f \in Firmware, NEW rwkis, CodeKeyInfo[f] \in rwkis
  PROVE  validateAliasKeyCertificate(Akc(d, f), Didc(d), rwkis) = OK
<1> DEFINE akc == Akc(d, f)
           didc == Didc(d)
<1>1. akc.header = AkcHeader(d, f) /\ akc.fwHash = AkcFWHash(d, f)
  BY DEF Akc
<1>2. didc.header = DidcHeader(d) /\ didc.key = DeviceKey[d]
  BY DEF Didc
<1>3. VerifyECDSATitan(didc.key, serializeAliasKeyCertificate(akc), akc.sig)
  BY DEF VerifyECDSATitan, serializeAliasKeyCertificate, Akc, Didc, Sign
<1> HIDE DEF akc, didc
<1>4. ConstError("AKC", AkcConstOrder, AkcConst, akc.header.const) = OK
  BY <1>1, ConstantsRight DEF AkcHeader
<1>5. akc.header.ExtensionHeaderType
        = IF akc.fwHash # ZeroHash THEN EHTFirmwareHash ELSE EHTNone
  BY <1>1, FleetAssumption DEF AkcHeader, AkcFWHash
<1>6. /\ akc.header.SignKeyInfo \in rwkis
      /\ didc.header.HWID = akc.header.HWID
      /\ didc.header.HWCat = akc.header.HWCat
      /\ didc.header.BootloaderTag = akc.header.BootloaderTag
      /\ ComputeKeyInfoTitan(didc.key) = akc.header.KeyInfo
  BY <1>1, <1>2 DEF AkcHeader, DidcHeader
<1>7. AllHold(AkcChecks(akc, didc, rwkis))
  <2> DEFINE checks == AkcChecks(akc, didc, rwkis)
  <2>1. DOMAIN checks = 1 .. 7
    BY DEF AkcChecks
  <2>2. /\ checks[1].holds /\ checks[2].holds /\ checks[4].holds /\ checks[5].holds
        /\ checks[6].holds /\ checks[7].holds
    BY <1>3, <1>5, <1>6 DEF AkcChecks, Check
  <2>3. checks[3].holds
    BY <1>6 DEF AkcChecks, Check
  <2> QED BY <2>1, <2>2, <2>3 DEF AllHold
<1>8. FirstError(AkcChecks(akc, didc, rwkis)) = OK
  BY <1>7, FirstErrorOK
<1> QED BY <1>4, <1>8, OrElseOK DEF validateAliasKeyCertificate, akc, didc

\* A genuine DeviceID certificate is accepted by a validator that trusts the
\* payload key it was signed with and finds it where Scribe wrote it would be.
LEMMA GenuineDidcAccepted ==
  ASSUME NEW d, NEW trusted,
         ComputeKeyIDECDSA(PayloadKey[ScribeOf[d]]) = DocumentedKeyID(PayloadKey[ScribeOf[d]]),
         ComputeKeyIDECDSA(PayloadKey[ScribeOf[d]]) \in DOMAIN trusted,
         trusted[ComputeKeyIDECDSA(PayloadKey[ScribeOf[d]])] = PayloadCert(ScribeOf[d])
  PROVE  validateDeviceIDCertificate(Didc(d), trusted) = OK
<1> DEFINE didc == Didc(d)
           id == didc.header.ScribeKeyID
<1>1. /\ id = DocumentedKeyID(PayloadKey[ScribeOf[d]])
      /\ Prefix4(id) = didc.header.KeyInfo
      /\ didc.header.const = DidcConst
  BY DEF Didc, DidcHeader
<1>2. VerifyECDSATitan(PayloadKey[ScribeOf[d]], serializeDeviceIDCertificate(didc), didc.sig)
  BY DEF VerifyECDSATitan, serializeDeviceIDCertificate, Didc, Sign
<1> HIDE DEF didc
<1>3. /\ id \in DOMAIN trusted
      /\ trusted[id].type = SelfSignedScribeType
      /\ trusted[id].subject = PayloadKey[ScribeOf[d]]
  BY <1>1 DEF PayloadCert
<1>4. AllHold(DidcChecks(didc, trusted))
  <2> DEFINE checks == DidcChecks(didc, trusted)
  <2>1. DOMAIN checks = 1 .. 4
    BY DEF DidcChecks
  <2>2. checks[1].holds /\ checks[2].holds /\ checks[3].holds /\ checks[4].holds
    BY <1>1, <1>2, <1>3 DEF DidcChecks, Check
  <2> QED BY <2>1, <2>2 DEF AllHold
<1>5. FirstError(DidcChecks(didc, trusted)) = OK
  BY <1>4, FirstErrorOK
<1>6. ConstError("DIDC", DidcConstOrder, DidcConst, didc.header.const) = OK
  BY <1>1, ConstantsRight
<1> QED BY <1>5, <1>6, OrElseOK DEF validateDeviceIDCertificate, didc

\* Where the payload key has a coordinate with a zero top byte, no validator that
\* NewValidator makes accepts a genuine DeviceID certificate, whatever its roots:
\* key_utils.go:56 finds for the key that signed it another KeyID than Scribe wrote
\* in it.
THEOREM ShortKeyRefused ==
  ASSUME NEW d \in Device, NEW roots, NEW trusted \in NewValidatorMaps(roots),
         ~WholeKey(PayloadKey[ScribeOf[d]])
  PROVE  validateDeviceIDCertificate(Didc(d), trusted) # OK
<1> DEFINE key == PayloadKey[ScribeOf[d]]
           didc == Didc(d)
           id == didc.header.ScribeKeyID
           checks == DidcChecks(didc, trusted)
<1> SUFFICES ASSUME validateDeviceIDCertificate(didc, trusted) = OK PROVE FALSE
  OBVIOUS
<1>1. id = DocumentedKeyID(key) /\ didc.sig.key = key
  BY DEF Didc, DidcHeader, Sign
<1>2. ComputeKeyIDECDSA(key) # DocumentedKeyID(key)
  BY KeysAreKeys, KeyIDAsDocumented DEF IsKey
<1> HIDE DEF key, didc
<1>3. id \in DOMAIN trusted /\ trusted[id].subject = didc.sig.key
  <2>1. AllHold(checks)
    BY FirstErrorOK, OrElseOK DEF validateDeviceIDCertificate
  <2>2. checks[1].holds /\ checks[4].holds
    BY <2>1 DEF AllHold, DidcChecks
  <2> QED BY <2>2 DEF DidcChecks, Check, VerifyECDSATitan
<1>4. ComputeKeyIDECDSA(trusted[id].subject) = id
  BY <1>3 DEF NewValidatorMaps
<1> QED BY <1>1, <1>2, <1>3, <1>4

\* So is a genuine DeviceIDScribe certificate, next to its DeviceID certificate.
LEMMA GenuineDidscAccepted ==
  ASSUME NEW d, NEW trusted,
         ComputeKeyIDECDSA(RWKey[ScribeOf[d]]) \in DOMAIN trusted,
         trusted[ComputeKeyIDECDSA(RWKey[ScribeOf[d]])] = RWCert(ScribeOf[d])
  PROVE  validateDeviceIDScribeCertificate(Didsc(d), Didc(d), trusted) = OK
<1> DEFINE didsc == Didsc(d)
           didc == Didc(d)
           id == ComputeKeyIDECDSA(didsc.scribeRWKey)
<1>1. /\ didsc.scribeRWKey = RWKey[ScribeOf[d]]
      /\ SHA256(serializeDeviceIDCertificate(didc)) = didsc.certHash
  BY DEF Didsc
<1>2. VerifyECDSATitan(RWKey[ScribeOf[d]], serializeDeviceIDScribeCertificate(didsc), didsc.sig)
  BY DEF VerifyECDSATitan, serializeDeviceIDScribeCertificate, Didsc, Sign
<1> HIDE DEF didsc, didc
<1>3. /\ id \in DOMAIN trusted
      /\ trusted[id].type = TitanScribeType
      /\ trusted[id].subject = RWKey[ScribeOf[d]]
  BY <1>1 DEF RWCert
<1>4. AllHold(DidscChecks(didsc, didc, trusted))
  <2> DEFINE checks == DidscChecks(didsc, didc, trusted)
  <2>1. DOMAIN checks = 1 .. 4
    BY DEF DidscChecks
  <2>2. checks[1].holds /\ checks[2].holds /\ checks[3].holds /\ checks[4].holds
    BY <1>1, <1>2, <1>3 DEF DidscChecks, Check
  <2> QED BY <2>1, <2>2 DEF AllHold
<1> QED BY <1>4, FirstErrorOK DEF validateDeviceIDScribeCertificate, didsc, didc

------------------------------------------------------------------------------
(* What an error blames.                                                   *)

\* An error about a header constant names the certificate of the header.
LEMMA ConstantsBlame ==
  ASSUME NEW cert, NEW order, NEW want, NEW got,
         \E n \in Nat : DOMAIN order = 1 .. n,
         ConstError(cert, order, want, got) # OK
  PROVE  ConstError(cert, order, want, got)[1] = cert
<1>. PICK n \in Nat : DOMAIN order = 1 .. n
  OBVIOUS
<1> DEFINE checks == [i \in DOMAIN order |-> Check(got[order[i]] = want[order[i]], cert, order[i])]
<1>1. ConstError(cert, order, want, got) = FirstError(checks)
  BY DEF ConstError
<1>2. DOMAIN checks = 1 .. n /\ \A i \in 1 .. n : checks[i].cert = cert
  BY DEF Check
<1> HIDE DEF checks
<1>3. ~AllHold(checks)
  BY <1>1, FirstErrorOK
<1>4. PICK i \in 1 .. n : FirstError(checks) = <<checks[i].cert, checks[i].field>>
  BY <1>2, <1>3, FirstErrorFirst
<1> QED BY <1>1, <1>2, <1>4

\* validateAliasKeyCertificate blames the alias key certificate, except for a
\* DeviceID certificate whose hardware ID reads 0.
LEMMA AkcBlame ==
  ASSUME NEW akc, NEW didc, NEW rwkis,
         validateAliasKeyCertificate(akc, didc, rwkis) # OK
  PROVE  /\ validateAliasKeyCertificate(akc, didc, rwkis)[1] \in {"AKC", "DIDC"}
         /\ didc.header.HWID # 0 => validateAliasKeyCertificate(akc, didc, rwkis)[1] = "AKC"
<1> DEFINE constants == ConstError("AKC", AkcConstOrder, AkcConst, akc.header.const)
           checks == AkcChecks(akc, didc, rwkis)
           blames(err) == err[1] \in {"AKC", "DIDC"} /\ (didc.header.HWID # 0 => err[1] = "AKC")
<1>1. validateAliasKeyCertificate(akc, didc, rwkis) = OrElse(constants, FirstError(checks))
  BY DEF validateAliasKeyCertificate
<1>2. constants # OK => blames(constants)
  <2>1. \E n \in Nat : DOMAIN AkcConstOrder = 1 .. n
    BY DEF AkcConstOrder
  <2> QED BY <2>1, ConstantsBlame
<1>3. FirstError(checks) # OK => blames(FirstError(checks))
  <2>1. DOMAIN checks = 1 .. 7
    BY DEF AkcChecks
  <2>2. \A i \in 1 .. 7 : checks[i].cert = IF i = 3 /\ didc.header.HWID = 0 THEN "DIDC" ELSE "AKC"
    <3>1. /\ checks[1].cert = "AKC" /\ checks[2].cert = "AKC"
          /\ checks[3].cert = IF didc.header.HWID = 0 THEN "DIDC" ELSE "AKC"
      BY DEF AkcChecks, Check
    <3>2. /\ checks[4].cert = "AKC" /\ checks[5].cert = "AKC" /\ checks[6].cert = "AKC"
          /\ checks[7].cert = "AKC"
      BY DEF AkcChecks, Check
    <3> HIDE DEF checks
    <3> QED BY <3>1, <3>2
  <2> HIDE DEF checks
  <2> SUFFICES ASSUME FirstError(checks) # OK PROVE blames(FirstError(checks))
    OBVIOUS
  <2>3. PICK i \in 1 .. 7 : FirstError(checks) = <<checks[i].cert, checks[i].field>>
    BY <2>1, FirstErrorOK, FirstErrorFirst
  <2>4. FirstError(checks)[1] = checks[i].cert
    BY <2>3
  <2> QED BY <2>2, <2>4
<1> HIDE DEF constants, checks
<1> QED BY <1>1, <1>2, <1>3, OrElseEither

\* A genuine alias key certificate next to a DeviceID certificate whose hardware
\* ID reads 0 shows the corruption of the flash.
LEMMA AkcBlamesFlash ==
  ASSUME NEW d \in Device, NEW f \in Firmware, NEW didc, NEW rwkis,
         CodeKeyInfo[f] \in rwkis, didc.header.HWID = 0
  PROVE  validateAliasKeyCertificate(Akc(d, f), didc, rwkis) = <<"DIDC", "HWID0">>
<1> DEFINE akc == Akc(d, f)
           checks == AkcChecks(akc, didc, rwkis)
<1>1. akc.header = AkcHeader(d, f) /\ akc.fwHash = AkcFWHash(d, f)
  BY DEF Akc
<1> HIDE DEF akc
<1>2. ConstError("AKC", AkcConstOrder, AkcConst, akc.header.const) = OK
  BY <1>1, ConstantsRight DEF AkcHeader
<1>3. checks[1].holds /\ checks[2].holds
  <2>1. akc.header.ExtensionHeaderType
          = IF akc.fwHash # ZeroHash THEN EHTFirmwareHash ELSE EHTNone
    BY <1>1, FleetAssumption DEF AkcHeader, AkcFWHash
  <2>2. akc.header.SignKeyInfo \in rwkis
    BY <1>1 DEF AkcHeader
  <2> QED BY <2>1, <2>2 DEF AkcChecks, Check
<1>4. ~checks[3].holds /\ <<checks[3].cert, checks[3].field>> = <<"DIDC", "HWID0">>
  <2>1. akc.header.HWID # 0
    BY <1>1, FleetAssumption DEF AkcHeader
  <2> QED BY <2>1 DEF AkcChecks, Check
<1>5. DOMAIN checks = 1 .. 7
  BY DEF AkcChecks
<1> HIDE DEF checks
<1>6. ~AllHold(checks)
  BY <1>4, <1>5 DEF AllHold
<1>7. FirstError(checks) = <<"DIDC", "HWID0">>
  <2>1. PICK i \in 1 .. 7 :
          /\ ~checks[i].holds
          /\ \A j \in 1 .. i - 1 : checks[j].holds
          /\ FirstError(checks) = <<checks[i].cert, checks[i].field>>
    BY <1>5, <1>6, FirstErrorFirst
  <2>2. i # 1 /\ i # 2 /\ ~(i > 3)
    BY <1>3, <1>4, <2>1
  <2>3. i = 3
    BY <2>2
  <2> QED BY <1>4, <2>1, <2>3
<1> QED BY <1>2, <1>7, OrElseEither DEF validateAliasKeyCertificate, akc, checks

\* validateDeviceIDCertificate blames the DeviceID certificate.
LEMMA DidcBlame ==
  ASSUME NEW didc, NEW trusted, validateDeviceIDCertificate(didc, trusted) # OK
  PROVE  validateDeviceIDCertificate(didc, trusted)[1] = "DIDC"
<1> DEFINE constants == ConstError("DIDC", DidcConstOrder, DidcConst, didc.header.const)
           checks == DidcChecks(didc, trusted)
<1>1. validateDeviceIDCertificate(didc, trusted) = OrElse(constants, FirstError(checks))
  BY DEF validateDeviceIDCertificate
<1>2. constants # OK => constants[1] = "DIDC"
  <2>1. \E n \in Nat : DOMAIN DidcConstOrder = 1 .. n
    BY DEF DidcConstOrder
  <2> QED BY <2>1, ConstantsBlame
<1>3. FirstError(checks) # OK => FirstError(checks)[1] = "DIDC"
  <2>1. DOMAIN checks = 1 .. 4
    BY DEF DidcChecks
  <2>2. /\ checks[1].cert = "DIDC" /\ checks[2].cert = "DIDC"
        /\ checks[3].cert = "DIDC" /\ checks[4].cert = "DIDC"
    BY DEF DidcChecks, Check
  <2> HIDE DEF checks
  <2> SUFFICES ASSUME FirstError(checks) # OK PROVE FirstError(checks)[1] = "DIDC"
    OBVIOUS
  <2>3. PICK i \in 1 .. 4 : FirstError(checks) = <<checks[i].cert, checks[i].field>>
    BY <2>1, FirstErrorOK, FirstErrorFirst
  <2> QED BY <2>2, <2>3
<1> HIDE DEF constants, checks
<1> QED BY <1>1, <1>2, <1>3, OrElseEither

\* validateDeviceIDScribeCertificate blames the DeviceIDScribe certificate.
LEMMA DidscBlame ==
  ASSUME NEW didsc, NEW didc, NEW trusted,
         validateDeviceIDScribeCertificate(didsc, didc, trusted) # OK
  PROVE  validateDeviceIDScribeCertificate(didsc, didc, trusted)[1] = "DIDSC"
<1> DEFINE checks == DidscChecks(didsc, didc, trusted)
<1>1. validateDeviceIDScribeCertificate(didsc, didc, trusted) = FirstError(checks)
  BY DEF validateDeviceIDScribeCertificate
<1>2. DOMAIN checks = 1 .. 4
  BY DEF DidscChecks
<1>3. /\ checks[1].cert = "DIDSC" /\ checks[2].cert = "DIDSC"
      /\ checks[3].cert = "DIDSC" /\ checks[4].cert = "DIDSC"
  BY DEF DidscChecks, Check
<1> HIDE DEF checks
<1>4. PICK i \in 1 .. 4 : FirstError(checks) = <<checks[i].cert, checks[i].field>>
  BY <1>1, <1>2, FirstErrorOK, FirstErrorFirst
<1> QED BY <1>1, <1>3, <1>4

=============================================================================
