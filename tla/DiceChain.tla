------------------------------ MODULE DiceChain ------------------------------
(***************************************************************************)
(* A verifier session over the certificates of a fleet of Titan devices    *)
(* (titan/dice/titandice/dice_certificate_validator.go): NewValidator,     *)
(* ValidateScribeCertificateChain and ValidateEKCertificate, called in any *)
(* order the package allows on whatever certificates the caller has.       *)
(*                                                                         *)
(* The fleet is the source of certificates and is external to the code:    *)
(* Scribe provisions devices, devices boot firmware and certify its keys.  *)
(* The caller may mix certificates of several devices and several boots,   *)
(* and one of them may have a damaged part (read back from flash, cut from *)
(* a file, filled into the package's structures by hand).                  *)
(***************************************************************************)
EXTENDS DiceCertificates

CONSTANTS
  Policies,         \* the options: [roots: trusted certificates, infos: KeyInfos]
  DamagedHeader(_), \* what a header may read as when a field of it is damaged,
  DamagedKey(_),    \* and a key,
  DamagedHash(_),   \* and a hash
  MayDamage,        \* the certificates damaged in this instance: "chain", "ek"
  EKKinds           \* the kinds of EK certificates in this instance, of BOOLEAN

ASSUME KindsAssumption == EKKinds \subseteq BOOLEAN

ASSUME PoliciesAssumption ==
  \A p \in Policies : \A c \in p.roots : c = [type |-> c.type, subject |-> c.subject]

NoPolicy  == [roots |-> {}, infos |-> {}]
NoChain   == [akc |-> << >>]
Unchecked == <<"Unchecked", "">>
NilChain  == <<"chain", "Missing">>
NoEk      == [err |-> Unchecked]

VARIABLES
  provisioned,  \* devices whose certificates Scribe has signed
  booted,       \* pairs of a device and a firmware it has booted
  policy,       \* the options the validator in use was made from
  scribes,      \* its TrustedScribeCerts; its other map is policy.infos
  chain,        \* the chain parsed, NoChain (a nil pointer) before
  verdict,      \* what ValidateScribeCertificateChain said of it
  ek            \* the last EK certificate and what ValidateEKCertificate said

fleet == <<provisioned, booted>>
vars  == <<provisioned, booted, policy, scribes, chain, verdict, ek>>

------------------------------------------------------------------------------
(* Certificates a caller can have.                                         *)

DamagedSig(sig) == [sig EXCEPT !.intact = FALSE]

DamagedAkcs(c) ==
  {[c EXCEPT !.header = h] : h \in DamagedHeader(c.header)}
    \cup {[c EXCEPT !.pub = k] : k \in DamagedKey(c.pub)}
    \cup {[c EXCEPT !.fwHash = w] : w \in DamagedHash(c.fwHash)}
    \cup {[c EXCEPT !.sig = DamagedSig(c.sig)]}

DamagedDidcs(c) ==
  {[c EXCEPT !.header = h] : h \in DamagedHeader(c.header)}
    \cup {[c EXCEPT !.key = k] : k \in DamagedKey(c.key)}
    \cup {[c EXCEPT !.sig = DamagedSig(c.sig)]}

DamagedDidscs(c) ==
  {[c EXCEPT !.certHash = w] : w \in DamagedHash(c.certHash)}
    \cup {[c EXCEPT !.scribeRWKey = k] : k \in DamagedKey(c.scribeRWKey)}
    \cup {[c EXCEPT !.sig = DamagedSig(c.sig)]}

DamagedEkcs(c) ==
  {[c EXCEPT !.header = h] : h \in DamagedHeader(c.header)}
    \cup {[c EXCEPT !.pub = k] : k \in DamagedKey(c.pub)}
    \cup {[c EXCEPT !.sig = DamagedSig(c.sig)]}

\* Chains put together from issued certificates, of one device or of several.
IssuedChains ==
  {[akc |-> Akc(df[1], df[2]), didc |-> Didc(d1), didsc |-> Didsc(d2)]
     : df \in booted, d1 \in provisioned, d2 \in provisioned}

DamagedChains ==
  UNION {   {[c EXCEPT !.akc = a] : a \in DamagedAkcs(c.akc)}
       \cup {[c EXCEPT !.didc = a] : a \in DamagedDidcs(c.didc)}
       \cup {[c EXCEPT !.didsc = a] : a \in DamagedDidscs(c.didsc)}
     : c \in IssuedChains}

IssuedEkcs == {Ekc(df[1], df[2], limited) : df \in booted, limited \in EKKinds}

AllDamagedEkcs == UNION {DamagedEkcs(c) : c \in IssuedEkcs}

------------------------------------------------------------------------------
(* The session.                                                            *)

Init ==
  /\ provisioned = {}
  /\ booted = {}
  /\ policy = NoPolicy
  /\ scribes = << >>
  /\ chain = NoChain
  /\ verdict = Unchecked
  /\ ek = NoEk

Provision(d) ==
  /\ chain = NoChain
  /\ d \notin provisioned
  /\ provisioned' = provisioned \cup {d}
  /\ UNCHANGED <<booted, policy, scribes, chain, verdict, ek>>

Boot(d, f) ==
  /\ chain = NoChain
  /\ d \in provisioned
  /\ <<d, f>> \notin booted
  /\ booted' = booted \cup {<<d, f>>}
  /\ UNCHANGED <<provisioned, policy, scribes, chain, verdict, ek>>

\* Mutant of NewValidator: the map of the last validator is kept.
NewValidatorStale ==
  /\ chain = NoChain
  /\ \E p \in Policies :
       /\ policy' = p
       /\ scribes' \in IF scribes = << >> THEN NewValidatorMaps(p.roots) ELSE {scribes}
  /\ UNCHANGED <<provisioned, booted, chain, verdict, ek>>

NewValidator ==
  /\ chain = NoChain
  /\ \E p \in Policies :
       /\ policy' = p
       /\ scribes' \in NewValidatorMaps(p.roots)
  /\ UNCHANGED <<provisioned, booted, chain, verdict, ek>>

\* The caller parses a chain, or fills one in.
Receive ==
  /\ chain = NoChain
  /\ chain' \in IssuedChains \cup (IF "chain" \in MayDamage THEN DamagedChains ELSE {})
  /\ verdict' = Unchecked
  /\ UNCHANGED <<provisioned, booted, policy, scribes, ek>>

ValidateChain ==
  /\ policy # NoPolicy
  /\ verdict = Unchecked
  /\ verdict' = IF chain = NoChain THEN NilChain
                ELSE ValidateScribeCertificateChain(chain, scribes, policy.infos)
  /\ UNCHANGED <<provisioned, booted, policy, scribes, chain, ek>>

\* Takes the chain's alias key certificate, validated or not.
ValidateEk ==
  /\ chain # NoChain
  /\ ek = NoEk
  /\ \E limited \in EKKinds,
        c \in IssuedEkcs \cup (IF "ek" \in MayDamage THEN AllDamagedEkcs ELSE {}) :
       LET result == ValidateEKCertificate(c, chain.akc, limited)
       IN  ek' = [cert |-> c, limited |-> limited,
                  err |-> result.err, template |-> result.template]
  /\ UNCHANGED <<provisioned, booted, policy, scribes, chain, verdict>>

\* The caller is done with this chain and keeps the validator.
Forget ==
  /\ chain # NoChain \/ verdict # Unchecked
  /\ chain' = NoChain
  /\ verdict' = Unchecked
  /\ ek' = NoEk
  /\ UNCHANGED <<provisioned, booted, policy, scribes>>

Next ==
  \/ \E d \in Device : Provision(d)
  \/ \E d \in Device, f \in Firmware : Boot(d, f)
  \/ NewValidator
  \/ Receive
  \/ ValidateChain
  \/ ValidateEk
  \/ Forget

Spec == Init /\ [][Next]_vars

------------------------------------------------------------------------------
(* Properties.                                                             *)

TypeOK ==
  /\ provisioned \subseteq Device
  /\ booted \subseteq provisioned \X Firmware
  /\ policy \in Policies \cup {NoPolicy}
  /\ scribes \in NewValidatorMaps(policy.roots)
  /\ ek # NoEk => chain # NoChain /\ ek.limited \in EKKinds

\* Signatures do not appear from nowhere: one that is intact was made by the
\* fleet, whatever became of the certificate it stands in.
SignaturesIssued ==
  /\ chain # NoChain =>
       /\ chain.akc.sig.intact => \E df \in booted : chain.akc.sig = Akc(df[1], df[2]).sig
       /\ chain.didc.sig.intact => \E d \in provisioned : chain.didc.sig = Didc(d).sig
       /\ chain.didsc.sig.intact => \E d \in provisioned : chain.didsc.sig = Didsc(d).sig
  /\ ek # NoEk =>
       /\ ek.cert.sig.intact =>
            \E df \in booted, limited \in EKKinds :
              ek.cert.sig = Ekc(df[1], df[2], limited).sig

\* The certificates in hand have their parts, damaged or not.
ShapesKept ==
  /\ chain # NoChain =>
       /\ chain = [akc |-> chain.akc, didc |-> chain.didc, didsc |-> chain.didsc]
       /\ AkcShape(chain.akc) /\ DidcShape(chain.didc) /\ DidscShape(chain.didsc)
  /\ ek # NoEk => EkShape(ek.cert)

\* Answers speak of what the session holds now: of this chain under this
\* validator, and of this EK certificate under this chain's alias key.
AnswersCurrent ==
  /\ verdict # Unchecked =>
       verdict = IF chain = NoChain THEN NilChain
                 ELSE ValidateScribeCertificateChain(chain, scribes, policy.infos)
  /\ ek # NoEk =>
       /\ chain # NoChain
       /\ ek.err = ValidateEKCertificate(ek.cert, chain.akc, ek.limited).err
       /\ ek.template = ValidateEKCertificate(ek.cert, chain.akc, ek.limited).template

\* The inductive invariant the theorems of DiceChain_proofs rest on: the state
\* is well typed, its intact signatures are the fleet's, and both answers are
\* those of the certificates at hand.
IInv == TypeOK /\ SignaturesIssued /\ ShapesKept /\ AnswersCurrent

\* The policy covers this device and this firmware: the Scribe that made the
\* device is among the trusted roots in both its roles, and the firmware was
\* signed with a trusted code signing key.
Covered(d, f) ==
  /\ PayloadCert(ScribeOf[d]) \in policy.roots
  /\ RWCert(ScribeOf[d]) \in policy.roots
  /\ CodeKeyInfo[f] \in policy.infos

\* Another circumstance, besides WholeKeys, under which genuine certificates are
\* accepted: no two roots of a policy have one KeyID (the later overwrites the
\* earlier, lines 44-51).
RootsDistinct ==
  \A p \in Policies : \A c, e \in p.roots :
    ComputeKeyIDECDSA(c.subject) = ComputeKeyIDECDSA(e.subject) => c = e

\* An accepted chain is, to the last field of its three certificates, the one
\* that a single provisioned device holds after booting one firmware, and the
\* policy covers both.  Certificates of two devices, of two boots, or with a
\* damaged part, are never accepted together (ValidateScribeCertificateChain).
ChainAuthentic ==
  verdict = OK =>
    \E df \in booted : chain = Chain(df[1], df[2]) /\ Covered(df[1], df[2])

\* When the chain and an EK certificate are both accepted, in either order, the
\* template returned to the caller is that of the EK, or of the FEK if one was
\* expected, of the very device and firmware the chain attests
\* (ValidateEKCertificate takes an alias key certificate nobody has validated).
EkAuthentic ==
  verdict = OK /\ ek.err = OK =>
    \E df \in booted :
      /\ chain = Chain(df[1], df[2])
      /\ ek.cert = Ekc(df[1], df[2], ek.limited)
      /\ ek.template = Template(ek.limited, EKKey[<<df[1], df[2], ek.limited>>])

\* A genuine chain of a device and a firmware the policy covers is accepted,
\* with or without a firmware hash, whatever else the validator trusts.
GenuineChainAccepted ==
  \A df \in booted :
    chain = Chain(df[1], df[2]) /\ verdict # Unchecked /\ Covered(df[1], df[2])
      => verdict = OK

\* A root is hidden when the validator holds another one under its KeyID.
Hidden(root) == scribes[ComputeKeyIDECDSA(root.subject)] # root

\* Of roots with one KeyID the map keeps the one the loop came to last (lines 44-51),
\* and they come in any order (verify.go:45).  Which one it keeps decides about the
\* chain of a covered device as follows: it is accepted exactly when neither of its
\* two roots is hidden, and otherwise the error names the certificate that the hidden
\* root vouches for, never another, and says that the root found there is of the
\* wrong type or has not signed it.
KeptRootDecides ==
  \A df \in booted :
    chain = Chain(df[1], df[2]) /\ verdict # Unchecked /\ Covered(df[1], df[2]) =>
      LET payload == Hidden(PayloadCert(ScribeOf[df[1]]))
          rw      == Hidden(RWCert(ScribeOf[df[1]]))
      IN  /\ payload => verdict \in {"DIDC"} \X {"ScribeType", "Signature"}
          /\ ~payload /\ rw => verdict \in {"DIDSC"} \X {"ScribeType", "Signature"}
          /\ ~payload /\ ~rw => verdict = OK

\* Of a genuine EK or FEK certificate, ValidateEKCertificate accepts exactly the
\* kind the caller expects, even for a firmware of major version 0, whose two
\* certificates carry the same version.
EkKindDecided ==
  \A df \in booted, limited \in EKKinds :
    ek # NoEk /\ chain.akc = Akc(df[1], df[2]) /\ ek.cert = Ekc(df[1], df[2], limited)
      => (ek.err = OK) = (ek.limited = limited)

\* The error names the certificate at fault when the other two are those of a
\* covered device: a wrong or damaged alias key certificate is never blamed on
\* the DeviceID's, nor a DeviceIDScribe certificate on the others.  The alias
\* key certificate is compared with the DeviceID certificate before that one is
\* checked, so a fault of the latter may show as a mismatch of the two, but a
\* hardware ID of 0 is reported as the flash corruption it is (lines 213-219).
FaultLocated ==
  chain # NoChain /\ verdict \notin {Unchecked, OK} =>
    \A df \in booted :
      LET good == Chain(df[1], df[2])
          akc   == chain.akc = good.akc
          didc  == chain.didc = good.didc
          didsc == chain.didsc = good.didsc
      IN  Covered(df[1], df[2]) =>
            /\ didc /\ didsc => verdict[1] = "AKC"
            /\ akc /\ didc => verdict[1] = "DIDSC"
            /\ akc /\ didsc => verdict[1] \in {"AKC", "DIDC"}
            /\ akc /\ didsc /\ chain.didc.header.HWID = 0 => verdict = <<"DIDC", "HWID0">>

------------------------------------------------------------------------------
(* Refinement of Attestation: the pair attested is the one whose genuine   *)
(* chain the accepted chain is.  Were a chain accepted that is no one's,   *)
(* it would attest the pair Nobody, which Attestation never does.          *)

Pairs  == Device \X Firmware
Nobody == <<>>

Subjects == LET real == {df \in Pairs : chain = Chain(df[1], df[2])}
            IN  IF real = {} THEN {Nobody} ELSE real
Keys == LET real == {dfk \in Subjects \X EKKinds :
                        dfk[1] # Nobody /\ ek.cert = Ekc(dfk[1][1], dfk[1][2], dfk[2])
                          /\ ek.limited = dfk[2]}
        IN  IF real = {} THEN {Nobody} ELSE real

CoveredPairs == {df \in Pairs : Covered(df[1], df[2])}
Attested     == IF verdict = OK THEN Subjects ELSE {}
Endorsed     == IF verdict = OK /\ ek.err = OK THEN Keys ELSE {}

Abstract == INSTANCE Attestation WITH
  covered  <- CoveredPairs,
  attested <- Attested,
  endorsed <- Endorsed

\* Every session is one that Attestation allows: the answers of
\* ValidateScribeCertificateChain and ValidateEKCertificate together only ever
\* speak of one booted, covered pair until the session ends.
ImplementsAttestation == Abstract!Spec

=============================================================================
