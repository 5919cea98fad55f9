------------------------- MODULE ScribeCertificates -------------------------
(***************************************************************************)
(* Scribe certificates, the roots of trust of the validator                *)
(* (titan/dice/titandice/scribe_certificate.go): how a file becomes a      *)
(* certificate or an error.                                                *)
(*                                                                         *)
(* A file is a record: "magic" its first field, "bytes" its length, and    *)
(* the authority and subject keys and the signature (r, s) that its layout *)
(* holds.  The signature is range-checked and never verified, by the code  *)
(* as in this model: a root is trusted because the caller supplies it.     *)
(***************************************************************************)
EXTENDS TitanKeys

CONSTANTS OnCurve(_),   \* is the key a point of P-256 other than infinity?
          CurveOrder    \* n of P-256: r and s are taken in 1 .. n-1

TitanScribeCertificateMagic      == 33328   \* 0x8230
SelfSignedScribeCertificateMagic == 61679   \* 0xf0ef

HeaderBytes == 4
TitanBytes      == 12 + 9 * 32
SelfSignedBytes == 4 + 168 + 4 * 32
CertificateBytes(magic) ==
  IF magic = TitanScribeCertificateMagic THEN TitanBytes ELSE SelfSignedBytes

NotACertificate == [type |-> 0]

\* A self-signed certificate holds one key, its own authority.
AuthorityKey(file) == IF file.magic = TitanScribeCertificateMagic
                      THEN file.authority ELSE file.subject

validateScribeCertificate(file) ==
  /\ OnCurve(AuthorityKey(file))
  /\ OnCurve(file.subject)
  /\ file.r \in 1 .. CurveOrder - 1
  /\ file.s \in 1 .. CurveOrder - 1

ParseScribeCertificate(file) ==
  IF /\ file.bytes >= HeaderBytes
     /\ file.magic \in {TitanScribeCertificateMagic, SelfSignedScribeCertificateMagic}
     /\ file.bytes >= CertificateBytes(file.magic)
     /\ validateScribeCertificate(file)
  THEN [type |-> file.magic, subject |-> file.subject]
  ELSE NotACertificate

=============================================================================
