-------------------------- MODULE DescriptorCrypto --------------------------
(***************************************************************************)
(* The signature and hash structures at the end of an image descriptor:    *)
(* how many bytes each has, how many of them are the signature value, and  *)
(* where their fields end, which is where a read that fails may stop.      *)
(***************************************************************************)
EXTENDS FirmwareFile

HashMagic      == "HASH"
SignatureMagic == "SIGN"

HashTypeSHA2_256 == 2
HashTypeSHA2_512 == 4

\* The hash structures a reader can be made for, and their sizes.
HashSHA256 == 4 + 32
HashSHA512 == 4 + 64

NewDescriptorHash(ht) ==
  CASE ht = HashTypeSHA2_256 -> HashSHA256
    [] ht = HashTypeSHA2_512 -> HashSHA512

Implemented(ht) == ht \in {HashTypeSHA2_256, HashTypeSHA2_512}

VerificationSchemeSHA256 == 5

\* A structure of size bytes read field by field, the signature value last.
\* ends are the ends of its fields.
RSA(nbytes) ==
  [ends  |-> {4, 6, 8, 12, 12 + nbytes, 12 + 2 * nbytes},
   value |-> nbytes,
   size  |-> 12 + 2 * nbytes]

SignatureRSA2048PKCS1_5      == RSA(256)
SignatureRSA3072PKCS1_5      == RSA(384)
SignatureRSA4096PKCS1_5      == RSA(512)
SignatureRSA4096PKCS15SHA512 == RSA(512)

\* The digest that takes a signature's place is read whole or not at all.
SHA256Digest == [ends |-> {36}, value |-> 32, size |-> 36]

NewSignatureRSA(scheme) ==
  CASE scheme = 1 -> SignatureRSA2048PKCS1_5
    [] scheme = 2 -> SignatureRSA3072PKCS1_5
    [] scheme = 3 -> SignatureRSA4096PKCS1_5
    [] scheme = 4 -> SignatureRSA4096PKCS15SHA512

NewSignature(scheme) ==
  IF scheme = VerificationSchemeSHA256 THEN SHA256Digest
                                       ELSE NewSignatureRSA(scheme)

\* How many bytes of a structure a read may leave filled when available bytes
\* of the file remain.  The read stops at the first field it cannot have and
\* reports no error.
Filled(sig, available) == {n \in {0} \cup sig.ends : n <= available}

\* The read stops there only because the file ends.
StopsAtEnd(sig, available, n) == \A m \in Filled(sig, available) : m <= n

\* The size of the trailing signature value.
SignatureValueSize(scheme) ==
  CASE scheme = 1 -> 256
    [] scheme = 2 -> 384
    [] scheme \in {3, 4} -> 512
    [] scheme = 5 -> 32
    [] OTHER -> 0

=============================================================================
