------------------------------ MODULE BundleV2 ------------------------------
(***************************************************************************)
(* The Titan header scan and HashBundleV2: a bundle holds a region         *)
(* descriptor that says where its two firmware copies start; each copy is  *)
(* a signed header, a body hashed from the header's tag field to the end   *)
(* of the image, and, at the next flash boundary, metadata with the hashes *)
(* the body's has to be among.                                             *)
(***************************************************************************)
EXTENDS FirmwareFile

CONSTANT
  Word  \* a field of 4 bytes holds 0 .. Word - 1: 2^32

AlignmentSize == 2048

ASSUME WordAssumption ==
  /\ Word \in Nat
  /\ Word > 2 * AlignmentSize
  /\ Word % AlignmentSize = 0

-----------------------------------------------------------------------------
(* titanheader *)

TitanHeaderMagic == "_HAVEND_"

\* The region descriptor's size, and the fields of it that are read.
RegionDescriptorSize == 52
AppFirmwareAOffset(f, o) == Number(f, o + 28)
AppFirmwareBOffset(f, o) == Number(f, o + 36)

\* The signed header's size, and where its fields are.
SignedHeaderSize == 1024
ImageSizeFieldOffset == 808
MajorFieldOffset == 864
TagFieldOffset == 392

NoHeader == -1

\* Where the region descriptor is: at offset 0, or at 12 when there is not one
\* at 0 or the read there was cut short or failed.
ScanHeader(f, unread) ==
  LET there(p) == p \notin unread /\ Fits(f, p, 8) /\ Text(f, p) = TitanHeaderMagic
  IN IF there(0) THEN 0 ELSE IF there(12) THEN 12 ELSE NoHeader

-----------------------------------------------------------------------------
(* HashSingleFirmwareV2, of the copy that starts at s. *)

TitanMagic == {"TitanV1", "TitanV3"}
UnsignedMetadataMagic == "IMG_HASH"
UnsignedMetadataLength == 64
UnsignedMetadataSize == 8 + 4 + 2 * 32

ImageSize(f, s) == Number(f, s + ImageSizeFieldOffset)
\* Mutant of Major: read in front of the tag field, outside of the body.
MajorUnhashed(f, s) == Number(f, s + TagFieldOffset - 4)

Major(f, s) == Number(f, s + MajorFieldOffset)

\* Both wrap around as the uint32 they are.
BodySize(imageSize) == (imageSize - TagFieldOffset) % Word

\* Mutant of alignUp: the flash boundary below.
alignDown(val) == val - (val % AlignmentSize)

alignUp(val) ==
  LET sum == (val + AlignmentSize - 1) % Word IN sum - (sum % AlignmentSize)

BodyAt(s) == s + TagFieldOffset
MetadataAt(f, s) == s + alignUp(ImageSize(f, s))

CalculatedHash(f, s) ==
  SHA256(Content(f, BodyAt(s), BodyAt(s) + BodySize(ImageSize(f, s))))

RWAHash(f, m) == Hash(f, m + 12)
RWBHash(f, m) == Hash(f, m + 44)

HasSignedHeader(f, s) == Fits(f, s, SignedHeaderSize) /\ Text(f, s) \in TitanMagic

HasMetadata(f, m) ==
  /\ Fits(f, m, UnsignedMetadataSize)
  /\ Text(f, m) = UnsignedMetadataMagic
  /\ Number(f, m + 8) = UnsignedMetadataLength

\* Either hash will do, for either copy.
HashSingleFirmwareV2(f, s) ==
  /\ HasSignedHeader(f, s)
  /\ Fits(f, BodyAt(s), BodySize(ImageSize(f, s)))
  /\ HasMetadata(f, MetadataAt(f, s))
  /\ CalculatedHash(f, s) \in {RWAHash(f, MetadataAt(f, s)), RWBHash(f, MetadataAt(f, s))}

-----------------------------------------------------------------------------
(* HashBundleV2, of the bundle whose region descriptor is at o. *)

CopyA(f, o) == o + AppFirmwareAOffset(f, o)
CopyB(f, o) == o + AppFirmwareBOffset(f, o)

HashBundleV2(f, o) ==
  /\ o /= NoHeader
  /\ Fits(f, o, RegionDescriptorSize)
  /\ HashSingleFirmwareV2(f, CopyA(f, o))
  /\ HashSingleFirmwareV2(f, CopyB(f, o))
  /\ Major(f, CopyA(f, o)) = Major(f, CopyB(f, o))

\* What it returns then.
TitanImageMetadataV2(f, o) ==
  [Digest |-> SHA256(<<CalculatedHash(f, CopyA(f, o)), CalculatedHash(f, CopyB(f, o))>>),
   Major  |-> Major(f, CopyA(f, o))]

=============================================================================
