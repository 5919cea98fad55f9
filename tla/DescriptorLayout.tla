-------------------------- MODULE DescriptorLayout --------------------------
(***************************************************************************)
(* The image descriptor as it lies in a firmware image: the structures and *)
(* their sizes, the fields of the base structure, the area CalculateSize   *)
(* lays out for them, and what it takes to be a descriptor.                *)
(***************************************************************************)
EXTENDS DescriptorCrypto, Sequences

DescriptorMagic == "_IMGDSC_"
BlobMagic       == "BLOB"
Alignment       == 65536
DescriptorSize  == 96
RegionSize      == 44

\* The fields of the base structure at o that the readers look at.
Descriptor(f, o) ==
  [DescriptorMagic    |-> Text(f, o),
   DescriptorOffset   |-> Number(f, o + 12),
   ImageType          |-> Number(f, o + 80),
   HashType           |-> Number(f, o + 82),
   VerificationScheme |-> Number(f, o + 83),
   RegionCount        |-> Number(f, o + 84),
   BlobSize           |-> Number(f, o + 92)]

\* The types with a name.  VerificationSchemeNone has the empty name, which is
\* what an unknown scheme has, so it is refused with them.
ImageTypeName          == 0 .. 4
HashTypeName           == 0 .. 8
VerificationSchemeName == 1 .. 5

ValidDescriptor(d) ==
  /\ d.DescriptorMagic = DescriptorMagic
  /\ d.ImageType \in ImageTypeName
  /\ d.HashType \in HashTypeName
  /\ d.VerificationScheme \in VerificationSchemeName

\* CalculateSize, -1 for its errors.
HashArea(ht) == IF ht = 0 THEN 0
                ELSE 4 + <<28, 32, 48, 64, 28, 32, 48, 64>>[ht]
SizeofBlob == 32

\* Mutant of CalculateSize: the blob without its magic.
CalculateSizeBareBlob(d) ==
  IF d.VerificationScheme \notin 0 .. 5 \/ d.HashType \notin 0 .. 8 THEN -1
  ELSE DescriptorSize + d.RegionCount * RegionSize + HashArea(d.HashType) + d.BlobSize
       + (IF d.VerificationScheme = 0 THEN 0 ELSE NewSignature(d.VerificationScheme).size)

CalculateSize(d) ==
  IF d.VerificationScheme \notin 0 .. 5 \/ d.HashType \notin 0 .. 8 THEN -1
  ELSE DescriptorSize + d.RegionCount * RegionSize
       + (IF d.VerificationScheme = 0 THEN 0
          ELSE NewSignature(d.VerificationScheme).size)
       + HashArea(d.HashType)
       + (IF d.BlobSize > 0 THEN SizeofBlob + d.BlobSize ELSE 0)

-----------------------------------------------------------------------------
(* What a descriptor is, from its fields alone. *)

Boundary(f) == {i * Alignment : i \in 0 .. f.size \div Alignment}

HashAt(f, o) == o + DescriptorSize + Descriptor(f, o).RegionCount * RegionSize

BlobAt(f, o) ==
  HashAt(f, o) + (IF Text(f, HashAt(f, o)) = HashMagic
                  THEN NewDescriptorHash(Descriptor(f, o).HashType) ELSE 0)

SignatureAt(f, o) ==
  BlobAt(f, o) + (IF Descriptor(f, o).BlobSize > 0
                  THEN 4 + Descriptor(f, o).BlobSize ELSE 0)

\* A descriptor up to its signature stands whole at o, where it says it is.
\* Where the hash would be there are as many bytes, even if it is absent.
IsDescriptor(f, o) ==
  LET d == Descriptor(f, o) IN
  /\ ValidDescriptor(d)
  /\ d.DescriptorOffset = o
  /\ Implemented(d.HashType)
  /\ Fits(f, HashAt(f, o), NewDescriptorHash(d.HashType))
  /\ Fits(f, SignatureAt(f, o), 0)
  /\ d.BlobSize > 0 => Text(f, BlobAt(f, o)) = BlobMagic

\* The signature structure stands whole after it.
IsSigned(f, o) ==
  /\ Fits(f, SignatureAt(f, o), NewSignature(Descriptor(f, o).VerificationScheme).size)
  /\ Text(f, SignatureAt(f, o)) = SignatureMagic

=============================================================================
